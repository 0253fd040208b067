------------------------------ MODULE I2CCore -------------------------------
(***************************************************************************)
(* The driver drivers/src/i2c_opencores.c and the I2C master it talks to   *)
(* (i2c_master_top.v, i2c_master_byte_ctrl.v).  The driver is linked into  *)
(* the program; the system that main.c runs on drives the bus by parallel  *)
(* ports instead (I2CBus).  A call writes a command, polls the status      *)
(* until no transfer is in progress, and takes what the core received; all *)
(* that makes this right is how many clocks the core needs from the        *)
(* command to its flag, and from the last bit to the flags and registers   *)
(* the call reads.  So an Edge is one edge of the clock, on which every    *)
(* register of the core changes at once and the driver may have an access. *)
(*                                                                         *)
(* The bit controller and the bus are the environment: a bit takes as long *)
(* as it likes, the slave answers as it likes, and another master may take *)
(* the bus (i2c_al).                                                       *)
(*                                                                         *)
(* Definitions named X_<fault> are faulty variants of X; nothing in the    *)
(* specification uses them.                                                *)
(***************************************************************************)
EXTENDS Integers, Sequences

CONSTANTS
  BITS,    \* of a byte; a byte is a sequence of bits, the first one sent first
  NOTHING  \* no access; nothing read

(* What the constants are; a module that uses this one assumes it.         *)
CoreAssumption == BITS \in Nat \ {0} /\ NOTHING \notin Nat

Byte == [1 .. BITS -> {0, 1}]

VARIABLES
  todo,      \* the driver's accesses that are left of the call
  call,      \* the call: [name, data, last]
  result,    \* what it has read
  busy,      \* the access before is still on the bus of the processor
  core_en, cr, txr,            \* registers the driver writes; cr is a set of bits
  tip, rxack,                  \* bits of the status register
  c_state, dcnt, sr, ld, shift, cmd_ack, ack_out,   \* the byte controller
  wire,      \* history: what was on the bus since the call began
  lost       \* history: another master took the bus since the call began

coreVars ==
  <<todo, call, result, busy, core_en, cr, txr, tip, rxack, c_state, dcnt, sr, ld, shift, cmd_ack,
    ack_out, wire, lost>>

-----------------------------------------------------------------------------
(* THE DRIVER                                                              *)

Write(register, value) == [to |-> register, value |-> value]
Read(register)         == [to |-> register, value |-> NOTHING]

I2C_init == <<Write("CTR", FALSE), Write("CR", {"IACK"}), Write("CTR", TRUE)>>

(* data is the address and the bit that says read.                         *)
I2C_start(data) ==
  <<Write("TXR", data), Write("CR", {"STA", "WR"}), Read("TIP"), Read("RXNACK")>>

I2C_read_NoPoll(last) == <<Write("CR", IF last THEN {"RD", "NACK", "STO"} ELSE {"RD"}), Read("RXR")>>

I2C_read(last) ==
  <<Write("CR", IF last THEN {"RD", "NACK", "STO"} ELSE {"RD"}), Read("TIP"), Read("RXR")>>

I2C_write(data, last) ==
  <<Write("TXR", data), Write("CR", IF last THEN {"WR", "STO"} ELSE {"WR"}),
    Read("TIP"), Read("RXNACK")>>

Accesses(c) ==
  CASE c.name = "I2C_init"  -> I2C_init
    [] c.name = "I2C_start" -> I2C_start(c.data)
    [] c.name = "I2C_read"  -> I2C_read(c.last)
    [] c.name = "I2C_write" -> I2C_write(c.data, c.last)

-----------------------------------------------------------------------------
CoreInit ==
  /\ todo = I2C_init /\ result = NOTHING /\ busy = FALSE
  /\ call = [name |-> "I2C_init", data |-> [b \in 1 .. BITS |-> 0], last |-> FALSE]
  /\ core_en = FALSE /\ cr = {} /\ txr = [b \in 1 .. BITS |-> 0]
  /\ tip = FALSE /\ rxack = 0
  /\ c_state = "IDLE" /\ dcnt = 0 /\ sr = [b \in 1 .. BITS |-> 0]
  /\ ld = FALSE /\ shift = NOTHING /\ cmd_ack = FALSE /\ ack_out = 0
  /\ wire = << >> /\ lost = FALSE

(* The program calls a function of the driver.                             *)
Call ==
  /\ todo = << >> /\ ~busy
  /\ call' \in [name : {"I2C_init", "I2C_start", "I2C_read", "I2C_write"}, data : Byte,
                last : BOOLEAN]
  /\ call'.name \in {"I2C_init", "I2C_read"} => call'.data = [b \in 1 .. BITS |-> 0]
  /\ call'.name \in {"I2C_init", "I2C_start"} => ~call'.last
  /\ todo' = Accesses(call')
  /\ result' = NOTHING /\ wire' = << >> /\ lost' = FALSE
  /\ UNCHANGED <<busy, core_en, cr, txr, tip, rxack, c_state, dcnt, sr, ld, shift, cmd_ack, ack_out>>

(* The access of the driver on this edge: an access takes two clocks.      *)
Quiet(access) == access = NOTHING /\ busy' = FALSE /\ UNCHANGED <<todo, result>>

Accessing(access) ==
  /\ todo # << >> /\ ~busy /\ access = Head(todo)
  /\ busy' = TRUE
  /\ todo' = IF access.to = "TIP" /\ tip THEN todo ELSE Tail(todo)
  /\ result' = CASE access.to = "RXNACK" -> rxack
                 [] access.to = "RXR"    -> sr
                 [] OTHER                -> result

Written(access, register) == access # NOTHING /\ access.to = register /\ access.value # NOTHING

(* The registers.  The command is taken only when the core is enabled, and *)
(* is cleared when it is done or the bus is lost.                          *)
Registers(access, i2c_al) ==
  /\ core_en' = IF Written(access, "CTR") THEN access.value ELSE core_en
  /\ txr' = IF Written(access, "TXR") THEN access.value ELSE txr
  /\ cr' = IF Written(access, "CR")
             THEN IF core_en THEN access.value ELSE cr
             ELSE (IF cmd_ack \/ i2c_al THEN cr \ {"STA", "STO", "RD", "WR"} ELSE cr) \ {"IACK"}
  /\ tip' = (cr \cap {"RD", "WR"} # {})
  /\ rxack' = ack_out

(* The shift register and the counter.                                     *)
Shift ==
  /\ sr' = IF ld THEN txr
           ELSE IF shift # NOTHING THEN [b \in 1 .. BITS |-> IF b < BITS THEN sr[b + 1] ELSE shift]
           ELSE sr
  /\ dcnt' = IF ld THEN BITS - 1 ELSE IF shift # NOTHING THEN dcnt - 1 ELSE dcnt

Go == cr \cap {"RD", "WR", "STO"} # {} /\ ~cmd_ack

(* ST_IDLE                                                                 *)
IdleState ==
  /\ c_state = "IDLE"
  /\ IF Go
       THEN /\ c_state' = IF "STA" \in cr THEN "START" ELSE IF "RD" \in cr THEN "READ"
                          ELSE IF "WR" \in cr THEN "WRITE" ELSE "STOP"
            /\ ld' = TRUE
       ELSE c_state' = "IDLE" /\ ld' = FALSE
  /\ shift' = NOTHING /\ cmd_ack' = FALSE
  /\ UNCHANGED <<ack_out, wire>>

(* No answer of the bit controller (core_ack) yet: it needs some clocks    *)
(* for every bit.                                                          *)
Waiting ==
  /\ c_state # "IDLE"
  /\ ld' = FALSE /\ shift' = NOTHING /\ cmd_ack' = FALSE
  /\ UNCHANGED <<c_state, ack_out, wire>>

core_ack == c_state # "IDLE" /\ ~ld /\ shift = NOTHING

(* ST_START                                                                *)
StartState ==
  /\ c_state = "START" /\ core_ack
  /\ c_state' = IF "RD" \in cr THEN "READ" ELSE "WRITE"
  /\ ld' = TRUE /\ shift' = NOTHING /\ cmd_ack' = FALSE
  /\ wire' = Append(wire, "START")
  /\ UNCHANGED ack_out

(* ST_WRITE and ST_READ                                                    *)
WriteState ==
  /\ c_state = "WRITE" /\ core_ack
  /\ wire' = Append(wire, sr[1])
  /\ c_state' = IF dcnt = 0 THEN "ACK" ELSE "WRITE"
  /\ shift' = IF dcnt = 0 THEN NOTHING ELSE 0
  /\ ld' = FALSE /\ cmd_ack' = FALSE
  /\ UNCHANGED ack_out

ReadState ==
  /\ c_state = "READ" /\ core_ack
  /\ \E core_rxd \in {0, 1} : wire' = Append(wire, core_rxd) /\ shift' = core_rxd
  /\ c_state' = IF dcnt = 0 THEN "ACK" ELSE "READ"
  /\ ld' = FALSE /\ cmd_ack' = FALSE
  /\ UNCHANGED ack_out

(* ST_ACK: the slave's bit, or the core's own.                             *)
AckState ==
  /\ c_state = "ACK" /\ core_ack
  /\ \E core_rxd \in {0, 1} :
       /\ "RD" \in cr => core_rxd = (IF "NACK" \in cr THEN 1 ELSE 0)
       /\ ack_out' = core_rxd /\ wire' = Append(wire, core_rxd)
  /\ IF "STO" \in cr THEN c_state' = "STOP" /\ cmd_ack' = FALSE
                     ELSE c_state' = "IDLE" /\ cmd_ack' = TRUE
  /\ ld' = FALSE /\ shift' = NOTHING

(* ST_STOP                                                                 *)
StopState ==
  /\ c_state = "STOP" /\ core_ack
  /\ c_state' = "IDLE" /\ cmd_ack' = TRUE
  /\ wire' = Append(wire, "STOP")
  /\ ld' = FALSE /\ shift' = NOTHING
  /\ UNCHANGED ack_out

(* Another master took the bus.                                            *)
ArbitrationLost ==
  /\ c_state # "IDLE"
  /\ c_state' = "IDLE" /\ ld' = FALSE /\ shift' = NOTHING /\ cmd_ack' = FALSE /\ ack_out' = 0
  /\ UNCHANGED wire

Edge ==
  /\ \E access \in IF todo = << >> THEN {NOTHING} ELSE {NOTHING, Head(todo)} :
       /\ Quiet(access) \/ Accessing(access)
       /\ \/ /\ IdleState \/ Waiting \/ StartState \/ WriteState \/ ReadState \/ AckState
                \/ StopState
             /\ Registers(access, FALSE)
             /\ UNCHANGED lost
          \/ /\ ArbitrationLost
             /\ Registers(access, TRUE)
             /\ lost' = TRUE
  /\ Shift
  /\ UNCHANGED call

CoreNext == Call \/ Edge

-----------------------------------------------------------------------------
(* PROPERTIES                                                              *)

(* When a call returns and no other master took the bus, just what it is   *)
(* for was on the bus, once: its start, its byte, the acknowledgement and, *)
(* for the last byte, the stop (i2c_opencores.c:72, 122, 165); it returns  *)
(* the byte or the acknowledgement of this transfer and not of the one     *)
(* before; and the core has come to rest, so that the next command is not  *)
(* mixed with this one.                                                    *)
TransfersAreTold ==
  (todo = << >> /\ ~busy /\ ~lost /\ call.name # "I2C_init") =>
     /\ wire = (IF call.name = "I2C_start" THEN <<"START">> ELSE << >>)
               \o (IF call.name = "I2C_read" THEN result ELSE call.data)
               \o (IF call.name = "I2C_read" THEN <<IF call.last THEN 1 ELSE 0>> ELSE <<result>>)
               \o (IF call.last THEN <<"STOP">> ELSE << >>)
     /\ c_state = "IDLE" /\ ~Go /\ ~tip
=============================================================================
