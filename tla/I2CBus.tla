------------------------------- MODULE I2CBus -------------------------------
(***************************************************************************)
(* I2C.c pin access by pin access, with a device on the bus.  SCL is an    *)
(* output port, SDA a port whose direction is switched; reading SCL gives  *)
(* back the output register.  A call is the list of its accesses, which    *)
(* are carried out one by one.  The delays between them are what gives the *)
(* device the time to follow, so that it reacts within a step.  A caller   *)
(* makes transfers between START and STOP; when one is given up it may     *)
(* leave out the STOP, as LIDAR.c does.  RangeFinder puts its calls here.  *)
(*                                                                         *)
(* The device (external) is what every I2C device is: it notes START and   *)
(* STOP, samples SDA when SCL rises, and pulls SDA low or lets it go when  *)
(* SCL falls.                                                              *)
(*                                                                         *)
(* Definitions named X_<fault> are faulty variants of X; nothing in the    *)
(* specification uses them.                                                *)
(***************************************************************************)
EXTENDS Integers, Sequences

CONSTANTS
  Transfer,  \* the transfers the caller may make, sequences of calls
  Answer,    \* the bytes the device may send
  NONE

Mask == <<128, 64, 32, 16, 8, 4, 2, 1>>

Bit(b, i) == (b \div Mask[i]) % 2   \* the i-th bit, most significant first

(* What the constants are; a module that uses this one assumes it.        *)
AnswerAssumption == Answer \subseteq 0 .. 255

VARIABLES
  scl,     \* data register of the port I2C_SCL
  sdaOut,  \* data register of the port I2C_SDA
  sdaDir,  \* direction register of I2C_SDA: 1 is out
  calls,   \* the calls left of the caller's transfer
  call,    \* the call under way
  todo,    \* the port accesses left of it
  Data,    \* the byte i2c_read has put together so far
  bAck,
  result   \* what the last call has brought

VARIABLES  \* the device
  mode,    \* "off" until a START, then "hear", "ack", "talk", "sent", "more"
  first,   \* the byte being heard is the first since START, an address
  bits,    \* bits heard or sent of the byte at hand
  shift,   \* that byte
  pull,    \* the device pulls SDA low
  noted    \* what it has noted during the call under way

deviceVars == <<mode, first, bits, shift, pull, noted>>
callerVars == <<calls, call, result>>
vars == <<scl, sdaOut, sdaDir, callerVars, todo, Data, bAck, deviceVars>>

Link == INSTANCE I2CLink WITH Byte <- 0 .. 255

TransferAssumption ==
  \A t \in Transfer :
    t \in Seq(Link!Request) /\ Link!InOrder(<<Link!Start>> \o t \o <<Link!Stop>>)

BusTypeOK ==
  /\ {scl, sdaOut, sdaDir} \subseteq {0, 1}
  /\ call \in Link!Event \cup {NONE}
  /\ (call = NONE => todo = << >>)
  /\ Data \in 0 .. 255 /\ bAck \in BOOLEAN
  /\ mode \in {"off", "hear", "ack", "talk", "sent", "more"}
  /\ first \in BOOLEAN /\ pull \in BOOLEAN
  /\ bits \in 0 .. 8 /\ shift \in 0 .. 255

(* Reset: SCL low, SDA an input, nobody selected.                          *)
Init ==
  /\ scl = 0 /\ sdaOut = 0 /\ sdaDir = 0
  /\ calls = << >> /\ call = NONE /\ todo = << >>
  /\ Data = 0 /\ bAck = FALSE /\ result = NONE
  /\ mode = "off" /\ first = FALSE /\ bits = 0 /\ shift = 0 /\ pull = FALSE
  /\ noted = << >>

(* The line SDA.  It is pulled up when nobody drives it.                   *)
SDA ==
  IF sdaDir = 1 THEN sdaOut ELSE IF pull THEN 0 ELSE 1

-----------------------------------------------------------------------------
(* THE CALLS                                                               *)

SDA_DIR_IN  == <<"dir", 0>>
SDA_DIR_OUT == <<"dir", 1>>
SDA_LOW     == <<"sda", 0>>
SDA_HIGH    == <<"sda", 1>>
SCL_LOW     == <<"scl", 0>>
SCL_HIGH    == <<"scl", 1>>
SCL_READ    == <<"poll", 1>>    \* while (SCL_READ(clk_base) == 0);
GET_BIT     == <<"bit", 1>>
GET_ACK     == <<"ack", 1>>

i2c_start_StaysHigh == <<SDA_DIR_OUT, SDA_HIGH, SCL_HIGH, SDA_LOW>>

i2c_start == <<SDA_DIR_OUT, SDA_HIGH, SCL_HIGH, SDA_LOW, SCL_LOW>>

i2c_stop == <<SDA_DIR_OUT, SDA_LOW, SCL_HIGH, SDA_HIGH>>

OneClocked_Unmasked(b, i) == <<SCL_LOW, <<"sda", b \div Mask[i]>>, SCL_HIGH, SCL_READ, SCL_LOW>>

OneClocked(b, i) == <<SCL_LOW, <<"sda", Bit(b, i)>>, SCL_HIGH, SCL_READ, SCL_LOW>>

(* The eight bits of b, each with a clock.                                 *)
Clocked(b) == [k \in 1 .. 40 |-> OneClocked(b, ((k - 1) \div 5) + 1)[((k - 1) % 5) + 1]]

(* Eight bits of the device's.                                             *)
Sampled == [k \in 1 .. 32 |-> <<SCL_HIGH, SCL_READ, GET_BIT, SCL_LOW>>[((k - 1) % 4) + 1]]

i2c_write_KeepsDriving(b) ==
  <<SDA_DIR_OUT>> \o Clocked(b) \o <<SCL_HIGH, SCL_READ, GET_ACK, SCL_LOW>>

i2c_write(b) ==
  <<SDA_DIR_OUT>> \o Clocked(b)
    \o <<SDA_DIR_IN, SCL_HIGH, SCL_READ, GET_ACK, SCL_LOW>>

i2c_read_AckEarly(ack) ==
  <<SDA_DIR_IN, SCL_LOW>> \o Sampled
    \o <<SCL_HIGH, SDA_DIR_OUT, IF ack THEN SDA_LOW ELSE SDA_HIGH,
         SCL_READ, SCL_LOW, SDA_LOW>>

i2c_read(ack) ==
  <<SDA_DIR_IN, SCL_LOW>> \o Sampled
    \o <<SCL_LOW, SDA_DIR_OUT, IF ack THEN SDA_LOW ELSE SDA_HIGH,
         SCL_HIGH, SCL_READ, SCL_LOW, SDA_LOW>>

Accesses(c) ==
  CASE c.op = "start" -> i2c_start
    [] c.op = "stop"  -> i2c_stop
    [] c.op = "write" -> i2c_write(c.byte)
    [] c.op = "read"  -> i2c_read(c.ack)

-----------------------------------------------------------------------------
(* THE DEVICE                                                              *)

Note(op, b, ack) == noted' = Append(noted, [op |-> op, byte |-> b, ack |-> ack])

(* SDA changes while SCL is high.                                          *)
SeesStart ==
  /\ Note("start", 0, FALSE)
  /\ mode' = "hear" /\ first' = TRUE /\ bits' = 0 /\ shift' = 0 /\ pull' = FALSE

SeesStop ==
  /\ Note("stop", 0, FALSE)
  /\ mode' = "off" /\ pull' = FALSE
  /\ UNCHANGED <<first, bits, shift>>

(* SCL rises: a bit is heard, a bit has been sent, the master acknowledges *)
(* what has been sent.                                                     *)
HearBit ==
  /\ mode = "hear"
  /\ shift' = (2 * shift + SDA) % 256
  /\ bits' = bits + 1
  /\ UNCHANGED <<mode, first, pull, noted>>

BitSent ==
  /\ mode = "talk"
  /\ bits' = bits + 1
  /\ UNCHANGED <<mode, first, shift, pull, noted>>

HearAck ==
  /\ mode = "sent"
  /\ Note("read", shift, SDA = 0)
  /\ mode' = IF SDA = 0 THEN "more" ELSE "off"
  /\ UNCHANGED <<first, bits, shift, pull>>

Addressed == mode = "ack" /\ first /\ shift % 2 = 1   \* to read from

(* SCL falls: a byte is complete and the device acknowledges it, or not;   *)
(* the clock of the acknowledgement ends; the next bit is put on the line; *)
(* all have been sent.                                                     *)
ByteHeard ==
  /\ mode = "hear"
  /\ bits = 8
  /\ \E ack \in BOOLEAN :
       /\ Note("write", shift, ack)
       /\ mode' = IF ack THEN "ack" ELSE "off"
       /\ pull' = ack
  /\ UNCHANGED <<first, bits, shift>>

HearNext ==
  /\ mode = "ack" /\ ~Addressed
  /\ mode' = "hear" /\ first' = FALSE /\ bits' = 0 /\ shift' = 0 /\ pull' = FALSE
  /\ UNCHANGED noted

Talk ==
  /\ Addressed \/ mode = "more"
  /\ \E b \in Answer :
       /\ shift' = b
       /\ pull' = (Bit(b, 1) = 0)
  /\ mode' = "talk" /\ first' = FALSE /\ bits' = 0
  /\ UNCHANGED noted

SendBit ==
  /\ mode = "talk"
  /\ bits \in 1 .. 7
  /\ pull' = (Bit(shift, bits + 1) = 0)
  /\ UNCHANGED <<mode, first, bits, shift, noted>>

ByteSent ==
  /\ mode = "talk"
  /\ bits = 8
  /\ mode' = "sent" /\ pull' = FALSE
  /\ UNCHANGED <<first, bits, shift, noted>>

OnRise ==
  \/ HearBit \/ BitSent \/ HearAck
  \/ mode \in {"off", "ack", "more"} /\ UNCHANGED deviceVars

OnFall ==
  \/ ByteHeard \/ HearNext \/ Talk \/ SendBit \/ ByteSent
  \/ /\ mode \in {"off", "sent"} \/ (mode = "hear" /\ bits < 8)
     /\ UNCHANGED deviceVars

-----------------------------------------------------------------------------
(* THE PORTS                                                               *)

Access(kind) ==
  /\ todo # << >>
  /\ Head(todo)[1] = kind
  /\ todo' = Tail(todo)
  /\ UNCHANGED callerVars

Value == Head(todo)[2]

WriteSCL ==
  /\ Access("scl")
  /\ scl' = Value
  /\ \/ scl = 0 /\ Value = 1 /\ OnRise
     \/ scl = 1 /\ Value = 0 /\ OnFall
     \/ scl = Value /\ UNCHANGED deviceVars
  /\ UNCHANGED <<sdaOut, sdaDir, Data, bAck>>

(* The device's view of SDA when a port register changes from under it to  *)
(* out and dir.                                                            *)
SDABecomes(out, dir) ==
  LET line == IF dir = 1 THEN out ELSE IF pull THEN 0 ELSE 1
  IN  \/ scl = 1 /\ line < SDA /\ SeesStart
      \/ scl = 1 /\ line > SDA /\ SeesStop
      \/ (scl = 0 \/ line = SDA) /\ UNCHANGED deviceVars

WriteSDA ==
  /\ Access("sda")
  /\ sdaOut' = Value
  /\ SDABecomes(Value, sdaDir)
  /\ UNCHANGED <<scl, sdaDir, Data, bAck>>

WriteDirection ==
  /\ Access("dir")
  /\ sdaDir' = Value
  /\ SDABecomes(sdaOut, Value)
  /\ UNCHANGED <<scl, sdaOut, Data, bAck>>

(* The loop ends when SCL reads 1: the port gives back its own output.     *)
PollSCL ==
  /\ Access("poll")
  /\ scl = Value
  /\ UNCHANGED <<scl, sdaOut, sdaDir, Data, bAck, deviceVars>>

ReadBit ==
  /\ Access("bit")
  /\ Data' = (2 * Data + SDA) % 256
  /\ UNCHANGED <<scl, sdaOut, sdaDir, bAck, deviceVars>>

ReadAck ==
  /\ Access("ack")
  /\ bAck' = (SDA = 0)
  /\ UNCHANGED <<scl, sdaOut, sdaDir, Data, deviceVars>>

-----------------------------------------------------------------------------
(* THE CALLER                                                              *)

BeginTransfer ==
  /\ call = NONE /\ calls = << >>
  /\ \E t \in Transfer : calls' = <<Link!Start>> \o t \o <<Link!Stop>>
  /\ UNCHANGED <<scl, sdaOut, sdaDir, call, result, todo, Data, bAck, deviceVars>>

Call ==
  /\ call = NONE /\ calls # << >>
  /\ call' = Head(calls)
  /\ calls' = Tail(calls)
  /\ todo' = Accesses(Head(calls))
  /\ Data' = 0
  /\ noted' = << >>
  /\ UNCHANGED <<scl, sdaOut, sdaDir, result, bAck, mode, first, bits, shift, pull>>

(* The call returns; a byte that was not acknowledged ends the transfer.   *)
Outcome ==
  CASE call.op = "write" -> [call EXCEPT !.ack = bAck]
    [] call.op = "read"  -> [call EXCEPT !.byte = Data]
    [] OTHER             -> call

Return ==
  /\ call # NONE /\ todo = << >>
  /\ result' = Outcome
  /\ call' = NONE
  /\ calls' \in IF Link!Refused(Outcome) THEN {<< >>, <<Link!Stop>>} ELSE {calls}
  /\ noted' = << >>
  /\ UNCHANGED <<scl, sdaOut, sdaDir, todo, Data, bAck, mode, first, bits, shift, pull>>

PortAccess ==
  \/ WriteSCL \/ WriteSDA \/ WriteDirection \/ PollSCL \/ ReadBit \/ ReadAck

Next == BeginTransfer \/ Call \/ Return \/ PortAccess

-----------------------------------------------------------------------------
(* PROPERTIES                                                              *)

(* The functions that move a byte or send a STOP assume that SCL is low    *)
(* when they begin ("assume, SCL = 0", I2C.c:254, 272, 318): otherwise     *)
(* their first change of SDA is a START or a STOP.  It is for every order  *)
(* of calls that I2C.c and its caller make.                                *)
ClockLowBetweenCalls ==
  call = NONE /\ calls # << >> /\ Head(calls).op # "start" => scl = 0

(* While the clock is high, when SDA counts, the processor's pin does not  *)
(* drive SDA high against a device that pulls it low: what the device says *)
(* is never overridden (i2c_write's and i2c_read's switches of direction). *)
NobodyOverridden == scl = 1 => ~(sdaDir = 1 /\ sdaOut = 1 /\ pull)
=============================================================================
