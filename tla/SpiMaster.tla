------------------------------ MODULE SpiMaster ------------------------------
(***************************************************************************)
(* One command on the serial bus of the flash: alt_avalon_spi_command      *)
(* (drivers/src/altera_avalon_spi.c), which polls the controller's status  *)
(* and writes and reads its data registers, while the controller shifts    *)
(* bytes out and in at its own pace.                                       *)
(*                                                                         *)
(* Byte n that the master writes is n, and byte n that the slave answers   *)
(* with is -n; the zeros that make the slave answer are 0.                 *)
(*                                                                         *)
(* Definitions named X_<fault> are faulty variants of X; nothing in the    *)
(* specification uses them.                                                *)
(***************************************************************************)
EXTENDS Integers, Sequences, FiniteSets

CONSTANTS
  Length,   \* the lengths of the commands: bytes to write and bytes to read
  NONE      \* a register that is empty

(* What the constants are; a module that uses this one assumes it.         *)
SpiAssumption ==
  /\ NONE \notin Int
  /\ \A n \in Length : n[1] \in Nat /\ n[2] \in Nat /\ n[1] + n[2] > 0

VARIABLES
  length,                      \* of the command
  written,                     \* write_data: the bytes written so far
  write_zeros, read_ignore,
  read,                        \* read_data: the bytes read so far
  credits,
  step,                        \* "select", "poll", "write", "read", "wait" or "done"
  status,                      \* the bits read last: TRDY and RRDY
  txdata, shifting, rxdata,    \* the controller's registers
  selected,                    \* the chip select is forced
  heard                        \* history: the bytes that the slave has had since then

spiVars ==
  <<length, written, write_zeros, read_ignore, read, credits, step, status, txdata,
    shifting, rxdata, selected, heard>>
softVars == <<length, written, write_zeros, read_ignore, read, credits, step, status, selected>>

TRDY == txdata = NONE
RRDY == rxdata # NONE
TMT  == txdata = NONE /\ shifting = NONE

SpiInit ==
  /\ length \in Length
  /\ written = 0 /\ write_zeros = length[2] /\ read_ignore = length[1]
  /\ read = << >>
  /\ credits = 0
  /\ step = "select"
  /\ status = [trdy |-> FALSE, rrdy |-> FALSE]
  /\ txdata = NONE /\ shifting = NONE
  /\ rxdata \in {NONE, 0}          \* data left from a command that was interrupted
  /\ selected = FALSE
  /\ heard = << >>

-----------------------------------------------------------------------------
Credits_Two == 2

(* More than one byte in flight could overflow the receiver.               *)
Credits == 1

(* The slave is selected and stale data are discarded.                     *)
Select ==
  /\ step = "select" /\ step' = "poll"
  /\ selected' = TRUE
  /\ rxdata' = NONE
  /\ credits' = Credits
  /\ UNCHANGED <<length, written, write_zeros, read_ignore, read, status, txdata, shifting,
                 heard>>

(* The status is read until there is something to do.                      *)
Poll ==
  /\ step = "poll"
  /\ (TRDY /\ credits > 0) \/ RRDY
  /\ status' = [trdy |-> TRDY, rrdy |-> RRDY]
  /\ step' = "write"
  /\ UNCHANGED <<length, written, write_zeros, read_ignore, read, credits, txdata, shifting,
                 rxdata, selected, heard>>

(* The next byte, or a zero, ...                                           *)
TransmitByte ==
  /\ step = "write" /\ step' = "read"
  /\ IF status.trdy /\ credits > 0
       THEN IF written < length[1] \/ write_zeros > 0
              THEN /\ txdata' = IF written < length[1] THEN written + 1 ELSE 0
                   /\ IF written < length[1]
                        THEN written' = written + 1 /\ UNCHANGED write_zeros
                        ELSE write_zeros' = write_zeros - 1 /\ UNCHANGED written
                   /\ credits' = credits - 1
              ELSE credits' = -1024 /\ UNCHANGED <<txdata, written, write_zeros>>
       ELSE UNCHANGED <<txdata, written, write_zeros, credits>>
  /\ UNCHANGED <<length, read_ignore, read, status, shifting, rxdata, selected, heard>>

(* ... and a byte that has come, ignored while it answers what is written. *)
ReceiveByte ==
  /\ step = "read"
  /\ IF status.rrdy
       THEN /\ rxdata' = NONE
            /\ credits' = credits + 1
            /\ IF read_ignore > 0
                 THEN read_ignore' = read_ignore - 1 /\ UNCHANGED read
                 ELSE read' = Append(read, rxdata) /\ UNCHANGED read_ignore
            /\ step' = IF read_ignore' = 0 /\ Len(read') = length[2] THEN "wait" ELSE "poll"
       ELSE step' = "poll" /\ UNCHANGED <<rxdata, credits, read_ignore, read>>
  /\ UNCHANGED <<length, written, write_zeros, status, txdata, shifting, selected, heard>>

(* When the interface has finished, the chip is let go (the caller may     *)
(* keep it, ALT_AVALON_SPI_COMMAND_MERGE, and go on with its next one).    *)
Release ==
  /\ step = "wait" /\ TMT
  /\ step' = "done"
  /\ selected' = FALSE
  /\ status' = [trdy |-> FALSE, rrdy |-> FALSE]
  /\ UNCHANGED <<length, written, write_zeros, read_ignore, read, credits, txdata, shifting,
                 rxdata, heard>>

(* The next command.                                                       *)
Again ==
  /\ step = "done" /\ step' = "select"
  /\ length' \in Length
  /\ written' = 0 /\ write_zeros' = length'[2] /\ read_ignore' = length'[1]
  /\ read' = << >> /\ credits' = 0 /\ heard' = << >>
  /\ UNCHANGED <<status, txdata, shifting, rxdata, selected>>

(* The controller shifts a byte, and a byte that was not read is lost.     *)
Load ==
  /\ txdata # NONE /\ shifting = NONE
  /\ shifting' = txdata /\ txdata' = NONE
  /\ UNCHANGED <<softVars, rxdata, heard>>

Shift ==
  /\ shifting # NONE /\ shifting' = NONE
  /\ heard' = Append(heard, shifting)
  /\ rxdata' = -Len(heard')
  /\ UNCHANGED <<softVars, txdata>>

SpiNext ==
  Select \/ Poll \/ TransmitByte \/ ReceiveByte \/ Release \/ Again \/ Load \/ Shift

-----------------------------------------------------------------------------
(* PROPERTIES                                                              *)

(* The slave hears exactly the bytes of the command and a zero for each    *)
(* byte that is to be read, all while it is selected, and those are the    *)
(* answers that are read: none of what was left in the receiver before,    *)
(* and none lost, for no byte is under way while another waits to be read  *)
(* (altera_avalon_spi.c:52-56, 73-78).                                     *)
CommandExchanged ==
  /\ step = "done" =>
       /\ heard = [n \in 1 .. length[1] + length[2] |-> IF n <= length[1] THEN n ELSE 0]
       /\ read = [n \in 1 .. length[2] |-> -(length[1] + n)]
  /\ shifting # NONE => selected
  /\ step \notin {"select", "done"} =>
       Cardinality({r \in 1 .. 3 : <<txdata, shifting, rxdata>>[r] # NONE}) <= 1
=============================================================================
