--------------------------- MODULE PacketReceiver ---------------------------
(***************************************************************************)
(* receiveTask (bluetooth_helpers.c) with its PacketBuffer                 *)
(* (packet_buffer.c): one action per path through the loop body, for the   *)
(* byte that OSQPend(byteQueue) returned.  The receive queue is reduced to *)
(* its stored packets; task2, which empties it, may do so at any time.     *)
(***************************************************************************)
EXTENDS Integers, Sequences

CONSTANTS
  DataByte,              \* every byte that is neither START_BYTE nor END_BYTE
  START_BYTE, END_BYTE,
  NUL,                   \* what memset leaves in the buffer
  BUF_SIZE,
  RECEIVE_QUEUE_LENGTH,
  MaxBody                \* bound: the data bytes the peer puts in one packet

(* What the constants are; a module that uses this one assumes it.        *)
SizeAssumption ==
  BUF_SIZE \in Nat \ {0} /\ RECEIVE_QUEUE_LENGTH \in Nat \ {0} /\ MaxBody \in Nat
ByteAssumption ==
  START_BYTE \notin DataByte /\ END_BYTE \notin DataByte

VARIABLES
  byte,          \* the byte being handled
  myBuf, myStart, myEnd, myLen, isStarted,   \* PacketBuffer
  outOfBounds,   \* a byte has been written beyond myBuf
  receiveQueue

pb   == <<myBuf, myStart, myEnd, myLen, isStarted, outOfBounds>>
vars == <<byte, pb, receiveQueue>>

Byte == DataByte \cup {START_BYTE, END_BYTE}

TypeOK ==
  /\ byte \in Byte \cup {NUL}
  /\ myBuf \in [0 .. BUF_SIZE - 1 -> DataByte \cup {NUL}]
  /\ myStart \in 0 .. BUF_SIZE - 1
  /\ myEnd \in 0 .. BUF_SIZE + 1
  /\ myLen \in 0 .. BUF_SIZE + 1
  /\ isStarted \in BOOLEAN
  /\ outOfBounds \in BOOLEAN
  /\ receiveQueue \in Seq(Seq(DataByte))

Init ==
  /\ byte = NUL
  /\ myBuf = [i \in 0 .. BUF_SIZE - 1 |-> NUL]
  /\ myStart = 0
  /\ myEnd = 0
  /\ myLen = 0
  /\ isStarted = FALSE
  /\ outOfBounds = FALSE
  /\ receiveQueue = << >>

-----------------------------------------------------------------------------
mRead_OneLate == [i \in 1 .. myLen |-> myBuf[(myStart + i) % BUF_SIZE]]

(* mRead: the myLen bytes from myStart on, around the end of the buffer.   *)
mRead == [i \in 1 .. myLen |-> myBuf[(myStart + i - 1) % BUF_SIZE]]

(* pushChar refuses a byte only if this holds.                             *)
NoRoom == myStart = myEnd /\ myLen > 0

(* pushChar: myEnd is not taken modulo BUF_SIZE.  A write at BUF_SIZE falls*)
(* on the fields behind myBuf; the model records it and stops there,       *)
(* because nothing the program does next can be relied on.                 *)
pushChar(b) ==
  IF NoRoom
    THEN UNCHANGED pb
    ELSE /\ IF myEnd < BUF_SIZE
              THEN /\ myBuf' = [myBuf EXCEPT ![myEnd] = b]
                   /\ UNCHANGED outOfBounds
              ELSE /\ outOfBounds' = TRUE
                   /\ UNCHANGED myBuf
         /\ myEnd' = myEnd + 1
         /\ myLen' = myLen + 1
         /\ UNCHANGED <<myStart, isStarted>>

(* Definitions named X_<fault> are faulty variants of X.  No action uses   *)
(* them: putting one in the place of X shows that a property notices.      *)
HandleStart_ClearsNothing ==
  /\ ~outOfBounds
  /\ byte' = START_BYTE
  /\ isStarted' = TRUE
  /\ UNCHANGED <<myBuf, myStart, myEnd, myLen, outOfBounds, receiveQueue>>

(* clear, on START_BYTE, also in the middle of a packet.                   *)
HandleStart ==
  /\ ~outOfBounds
  /\ byte' = START_BYTE
  /\ myLen' = 0
  /\ myStart' = 0
  /\ myEnd' = 0
  /\ isStarted' = TRUE
  /\ UNCHANGED <<myBuf, outOfBounds, receiveQueue>>

(* END_BYTE ends a packet: its copy goes to the receive queue.  The result *)
(* of OSQPost is not looked at: a packet that finds the queue full is gone.*)
HandleEnd ==
  /\ ~outOfBounds
  /\ byte' = END_BYTE
  /\ isStarted
  /\ isStarted' = FALSE
  /\ receiveQueue' = IF Len(receiveQueue) < RECEIVE_QUEUE_LENGTH
                       THEN Append(receiveQueue, mRead)
                       ELSE receiveQueue
  /\ UNCHANGED <<myBuf, myStart, myEnd, myLen, outOfBounds>>

HandleData(b) ==
  /\ ~outOfBounds
  /\ byte' = b
  /\ isStarted
  /\ myLen < MaxBody
  /\ pushChar(b)
  /\ UNCHANGED receiveQueue

(* Outside a packet END_BYTE does nothing and data is discarded.           *)
Discard(b) ==
  /\ ~outOfBounds
  /\ ~isStarted
  /\ byte' = b
  /\ UNCHANGED <<pb, receiveQueue>>

(* task2 takes a packet (external to this task).                           *)
Consume ==
  /\ receiveQueue # << >>
  /\ receiveQueue' = Tail(receiveQueue)
  /\ UNCHANGED <<byte, pb>>

Next ==
  \/ HandleStart
  \/ HandleEnd
  \/ \E b \in DataByte : HandleData(b)
  \/ \E b \in DataByte \cup {END_BYTE} : Discard(b)
  \/ Consume

Spec == Init /\ [][Next]_vars
-----------------------------------------------------------------------------
(* PROPERTIES                                                              *)

(* receiveTask decodes the byte stream as PacketDecoder says, provided the *)
(* peer never sends more than BUF_SIZE bytes between START and END: no     *)
(* byte of an abandoned packet leaks into the next one, none is lost,      *)
(* swapped or repeated on the way through the buffer.                      *)
Decoder == INSTANCE PacketDecoder WITH
  open <- isStarted, body <- mRead

ImplementsPacketDecoder == Decoder!Spec

(* Every byte of a packet is stored inside myBuf.  The else branch of      *)
(* bluetooth_helpers.c:137, "No room in buffer!", says that pushChar       *)
(* refuses what does not fit.                                              *)
StaysInBuffer == ~outOfBounds
=============================================================================
