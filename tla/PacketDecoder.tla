--------------------------- MODULE PacketDecoder ---------------------------
(***************************************************************************)
(* What the receiving side of the Bluetooth link promises: the bytes       *)
(* between the latest START and the next END form a packet, at most        *)
(* BUF_SIZE of them are kept, and complete packets reach the receive queue *)
(* in order unless it is full.                                             *)
(***************************************************************************)
EXTENDS Integers, Sequences

CONSTANTS
  DataByte,              \* every byte that is neither START nor END
  BUF_SIZE,              \* the bytes of a packet that can be kept
  RECEIVE_QUEUE_LENGTH   \* the packets the receive queue stores

VARIABLES
  open,          \* a packet has started and not ended
  body,          \* the bytes of the latest packet to have started
  receiveQueue   \* the complete packets, oldest first

vars == <<open, body, receiveQueue>>

Init ==
  /\ open = FALSE
  /\ body = << >>
  /\ receiveQueue = << >>

Start ==
  /\ open' = TRUE
  /\ body' = << >>
  /\ UNCHANGED receiveQueue

Keep(b) ==
  /\ open
  /\ Len(body) < BUF_SIZE
  /\ body' = Append(body, b)
  /\ UNCHANGED <<open, receiveQueue>>

(* Data with no room left, data outside a packet, and an END without START *)
(* change nothing, so they are not actions.                                *)

End ==
  /\ open
  /\ open' = FALSE
  /\ \/ /\ Len(receiveQueue) < RECEIVE_QUEUE_LENGTH
        /\ receiveQueue' = Append(receiveQueue, body)
     \/ /\ Len(receiveQueue) = RECEIVE_QUEUE_LENGTH
        /\ UNCHANGED receiveQueue
  /\ UNCHANGED body

Consume ==
  /\ receiveQueue # << >>
  /\ receiveQueue' = Tail(receiveQueue)
  /\ UNCHANGED <<open, body>>

Next == Start \/ End \/ Consume \/ \E b \in DataByte : Keep(b)

Spec == Init /\ [][Next]_vars
=============================================================================
