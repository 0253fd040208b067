---------------------------- MODULE MCBluetooth ----------------------------
(* The two directions of the Bluetooth link, which share no state: a       *)
(* behaviour is one of the sender or one of the receiver.  There are six   *)
(* byte values, three of them special; a payload is a range in two bytes,  *)
(* as task1 posts it, or empty.  The first identifier is ESCAPE_BYTE and   *)
(* the length of a range is START_BYTE, as in the program.                 *)
EXTENDS Integers, Sequences

CONSTANTS
  DataByte, START_BYTE, END_BYTE, NUL, BUF_SIZE, RECEIVE_QUEUE_LENGTH, MaxBody,
  Radix, ESCAPE_BYTE, FirstId, Payload, Copies

VARIABLES
  way,   \* "in" or "out"
  byte, myBuf, myStart, myEnd, myLen, isStarted, outOfBounds, receiveQueue,
  place,       \* the sender's pc
  packetId, buf, nextByte, copy, trdy, heard, sentId

In  == INSTANCE PacketReceiver
Out == INSTANCE PacketSender WITH pc <- place

ASSUME InAssumption == In!SizeAssumption /\ In!ByteAssumption
ASSUME OutAssumption == Out!ByteAssumption

MCDataByte == {0, 1}
MCPayload  == {<< >>} \cup {<<low, high>> : low, high \in 0 .. Radix - 1}

inVars   == <<byte, myBuf, myStart, myEnd, myLen, isStarted, outOfBounds, receiveQueue>>
outVars  == <<place, packetId, buf, nextByte, copy, trdy, heard, sentId>>
linkVars == <<way, inVars, outVars>>

LinkInit == way \in {"in", "out"} /\ In!Init /\ Out!Init

Receives ==
  /\ way = "in"
  /\ In!Next
  /\ UNCHANGED <<way, outVars>>

Sends ==
  /\ way = "out"
  /\ Out!Next
  /\ UNCHANGED <<way, inVars>>

LinkNext == Receives \/ Sends

LinkSpec == LinkInit /\ [][LinkNext]_linkVars /\ Out!Fairness

(* A packet stays within myBuf (packet_buffer.c:37).                       *)
StaysInBuffer == In!StaysInBuffer

(* What receiveTask posts is what a decoder of the byte stream finds in    *)
(* it, whatever comes in whatever order (bluetooth_helpers.c:107-145).     *)
ImplementsPacketDecoder == In!ImplementsPacketDecoder

(* Nothing but bytes goes out, framed so that the remote side finds the    *)
(* packets again (bluetooth_helpers.c:27-80).                              *)
WireIsFramed == Out!WireIsFramed

(* Each packet sent carries the successor, modulo 256, of the identifier   *)
(* of the one before (bluetooth_helpers.c:60-81).                           *)
IdsAreConsecutive == Out!IdsAreConsecutive

(* A packet taken off the send queue is transmitted in full and sendTask   *)
(* returns to the queue.                                                   *)
EveryPacketIsSent == Out!EveryPacketIsSent
=============================================================================
