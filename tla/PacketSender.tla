---------------------------- MODULE PacketSender ----------------------------
(***************************************************************************)
(* sendTask and send (bluetooth_helpers.c): header, framing and escaping   *)
(* of outgoing packets, one byte of the UART's transmitter at a time.      *)
(* Bytes are numbers below Radix, 256 in the program.                      *)
(***************************************************************************)
EXTENDS Integers, Sequences

CONSTANTS
  Radix,         \* the number of byte values
  START_BYTE, END_BYTE, ESCAPE_BYTE,
  FirstId,       \* the initial packetId
  Payload,       \* the packets that are posted to the send queue
  Copies         \* how often sendTask calls send

(* What the constants are; a module that uses this one assumes it.         *)
ByteAssumption ==
  /\ Radix \in Nat \ {0}
  /\ {START_BYTE, END_BYTE, ESCAPE_BYTE, FirstId} \subseteq 0 .. Radix - 1
  /\ START_BYTE # END_BYTE /\ START_BYTE # ESCAPE_BYTE /\ END_BYTE # ESCAPE_BYTE
  /\ \A p \in Payload : p \in Seq(0 .. Radix - 1) /\ Len(p) + 2 < Radix
  /\ Copies \in Nat \ {0}

VARIABLES
  pc,        \* "pend", or the next transmission: "start", "escape", "byte", "end"
  packetId,
  buf,       \* the packet being sent, header included
  nextByte,  \* the index in send's loop, counted from 0
  copy,      \* the calls of send that have returned
  trdy,      \* the transmitter can take a byte
  heard,     \* history: what a decoder at the other end has made of the bytes
  sentId     \* history: the identifier of the last packet sent in full

vars == <<pc, packetId, buf, nextByte, copy, trdy, heard, sentId>>

Byte == 0 .. Radix - 1
Special == {START_BYTE, END_BYTE, ESCAPE_BYTE}

(* A reference decoder for the remote side: START opens a frame, ESCAPE    *)
(* makes the next byte data, END closes the frame.  Its frames are those   *)
(* since buf was taken.                                                    *)
Decoder == [open : BOOLEAN, escaped : BOOLEAN, body : Seq(Byte), frames : Seq(Seq(Byte))]

DecoderStart == [open |-> FALSE, escaped |-> FALSE, body |-> << >>, frames |-> << >>]

DecodeByte(d, b) ==
  CASE d.escaped ->
         [d EXCEPT !.escaped = FALSE, !.body = Append(@, b)]
    [] ~d.escaped /\ b = START_BYTE ->
         [d EXCEPT !.open = TRUE, !.body = << >>]
    [] ~d.escaped /\ b = ESCAPE_BYTE ->
         [d EXCEPT !.escaped = TRUE]
    [] ~d.escaped /\ b = END_BYTE ->
         [d EXCEPT !.open = FALSE, !.body = << >>, !.frames = Append(@, d.body)]
    [] OTHER ->
         [d EXCEPT !.body = Append(@, b)]

TypeOK ==
  /\ pc \in {"pend", "start", "escape", "byte", "end"}
  /\ packetId \in Byte
  /\ buf \in Seq(Byte)
  /\ nextByte \in 0 .. Len(buf)
  /\ copy \in 0 .. Copies
  /\ trdy \in BOOLEAN
  /\ heard \in Decoder
  /\ sentId \in Byte \cup {-1}

Init ==
  /\ pc = "pend"
  /\ packetId = FirstId
  /\ buf = << >>
  /\ nextByte = 0
  /\ copy = 0
  /\ trdy = TRUE
  /\ heard = DecoderStart
  /\ sentId = -1

-----------------------------------------------------------------------------
(* Definitions named X_<fault> are faulty variants of X.  No action uses   *)
(* them: putting one in the place of X shows that a property notices.      *)
Transmit_InvertedPoll(b) ==
  /\ ~trdy
  /\ trdy' = FALSE
  /\ heard' = DecodeByte(heard, b)

(* send waits for TRDY before each write of the TXDATA register.           *)
Transmit(b) ==
  /\ trdy
  /\ trdy' = FALSE
  /\ heard' = DecodeByte(heard, b)

LoopAt_EscapesFramingOnly(i) ==
  IF i = Len(buf) THEN "end"
  ELSE IF buf[i + 1] \in {START_BYTE, END_BYTE} THEN "escape"
  ELSE "byte"

(* What send's loop does next, when i bytes of buf have been sent.         *)
LoopAt(i) ==
  IF i = Len(buf) THEN "end"
  ELSE IF buf[i + 1] \in Special THEN "escape"
  ELSE "byte"

TakePacket_NoWrap(p) ==
  /\ pc = "pend"
  /\ buf' = <<packetId, Len(p)>> \o p
  /\ packetId' = packetId + 1
  /\ copy' = 0
  /\ heard' = [heard EXCEPT !.frames = << >>]
  /\ pc' = "start"
  /\ UNCHANGED <<nextByte, trdy, sentId>>

TakePacket_IdPerCopy(p) ==
  /\ pc = "pend"
  /\ buf' = <<packetId, Len(p)>> \o p
  /\ packetId' = (packetId + Copies) % Radix
  /\ copy' = 0
  /\ heard' = [heard EXCEPT !.frames = << >>]
  /\ pc' = "start"
  /\ UNCHANGED <<nextByte, trdy, sentId>>

(* OSQPend returns a packet: its bytes move up by two to make room for its *)
(* identifier and its length.                                              *)
TakePacket(p) ==
  /\ pc = "pend"
  /\ buf' = <<packetId, Len(p)>> \o p
  /\ packetId' = (packetId + 1) % Radix
  /\ copy' = 0
  /\ heard' = [heard EXCEPT !.frames = << >>]
  /\ pc' = "start"
  /\ UNCHANGED <<nextByte, trdy, sentId>>

SendStart ==
  /\ pc = "start"
  /\ Transmit(START_BYTE)
  /\ nextByte' = 0
  /\ pc' = LoopAt(0)
  /\ UNCHANGED <<packetId, buf, copy, sentId>>

SendEscape ==
  /\ pc = "escape"
  /\ Transmit(ESCAPE_BYTE)
  /\ pc' = "byte"
  /\ UNCHANGED <<packetId, buf, nextByte, copy, sentId>>

SendByte ==
  /\ pc = "byte"
  /\ Transmit(buf[nextByte + 1])
  /\ nextByte' = nextByte + 1
  /\ pc' = LoopAt(nextByte + 1)
  /\ UNCHANGED <<packetId, buf, copy, sentId>>

(* The END byte; after the last copy the packet is freed.                  *)
SendEnd ==
  /\ pc = "end"
  /\ Transmit(END_BYTE)
  /\ nextByte' = 0
  /\ copy' = copy + 1
  /\ IF copy + 1 < Copies
       THEN pc' = "start" /\ UNCHANGED sentId
       ELSE pc' = "pend" /\ sentId' = buf[1]
  /\ UNCHANGED <<packetId, buf>>

(* The UART moves a byte from TXDATA to the line (external).               *)
UartShift ==
  /\ ~trdy
  /\ trdy' = TRUE
  /\ UNCHANGED <<pc, packetId, buf, nextByte, copy, heard, sentId>>

Next ==
  \/ \E p \in Payload : TakePacket(p)
  \/ SendStart \/ SendEscape \/ SendByte \/ SendEnd
  \/ UartShift

Spec == Init /\ [][Next]_vars

(* The transmitter empties itself and sendTask, which polls TRDY, runs on. *)
Fairness ==
  WF_vars(UartShift) /\ WF_vars(SendStart \/ SendEscape \/ SendByte \/ SendEnd)

FairSpec == Spec /\ Fairness
-----------------------------------------------------------------------------
(* PROPERTIES                                                              *)

(* Whatever the data, and in particular when the identifier or the length  *)
(* in the header happens to be one of the three special bytes, a decoder   *)
(* that follows the stream sees exactly the copies sent so far, byte for   *)
(* byte, and between two copies it is outside any frame.                   *)
FramesAreThePacket ==
  /\ heard.frames = [c \in 1 .. copy |-> buf]
  /\ pc \in {"pend", "start"} => ~heard.open /\ ~heard.escaped

(* Nothing but bytes goes out, framed so that the remote side finds the    *)
(* packets again (bluetooth_helpers.c:27-80).                              *)
WireIsFramed == TypeOK /\ FramesAreThePacket

IdFollows ==
  sentId' # sentId =>
    IF sentId = -1 THEN sentId' = FirstId ELSE sentId' = (sentId + 1) % Radix

(* Identifiers let the remote side recognise the three copies of a packet  *)
(* and a missing packet: each packet sent carries the successor, modulo    *)
(* 256, of the identifier of the one before.                               *)
IdsAreConsecutive ==
  [][IdFollows]_vars

(* A packet taken off the send queue is transmitted in full and sendTask   *)
(* returns to the queue.                                                   *)
EveryPacketIsSent == pc = "start" ~> pc = "pend"
=============================================================================
