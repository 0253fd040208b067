------------------------------ MODULE I2CLink ------------------------------
(***************************************************************************)
(* What I2C.c promises to its callers: while one of its four elementary    *)
(* calls is under way the device notes one event, the one the call stands  *)
(* for, and the caller gets the device's answer.  Between calls the device *)
(* notes nothing.  Transfers, the exported functions of I2C.c, are         *)
(* sequences of such calls, given up at a byte that is not acknowledged.   *)
(*                                                                         *)
(* Definitions named X_<fault> are faulty variants of X; nothing in the    *)
(* specification uses them.                                                *)
(***************************************************************************)
EXTENDS Integers, Sequences

CONSTANTS
  Byte,  \* the bytes that go over the bus
  NONE

VARIABLES
  call,    \* the call under way, or NONE
  noted,   \* the events the device has noted during it
  result   \* what the last call to return has brought

linkVars == <<call, noted, result>>

(* A call or an event; "byte" is the caller's for a write, the device's    *)
(* for a read, "ack" the other side's.                                     *)
Event == [op : {"start", "stop", "write", "read"}, byte : Byte, ack : BOOLEAN]

Start    == [op |-> "start", byte |-> 0, ack |-> FALSE]
Stop     == [op |-> "stop",  byte |-> 0, ack |-> FALSE]
Write(b) == [op |-> "write", byte |-> b, ack |-> FALSE]
Read(a)  == [op |-> "read",  byte |-> 0, ack |-> a]

LinkInit ==
  /\ call = NONE
  /\ noted = << >>
  /\ result = NONE

Invoke(c) ==
  /\ call = NONE
  /\ call' = c
  /\ noted' = << >>
  /\ UNCHANGED result

(* The device hears what the caller says and adds its answer.              *)
Hear(e) ==
  /\ call # NONE
  /\ noted = << >>
  /\ e.op = call.op
  /\ e.op # "read"  => e.byte = call.byte
  /\ e.op # "write" => e.ack = call.ack
  /\ noted' = <<e>>
  /\ UNCHANGED <<call, result>>

Return ==
  /\ noted # << >>
  /\ call' = NONE
  /\ result' = Head(noted)
  /\ noted' = << >>

LinkNext ==
  \/ call' \in Event /\ Invoke(call')
  \/ call # NONE /\ \E e \in Event : Hear(e)
  \/ Return

LinkSpec == LinkInit /\ [][LinkNext]_linkVars

Refused(c) == c.op = "write" /\ ~c.ack

-----------------------------------------------------------------------------
(* TRANSFERS                                                               *)

ReadAddress(deviceAddr) == 2 * (deviceAddr \div 2) + 1

Bytes(pData) == [i \in DOMAIN pData |-> Write(pData[i])]

(* All bytes read are acknowledged but the last of a read that ends.       *)
Reads(len, endRead) == [i \in 1 .. len |-> Read(i < len \/ ~endRead)]

I2C_WriteToDevice(deviceAddr, pData) == <<Write(deviceAddr)>> \o Bytes(pData)

I2C_WriteToDeviceRegister(deviceAddr, controlAddr, pData) ==
  <<Write(deviceAddr), Write(controlAddr)>> \o Bytes(pData)

I2C_WriteMore(pData) == Bytes(pData)

I2C_ReadFromDevice(deviceAddr, len, endRead) ==
  <<Write(ReadAddress(deviceAddr))>> \o Reads(len, endRead)

I2C_ReadFromDeviceRegister(deviceAddr, controlAddr, len, endRead) ==
  <<Write(deviceAddr), Write(controlAddr), Start, Write(ReadAddress(deviceAddr))>>
    \o Reads(len, endRead)

I2C_ReadMore(len, endRead) == Reads(len, endRead)

(* What the caller asks for: the rest of the event is the other side's.    *)
Request == {Start, Stop} \cup {Write(b) : b \in Byte} \cup {Read(a) : a \in BOOLEAN}

(* The order in which the functions above, put between START and STOP, make*)
(* their calls: after the address of a device to read from, and after each *)
(* byte read and acknowledged, a byte is read, and at no other time.       *)
Selects(s, i) == i > 1 /\ s[i - 1] = Start /\ s[i].op = "write" /\ s[i].byte % 2 = 1

InOrder(s) ==
  \A i \in 1 .. Len(s) - 1 :
    /\ s[i].op # "stop"
    /\ s[i + 1].op = "read" <=> Selects(s, i) \/ (s[i].op = "read" /\ s[i].ack)
    /\ s[i + 1].op = "write" => s[i].op \in {"start", "write"}
=============================================================================
