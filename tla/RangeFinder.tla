----------------------------- MODULE RangeFinder -----------------------------
(***************************************************************************)
(* The range finder: LIDAR.c as task1 uses it, lidar_read over and over,   *)
(* byte by byte over the link that I2CLink promises; then lidar_read on    *)
(* the wires of I2CBus, with the sensor as the device that answers there,  *)
(* or, in place of lidar_read, a caller that makes any transfer I2C.c      *)
(* offers, to any device.                                                  *)
(*                                                                         *)
(* Calls of the link are named after I2C.c; the pause is a step that takes *)
(* any time, since nothing tells the task how long the sensor measures.    *)
(*                                                                         *)
(* The sensor (external) is a range finder that measures when it is told   *)
(* to, does not acknowledge its address while it measures (this is what    *)
(* lidar_read_fast counts on when it repeats a failed read), and may leave *)
(* any other byte unacknowledged too.                                      *)
(*                                                                         *)
(* Definitions named X_<fault> are faulty variants of X; nothing in the    *)
(* specification uses them.                                                *)
(***************************************************************************)
EXTENDS I2CLink

LIDAR_I2C_ADDRESS      == 196   \* 0xc4
LIDAR_REGISTER_COMMAND == 0
LIDAR_REGISTER_UPPER   == 15
LIDAR_REGISTER_LOWER   == 16
LIDAR_COMMAND_POLL     == 4

CONSTANT READ_DELAY   \* how often lidar_read_fast tries

(* What the constant is; a module that uses this one assumes it.          *)
DelayAssumption == READ_DELAY \in Nat \ {0}

VARIABLES
  pc,           \* where lidar_read stands; "idle" when task1 is elsewhere
  calls,        \* the calls left of the function under way
  ok,           \* no byte of the transfer under way has been refused
  count,        \* the reads that lidar_read_fast has made; 0 in lidar_read
  upper, lower,
  range         \* what lidar_read has returned: two bytes, or NONE for the 0 of
                \* a failed read

VARIABLES  \* the sensor
  hearing,      \* "free" since a STOP, "deaf" until the next START, or what it
                \* takes the next byte for
  register,     \* the register selected
  measuring,
  held,         \* the measurement in its range registers, modulo 3
  latest        \* the measurement asked for last, modulo 3

readVars   == <<pc, calls, ok, count, upper, lower, range>>
sensorVars == <<hearing, register, measuring, held, latest>>
vars == <<linkVars, readVars, sensorVars>>

(* What the two range registers hold of measurement m: no two bytes alike. *)
UpperByte(m) == 2 * m
LowerByte(m) == 2 * m + 1

LidarTypeOK ==
  /\ pc \in {"idle", "command", "pause", "upper", "lower"}
  /\ (pc = "pause" => calls = << >> /\ (ok \/ count > 0))
  /\ ok \in BOOLEAN /\ count \in 0 .. READ_DELAY
  /\ upper \in Byte /\ lower \in Byte
  /\ range \in {NONE} \cup (Byte \X Byte)
  /\ hearing \in {"free", "deaf", "address", "register", "data", "reading"}
  /\ register \in Byte /\ measuring \in BOOLEAN
  /\ held \in 0 .. 2 /\ latest \in 0 .. 2

LidarInit ==
  /\ LinkInit
  /\ pc = "idle" /\ calls = << >> /\ ok = TRUE /\ count = 0
  /\ upper = 0 /\ lower = 0 /\ range = NONE
  /\ hearing = "free" /\ register = 0 /\ measuring = FALSE
  /\ held = 0 /\ latest = 0

-----------------------------------------------------------------------------
(* THE SENSOR, when it has noted an event e                                *)

SensorHearsStart(e) ==
  /\ e.op = "start"
  /\ hearing' = "address"
  /\ UNCHANGED <<register, measuring, held, latest>>

SensorHearsStop(e) ==
  /\ e.op = "stop"
  /\ hearing' = "free"
  /\ UNCHANGED <<register, measuring, held, latest>>

Hears(e, kind, ack) == e.op = "write" /\ hearing = kind /\ e.ack = ack

Refuse(e) ==
  /\ \E kind \in {"address", "register", "data"} : Hears(e, kind, FALSE)
  /\ hearing' = "deaf"
  /\ UNCHANGED <<register, measuring, held, latest>>

AcceptAddress(e) ==
  /\ Hears(e, "address", TRUE)
  /\ ~measuring
  /\ e.byte \div 2 = LIDAR_I2C_ADDRESS \div 2
  /\ hearing' = IF e.byte % 2 = 1 THEN "reading" ELSE "register"
  /\ UNCHANGED <<register, measuring, held, latest>>

AcceptRegister(e) ==
  /\ Hears(e, "register", TRUE)
  /\ hearing' = "data"
  /\ register' = e.byte
  /\ UNCHANGED <<measuring, held, latest>>

AcceptCommand(e) ==
  /\ Hears(e, "data", TRUE)
  /\ register = LIDAR_REGISTER_COMMAND /\ e.byte = LIDAR_COMMAND_POLL
  /\ measuring' = TRUE
  /\ latest' = (held + 1) % 3
  /\ UNCHANGED <<hearing, register, held>>

RegisterByte ==
  CASE register = LIDAR_REGISTER_UPPER -> UpperByte(held)
    [] register = LIDAR_REGISTER_LOWER -> LowerByte(held)
    [] OTHER -> 255

SendByte(e) ==
  /\ e.op = "read" /\ hearing = "reading"
  /\ e.byte = RegisterByte
  /\ hearing' = IF e.ack THEN "reading" ELSE "deaf"
  /\ UNCHANGED <<register, measuring, held, latest>>

Sensor(e) ==
  \/ SensorHearsStart(e) \/ SensorHearsStop(e) \/ Refuse(e)
  \/ AcceptAddress(e) \/ AcceptRegister(e) \/ AcceptCommand(e) \/ SendByte(e)

Measured ==
  /\ measuring
  /\ measuring' = FALSE
  /\ held' = latest
  /\ UNCHANGED <<linkVars, readVars, hearing, register, latest>>

-----------------------------------------------------------------------------
(* lidar_read                                                              *)

Framed_NoStop(transfer) == <<Start>> \o transfer

Framed(transfer) == <<Start>> \o transfer \o <<Stop>>

send_command(command) ==
  /\ pc' = "command"
  /\ calls' = Framed(I2C_WriteToDeviceRegister(
                       LIDAR_I2C_ADDRESS, LIDAR_REGISTER_COMMAND, <<command>>))
  /\ ok' = TRUE

(* One half of read_registers.                                             *)
read_register(half, reg) ==
  /\ pc' = half
  /\ calls' = Framed(I2C_ReadFromDeviceRegister(
                       LIDAR_I2C_ADDRESS, reg, 1, TRUE))
  /\ ok' = TRUE

(* lidar_read sends the command first; lidar_read_fast only reads.         *)
lidar_read ==
  /\ pc = "idle"
  /\ send_command(LIDAR_COMMAND_POLL)
  /\ count' = 0 /\ upper' = 0 /\ lower' = 0
  /\ UNCHANGED <<linkVars, range, sensorVars>>

lidar_read_fast ==
  /\ pc = "idle"
  /\ read_register("upper", LIDAR_REGISTER_UPPER)
  /\ count' = 1 /\ upper' = 0 /\ lower' = 0
  /\ UNCHANGED <<linkVars, range, sensorVars>>

(* A transfer that finds out whether the sensor is there.                  *)
lidar_test_address == <<Write(LIDAR_I2C_ADDRESS)>>

CallLink ==
  /\ calls # << >>
  /\ Invoke(Head(calls))
  /\ calls' = Tail(calls)
  /\ UNCHANGED <<pc, ok, count, upper, lower, range, sensorVars>>

(* A call has brought e.  When a byte is refused send_command still sends  *)
(* its STOP, while read_registers returns without one.                     *)
LinkReturned(e) ==
  /\ ok' = (ok /\ ~Refused(e))
  /\ calls' = CASE ~Refused(e)                    -> calls
                [] Refused(e) /\ pc = "command" -> <<Stop>>
                [] Refused(e) /\ pc # "command" -> << >>
  /\ upper' = IF e.op = "read" /\ pc = "upper" THEN e.byte ELSE upper
  /\ lower' = IF e.op = "read" /\ pc = "lower" THEN e.byte ELSE lower
  /\ UNCHANGED <<pc, count, range, sensorVars>>

Done(label) == pc = label /\ call = NONE /\ calls = << >>

CommandSent ==
  /\ Done("command") /\ ok
  /\ pc' = "pause"
  /\ UNCHANGED <<linkVars, calls, ok, count, upper, lower, range, sensorVars>>

CommandFailed_Retries ==
  /\ Done("command") /\ ~ok
  /\ send_command(LIDAR_COMMAND_POLL)
  /\ UNCHANGED <<linkVars, count, upper, lower, range, sensorVars>>

CommandFailed ==
  /\ Done("command") /\ ~ok
  /\ pc' = "idle"
  /\ range' = NONE
  /\ UNCHANGED <<linkVars, calls, ok, count, upper, lower, sensorVars>>

(* The pause of lidar_read is before it reads.                             *)
PauseOver ==
  /\ Done("pause") /\ count = 0
  /\ read_register("upper", LIDAR_REGISTER_UPPER)
  /\ UNCHANGED <<linkVars, count, upper, lower, range, sensorVars>>

(* That of lidar_read_fast after each read.                                *)
ReadAgain ==
  /\ Done("pause")
  /\ count \in 1 .. READ_DELAY - 1 /\ range = NONE
  /\ read_register("upper", LIDAR_REGISTER_UPPER)
  /\ count' = count + 1 /\ upper' = 0 /\ lower' = 0
  /\ UNCHANGED <<linkVars, range, sensorVars>>

ReadEnds ==
  /\ Done("pause")
  /\ count = READ_DELAY \/ (count > 0 /\ range # NONE)
  /\ pc' = "idle"
  /\ UNCHANGED <<linkVars, calls, ok, count, upper, lower, range, sensorVars>>

UpperRead ==
  /\ Done("upper") /\ ok
  /\ read_register("lower", LIDAR_REGISTER_LOWER)
  /\ UNCHANGED <<linkVars, count, upper, lower, range, sensorVars>>

RegistersRead(value) ==
  /\ range' = value
  /\ pc' = IF count = 0 THEN "idle" ELSE "pause"
  /\ UNCHANGED <<linkVars, calls, ok, count, upper, lower, sensorVars>>

LowerRead ==
  /\ Done("lower") /\ ok
  /\ RegistersRead(<<upper, lower>>)

ReadFailed_UpperCounts ==
  /\ Done("upper") \/ Done("lower")
  /\ ~ok
  /\ RegistersRead(IF pc = "upper" THEN NONE ELSE <<upper, lower>>)

ReadFailed ==
  /\ Done("upper") \/ Done("lower")
  /\ ~ok
  /\ RegistersRead(NONE)

(* What lidar_read does between its calls.                                 *)
LidarRead ==
  \/ CommandSent \/ CommandFailed \/ PauseOver \/ ReadAgain \/ ReadEnds
  \/ UpperRead \/ LowerRead \/ ReadFailed

-----------------------------------------------------------------------------
(* On the wires.  lidar_read shares calls, call, noted and result with the *)
(* bus: its calls are carried out access by access, and the sensor hears   *)
(* what the device has noted on the wires.                                 *)

CONSTANTS
  User,       \* who uses the bus: of "lidar_read" and "transfers"
  Transfer,   \* the transfers the caller may make
  AnyByte     \* the bytes that a device may send

VARIABLES
  user,
  scl, sdaOut, sdaDir, todo, Data, bAck,   \* as in I2CBus
  mode, first, bits, shift, pull

Bus == INSTANCE I2CBus WITH Answer <- AnyByte

(* What the constants are; a module that uses this one assumes it.        *)
UserAssumption == User \subseteq {"lidar_read", "transfers"}

ByteAssumption == Byte = 0 .. 255 /\ NONE \notin Event

wireVars == <<scl, sdaOut, sdaDir, todo, Data, bAck, mode, first, bits, shift, pull>>
allVars  == <<vars, user, wireVars>>

Init ==
  /\ LidarInit
  /\ Bus!Init
  /\ user \in User

(* The sensor hears what the device has noted, and has its register sent.  *)
SensorHears ==
  /\ IF noted' = noted THEN UNCHANGED sensorVars ELSE Sensor(noted'[Len(noted')])
  /\ mode' = "talk" /\ mode # "talk" => shift' = RegisterByte

(* A step of task1 in lidar_read: its own, a call, a return, an access.    *)
LidarStep ==
  /\ user = "lidar_read"
  /\ \/ LidarRead /\ UNCHANGED wireVars
     \/ Bus!Call /\ CallLink
     \/ Bus!Return /\ LinkReturned(Bus!Outcome)
     \/ Bus!PortAccess /\ SensorHears /\ UNCHANGED readVars
  /\ UNCHANGED user

LidarBegins ==
  /\ user = "lidar_read"
  /\ lidar_read \/ lidar_read_fast \/ Measured
  /\ UNCHANGED <<user, wireVars>>

AnyTransfer ==
  /\ user = "transfers"
  /\ Bus!Next
  /\ UNCHANGED <<pc, ok, count, upper, lower, range, sensorVars, user>>

Next == LidarStep \/ LidarBegins \/ AnyTransfer

(* task1 is not kept out for ever and its pause ends.  The sensor need not *)
(* ever acknowledge anything or finish a measurement.                      *)
Spec == Init /\ [][Next]_allVars /\ WF_allVars(LidarStep)

-----------------------------------------------------------------------------
(* PROPERTIES                                                              *)

(* A range that lidar_read returns is that of the measurement this very    *)
(* call has asked for, and lidar_read_fast returns that of the last call   *)
(* to ask; both of its bytes: although they are read in two transfers      *)
(* (LIDAR.c:68-71), the sensor may still be measuring after the pause, and *)
(* any byte may be refused, it is neither stale nor put together from two  *)
(* measurements.                                                           *)
RangeIsFresh ==
  pc = "idle" /\ range # NONE => range = <<UpperByte(latest), LowerByte(latest)>>

(* The bus is free, a STOP having ended the transfer, while task1 waits    *)
(* and when it has got a range.  (After a read that failed it is not: no   *)
(* STOP is sent, and the next START is a repeated one.)                    *)
BusReleased ==
  (pc = "pause" /\ count = 0) \/ (pc \in {"pause", "idle"} /\ range # NONE)
    => hearing = "free"

(* The processor's side of the two wires, at and between the calls.        *)
WiresInOrder == Bus!BusTypeOK /\ Bus!ClockLowBetweenCalls /\ Bus!NobodyOverridden

(* The accesses amount to what the calls stand for: the device notes every *)
(* START, STOP and byte exactly once and as it was meant, nothing between  *)
(* calls, and the caller gets the device's acknowledgement and its bytes;  *)
(* also when the transfer before was given up without a STOP.              *)
ImplementsI2CLink == LinkSpec

(* What lidar_read leaves behind when it gives a range, and in its pause.  *)
ReadingIsSound == LidarTypeOK /\ RangeIsFresh /\ BusReleased

(* lidar_read always returns, even if the sensor never answers: task1      *)
(* cannot hang in it (LIDAR.c:36-42).                                      *)
LidarReadReturns == pc # "idle" ~> pc = "idle"
=============================================================================
