------------------------------- MODULE MCTask1 -------------------------------
(***************************************************************************)
(* The two halves of task1's loop, each at its own time scale: a behaviour *)
(* is one of the stepper's sweep (StepperSweep) or one of the range finder *)
(* (RangeFinder).  In the sweep the numbers of the code are scaled down:   *)
(* the start-up turn is longer than one lidar_read takes, two half-steps   *)
(* are shorter.  On the wires there is every kind of transfer, the         *)
(* sensor's address and registers, and bytes in which all bits, alternate  *)
(* bits or none are set; measurements are numbered modulo 3.               *)
(***************************************************************************)
EXTENDS StepperSweep

CONSTANTS User, Transfer, BusByte, AnyByte, READ_DELAY, NONE

VARIABLES
  half,   \* "sweep" or "reading"
  stand, calls, ok, count, upper, lower, range, hearing, register, measuring, held, latest,
  call, noted, result, user, scl, sdaOut, sdaDir, todo, Data, bAck, mode, first, bits,
  shift, pull

Finder == INSTANCE RangeFinder WITH pc <- stand, Byte <- BusByte

(* Only for the transfers that the caller makes.                           *)
Calls  == INSTANCE RangeFinder WITH pc <- stand, Byte <- BusByte, Transfer <- {}

ASSUME FinderAssumption ==
  /\ Finder!UserAssumption /\ Finder!ByteAssumption /\ Finder!DelayAssumption
  /\ Finder!Bus!AnswerAssumption /\ Finder!Bus!TransferAssumption

MCInitialSteps == -9

MCByte    == 0 .. 255
MCAnyByte == {0, 90, 255} \cup 1 .. 5

MCTransfer ==
  {Calls!lidar_test_address,
   Calls!I2C_WriteToDevice(196, <<85>>) \o Calls!I2C_WriteMore(<<0>>),
   Calls!I2C_WriteToDeviceRegister(196, 0, <<4>>),
   Calls!I2C_ReadFromDevice(196, 1, FALSE) \o Calls!I2C_ReadMore(1, TRUE),
   Calls!I2C_ReadFromDeviceRegister(196, 15, 1, TRUE),
   Calls!I2C_ReadFromDeviceRegister(196, 16, 2, TRUE)}

finderVars ==
  <<stand, calls, ok, count, upper, lower, range, hearing, register, measuring, held, latest,
    call, noted, result, user, scl, sdaOut, sdaDir, todo, Data, bAck, mode, first, bits,
    shift, pull>>
halfVars == <<half, driverVars, steps, direction, wait, finderVars>>

HalfInit ==
  /\ half \in {"sweep", "reading"}
  /\ SweepInit /\ Finder!Init
  /\ half = "sweep" => user = "lidar_read"

Sweeps == half = "sweep" /\ SweepNext /\ UNCHANGED <<half, finderVars>>
Turns  == half = "sweep" /\ Rotate /\ UNCHANGED <<half, finderVars>>

Reads  == half = "reading" /\ Finder!Next /\ UNCHANGED <<half, sweepVars>>
Moves  == half = "reading" /\ Finder!LidarStep /\ UNCHANGED <<half, sweepVars>>

HalfNext == Sweeps \/ Reads

HalfSpec ==
  /\ HalfInit /\ [][HalfNext]_halfVars
  /\ WF_halfVars(Sweeps) /\ WF_halfVars(Turns)   \* FairSweepSpec of StepperSweep
  /\ WF_halfVars(Moves)                          \* Spec of RangeFinder

(* SDA and its direction change only where I2C.c means them to, and what   *)
(* lidar_read returns is one measurement, taken after the call             *)
(* (I2C.c:298, LIDAR.c:68-79).                                             *)
ReadingIsSound == Finder!WiresInOrder /\ Finder!ReadingIsSound

(* The accesses of the ports amount to the events on the bus that the      *)
(* calls of I2C.c stand for.                                               *)
ImplementsI2CLink == Finder!ImplementsI2CLink

(* lidar_read and its like return, whatever the sensor refuses             *)
(* (LIDAR.c:37).                                                           *)
LidarReadReturns == Finder!LidarReadReturns
=============================================================================
