---------------------------- MODULE Accelerometer ---------------------------
(***************************************************************************)
(* terasic_lib/accelerometer_adxl345_spi.c and terasic_spi.c, which the    *)
(* application is linked with.  The functions drive a controller whose     *)
(* hardware is not in the repository, through its four registers; a        *)
(* transfer that is not done in nMaxTry polls is stopped, and what it      *)
(* leaves in the two FIFOs of the controller meets the next one.  The      *)
(* controller is modelled from the driver alone: it writes the bytes of    *)
(* the one FIFO to consecutive registers of the sensor, or reads           *)
(* consecutive registers to the other; whether it drops the bytes it has   *)
(* not written when it is stopped, and those nobody has read when it is    *)
(* started, is left open.                                                  *)
(*                                                                         *)
(* A sample is two bytes instead of six, and a byte of it the number of    *)
(* the sample.                                                             *)
(*                                                                         *)
(* Definitions named X_<fault> are faulty variants of X; nothing in the    *)
(* specification uses them.                                                *)
(***************************************************************************)
EXTENDS Integers, Sequences

CONSTANTS
  nMaxTry,            \* polls of a transfer, but for the first
  FIFO,               \* bound: bytes left in the FIFO before it is dropped for certain
  DATA_READY_TIMEOUT, \* ticks
  W                   \* alt_nticks() counts modulo this

(* What the constants are; a module that uses this one assumes it.         *)
AdxlAssumption == nMaxTry \in Nat /\ FIFO \in Nat /\ W \in Nat /\ DATA_READY_TIMEOUT \in 1 .. W - 2

BW_RATE == 44   POWER_CTL == 45   INT_ENABLE == 46   INT_SOURCE == 48   DATA_FORMAT == 49
DATAX0 == 50    DEVID == 0

VARIABLES
  reg,       \* of the sensor, those that are written
  sample, ready,          \* its last sample; has nobody read it
  tx, rx,                 \* FIFOs of the controller
  ctrl, moved,            \* "stop", "write" or "read"; bytes it has moved
  adxl, stage, nTryCnt,   \* the call, the transfer of it (0: returned), the polls of that
  alt_nticks, TimeStart,
  bPass, szData,          \* what the call returns
  late,      \* history: ticks since the call began
  gaveUp     \* history: has a transfer been stopped since the FIFOs were last cleared

adxlVars ==
  <<reg, sample, ready, tx, rx, ctrl, moved, adxl, stage, nTryCnt, alt_nticks, TimeStart, bPass,
    szData, late, gaveUp>>
sensor == <<reg, sample, ready>>
clock  == <<alt_nticks, TimeStart, late>>

(* The call is over, and its caller has not looked at the answer yet.      *)
returned == adxl # "none" /\ stage = 0

-----------------------------------------------------------------------------
(* What ADXL345_SPI_Init writes.                                           *)
InitWrites ==
  << <<DATA_FORMAT, "SPI3WIRE">>, <<BW_RATE, "RATE_400">>, <<INT_ENABLE, "DATAREADY">>,
     <<POWER_CTL, "STANDBY">>, <<POWER_CTL, "MEASURE">> >>

(* The transfer the call is at: its register, and how many bytes it reads. *)
Index == CASE adxl = "Init" -> InitWrites[stage][1]
           [] adxl = "WaitDataReady" -> INT_SOURCE
           [] adxl = "XYZ_Read" -> DATAX0
           [] adxl = "IdRead" -> DEVID

nByteNum == IF adxl = "XYZ_Read" THEN 2 ELSE 1

-----------------------------------------------------------------------------
AdxlInit ==
  /\ reg = [r \in BW_RATE .. DATA_FORMAT |-> "reset"] /\ sample = "A" /\ ready = FALSE
  /\ tx = << >> /\ rx = << >> /\ ctrl = "stop" /\ moved = 0
  /\ adxl = "none" /\ stage = 0 /\ nTryCnt = 0
  /\ alt_nticks \in {0, W - 1} /\ TimeStart = 0 /\ bPass = FALSE /\ szData = << >>
  /\ late = 0 /\ gaveUp = FALSE

(* SPI_Init clears the FIFOs.                                              *)
SPI_Init_KeepsFifo == UNCHANGED <<tx, rx, gaveUp>>

SPI_Init == tx' = << >> /\ rx' = << >> /\ gaveUp' = FALSE

ADXL345_SPI_Init ==
  /\ adxl = "none" /\ adxl' = "Init" /\ stage' = 1
  /\ SPI_Init
  /\ bPass' = FALSE /\ szData' = << >>
  /\ UNCHANGED <<sensor, ctrl, moved, nTryCnt, clock>>

(* Bound: the sensor is read when it has been initialised.                 *)
Initialised == reg[POWER_CTL] = "MEASURE"

(* ADXL345_SPI_WaitDataReady, ADXL345_SPI_XYZ_Read, ADXL345_SPI_IdRead.    *)
Read(name) ==
  /\ adxl = "none" /\ Initialised /\ adxl' = name /\ stage' = 1
  /\ TimeStart' = alt_nticks /\ late' = 0
  /\ bPass' = FALSE /\ szData' = << >>
  /\ UNCHANGED <<sensor, tx, rx, ctrl, moved, nTryCnt, alt_nticks, gaveUp>>

(* SPI_MultipleWrite and SPI_MultipleRead up to the start.                 *)
SPI_Start ==
  /\ adxl # "none" /\ ctrl = "stop" /\ stage > 0
  /\ IF adxl = "Init"
       THEN ctrl' = "write" /\ tx' = Append(tx, InitWrites[stage][2]) /\ UNCHANGED rx
       ELSE ctrl' = "read" /\ rx' \in {IF Len(rx) <= FIFO THEN rx ELSE << >>, << >>} /\ UNCHANGED tx
  /\ moved' = 0 /\ nTryCnt' = 0
  /\ UNCHANGED <<sensor, adxl, stage, clock, bPass, szData, gaveUp>>

Done == IF ctrl = "write" THEN tx = << >> ELSE moved = nByteNum

(* The controller moves a byte.                                            *)
Write ==
  /\ ctrl = "write" /\ ~Done
  /\ tx' = Tail(tx) /\ moved' = moved + 1
  /\ reg' = [r \in DOMAIN reg |-> IF r = Index + moved THEN Head(tx) ELSE reg[r]]
  /\ UNCHANGED <<sample, ready, rx, ctrl, adxl, stage, nTryCnt, clock, bPass, szData, gaveUp>>

Fetch ==
  /\ ctrl = "read" /\ ~Done
  /\ rx' = Append(rx, CASE Index = INT_SOURCE -> IF ready THEN "DATAREADY" ELSE "none"
                       [] Index = DATAX0     -> sample
                       [] Index = DEVID      -> "ADXL345")
  /\ ready' = (ready /\ Index # DATAX0)
  /\ moved' = moved + 1
  /\ UNCHANGED <<reg, sample, tx, ctrl, adxl, stage, nTryCnt, clock, bPass, szData, gaveUp>>

(* The bytes that SPI_MultipleRead takes out of the FIFO.                  *)
Taken == SubSeq(rx, 1, nByteNum)

(* The call returns, or goes on with its next transfer.  WaitDataReady     *)
(* reads again until its time is over.                                     *)
AfterWrite(ok) ==
  /\ UNCHANGED szData
  /\ IF ok /\ stage < Len(InitWrites)
       THEN stage' = stage + 1 /\ UNCHANGED bPass
       ELSE stage' = 0 /\ bPass' = ok

AfterRead(ok) ==
  LET bDataReady == ok /\ Taken = <<"DATAREADY">>
  IN  IF adxl = "WaitDataReady" /\ ~bDataReady
           /\ (alt_nticks + W - TimeStart) % W < DATA_READY_TIMEOUT
        THEN UNCHANGED <<stage, bPass, szData>>
        ELSE /\ stage' = 0
             /\ bPass' = IF adxl = "WaitDataReady" THEN bDataReady ELSE ok
             /\ szData' = IF ok THEN Taken ELSE << >>

(* A poll that does not find the transfer done, and is not the last.       *)
Poll ==
  /\ ctrl # "stop" /\ ~Done /\ nTryCnt < nMaxTry
  /\ nTryCnt' = nTryCnt + 1
  /\ UNCHANGED <<sensor, tx, rx, ctrl, moved, adxl, stage, clock, bPass, szData, gaveUp>>

(* The last one.  The transfer is stopped, and what was read is taken.     *)
(* After its first write ADXL345_SPI_Init clears the FIFOs again.          *)
Stop ==
  /\ ctrl # "stop" /\ (Done \/ nTryCnt = nMaxTry)
  /\ ctrl' = "stop" /\ moved' = 0 /\ nTryCnt' = 0
  /\ IF ctrl = "write"
       THEN /\ AfterWrite(Done)
            /\ IF stage = 1 THEN SPI_Init
               ELSE tx' \in {tx, << >>} /\ gaveUp' = (gaveUp \/ ~Done) /\ UNCHANGED rx
       ELSE /\ AfterRead(Done)
            /\ rx' = IF Done THEN SubSeq(rx, nByteNum + 1, Len(rx)) ELSE rx
            /\ gaveUp' = (gaveUp \/ ~Done)
            /\ UNCHANGED tx
  /\ UNCHANGED <<sensor, adxl, clock>>

Return ==
  /\ returned /\ adxl' = "none"
  /\ bPass' = FALSE /\ szData' = << >> /\ TimeStart' = 0 /\ late' = 0
  /\ UNCHANGED <<sensor, tx, rx, ctrl, moved, stage, nTryCnt, alt_nticks, gaveUp>>

(* The sensor has a new sample; it does not change it while it is read.    *)
(* Bound: none between the end of a call and its caller's looking at it.   *)
Sample ==
  /\ Initialised /\ ~returned /\ ~(ctrl = "read" /\ Index = DATAX0)
  /\ sample' = (IF sample = "A" THEN "B" ELSE "A") /\ ready' = TRUE
  /\ UNCHANGED <<reg, tx, rx, ctrl, moved, adxl, stage, nTryCnt, clock, bPass, szData, gaveUp>>

(* Bound: fewer ticks in a call than the counter has.                      *)
Tick ==
  /\ adxl = "WaitDataReady" /\ ~returned /\ late < W - 1
  /\ alt_nticks' = (alt_nticks + 1) % W /\ late' = late + 1
  /\ UNCHANGED <<sensor, tx, rx, ctrl, moved, adxl, stage, nTryCnt, TimeStart, bPass, szData, gaveUp>>

AdxlNext ==
  \/ ADXL345_SPI_Init \/ Read("WaitDataReady") \/ Read("XYZ_Read") \/ Read("IdRead")
  \/ SPI_Start \/ Write \/ Fetch \/ Poll \/ Stop \/ Return
  \/ Sample \/ Tick

-----------------------------------------------------------------------------
(* PROPERTIES                                                              *)

(* An initialisation succeeds only when every register of the sensor holds *)
(* what it is to hold, whatever earlier transfers left in the FIFOs        *)
(* (accelerometer_adxl345_spi.c:14-20); unless a transfer was given up     *)
(* since, a sample that is read is one sample and not bytes of two; and a  *)
(* wait for one neither reports one that was not there nor gives up before *)
(* its time, when the tick count wraps around too (line 61).               *)
AccelerometerTells ==
  returned =>
     /\ adxl = "Init" /\ bPass => \A n \in DOMAIN InitWrites \ {4} :
                                        reg[InitWrites[n][1]] = InitWrites[n][2]
     /\ adxl = "XYZ_Read" /\ bPass /\ ~gaveUp => szData = <<sample, sample>>
     /\ adxl = "IdRead" /\ bPass /\ ~gaveUp => szData = <<"ADXL345">>
     /\ adxl = "WaitDataReady" /\ ~bPass => late >= DATA_READY_TIMEOUT
     /\ adxl = "WaitDataReady" /\ bPass /\ ~gaveUp => ready
=============================================================================
