----------------------------- MODULE MCServices -----------------------------
(***************************************************************************)
(* The parts of the kernel, the HAL and the drivers that share nothing     *)
(* with each other, side by side: a behaviour is one of one part.  The     *)
(* task services (UcosTasks, with two control blocks, three priorities and *)
(* one semaphore) have their own variables; of every other part v1, v2 ... *)
(* stand for the variables in the order in which its module declares them. *)
(***************************************************************************)
EXTENDS UcosTasks, TLC

CONSTANTS ta, tb, idle, sem, k1, k2, k3, k4, k5, DATA, NUL, NODEV, NONE, NOTHING

VARIABLES
  part,
  v1, v2, v3, v4, v5, v6, v7, v8, v9, v10, v11, v12, v13, v14, v15, v16, v17, v18, v19

MCTCB == {ta, tb, idle}
MCFirst == {ta, tb}
MCPrio == {1, 2, 3}
MCFirstPrio == (ta :> 1) @@ (tb :> 2) @@ (idle :> 4)
MCEvent == {sem}
MCTicks == {1}

uart == <<"dev", "uart">>
jtag == <<"dev", "jtag">>
fs   == <<"fs">>

-----------------------------------------------------------------------------
(* THE PARTS                                                               *)

Objects == INSTANCE UcosMem WITH
    User <- {ta, tb}, Part <- {1, 2}, Area <- {<<k1, k2>>, <<k3, k4, k5>>},
    NAME_SIZE <- 3, String <- {<<"a">>, <<"b", "b">>, <<"c", "c", "c">>},
    OSMemFreeList <- v1, list <- v2, OSMemNFree <- v3, OSMemNBlks <- v4, word <- v5,
    area <- v6, creating <- v7, held <- v8,
    kind <- v9, made <- v10, buffer <- v11, overrun <- v12, call <- v13, got <- v14,
    given <- v15, was <- v16

Timers == INSTANCE UcosTimers WITH
    Tmr <- 1 .. 3, WHEEL_SIZE <- 2, W <- 4, MaxSignals <- 1,
    Setting <- {<<2, 0, "ONE_SHOT">>, <<1, 2, "PERIODIC">>, <<0, 3, "PERIODIC">>},
    state <- v1, setting <- v2, match <- v3, wheel <- v4, OSTmrFreeList <- v5, OSTmrFree <- v6,
    OSTmrUsed <- v7, OSTmrTime <- v8, signals <- v9, ptmr <- v10, left <- v11

Statistics == INSTANCE UcosStat WITH
    SLOTS <- 2, TENTH <- 2, PERCENT <- 2, SIZE <- 3,
    OSIdleCtr <- v1, OSIdleCtrMax <- v2, OSIdleCtrRun <- v3, OSStatRdy <- v4, OSCPUUsage <- v5,
    slot <- v6, init <- v7, initDly <- v8, stat <- v9, statDly <- v10, readings <- v11,
    opt <- v12, stack <- v13, depth <- v14, pchk <- v15, nfree <- v16, OSUsed <- v17,
    low <- v18, reach <- v19

Files == INSTANCE HalFiles WITH
    Opener <- {ta, tb}, ALT_MAX_FD <- 5,
    Dev <- {uart, jtag}, FS <- {fs}, JTAG <- jtag, DEV_NULL <- <<"dev", "null">>,
    Name <- {uart, jtag, fs, <<"fs", "a">>, <<"dev">>}, Mode <- {"O_RDONLY"},
    dev <- v1, flags <- v2, alt_max_fd <- v3, lock <- v4, boot <- v5, pc <- v6, want <- v7,
    fd <- v8, i <- v9, own <- v10, unseen <- v11

Clock == INSTANCE HalClock WITH
    Alarm <- {"a", "b", "c"}, HEAD <- "alt_alarm_list", W <- 4, Delay <- 0 .. 2, Interval <- {1, 3},
    _alt_tick_rate <- v1, _alt_nticks <- v2, next <- v3, previous <- v4, time <- v5,
    rollover <- v6, at <- v7, after <- v8, mode <- v9, cut <- v10, due <- v11

Time == INSTANCE HalTime WITH
    TicksPerSec <- 3, ALT_US <- 12, U32 <- 64, U16 <- 4, INT_MAX <- 19,
    LoopsPerUs <- 2, MaxTick <- 31, SetTime <- {0, 19}, Sleep <- {0, 3, 5, 16, 17, 24, 29},
    Period <- {<<0, 100>>, <<0, 500>>, <<0, 999>>, <<2, 400>>, <<6, 0>>},
    OSRunning <- v1, _alt_nticks <- v2, alt_resettime <- v3, shown <- v4, setAt <- v5,
    sleep <- v6, ticks <- v7, loops <- v8, dly <- v9, slept <- v10, spun <- v11

Boot == INSTANCE HalBoot WITH
    Irq <- {0, 1, 2, 4}, LowestPrio <- 20,
    todo <- v1, registering <- v2, saved <- v3, pie <- v4, ienable <- v5, request <- v6,
    alt_irq <- v7, alt_irq_active <- v8, alt_priority_mask <- v9, frames <- v10,
    OSRunning <- v11, OSIntNesting <- v12, OSRdyTbl <- v13, OSPrioCur <- v14

Chip == INSTANCE EpcsFlash WITH
    BLOCK <- 4, BLOCKS <- 2, PAGE <- 2, CHUNK <- 3, Bit <- {0, 1},
    Write <- {<<1, <<{0}, {1}, {0}>>>>, <<2, <<{0}, {1}, {1}, {0}>>>>,
              <<6, <<{1}, {1}, {1}>>>>, <<9, <<{0}>>>>},
    mem <- v1, wip <- v2, wel <- v3, fourBytes <- v4, large <- v5, four_bytes_mode <- v6,
    spi <- v7, call <- v8, stage <- v9, done <- v10, seen <- v11, differs <- v12, was <- v13,
    clean <- v14

Test == INSTANCE TerasicFlash WITH
    Layout <- {<< <<3, 3>> >>, << <<2, 1>>, <<1, 3>> >>}, Bit <- {0, 1}, U8 <- 4, U32 <- 64,
    nBufSize <- 2,
    regions_flash <- v1, mem <- v2, worn <- v3, bQuickVerify <- v4, InitValue <- v5,
    stage <- v6, i <- v7, sum <- v8, Cnt <- v9, hFlash <- v10, pBuf <- v11, bPass <- v12,
    request <- v13, was <- v14

Spi == INSTANCE SpiMaster WITH
    Length <- {<<4, 2>>, <<1, 0>>, <<1, 3>>},
    length <- v1, written <- v2, write_zeros <- v3, read_ignore <- v4, read <- v5,
    credits <- v6, step <- v7, status <- v8, txdata <- v9, shifting <- v10, rxdata <- v11,
    selected <- v12, heard <- v13

I2C == INSTANCE I2CCore WITH
    BITS <- 2,
    todo <- v1, call <- v2, result <- v3, busy <- v4, core_en <- v5, cr <- v6, txr <- v7,
    tip <- v8, rxack <- v9, c_state <- v10, dcnt <- v11, sr <- v12, ld <- v13, shift <- v14,
    cmd_ack <- v15, ack_out <- v16, wire <- v17, lost <- v18

Adxl == INSTANCE Accelerometer WITH
    nMaxTry <- 1, FIFO <- 1, DATA_READY_TIMEOUT <- 2, W <- 4,
    reg <- v1, sample <- v2, ready <- v3, tx <- v4, rx <- v5, ctrl <- v6, moved <- v7,
    adxl <- v8, stage <- v9, nTryCnt <- v10, alt_nticks <- v11, TimeStart <- v12, bPass <- v13,
    szData <- v14, late <- v15, gaveUp <- v16

ASSUME PartsAssumption ==
  /\ Objects!MemAssumption
  /\ Objects!NameAssumption
  /\ Timers!TimerAssumption
  /\ Statistics!StatAssumption
  /\ Files!FileAssumption
  /\ Clock!ClockAssumption
  /\ Time!TimeAssumption
  /\ Boot!BootAssumption
  /\ Chip!FlashAssumption
  /\ Test!TerasicAssumption
  /\ Spi!SpiAssumption
  /\ I2C!CoreAssumption
  /\ Adxl!AdxlAssumption

(* How many of v1, v2 ... the part has; the names leave out the first eight.*)
Uses ==
  [tasks |-> 0, memory |-> 8, names |-> 16, files |-> 11, clock |-> 11, time |-> 11,
   timers |-> 11, spi |-> 13, boot |-> 14, chip |-> 14, test |-> 14, adxl |-> 16, i2c |-> 18,
   statistics |-> 19]

SkipsFirst == Uses[part] < 8 \/ part = "names"

Unused ==
  /\ SkipsFirst      => v1 = 0 /\ v2 = 0 /\ v3 = 0 /\ v4 = 0 /\ v5 = 0 /\ v6 = 0 /\ v7 = 0 /\ v8 = 0
  /\ Uses[part] < 11 => v9 = 0 /\ v10 = 0 /\ v11 = 0
  /\ Uses[part] < 13 => v12 = 0 /\ v13 = 0
  /\ Uses[part] < 14 => v14 = 0
  /\ Uses[part] < 16 => v15 = 0 /\ v16 = 0
  /\ Uses[part] < 18 => v17 = 0 /\ v18 = 0
  /\ Uses[part] < 19 => v19 = 0

KeepsUnused ==
  /\ SkipsFirst      => UNCHANGED <<v1, v2, v3, v4, v5, v6, v7, v8>>
  /\ Uses[part] < 11 => UNCHANGED <<v9, v10, v11>>
  /\ Uses[part] < 13 => UNCHANGED <<v12, v13>>
  /\ Uses[part] < 14 => UNCHANGED v14
  /\ Uses[part] < 16 => UNCHANGED <<v15, v16>>
  /\ Uses[part] < 18 => UNCHANGED <<v17, v18>>
  /\ Uses[part] < 19 => UNCHANGED v19

PartsInit ==
  /\ Init
  /\ \/ part = "tasks"
     \/ part = "memory" /\ Objects!MemInit
     \/ part = "names" /\ Objects!NamesInit
     \/ part = "timers" /\ Timers!TmrInit
     \/ part = "statistics" /\ Statistics!StatInit
     \/ part = "files" /\ Files!Init
     \/ part = "clock" /\ Clock!ClockInit
     \/ part = "time" /\ Time!TimeInit
     \/ part = "boot" /\ Boot!BootInit
     \/ part = "chip" /\ Chip!FlashInit
     \/ part = "test" /\ Test!TerasicInit
     \/ part = "spi" /\ Spi!SpiInit
     \/ part = "i2c" /\ I2C!CoreInit
     \/ part = "adxl" /\ Adxl!AdxlInit
  /\ Unused

Others == UNCHANGED <<part, vars>> /\ KeepsUnused

TaskSteps      == part = "tasks" /\ Next /\ UNCHANGED part /\ KeepsUnused
MemorySteps    == part = "memory" /\ Objects!MemNext /\ Others
NameSteps      == part = "names" /\ Objects!NamesNext /\ Others
TimerSteps     == part = "timers" /\ Timers!TmrNext /\ Others
StatisticSteps == part = "statistics" /\ Statistics!StatNext /\ Others
FileSteps      == part = "files" /\ Files!Next /\ Others
ClockSteps     == part = "clock" /\ Clock!ClockNext /\ Others
TimeSteps      == part = "time" /\ Time!TimeNext /\ Others
BootSteps      == part = "boot" /\ Boot!BootNext /\ Others
ChipSteps      == part = "chip" /\ Chip!FlashNext /\ Others
TestSteps      == part = "test" /\ Test!TerasicNext /\ Others
SpiSteps       == part = "spi" /\ Spi!SpiNext /\ Others
I2CSteps       == part = "i2c" /\ I2C!CoreNext /\ Others
AdxlSteps      == part = "adxl" /\ Adxl!AdxlNext /\ Others

PartsNext ==
  \/ TaskSteps
  \/ MemorySteps \/ NameSteps \/ TimerSteps \/ StatisticSteps
  \/ FileSteps \/ ClockSteps \/ TimeSteps \/ BootSteps
  \/ ChipSteps \/ TestSteps \/ SpiSteps \/ I2CSteps \/ AdxlSteps

PartsSpec == PartsInit /\ [][PartsNext]_<<part, vars, v1, v2, v3, v4, v5, v6, v7, v8, v9, v10, v11, v12,
                                           v13, v14, v15, v16, v17, v18, v19>>

-----------------------------------------------------------------------------
(* PROPERTIES                                                              *)

(* The tables of the kernel agree with each other: those of the tasks, but *)
(* for the stale entries of OSTaskChangePrio and what a task deleted       *)
(* inside OSTaskCreate leaves behind, and within the limits that the       *)
(* header of UcosTasks names (os_task.c:357, 426-524); the free lists of   *)
(* the memory partitions (os_mem.c:135-145, 257-258); the wheel of the     *)
(* timers (os_tmr.c:999-1028).                                             *)
KernelTablesExact ==
  /\ part = "tasks"  => TablesExact
  /\ part = "memory" => Objects!PartitionsExact
  /\ part = "timers" => Timers!TimersRing

(* What the kernel reports about itself is so: names are those that were   *)
(* given (os_core.c:209), the processor usage and the stack check tell     *)
(* what was measured (os_core.c:1831, os_task.c:975).                      *)
KernelReports ==
  /\ part = "names"      => Objects!NamesAreOwn
  /\ part = "statistics" => Statistics!StatisticsTell

(* A file descriptor that is open belongs to one opener                    *)
(* (alt_release_fd.c:48), and a device that is open for exclusive use to   *)
(* one descriptor and, at most, the one that was the last when it was      *)
(* asked for (alt_fd_lock.c:61).                                           *)
DescriptorsExact ==
  part = "files" => Files!DescriptorsExact /\ Files!ExclusiveButForLast

(* A device that is open for exclusive use is open only once, as the       *)
(* comment of alt_fd_lock.c:43-46 says.                                    *)
ExclusiveMeansAlone == part = "files" => Files!ExclusiveMeansAlone

(* Alarms ring when they are due, though the ticks wrap around             *)
(* (alt_alarm_start.c:89, alt_tick.c); the time of day goes on from what   *)
(* it was set to, if that was before the product of alt_settod.c:84        *)
(* wrapped; and nobody sleeps much too short or too long, in however many  *)
(* pieces (alt_usleep.c:79, alt_busy_sleep.c).  But of the alarms this is  *)
(* said in a tick whose work is done: see AlarmsOnTime of HalClock.        *)
TimeIsKept ==
  /\ part = "clock" => Clock!AlarmsOnTime
  /\ part = "time"  => Time!TimeOfDayIsKept /\ Time!SleepsAsAsked

(* From reset to multitasking no interrupt is taken before its handler and *)
(* the kernel are ready, critical sections nest, and the tasks are         *)
(* switched only at the end of the outermost handler.                      *)
BootIsSound ==
  part = "boot" => Boot!BootIsSound

(* The flash holds what was written to it, through restarts of the         *)
(* processor in the middle of a command, and the flash test of terasic_lib *)
(* tells a sound flash from a worn one (epcs_commands.c, flash.c:287).     *)
FlashHoldsWhatWasWritten ==
  /\ part = "chip" => Chip!FlashKeepsData
  /\ part = "test" => Test!FlashTestTells

(* A call that talks to a device by polling a controller returns what that *)
(* transfer moved, all of it and nothing of another: the SPI command of    *)
(* altera_avalon_spi.c:75, the I2C calls of i2c_opencores.c:72, 122 and    *)
(* 165, the accelerometer's of terasic_spi.c:54 and 91.                    *)
TransfersAreExact ==
  /\ part = "spi"  => Spi!CommandExchanged
  /\ part = "i2c"  => I2C!TransfersAreTold
  /\ part = "adxl" => Adxl!AccelerometerTells
=============================================================================
