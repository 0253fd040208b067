------------------------------- MODULE HalTime -------------------------------
(***************************************************************************)
(* The time of day of the HAL (settimeofday, gettimeofday, times) and the  *)
(* sleeps that are longer than OSTimeDly counts: usleep                    *)
(* (HAL/src/alt_usleep.c), busy before the kernel runs, and                *)
(* OSTimeDlyHMSM (os_time.c).  The numbers of the code are parameters, so  *)
(* that TLC can count through their ends.                                  *)
(*                                                                         *)
(* Definitions named X_<fault> are faulty variants of X; nothing in the    *)
(* specification uses them.                                                *)
(***************************************************************************)
EXTENDS Integers

CONSTANTS
  TicksPerSec,   \* OS_TICKS_PER_SEC and alt_ticks_per_second(): 1000
  ALT_US,        \* the microseconds of a second: 1000000
  U32,           \* 2^32, the width of alt_u32
  U16,           \* 2^16, the width of what OSTimeDly takes
  INT_MAX,       \* the longest loop of alt_busy_sleep
  LoopsPerUs,    \* the turns of that loop in a microsecond: 16
  MaxTick,       \* bound: the clock counts so far
  SetTime,       \* the times of day it is set to, in microseconds
  Sleep,         \* the microseconds that usleep is asked for
  Period         \* the hours, minutes, seconds and milliseconds, as
                 \* <<seconds, milliseconds>>, that OSTimeDlyHMSM is asked for

UsPerTick == ALT_US \div TicksPerSec

(* What the constants are; a module that uses this one assumes it.         *)
TimeAssumption ==
  /\ {TicksPerSec, ALT_US, U32, U16, INT_MAX, LoopsPerUs} \subseteq Nat \ {0}
  /\ MaxTick \in 0 .. U32 - 1
  /\ ALT_US = UsPerTick * TicksPerSec
  /\ U16 % 2 = 0

VARIABLES
  OSRunning,
  _alt_nticks,
  alt_resettime,   \* tv_sec and tv_usec
  shown,           \* history: the time of day that it is
  setAt,           \* history: the tick at which it was last set
  sleep,           \* the sleeper: the call it is in, and what was asked
  ticks, loops,    \* locals of the two calls
  dly,             \* OSTCBDly: the ticks that OSTimeDly still waits
  slept,           \* history: the ticks waited since the call
  spun             \* history: the turns of busy loops since the call

timeVars ==
  <<OSRunning, _alt_nticks, alt_resettime, shown, setAt, sleep, ticks, loops, dly, slept,
    spun>>
sleepVars == <<sleep, ticks, loops, dly, slept, spun>>

Awake == [call |-> "none", asked |-> 0]

TimeInit ==
  /\ OSRunning = FALSE
  /\ _alt_nticks = 0
  /\ alt_resettime = <<0, 0>>
  /\ shown = 0 /\ setAt = 0
  /\ sleep = Awake
  /\ ticks = 0 /\ loops = 0 /\ dly = 0
  /\ slept = 0 /\ spun = 0

-----------------------------------------------------------------------------
(* TIME OF DAY                                                             *)

(* The microseconds of the ticks beyond whole seconds, in 32 bits as       *)
(* settimeofday counts them, and in 64 as gettimeofday does.               *)
Usec32 == ((_alt_nticks * UsPerTick) % U32) % ALT_US
Usec64 == (_alt_nticks * UsPerTick) % ALT_US

ALT_SETTIMEOFDAY_NoUsec(t) ==
  /\ alt_resettime' = <<t \div ALT_US - _alt_nticks \div TicksPerSec, t % ALT_US>>
  /\ shown' = t /\ setAt' = _alt_nticks
  /\ UNCHANGED <<OSRunning, _alt_nticks, sleepVars>>

ALT_SETTIMEOFDAY(t) ==
  /\ alt_resettime' =
       <<t \div ALT_US - _alt_nticks \div TicksPerSec, (t % ALT_US) - Usec32>>
  /\ shown' = t /\ setAt' = _alt_nticks
  /\ UNCHANGED <<OSRunning, _alt_nticks, sleepVars>>

(* A second is borrowed while the microseconds are negative, but not below *)
(* 0; and carried while they make one.                                     *)
ALT_GETTIMEOFDAY ==
  LET sec  == alt_resettime[1] + _alt_nticks \div TicksPerSec
      usec == alt_resettime[2] + Usec64
  IN  IF usec < 0 THEN IF sec <= 0 THEN <<0, 0>> ELSE <<sec - 1, usec + ALT_US>>
      ELSE <<sec + usec \div ALT_US, usec % ALT_US>>

(* times() counts all of the time as the system's.                         *)
ALT_TIMES == _alt_nticks

-----------------------------------------------------------------------------
(* SLEEPS                                                                  *)

(* alt_tick and OSTimeTick.                                                *)
Tick ==
  /\ _alt_nticks < MaxTick
  /\ _alt_nticks' = _alt_nticks + 1
  /\ shown' = shown + UsPerTick
  /\ IF dly > 0 THEN dly' = dly - 1 /\ slept' = slept + 1 ELSE UNCHANGED <<dly, slept>>
  /\ UNCHANGED <<OSRunning, alt_resettime, setAt, sleep, ticks, loops, spun>>

OSStart ==
  /\ ~OSRunning /\ OSRunning' = TRUE
  /\ sleep = Awake
  /\ UNCHANGED <<_alt_nticks, alt_resettime, shown, setAt, sleepVars>>

(* Long waits are loops of INT_MAX turns.  In the last loop after such     *)
(* ones the counter is compared with 0 once it has been decremented, so    *)
(* that a rest of 0 takes it through all of its values.                    *)
BigUs == INT_MAX \div LoopsPerUs

alt_busy_sleep(us) ==
  LET big  == us \div BigUs
      rest == (us - big * BigUs) * LoopsPerUs
  IN  big * INT_MAX + IF big > 0 /\ rest = 0 THEN U32 ELSE rest

(* usleep begins: before the kernel runs it is one busy loop.              *)
ALT_USLEEP(us) ==
  /\ sleep = Awake
  /\ IF OSRunning
       THEN /\ sleep' = [call |-> "usleep", asked |-> us]
            /\ ticks' = (us \div ALT_US) * TicksPerSec
                          + ((us % ALT_US) * TicksPerSec) \div ALT_US
            /\ spun' = 0
       ELSE /\ sleep' = [call |-> "busy", asked |-> us]
            /\ spun' = alt_busy_sleep(us)
            /\ UNCHANGED ticks
  /\ slept' = 0
  /\ UNCHANGED <<OSRunning, _alt_nticks, alt_resettime, shown, setAt, loops, dly>>

Slice_OneMore == U16

(* 0xffff, the most that OSTimeDly counts.                                 *)
Slice == U16 - 1

(* Its next OSTimeDly, of a whole slice ...                                *)
SleepSlice ==
  /\ sleep.call = "usleep" /\ dly = 0
  /\ ticks > Slice
  /\ dly' = Slice % U16
  /\ ticks' = ticks - Slice
  /\ UNCHANGED <<OSRunning, _alt_nticks, alt_resettime, shown, setAt, sleep, loops, slept, spun>>

(* ... or of the rest; what is less than a tick is spent in a busy loop.   *)
SleepRest ==
  /\ sleep.call = "usleep" /\ dly = 0
  /\ ticks <= Slice
  /\ dly' = ticks % U16
  /\ ticks' = 0
  /\ spun' = alt_busy_sleep(sleep.asked % UsPerTick)
  /\ sleep' = [sleep EXCEPT !.call = "done"]
  /\ UNCHANGED <<OSRunning, _alt_nticks, alt_resettime, shown, setAt, loops, slept>>

(* OSTimeDlyHMSM: milliseconds are rounded to the nearest tick; the low    *)
(* half of the ticks is waited for first, ...                              *)
HMSMTicks(sec, ms) ==
  sec * TicksPerSec + (TicksPerSec * (ms + 500 \div TicksPerSec)) \div 1000

OSTimeDlyHMSM(sec, ms) ==
  /\ OSRunning
  /\ sleep = Awake
  /\ <<sec, ms>> # <<0, 0>>
  /\ sleep' = [call |-> "hmsm", asked |-> <<sec, ms>>]
  /\ loops' = HMSMTicks(sec, ms) \div U16
  /\ dly' = HMSMTicks(sec, ms) % U16
  /\ slept' = 0 /\ spun' = 0
  /\ UNCHANGED <<OSRunning, _alt_nticks, alt_resettime, shown, setAt, ticks>>

(* ... then the high half, in halves of 65536 ticks; here ticks counts the *)
(* halves that are left of a turn of the loop.                             *)
HalfSlice ==
  /\ sleep.call = "hmsm" /\ dly = 0
  /\ \/ ticks > 0 /\ ticks' = ticks - 1 /\ UNCHANGED loops
     \/ ticks = 0 /\ loops > 0 /\ ticks' = 1 /\ loops' = loops - 1
  /\ dly' = U16 \div 2
  /\ UNCHANGED <<OSRunning, _alt_nticks, alt_resettime, shown, setAt, sleep, slept, spun>>

Over ==
  /\ dly = 0
  /\ \/ sleep.call \in {"busy", "done"}
     \/ sleep.call = "hmsm" /\ loops = 0 /\ ticks = 0

Returns ==
  /\ Over
  /\ sleep' = Awake
  /\ slept' = 0 /\ spun' = 0
  /\ UNCHANGED <<OSRunning, _alt_nticks, alt_resettime, shown, setAt, ticks, loops, dly>>

TimeNext ==
  \/ \E t \in SetTime : ALT_SETTIMEOFDAY(t)
  \/ Tick \/ OSStart
  \/ \E us \in Sleep : ALT_USLEEP(us)
  \/ SleepSlice \/ SleepRest
  \/ \E p \in Period : OSTimeDlyHMSM(p[1], p[2])
  \/ HalfSlice \/ Returns

-----------------------------------------------------------------------------
(* PROPERTIES                                                              *)

(* The clock shows the time it was set to and, from then on, what has      *)
(* passed, if it was set while the microseconds since the start fitted     *)
(* into 32 bits: within 71 minutes.  Set later, as MaxTick allows too, it  *)
(* may be off by what alt_settod.c:84 multiplies in 32 bits and            *)
(* alt_gettod.c in 64.  All this before the ticks themselves wrap.         *)
TimeOfDayIsKept ==
  setAt * UsPerTick < U32 => ALT_GETTIMEOFDAY = <<shown \div ALT_US, shown % ALT_US>>

(* A sleep waits for all of the time it is asked for and for no more than  *)
(* a turn of a busy loop a microsecond besides, however many pieces it     *)
(* comes in (alt_usleep.c:79-101, os_time.c:125-136); a busy wait of an   *)
(* exact number of long loops is not one of those that are asked for.      *)
SleepsAsAsked ==
  Over =>
    IF sleep.call = "hmsm"
      THEN LET exact == 1000 * TicksPerSec * sleep.asked[1] + TicksPerSec * sleep.asked[2]
           IN  /\ 1000 * slept > exact - 1000
               /\ 1000 * slept <= exact + 500
      ELSE /\ slept * UsPerTick * LoopsPerUs + spun >= sleep.asked * LoopsPerUs
           /\ slept * UsPerTick * LoopsPerUs + spun <= sleep.asked * (LoopsPerUs + 1)
=============================================================================
