------------------------------ MODULE UcosStat ------------------------------
(***************************************************************************)
(* The statistics task: the use of the processor, measured by how often    *)
(* the idle task counts (UCOSII/src/os_core.c), and the use of a task's    *)
(* stack, measured by the words that are still zero (os_task.c).           *)
(*                                                                         *)
(* A tick has SLOTS slots, each of the application or of the idle task,    *)
(* which counts once; the statistics task takes no time, but needs a       *)
(* moment that the application leaves it, and may be interrupted by it at  *)
(* any step.  While OSStatInit measures the application is quiet           *)
(* (os_core.c:797-808); this program never calls it.                       *)
(*                                                                         *)
(* Definitions named X_<fault> are faulty variants of X; nothing in the    *)
(* specification uses them.                                                *)
(***************************************************************************)
EXTENDS Naturals

CONSTANTS
  SLOTS,     \* of a tick
  TENTH,     \* OS_TICKS_PER_SEC / 10
  PERCENT,   \* 100
  SIZE       \* the words of the application's stack

(* What the constants are; a module that uses this one assumes it.         *)
StatAssumption ==
  /\ {SLOTS, TENTH, PERCENT, SIZE} \subseteq Nat \ {0}
  /\ PERCENT < 256 /\ (SLOTS * TENTH) % PERCENT = 0

VARIABLES
  OSIdleCtr, OSIdleCtrMax, OSIdleCtrRun, OSStatRdy, OSCPUUsage,
  slot,            \* of the present tick
  init, initDly,   \* the task that calls OSStatInit, and its delay
  stat, statDly,   \* OS_TaskStat, and its delay
  readings,        \* history: how many times the use was measured; 2: or more
  opt,             \* of the application's task: OS_TASK_OPT_STK_CHK, _CLR
  stack,           \* its words, from the first that was pushed; 0 or not
  depth,           \* how many are pushed
  pchk, nfree,     \* locals of OSTaskStkChk
  OSUsed,          \* its answer
  low,             \* history: the least depth since it began
  reach            \* history: the last word that has ever been other than 0

statVars  == <<OSIdleCtr, OSIdleCtrMax, OSIdleCtrRun, OSStatRdy, OSCPUUsage, slot, init, initDly,
               stat, statDly, readings, opt, stack, depth, pchk, nfree, OSUsed, low, reach>>
cpuVars   == <<OSIdleCtr, OSIdleCtrMax, OSIdleCtrRun, OSStatRdy, OSCPUUsage, readings>>
stackVars == <<opt, stack, depth, reach>>
checkVars == <<pchk, nfree, OSUsed, low>>

(* The last of the first n words of s that is not 0.                       *)
Deepest(s, n) == CHOOSE i \in 1 .. n : s[i] = 1 /\ \A m \in i + 1 .. n : s[m] = 0

(* What OSTaskStkInit pushes is not 0; what else the stack holds is zero   *)
(* if it is to be cleared for checks.                                      *)
OS_TaskStkClr ==
  IF opt = {"STK_CHK", "STK_CLR"} THEN [n \in 2 .. SIZE |-> 0] ELSE [n \in 2 .. SIZE |-> 1]

OSTaskStkInit == [n \in 1 .. SIZE |-> IF n = 1 THEN 1 ELSE OS_TaskStkClr[n]]

StatInit ==
  /\ OSIdleCtr = 0 /\ OSIdleCtrMax = 0 /\ OSIdleCtrRun = 0
  /\ OSStatRdy = FALSE /\ OSCPUUsage = 0
  /\ slot = 0
  /\ init = "app" /\ initDly = 0
  /\ stat = "poll" /\ statDly = 0
  /\ readings = 0
  /\ opt \in SUBSET {"STK_CHK", "STK_CLR"}
  /\ stack = OSTaskStkInit /\ depth = 1
  /\ pchk = 0 /\ nfree = 0 /\ OSUsed = 0 /\ low = 0
  /\ reach = Deepest(stack, SIZE)

-----------------------------------------------------------------------------
(* TIME                                                                    *)

Quiet     == init \in {"settle", "measure"}
InitReady == Quiet /\ initDly = 0
StatReady == stat # "suspended" /\ statDly = 0

(* More counts than fit in three windows are never read.                   *)
Most == 4 * SLOTS * TENTH

OS_TaskIdle ==
  /\ ~StatReady
  /\ OSIdleCtr' = IF OSIdleCtr < Most THEN OSIdleCtr + 1 ELSE Most

Application == ~Quiet /\ UNCHANGED OSIdleCtr

Slot ==
  /\ ~InitReady
  /\ OS_TaskIdle \/ Application
  /\ slot' = (slot + 1) % SLOTS
  /\ initDly' = IF slot' = 0 /\ initDly > 0 THEN initDly - 1 ELSE initDly
  /\ statDly' = IF slot' = 0 /\ statDly > 0 THEN statDly - 1 ELSE statDly
  /\ UNCHANGED <<OSIdleCtrMax, OSIdleCtrRun, OSStatRdy, OSCPUUsage, init, stat, readings,
                 stackVars, checkVars>>

-----------------------------------------------------------------------------
(* OSStatInit waits for a tick, ...                                        *)
OSStatInit ==
  /\ init = "app" /\ init' = "settle" /\ initDly' = 2
  /\ UNCHANGED <<cpuVars, slot, stat, statDly, stackVars, checkVars>>

(* ... clears the counter, ...                                             *)
ClearCtr ==
  /\ InitReady /\ init = "settle"
  /\ init' = "measure" /\ initDly' = TENTH
  /\ OSIdleCtr' = 0
  /\ UNCHANGED <<OSIdleCtrMax, OSIdleCtrRun, OSStatRdy, OSCPUUsage, slot, stat, statDly, readings,
                 stackVars, checkVars>>

(* ... and takes what it has counted in a tenth of a second.               *)
MeasureMax ==
  /\ InitReady /\ init = "measure"
  /\ init' = "done"
  /\ OSIdleCtrMax' = OSIdleCtr /\ OSStatRdy' = TRUE
  /\ UNCHANGED <<OSIdleCtr, OSIdleCtrRun, OSCPUUsage, slot, initDly, stat, statDly, readings,
                 stackVars, checkVars>>

(* OS_TaskStat waits until that has been done.                             *)
StatWaits ==
  /\ StatReady /\ stat = "poll"
  /\ IF ~OSStatRdy
       THEN statDly' = 2 * TENTH /\ UNCHANGED <<OSIdleCtrMax, OSCPUUsage, stat>>
       ELSE /\ OSIdleCtrMax' = OSIdleCtrMax \div PERCENT
            /\ IF OSIdleCtrMax' = 0
                 THEN OSCPUUsage' = 0 /\ stat' = "suspended"
                 ELSE stat' = "read" /\ UNCHANGED OSCPUUsage
            /\ UNCHANGED statDly
  /\ UNCHANGED <<OSIdleCtr, OSIdleCtrRun, OSStatRdy, slot, init, initDly, readings, stackVars,
                 checkVars>>

Reading(idleCtr) ==
  /\ StatReady /\ stat = "read" /\ stat' = "check"
  /\ OSIdleCtrRun' = OSIdleCtr
  /\ OSIdleCtr' = idleCtr
  /\ OSCPUUsage' = (PERCENT + 256 - OSIdleCtrRun' \div OSIdleCtrMax) % 256
  /\ readings' = IF readings = 2 THEN 2 ELSE readings + 1
  /\ UNCHANGED <<OSIdleCtrMax, OSStatRdy, slot, init, initDly, statDly, stackVars, checkVars>>

OS_TaskStat_NoReset == Reading(OSIdleCtr)

(* Its loop: the count since the last time; ...                            *)
OS_TaskStat == Reading(0)

(* ... the stack of each task that allows it, ...                          *)
OS_TaskStatStkChk ==
  /\ StatReady /\ stat = "check"
  /\ IF "STK_CHK" \in opt
       THEN stat' = "scan" /\ pchk' = SIZE /\ nfree' = 0 /\ low' = depth
       ELSE stat' = "checked" /\ UNCHANGED <<pchk, nfree, low>>
  /\ UNCHANGED <<cpuVars, slot, init, initDly, statDly, stackVars, OSUsed>>

(* (word by word from the end that is used last, interrupts on) ...        *)
OSTaskStkChk ==
  /\ StatReady /\ stat = "scan"
  /\ IF stack[pchk] = 0
       THEN pchk' = pchk - 1 /\ nfree' = nfree + 1 /\ UNCHANGED <<stat, OSUsed>>
       ELSE /\ OSUsed' = SIZE - nfree
            /\ stat' = "checked" /\ pchk' = 0 /\ nfree' = 0
  /\ UNCHANGED <<cpuVars, slot, init, initDly, statDly, stackVars, low>>

(* ... and a tenth of a second's delay.                                    *)
StatDelay ==
  /\ StatReady /\ stat = "checked"
  /\ stat' = "read" /\ statDly' = TENTH
  /\ OSUsed' = 0 /\ low' = 0
  /\ UNCHANGED <<cpuVars, slot, init, initDly, stackVars, pchk, nfree>>

-----------------------------------------------------------------------------
(* The application calls, with words that may be zero, and returns.        *)
Call(word) ==
  /\ ~Quiet /\ depth < SIZE
  /\ depth' = depth + 1
  /\ stack' = [stack EXCEPT ![depth + 1] = word]
  /\ reach' = IF Deepest(stack', SIZE) > reach THEN Deepest(stack', SIZE) ELSE reach
  /\ UNCHANGED <<cpuVars, slot, init, initDly, stat, statDly, opt, checkVars>>

Return ==
  /\ ~Quiet /\ depth > 1
  /\ depth' = depth - 1
  /\ low' = IF depth' < low THEN depth' ELSE low
  /\ UNCHANGED <<cpuVars, slot, init, initDly, stat, statDly, opt, stack, reach, pchk, nfree,
                 OSUsed>>

StatNext ==
  \/ Slot
  \/ OSStatInit \/ ClearCtr \/ MeasureMax
  \/ StatWaits \/ OS_TaskStat \/ OS_TaskStatStkChk \/ OSTaskStkChk \/ StatDelay
  \/ (\E word \in 0 .. 1 : Call(word)) \/ Return

-----------------------------------------------------------------------------
(* PROPERTIES                                                              *)

(* From the second reading on OSCPUUsage is the percentage, rounded up, of *)
(* the window's tenth of a second in which the idle task did not run, and  *)
(* at most 100, though the statistics task itself may be held up for any   *)
(* time and the window grows (os_core.c:1826-1836); the first reading also *)
(* counts what went before it.  A stack's check answers no less than what  *)
(* the task has on its stack throughout the check, and no more than it has *)
(* ever had, however it calls and returns meanwhile (os_task.c:898-912),   *)
(* and the search ends on the stack.                                       *)
StatisticsTell ==
  /\ readings = 2 =>
       LET full == SLOTS * TENTH
       IN  /\ OSIdleCtrRun <= full
           /\ OSCPUUsage = PERCENT - OSIdleCtrRun \div (full \div PERCENT)
  /\ "STK_CHK" \in opt /\ stat = "checked" =>
       Deepest(stack, low) <= OSUsed /\ OSUsed <= reach
  /\ stat = "scan" => pchk = SIZE - nfree /\ pchk >= 1
=============================================================================
