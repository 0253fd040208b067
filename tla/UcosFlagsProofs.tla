-------------------------- MODULE UcosFlagsProofs --------------------------
(***************************************************************************)
(* That the kernel's tables stay exact under every service that the serial *)
(* drivers and the event flags use: lemmas, one for each service, for the  *)
(* proofs about the modules that extend UcosFlags.                         *)
(*                                                                         *)
(* FlagWaitersExact and NobodyStranded are not inductive.  The invariant   *)
(* KernelSound adds what they rest on: that the priority table and the     *)
(* tasks' priorities are inverse to each other, what the status bits of a  *)
(* waiting task can be, that the wait lists of the semaphores are exact    *)
(* too, that all who wait for flags do so for one polarity, and that the   *)
(* processor belongs to a task that is ready unless it is about to call    *)
(* OS_Sched.                                                               *)
(***************************************************************************)
EXTENDS UcosFlags, TLAPS, WellFoundedInduction

(* The priority table and the tasks' priorities are inverse.               *)
PrioExact ==
  /\ OSTCBPrio[Idle] = IdlePrio
  /\ \A t \in TCB : OSTCBPrioTbl[OSTCBPrio[t]] = t
  /\ \A p \in AnyPrio : OSTCBPrioTbl[p] \in TCB => OSTCBPrio[OSTCBPrioTbl[p]] = p

(* The idle task never waits.                                              *)
IdleFree == pc[Idle] = "task" /\ Dly[Idle] = 0 /\ Stat[Idle] = {}

(* What a task waits for shows in its status, and in nothing else.         *)
StatusExact ==
  \A t \in TCB :
    /\ EventMultiPtr[t] = {}
    /\ Stat[t] \subseteq {"SEM", "FLAG", "SUSPEND"}
    /\ "SEM" \in Stat[t] => pc[t] = "pend"
    /\ "FLAG" \in Stat[t] => pc[t] = "flag"
    /\ pc[t] = "pend" => Dly[t] = 0
    /\ pc[t] = "flag" /\ Dly[t] > 0 => "FLAG" \in Stat[t]
    /\ StatPend[t] = "TO" => pc[t] = "flag" /\ "FLAG" \notin Stat[t]
    /\ StatPend[t] # "ABORT"

(* A task that waits for flags, or has waited, and not yet run again, has a *)
(* node, and has been given some of the flags that the node names.         *)
NodesExact ==
  \A t \in TCB : IF pc[t] = "flag" THEN node[t] \in Waits /\ FlagsRdy[t] \subseteq node[t].flags
                                     ELSE FlagsRdy[t] = {}

(* The wait list of a semaphore holds those who wait for it.               *)
SemWaitersExact ==
  /\ \A e \in Event : \A t \in TCB :
       OSTCBPrio[t] \in OSEventTbl[e] <=> "SEM" \in Stat[t] /\ EventPtr[t] = e
  /\ \A e \in Event : \A p \in OSEventTbl[e] : OSTCBPrioTbl[p] \in TCB

(* All who wait for flags wait for set ones, or all for clear ones.        *)
SamePolarity ==
  \A t, u \in TCB : pc[t] = "flag" /\ pc[u] = "flag" => node[t].set = node[u].set

(* What is on the ready list is a task's.                                  *)
ReadyExact == \A p \in OSRdyTbl : OSTCBPrioTbl[p] \in TCB

TablesTypeOK ==
  /\ OSTCBPrioTbl \in [AnyPrio -> TCB \cup {NULL, RESERVED}]
  /\ OSTCBPrio \in [TCB -> AnyPrio]
  /\ Stat \in [TCB -> SUBSET (PEND_ANY \cup {"MULTI", "SUSPEND"})]
  /\ StatPend \in [TCB -> {"OK", "TO", "ABORT"}]
  /\ Dly \in [TCB -> Nat]
  /\ OSRdyTbl \subseteq AnyPrio
  /\ EventPtr \in [TCB -> Event \cup {NULL}]
  /\ EventMultiPtr \in [TCB -> SUBSET Event]
  /\ OSEventTbl \in [Event -> SUBSET AnyPrio]
  /\ pc \in [TCB -> {"task", "flag", "pend"}]
  /\ FlagsTypeOK

(* All but the processor, which the end of a service settles.              *)
TablesSound ==
  /\ TablesTypeOK /\ PrioExact /\ IdleFree /\ ReadyExact
  /\ StatusExact /\ NodesExact /\ SemWaitersExact /\ SamePolarity
  /\ FlagWaitersExact /\ NobodyStranded

(* The running task is ready, unless it is about to call OS_Sched.         *)
Processor ==
  /\ OSTCBCur \in TCB
  /\ sched \in [TCB -> BOOLEAN]
  /\ OSLockNesting = 0
  /\ OSPrioCur = OSTCBPrio[OSTCBCur]
  /\ ~sched[OSTCBCur] => OSTCBPrio[OSTCBCur] \in OSRdyTbl

KernelSound == TablesSound /\ Processor

tableVars == <<prioVars, stateVars, waitVars, flagVars, pc>>

-----------------------------------------------------------------------------
(* Sets of tasks and of priorities.                                        *)

LEMMA PrioImage ==
  ASSUME TablesTypeOK, PrioExact, NEW S \in SUBSET TCB, NEW t \in TCB
  PROVE  OSTCBPrio[t] \in {OSTCBPrio[u] : u \in S} <=> t \in S
  BY DEF TablesTypeOK, PrioExact

LEMMA PrioIsNat == AnyPrio \subseteq Nat /\ IdlePrio \in AnyPrio
  BY PrioAssumption DEF AnyPrio

LEMMA LeastIn ==
  ASSUME NEW S, S \subseteq Nat, S # {}
  PROVE  \E p \in S : \A q \in S : p <= q
  <1> DEFINE R == {ss \in Nat \X Nat : ss[1] < ss[2]}
  <1>1. IsWellFoundedOn(R, Nat)
    BY NatLessThanWellFounded DEF OpToRel
  <1>2. \E x \in S : \A y \in S : ~(<<y, x>> \in R)
    BY <1>1, WFMin
  <1>3. PICK x \in S : \A y \in S : ~(<<y, x>> \in R)
    BY <1>2
  <1>4. \A y \in S : ~(y < x)
    BY <1>3
  <1>. QED
    BY <1>4, x \in Nat

LEMMA MostUrgentIsIn ==
  ASSUME NEW S, S \subseteq AnyPrio, S # {}
  PROVE  MostUrgent(S) \in S
  <1>1. \E p \in S : \A q \in S : p <= q
    BY LeastIn, PrioIsNat
  <1>. QED
    BY <1>1 DEF MostUrgent

LEMMA IdleReady == TablesSound => IdlePrio \in OSRdyTbl
  BY IdleAssumption DEF TablesSound, FlagWaitersExact, IdleFree, PrioExact, WaitsForFlags

(* A task that runs its own code or a service is held by nothing.          *)
LEMMA RunningFree ==
  ASSUME KernelSound, NEW t \in TCB, Running(t)
  PROVE  Stat[t] = {} /\ Dly[t] = 0 /\ OSTCBPrio[t] \in OSRdyTbl
  <1>1. OSTCBPrio[t] \in OSRdyTbl
    BY DEF KernelSound, Processor, Running
  <1>2. Dly[t] = 0 /\ Stat[t] \cap {"SUSPEND", "SEM"} = {} /\ ~WaitsForFlags(t)
    BY <1>1 DEF KernelSound, TablesSound, FlagWaitersExact, TablesTypeOK
  <1>. QED
    BY <1>1, <1>2 DEF KernelSound, TablesSound, StatusExact, WaitsForFlags

-----------------------------------------------------------------------------
(* The processor.                                                          *)

LEMMA TablesFrame == TablesSound /\ UNCHANGED tableVars => TablesSound'
  BY DEF TablesSound, tableVars, prioVars, stateVars, waitVars, flagVars, TablesTypeOK, FlagsTypeOK,
     PrioExact, IdleFree, ReadyExact, StatusExact, NodesExact, SemWaitersExact, SamePolarity,
     FlagWaitersExact, WaitsForFlags, NobodyStranded, OSFlagQuery

LEMMA IntExitKeeps ==
  ASSUME Processor, TablesSound', UNCHANGED prioVars, OSIntExit
  PROVE  Processor'
  <1>1. MostUrgent(OSRdyTbl') \in OSRdyTbl'
    <2>1. (OSRdyTbl \subseteq AnyPrio)' /\ (IdlePrio \in OSRdyTbl)'
      BY IdleReady, PTL DEF TablesSound, TablesTypeOK
    <2>. QED
      BY <2>1, MostUrgentIsIn
  <1>2. /\ OSTCBPrioTbl'[MostUrgent(OSRdyTbl')] \in TCB
        /\ OSTCBPrio'[OSTCBPrioTbl'[MostUrgent(OSRdyTbl')]] = MostUrgent(OSRdyTbl')
    BY <1>1 DEF TablesSound, ReadyExact, PrioExact, TablesTypeOK
  <1>. QED
    BY <1>1, <1>2 DEF Processor, OSIntExit, OS_SchedNew, prioVars

LEMMA ThenSchedKeeps ==
  ASSUME Processor, NEW t \in TCB, OSTCBCur = t, NEW b \in BOOLEAN, ThenSched(t, b),
         UNCHANGED prioVars, ~b => OSTCBPrio[t] \in OSRdyTbl'
  PROVE  Processor'
  BY DEF Processor, ThenSched, prioVars

LEMMA SchedKeeps ==
  ASSUME KernelSound, NEW t \in TCB, OS_Sched(t), UNCHANGED flagVars
  PROVE  KernelSound'
  <1>1. TablesSound'
    BY TablesFrame DEF KernelSound, OS_Sched, tableVars
  <1>2. MostUrgent(OSRdyTbl) \in OSRdyTbl
    BY IdleReady, MostUrgentIsIn DEF KernelSound, TablesSound, TablesTypeOK
  <1>3. /\ OSTCBPrioTbl[MostUrgent(OSRdyTbl)] \in TCB
        /\ OSTCBPrio[OSTCBPrioTbl[MostUrgent(OSRdyTbl)]] = MostUrgent(OSRdyTbl)
    BY <1>2 DEF KernelSound, TablesSound, ReadyExact, PrioExact, TablesTypeOK
  <1>4. Processor'
    BY <1>2, <1>3 DEF KernelSound, Processor, OS_Sched, OS_SchedNew, prioVars, stateVars
  <1>. QED
    BY <1>1, <1>4 DEF KernelSound

(* A step of a task or of a device in which the kernel has no part.        *)
LEMMA KernelFrame == KernelSound /\ UNCHANGED <<coreVars, flagVars>> => KernelSound'
  <1>1. KernelSound /\ UNCHANGED <<coreVars, flagVars>> => TablesSound'
    BY TablesFrame DEF KernelSound, tableVars, coreVars
  <1>. QED
    BY <1>1 DEF KernelSound, Processor, coreVars, cpuVars, prioVars, stateVars

-----------------------------------------------------------------------------
(* The services of the clock and of os_task.c.                             *)

LEMMA TickKeeps ==
  ASSUME TablesSound, OSTimeTick, UNCHANGED <<flagVars, pc>>
  PROVE  TablesSound'
  <1> DEFINE S == {t \in TCB : Dly[t] = 1}
             W == {u \in S : "SUSPEND" \notin Stat[u]}
  <1> USE DEF TablesSound, flagVars, prioVars, waitVars
  <1>1. S \subseteq TCB /\ \A t \in TCB : t \in S <=> Dly[t] = 1
    OBVIOUS
  <1>2. \A t \in TCB : OSTCBPrio[t] \in {OSTCBPrio[u] : u \in W} <=> t \in W
    BY PrioImage
  <1>3. /\ Dly' = [t \in TCB |-> IF Dly[t] > 0 THEN Dly[t] - 1 ELSE 0]
        /\ StatPend' = [t \in TCB |->
             IF t \notin S THEN StatPend[t] ELSE IF Stat[t] \cap PEND_ANY # {} THEN "TO" ELSE "OK"]
        /\ Stat' = [t \in TCB |-> IF t \in S THEN Stat[t] \ PEND_ANY ELSE Stat[t]]
        /\ OSRdyTbl' = OSRdyTbl \cup {OSTCBPrio[u] : u \in W}
    BY DEF OSTimeTick, TimersEnd
  <1>4. UNCHANGED <<prioVars, waitVars>>
    BY DEF OSTimeTick, TimersEnd
  <1> HIDE DEF S
  <1>5. \A t \in S : "SEM" \notin Stat[t] /\ (pc[t] = "flag" <=> "FLAG" \in Stat[t])
    BY <1>1 DEF StatusExact, TablesTypeOK
  <1>6. TablesTypeOK'
    BY <1>1, <1>3, <1>4 DEF TablesTypeOK, FlagsTypeOK
  <1>7. PrioExact' /\ IdleFree' /\ ReadyExact'
    <2>1. PrioExact'
      BY <1>4 DEF PrioExact
    <2>2. IdleFree'
      BY <1>3, IdleAssumption DEF IdleFree
    <2>3. ReadyExact'
      BY <1>3, <1>4 DEF ReadyExact, PrioExact, S
    <2>. QED
      BY <2>1, <2>2, <2>3
  <1>8. StatusExact'
    BY <1>1, <1>3, <1>4, <1>5 DEF StatusExact, PEND_ANY, TablesTypeOK
  <1>9. NodesExact' /\ SamePolarity' /\ NobodyStranded'
    BY DEF NodesExact, SamePolarity, NobodyStranded, OSFlagQuery
  <1>10. SemWaitersExact'
    BY <1>3, <1>4, <1>5 DEF SemWaitersExact, PEND_ANY
  <1>11. FlagWaitersExact'
    <2>1. \A t \in TCB : WaitsForFlags(t) \/ (pc[t] = "flag" /\ StatPend[t] = "TO") <=>
                         (WaitsForFlags(t) \/ (pc[t] = "flag" /\ StatPend[t] = "TO"))'
      BY <1>1, <1>3, <1>5 DEF WaitsForFlags, PEND_ANY, StatusExact
    <2>2. \A g \in Group : (OSFlagWaitList[g] =
            {t \in TCB : pc[t] = "flag" /\ node[t].grp = g /\
                         (WaitsForFlags(t) \/ StatPend[t] = "TO")})'
      BY <2>1 DEF FlagWaitersExact, WaitsForFlags
    <2>3. \A t \in TCB : (OSTCBPrio[t] \notin OSRdyTbl <=>
            (WaitsForFlags(t) \/ Dly[t] > 0 \/ "SUSPEND" \in Stat[t] \/ "SEM" \in Stat[t]))'
      BY <1>1, <1>2, <1>3, <1>4, <1>5 DEF FlagWaitersExact, WaitsForFlags, PEND_ANY, TablesTypeOK
    <2>. QED
      BY <2>2, <2>3 DEF FlagWaitersExact
  <1>. QED
    BY <1>6, <1>7, <1>8, <1>9, <1>10, <1>11

LEMMA DelayKeeps ==
  ASSUME KernelSound, NEW t \in TCB, InTask(t), NEW ticks \in Ticks, OSTimeDly(t, ticks),
         UNCHANGED <<flagVars, pc>>
  PROVE  TablesSound'
  <1> USE DEF KernelSound, TablesSound, flagVars, prioVars, waitVars
  <1>1. Stat[t] = {} /\ ticks \in Nat /\ ticks > 0
    BY RunningFree, TicksAssumption DEF InTask
  <1>2. /\ Dly' = [Dly EXCEPT ![t] = ticks]
        /\ OSRdyTbl' = OSRdyTbl \ {OSTCBPrio[t]}
        /\ UNCHANGED <<Stat, StatPend, prioVars, waitVars>>
    BY DEF OSTimeDly
  <1>3. TablesTypeOK'
    BY <1>1, <1>2 DEF TablesTypeOK, FlagsTypeOK
  <1>4. PrioExact' /\ IdleFree' /\ ReadyExact'
    BY <1>2 DEF PrioExact, IdleFree, ReadyExact, InTask, TablesTypeOK
  <1>5. StatusExact'
    BY <1>2 DEF StatusExact, InTask, TablesTypeOK
  <1>6. NodesExact' /\ SamePolarity' /\ NobodyStranded' /\ SemWaitersExact'
    BY <1>2 DEF NodesExact, SamePolarity, NobodyStranded, OSFlagQuery, SemWaitersExact
  <1>7. FlagWaitersExact'
    BY <1>1, <1>2 DEF FlagWaitersExact, WaitsForFlags, PrioExact, TablesTypeOK
  <1>. QED
    BY <1>3, <1>4, <1>5, <1>6, <1>7

LEMMA SuspendKeeps ==
  ASSUME TablesSound, NEW p \in Prio, OSTaskSuspend(p), UNCHANGED <<flagVars, pc>>
  PROVE  TablesSound'
  <1> USE DEF TablesSound, flagVars, prioVars, waitVars
  <1>1. PICK t \in TCB \ {Idle} :
          /\ t = OSTCBPrioTbl[p]
          /\ OSRdyTbl' = OSRdyTbl \ {OSTCBPrio[t]}
          /\ Stat' = [Stat EXCEPT ![t] = @ \cup {"SUSPEND"}]
          /\ UNCHANGED <<StatPend, Dly, prioVars, waitVars>>
    BY DEF OSTaskSuspend, HasTask
  <1>2. TablesTypeOK'
    BY <1>1 DEF TablesTypeOK, FlagsTypeOK
  <1>3. PrioExact' /\ IdleFree' /\ ReadyExact'
    BY <1>1 DEF PrioExact, IdleFree, ReadyExact, TablesTypeOK
  <1>4. StatusExact'
    BY <1>1 DEF StatusExact, TablesTypeOK
  <1>5. NodesExact' /\ SamePolarity' /\ NobodyStranded' /\ SemWaitersExact'
    BY <1>1 DEF NodesExact, SamePolarity, NobodyStranded, OSFlagQuery, SemWaitersExact, TablesTypeOK
  <1>6. \A u \in TCB : WaitsForFlags(u)' <=> WaitsForFlags(u)
    BY <1>1 DEF WaitsForFlags, TablesTypeOK
  <1>7. FlagWaitersExact'
    BY <1>1, <1>6 DEF FlagWaitersExact, PrioExact, TablesTypeOK
  <1>. QED
    BY <1>2, <1>3, <1>4, <1>5, <1>7

LEMMA ResumeKeeps ==
  ASSUME TablesSound, NEW p \in Prio, OSTaskResume(p), UNCHANGED <<flagVars, pc>>
  PROVE  TablesSound' /\ OSRdyTbl \subseteq OSRdyTbl'
  <1> USE DEF TablesSound, flagVars, prioVars, waitVars
  <1>1. PICK t \in TCB \ {Idle} :
          /\ "SUSPEND" \in Stat[t]
          /\ OSRdyTbl' = IF Stat[t] = {"SUSPEND"} /\ Dly[t] = 0
                           THEN OSRdyTbl \cup {OSTCBPrio[t]} ELSE OSRdyTbl
          /\ Stat' = [Stat EXCEPT ![t] = @ \ {"SUSPEND"}]
          /\ UNCHANGED <<StatPend, Dly, prioVars, waitVars>>
    BY DEF OSTaskResume, HasTask
  <1>2. TablesTypeOK'
    BY <1>1 DEF TablesTypeOK, FlagsTypeOK
  <1>3. PrioExact' /\ IdleFree' /\ ReadyExact'
    BY <1>1 DEF PrioExact, IdleFree, ReadyExact, TablesTypeOK
  <1>4. StatusExact'
    BY <1>1 DEF StatusExact, TablesTypeOK
  <1>5. NodesExact' /\ SamePolarity' /\ NobodyStranded' /\ SemWaitersExact'
    BY <1>1 DEF NodesExact, SamePolarity, NobodyStranded, OSFlagQuery, SemWaitersExact, TablesTypeOK
  <1>6. \A u \in TCB : WaitsForFlags(u)' <=> WaitsForFlags(u)
    BY <1>1 DEF WaitsForFlags, TablesTypeOK
  <1>7. FlagWaitersExact'
    <2>1. \A u \in TCB : u # t => (OSTCBPrio[u] \in OSRdyTbl' <=> OSTCBPrio[u] \in OSRdyTbl)
      BY <1>1 DEF PrioExact, TablesTypeOK
    <2>2. Stat[t] = {"SUSPEND"} <=> ~("FLAG" \in Stat[t] \/ "SEM" \in Stat[t])
      BY <1>1 DEF StatusExact, TablesTypeOK
    <2>3. OSTCBPrio[t] \notin OSRdyTbl' <=> ("FLAG" \in Stat[t] \/ "SEM" \in Stat[t] \/ Dly[t] > 0)
      BY <1>1, <2>2 DEF FlagWaitersExact, TablesTypeOK
    <2>. QED
      BY <1>1, <1>6, <2>1, <2>3 DEF FlagWaitersExact, StatusExact, WaitsForFlags, TablesTypeOK
  <1>. QED
    BY <1>1, <1>2, <1>3, <1>4, <1>5, <1>7

-----------------------------------------------------------------------------
(* The semaphores.                                                         *)

SemWaiters(e) == {t \in TCB : "SEM" \in Stat[t] /\ EventPtr[t] = e}

LEMMA WaitersAre ==
  ASSUME TablesTypeOK, PrioExact, SemWaitersExact, NEW e \in Event
  PROVE  Waiters(e) = SemWaiters(e)
  <1>1. \A t \in TCB : t \in Waiters(e) <=> OSTCBPrio[t] \in OSEventTbl[e]
    BY DEF Waiters, PrioExact, TablesTypeOK, SemWaitersExact
  <1>2. Waiters(e) \subseteq TCB
    BY DEF Waiters, SemWaitersExact
  <1>. QED
    BY <1>1, <1>2 DEF SemWaiters, SemWaitersExact

(* A post goes to exactly one of those who wait.                           *)
LEMMA OneFirstWaiter ==
  ASSUME TablesTypeOK, PrioExact, SemWaitersExact, NEW e \in Event, OSEventTbl[e] # {}
  PROVE  \E u \in SemWaiters(e) : FirstWaiter(e) = {u}
  <1> DEFINE P == {OSTCBPrio[t] : t \in SemWaiters(e)}
  <1>1. Waiters(e) = SemWaiters(e)
    BY WaitersAre
  <1>2. SemWaiters(e) \subseteq TCB /\ SemWaiters(e) # {}
    <2>1. PICK p \in OSEventTbl[e] : OSTCBPrioTbl[p] \in TCB
      BY DEF SemWaitersExact
    <2>. QED
      BY <1>1, <2>1 DEF Waiters, SemWaiters
  <1>3. P \subseteq Nat /\ P # {}
    <2>1. \A t \in TCB : OSTCBPrio[t] \in Nat
      BY PrioIsNat DEF TablesTypeOK
    <2>. QED
      BY <1>2, <2>1
  <1>4. PICK p \in P : \A q \in P : p <= q
    BY <1>3, LeastIn
  <1>5. PICK u \in SemWaiters(e) : OSTCBPrio[u] = p
    BY <1>4
  <1>6. \A t \in SemWaiters(e) : OSTCBPrio[u] <= OSTCBPrio[t]
    BY <1>4, <1>5
  <1>7. \A t \in SemWaiters(e) : OSTCBPrio[t] <= OSTCBPrio[u] => t = u
    <2>1. \A t \in SemWaiters(e) : OSTCBPrio[t] \in Nat
      BY <1>3
    <2>. QED
      BY <1>2, <1>5, <1>6, <2>1 DEF PrioExact
  <1>. QED
    BY <1>1, <1>5, <1>6, <1>7 DEF FirstWaiter

LEMMA SemBlockKeeps ==
  ASSUME KernelSound, NEW t \in TCB, InTask(t), NEW e \in Event,
         Block(OSRdyTbl, t, {"SEM"}, 0), OS_EventTaskWait(t, e),
         pc' = [pc EXCEPT ![t] = "pend"], UNCHANGED <<prioVars, flagVars>>
  PROVE  TablesSound'
  <1> USE DEF KernelSound, TablesSound, flagVars, prioVars, waitVars
  <1>1. Stat[t] = {} /\ Dly[t] = 0 /\ pc[t] = "task"
    BY RunningFree DEF InTask
  <1>2. /\ Stat' = [Stat EXCEPT ![t] = {"SEM"}]
        /\ StatPend' = [StatPend EXCEPT ![t] = "OK"]
        /\ Dly' = [Dly EXCEPT ![t] = 0]
        /\ OSRdyTbl' = OSRdyTbl \ {OSTCBPrio[t]}
        /\ EventPtr' = [EventPtr EXCEPT ![t] = e]
        /\ OSEventTbl' = [OSEventTbl EXCEPT ![e] = @ \cup {OSTCBPrio[t]}]
        /\ UNCHANGED EventMultiPtr
    BY <1>1 DEF Block, OS_EventTaskWait, TablesTypeOK
  <1>3. TablesTypeOK'
    BY <1>2 DEF TablesTypeOK, FlagsTypeOK, PEND_ANY
  <1>4. PrioExact' /\ IdleFree' /\ ReadyExact'
    BY <1>2 DEF PrioExact, IdleFree, ReadyExact, InTask, TablesTypeOK
  <1>5. StatusExact'
    BY <1>1, <1>2 DEF StatusExact, TablesTypeOK
  <1>6. NodesExact' /\ SamePolarity' /\ NobodyStranded'
    BY <1>1, <1>2 DEF NodesExact, SamePolarity, NobodyStranded, OSFlagQuery, TablesTypeOK
  <1>7. SemWaitersExact'
    BY <1>1, <1>2 DEF SemWaitersExact, PrioExact, TablesTypeOK
  <1>8. \A u \in TCB : (WaitsForFlags(u)' <=> WaitsForFlags(u)) /\
                       ((pc[u] = "flag")' <=> pc[u] = "flag")
    BY <1>1, <1>2 DEF WaitsForFlags, TablesTypeOK
  <1>9. FlagWaitersExact'
    BY <1>1, <1>2, <1>8 DEF FlagWaitersExact, PrioExact, TablesTypeOK
  <1>. QED
    BY <1>3, <1>4, <1>5, <1>6, <1>7, <1>9

LEMMA PendEndsKeeps ==
  ASSUME KernelSound, NEW t \in TCB, OSSemPendEnds(t)
  PROVE  KernelSound'
  <1> USE DEF KernelSound, TablesSound, flagVars, prioVars, waitVars, cpuVars
  <1>1. Stat[t] = {} /\ pc[t] = "pend" /\ StatPend[t] = "OK" /\ EventMultiPtr[t] = {}
    BY RunningFree DEF OSSemPendEnds, StatusExact, TablesTypeOK
  <1>2. /\ UNCHANGED <<Stat, Dly, OSRdyTbl, OSEventTbl, EventMultiPtr, StatPend>>
        /\ EventPtr' = [EventPtr EXCEPT ![t] = NULL]
        /\ pc' = [pc EXCEPT ![t] = "task"]
        /\ UNCHANGED <<prioVars, cpuVars, flagVars>>
    BY <1>1 DEF OSSemPendEnds, PendEnds, RemoveFrom, TablesTypeOK
  <1>3. TablesTypeOK'
    BY <1>2 DEF TablesTypeOK, FlagsTypeOK
  <1>4. PrioExact' /\ IdleFree' /\ ReadyExact'
    BY <1>2 DEF PrioExact, IdleFree, ReadyExact, TablesTypeOK
  <1>5. StatusExact'
    BY <1>1, <1>2 DEF StatusExact, TablesTypeOK
  <1>6. NodesExact' /\ SamePolarity' /\ NobodyStranded'
    BY <1>1, <1>2 DEF NodesExact, SamePolarity, NobodyStranded, OSFlagQuery, TablesTypeOK
  <1>7. SemWaitersExact'
    BY <1>1, <1>2 DEF SemWaitersExact, TablesTypeOK
  <1>8. \A u \in TCB : (WaitsForFlags(u)' <=> WaitsForFlags(u)) /\
                       ((pc[u] = "flag")' <=> pc[u] = "flag")
    BY <1>1, <1>2 DEF WaitsForFlags, TablesTypeOK
  <1>9. FlagWaitersExact'
    BY <1>2, <1>8 DEF FlagWaitersExact
  <1>10. Processor'
    BY <1>2 DEF Processor
  <1>. QED
    BY <1>3, <1>4, <1>5, <1>6, <1>7, <1>9, <1>10

LEMMA SemWakeKeeps ==
  ASSUME TablesSound, NEW e \in Event, OSEventTbl[e] # {},
         OS_EventTaskRdy(OSRdyTbl, e, FirstWaiter(e), {"SEM"}, "OK"),
         UNCHANGED <<prioVars, flagVars, pc>>
  PROVE  TablesSound'
  <1> USE DEF TablesSound, flagVars, prioVars, waitVars
  <1>1. PICK u \in TCB : "SEM" \in Stat[u] /\ EventPtr[u] = e /\ FirstWaiter(e) = {u}
    BY OneFirstWaiter DEF SemWaiters
  <1>2. /\ pc[u] = "pend" /\ Dly[u] = 0 /\ StatPend[u] = "OK"
        /\ \A t \in TCB : EventMultiPtr[t] = {}
        /\ "FLAG" \notin Stat[u]
    BY <1>1 DEF StatusExact, TablesTypeOK
  <1>3. /\ Stat' = [Stat EXCEPT ![u] = @ \ {"SEM"}]
        /\ OSRdyTbl' = IF "SUSPEND" \notin Stat[u] THEN OSRdyTbl \cup {OSTCBPrio[u]} ELSE OSRdyTbl
        /\ OSEventTbl' = [OSEventTbl EXCEPT ![e] = @ \ {OSTCBPrio[u]}]
        /\ UNCHANGED <<Dly, StatPend, EventPtr, EventMultiPtr>>
    <2>1. Stat' = [Stat EXCEPT ![u] = @ \ {"SEM"}] /\ UNCHANGED <<Dly, StatPend, EventMultiPtr>>
      BY <1>1, <1>2 DEF OS_EventTaskRdy, TablesTypeOK
    <2>2. EventPtr' = EventPtr
      BY <1>1, <1>2 DEF OS_EventTaskRdy, TablesTypeOK
    <2>3. OSRdyTbl' = IF "SUSPEND" \notin Stat[u] THEN OSRdyTbl \cup {OSTCBPrio[u]} ELSE OSRdyTbl
      BY <1>1 DEF OS_EventTaskRdy
    <2>4. OSEventTbl' = [OSEventTbl EXCEPT ![e] = @ \ {OSTCBPrio[u]}]
      <3>1. \A d \in Event : {v \in FirstWaiter(e) : d = e \/ d \in EventMultiPtr[v]} =
                              IF d = e THEN {u} ELSE {}
        BY <1>1, <1>2
      <3>2. OSEventTbl' = [d \in Event |-> OSEventTbl[d] \ {OSTCBPrio[t] : t \in IF d = e THEN {u} ELSE {}}]
        BY <3>1 DEF OS_EventTaskRdy
      <3>. QED
        BY <3>2 DEF TablesTypeOK
    <2>. QED
      BY <2>1, <2>2, <2>3, <2>4
  <1>4. TablesTypeOK'
    BY <1>3 DEF TablesTypeOK, FlagsTypeOK
  <1>5. PrioExact' /\ IdleFree' /\ ReadyExact'
    BY <1>1, <1>3 DEF PrioExact, IdleFree, ReadyExact, TablesTypeOK
  <1>6. StatusExact'
    BY <1>3 DEF StatusExact, TablesTypeOK
  <1>7. NodesExact' /\ SamePolarity' /\ NobodyStranded'
    BY DEF NodesExact, SamePolarity, NobodyStranded, OSFlagQuery
  <1>8. SemWaitersExact'
    BY <1>1, <1>3 DEF SemWaitersExact, PrioExact, TablesTypeOK
  <1>9. \A t \in TCB : WaitsForFlags(t)' <=> WaitsForFlags(t)
    BY <1>2, <1>3 DEF WaitsForFlags, TablesTypeOK
  <1>10. FlagWaitersExact'
    <2>1. \A t \in TCB : t # u => (OSTCBPrio[t] \in OSRdyTbl' <=> OSTCBPrio[t] \in OSRdyTbl)
      BY <1>3 DEF PrioExact
    <2>2. OSTCBPrio[u] \notin OSRdyTbl' <=> "SUSPEND" \in Stat[u]
      BY <1>1, <1>3 DEF FlagWaitersExact
    <2>3. ~WaitsForFlags(u) /\ ~(Dly[u] > 0)
      BY <1>2 DEF WaitsForFlags
    <2>. QED
      BY <1>3, <1>9, <2>1, <2>2, <2>3 DEF FlagWaitersExact, TablesTypeOK
  <1>. QED
    BY <1>4, <1>5, <1>6, <1>7, <1>8, <1>10

-----------------------------------------------------------------------------
(* The event flags.                                                        *)

(* With fewer of the flags it waits for, a wait that was not satisfied is  *)
(* not satisfied either.                                                   *)
LEMMA StaysUnsatisfied ==
  ASSUME NEW w \in Waits, NEW S, NEW T, ~Satisfied(w, S),
         w.set => T \subseteq S, ~w.set => S \subseteq T
  PROVE  ~Satisfied(w, T)
  <1>1. Found(w, T) \subseteq Found(w, S) /\ Found(w, S) \subseteq w.flags
    <2>1. CASE w.set
      BY <2>1 DEF Found
    <2>2. CASE ~w.set
      BY <2>2 DEF Found
    <2>. QED
      BY <2>1, <2>2
  <1>. QED
    BY <1>1 DEF Satisfied

(* Consuming flags satisfies nobody of the same polarity.                  *)
LEMMA ConsumeSatisfiesNobody ==
  ASSUME NEW v \in Waits, NEW w \in Waits, v.set = w.set, NEW S, NEW found,
         ~Satisfied(v, S)
  PROVE  ~Satisfied(v, Consume(w, S, found))
  <1>1. CASE w.set
    <2>1. Consume(w, S, found) \subseteq S
      BY <1>1 DEF Consume
    <2>2. v.set
      BY <1>1
    <2>. QED
      BY <2>1, <2>2, StaysUnsatisfied
  <1>2. CASE ~w.set
    <2>1. S \subseteq Consume(w, S, found)
      BY <1>2 DEF Consume
    <2>2. ~v.set
      BY <1>2
    <2>. QED
      BY <2>1, <2>2, StaysUnsatisfied
  <1>. QED
    BY <1>1, <1>2

LEMMA ConsumeType ==
  ASSUME NEW w \in Waits, NEW S \in SUBSET Flag, NEW found \in SUBSET Flag
  PROVE  Consume(w, S, found) \in SUBSET Flag
  BY DEF Consume

LEMMA FoundType ==
  ASSUME NEW w \in Waits, NEW S
  PROVE  Found(w, S) \subseteq w.flags /\ w.flags \subseteq Flag
  BY DEF Found, Waits

LEMMA ListedWait ==
  ASSUME TablesSound, NEW g \in Group, NEW t \in OSFlagWaitList[g]
  PROVE  t \in TCB /\ pc[t] = "flag" /\ node[t] \in Waits /\ node[t].grp = g
  BY DEF TablesSound, FlagWaitersExact, NodesExact

(* Flags of group g are consumed by a wait w, beside waits of the same     *)
(* polarity.                                                               *)
LEMMA ConsumeKeepsStranded ==
  ASSUME TablesSound, NEW w \in Waits, NEW g \in Group, NEW found,
         \A t \in TCB : pc[t] = "flag" => node[t].set = w.set,
         OSFlagFlags' = [OSFlagFlags EXCEPT ![g] = Consume(w, @, found)],
         \A h \in Group : OSFlagWaitList'[h] \subseteq OSFlagWaitList[h],
         \A h \in Group : \A t \in OSFlagWaitList'[h] : node'[t] = node[t]
  PROVE  NobodyStranded'
  <1> SUFFICES ASSUME NEW h \in Group, NEW t \in OSFlagWaitList'[h]
               PROVE  ~Satisfied(node'[t], OSFlagFlags'[h])
    BY DEF NobodyStranded, OSFlagQuery
  <1>1. /\ t \in OSFlagWaitList[h] /\ node'[t] = node[t]
        /\ ~Satisfied(node[t], OSFlagFlags[h])
        /\ node[t] \in Waits /\ node[t].set = w.set
    BY ListedWait DEF TablesSound, NobodyStranded, OSFlagQuery
  <1>2. OSFlagFlags'[h] = IF h = g THEN Consume(w, OSFlagFlags[h], found) ELSE OSFlagFlags[h]
    BY DEF TablesSound, TablesTypeOK, FlagsTypeOK
  <1>3. ~Satisfied(node[t], Consume(w, OSFlagFlags[h], found))
    BY <1>1, ConsumeSatisfiesNobody
  <1>. QED
    BY <1>1, <1>2, <1>3

LEMMA TakeKeeps ==
  ASSUME TablesSound, NEW w \in Waits, TakeFlags(w.grp, w), UNCHANGED coreVars,
         \A t \in TCB : pc[t] = "flag" => node[t].set = w.set
  PROVE  TablesSound'
  <1> USE DEF TablesSound, coreVars, stateVars, prioVars, waitVars
  <1>1. w.grp \in Group
    BY DEF Waits
  <1>2. /\ OSFlagFlags' = [OSFlagFlags EXCEPT ![w.grp] = Consume(w, @, Found(w, @))]
        /\ UNCHANGED <<OSFlagFreeList, OSFlagWaitList, node, FlagsRdy>>
    BY DEF TakeFlags
  <1>3. TablesTypeOK'
    <2>1. Consume(w, OSFlagFlags[w.grp], Found(w, OSFlagFlags[w.grp])) \in SUBSET Flag
      BY <1>1, FoundType, ConsumeType DEF TablesTypeOK, FlagsTypeOK
    <2>. QED
      BY <1>1, <1>2, <2>1 DEF TablesTypeOK, FlagsTypeOK
  <1>4. PrioExact' /\ IdleFree' /\ ReadyExact' /\ StatusExact'
    BY DEF PrioExact, IdleFree, ReadyExact, StatusExact
  <1>5. NodesExact' /\ SamePolarity' /\ SemWaitersExact' /\ FlagWaitersExact'
    BY <1>2 DEF NodesExact, SamePolarity, SemWaitersExact, FlagWaitersExact, WaitsForFlags
  <1>6. NobodyStranded'
    BY <1>1, <1>2, ConsumeKeepsStranded
  <1>. QED
    BY <1>3, <1>4, <1>5, <1>6

LEMMA FlagBlockKeeps ==
  ASSUME KernelSound, NEW t \in TCB, InTask(t), NEW w \in Waits, NEW timeout \in Nat,
         \A u \in TCB : pc[u] = "flag" => node[u].set = w.set,
         w.grp \notin OSFlagFreeList, ~Satisfied(w, OSFlagFlags[w.grp]),
         OS_FlagBlock(t, w.grp, w, timeout), pc' = [pc EXCEPT ![t] = "flag"],
         UNCHANGED <<prioVars, waitVars, OSFlagFreeList, OSFlagFlags, FlagsRdy>>
  PROVE  TablesSound'
  <1> USE DEF KernelSound, TablesSound, prioVars, waitVars
  <1>1. Stat[t] = {} /\ Dly[t] = 0 /\ pc[t] = "task" /\ t # Idle /\ w.grp \in Group
    BY RunningFree DEF InTask, Waits
  <1>2. /\ Stat' = [Stat EXCEPT ![t] = {"FLAG"}]
        /\ StatPend' = [StatPend EXCEPT ![t] = "OK"]
        /\ Dly' = [Dly EXCEPT ![t] = timeout]
        /\ OSRdyTbl' = OSRdyTbl \ {OSTCBPrio[t]}
        /\ node' = [node EXCEPT ![t] = w]
        /\ OSFlagWaitList' = [OSFlagWaitList EXCEPT ![w.grp] = @ \cup {t}]
    BY <1>1 DEF OS_FlagBlock, Block, TablesTypeOK
  <1>3. TablesTypeOK'
    BY <1>1, <1>2 DEF TablesTypeOK, FlagsTypeOK, PEND_ANY
  <1>4. PrioExact' /\ IdleFree' /\ ReadyExact'
    BY <1>1, <1>2 DEF PrioExact, IdleFree, ReadyExact, TablesTypeOK
  <1>5. StatusExact'
    BY <1>1, <1>2 DEF StatusExact, TablesTypeOK
  <1>6. NodesExact'
    BY <1>1, <1>2 DEF NodesExact, TablesTypeOK, FlagsTypeOK
  <1>7. SemWaitersExact'
    BY <1>1, <1>2 DEF SemWaitersExact, TablesTypeOK
  <1>8. SamePolarity'
    <2> SUFFICES ASSUME NEW u \in TCB, NEW v \in TCB, pc'[u] = "flag", pc'[v] = "flag"
                 PROVE  node'[u].set = node'[v].set
      BY DEF SamePolarity
    <2>1. \A x \in TCB : pc'[x] = "flag" => node'[x].set = w.set
      BY <1>2 DEF TablesTypeOK, FlagsTypeOK
    <2>. QED
      BY <2>1
  <1>9. NobodyStranded'
    <2> SUFFICES ASSUME NEW h \in Group, NEW u \in OSFlagWaitList'[h]
                 PROVE  ~Satisfied(node'[u], OSFlagFlags[h])
      BY DEF NobodyStranded, OSFlagQuery
    <2>1. CASE u = t
      <3>1. t \notin OSFlagWaitList[h]
        BY <1>1, ListedWait
      <3>2. h = w.grp
        BY <1>2, <2>1, <3>1 DEF TablesTypeOK, FlagsTypeOK
      <3>. QED
        BY <1>2, <2>1, <3>2 DEF TablesTypeOK, FlagsTypeOK
    <2>2. CASE u # t
      <3>1. u \in OSFlagWaitList[h]
        BY <1>2, <2>2 DEF TablesTypeOK, FlagsTypeOK
      <3>2. node'[u] = node[u]
        BY <1>2, <2>2, <3>1, ListedWait DEF TablesTypeOK, FlagsTypeOK
      <3>. QED
        BY <3>1, <3>2 DEF NobodyStranded, OSFlagQuery
    <2>. QED
      BY <2>1, <2>2
  <1>10. FlagWaitersExact'
    <2>1. \A u \in TCB : u # t => /\ WaitsForFlags(u)' <=> WaitsForFlags(u)
                                  /\ node'[u] = node[u] /\ pc'[u] = pc[u]
                                  /\ StatPend'[u] = StatPend[u]
      BY <1>2 DEF WaitsForFlags, TablesTypeOK, FlagsTypeOK
    <2>2. WaitsForFlags(t)' /\ node'[t] = w /\ pc'[t] = "flag"
      BY <1>2 DEF WaitsForFlags, TablesTypeOK, FlagsTypeOK
    <2>3. \A g \in Group : t \notin OSFlagWaitList[g]
      BY <1>1, ListedWait
    <2>4. \A g \in Group : OSFlagWaitList'[g] =
            {u \in TCB : pc'[u] = "flag" /\ node'[u].grp = g /\
                         (WaitsForFlags(u)' \/ StatPend'[u] = "TO")}
      BY <1>1, <1>2, <2>1, <2>2, <2>3 DEF FlagWaitersExact, TablesTypeOK, FlagsTypeOK
    <2>5. \A g \in OSFlagFreeList' : OSFlagWaitList'[g] = {}
      BY <1>1, <1>2 DEF FlagWaitersExact, TablesTypeOK, FlagsTypeOK
    <2>6. \A u \in TCB : OSTCBPrio'[u] \notin OSRdyTbl' <=>
            (WaitsForFlags(u)' \/ Dly'[u] > 0 \/ "SUSPEND" \in Stat'[u] \/ "SEM" \in Stat'[u])
      BY <1>1, <1>2, <2>1, <2>2 DEF FlagWaitersExact, PrioExact, TablesTypeOK
    <2>. QED
      BY <2>4, <2>5, <2>6 DEF FlagWaitersExact
  <1>. QED
    BY <1>3, <1>4, <1>5, <1>6, <1>7, <1>8, <1>9, <1>10

(* OS_FlagTaskRdy for tasks of g's wait list, each of which gets flags of  *)
(* its own.  What is left of the properties depends on the flags.          *)
LEMMA TaskRdyKeeps ==
  ASSUME TablesSound, NEW g \in Group, NEW S \in SUBSET OSFlagWaitList[g], NEW rdy,
         \A t \in S : rdy[t] \subseteq node[t].flags,
         OS_FlagTaskRdy(g, S, rdy),
         OSFlagFlags' \in [Group -> SUBSET Flag], OSFlagFreeList' \subseteq Group,
         \A h \in OSFlagFreeList' : OSFlagWaitList'[h] = {},
         \A h \in Group : \A t \in OSFlagWaitList'[h] : ~Satisfied(node[t], OSFlagFlags'[h]),
         UNCHANGED <<prioVars, waitVars, pc, node>>
  PROVE  TablesSound' /\ OSRdyTbl \subseteq OSRdyTbl'
  <1> USE DEF TablesSound, prioVars, waitVars
  <1> DEFINE W == {u \in S : Stat[u] \subseteq {"FLAG"}}
  <1>1. /\ Dly' = [t \in TCB |-> IF t \in S THEN 0 ELSE Dly[t]]
        /\ Stat' = [t \in TCB |-> IF t \in S THEN Stat[t] \ {"FLAG"} ELSE Stat[t]]
        /\ StatPend' = [t \in TCB |-> IF t \in S THEN "OK" ELSE StatPend[t]]
        /\ FlagsRdy' = [t \in TCB |-> IF t \in S THEN rdy[t] ELSE FlagsRdy[t]]
        /\ OSRdyTbl' = OSRdyTbl \cup {OSTCBPrio[t] : t \in W}
        /\ OSFlagWaitList' = [OSFlagWaitList EXCEPT ![g] = @ \ S]
    BY DEF OS_FlagTaskRdy, OS_FlagUnlink
  <1>2. \A t \in S : t \in TCB /\ pc[t] = "flag" /\ node[t] \in Waits /\ node[t].grp = g
    BY ListedWait
  <1>3. \A t \in S : "SEM" \notin Stat[t] /\ t # Idle
    BY <1>2 DEF StatusExact, IdleFree
  <1>4. \A t \in TCB : OSTCBPrio[t] \in {OSTCBPrio[u] : u \in W} <=> t \in W
    BY <1>2, PrioImage
  <1>5. TablesTypeOK'
    <2>1. \A t \in S : rdy[t] \in SUBSET Flag
      BY <1>2 DEF Waits
    <2>. QED
      BY <1>1, <1>2, <2>1 DEF TablesTypeOK, FlagsTypeOK
  <1>6. PrioExact' /\ IdleFree' /\ ReadyExact'
    <2>1. PrioExact'
      BY DEF PrioExact
    <2>2. IdleFree'
      BY <1>1, <1>3, IdleAssumption DEF IdleFree
    <2>3. ReadyExact'
      BY <1>1, <1>2 DEF ReadyExact, PrioExact
    <2>. QED
      BY <2>1, <2>2, <2>3
  <1>7. StatusExact'
    BY <1>1, <1>2 DEF StatusExact, TablesTypeOK
  <1>8. NodesExact' /\ SamePolarity'
    BY <1>1, <1>2 DEF NodesExact, SamePolarity, TablesTypeOK, FlagsTypeOK
  <1>9. SemWaitersExact'
    BY <1>1 DEF SemWaitersExact, TablesTypeOK
  <1>10. NobodyStranded'
    BY DEF NobodyStranded, OSFlagQuery
  <1>11. FlagWaitersExact'
    <2>1. \A t \in TCB : WaitsForFlags(t)' <=> WaitsForFlags(t) /\ t \notin S
      BY <1>1 DEF WaitsForFlags, TablesTypeOK
    <2>2. \A t \in TCB : StatPend'[t] = "TO" <=> StatPend[t] = "TO" /\ t \notin S
      BY <1>1
    <2>3. \A h \in Group : OSFlagWaitList'[h] = IF h = g THEN OSFlagWaitList[h] \ S ELSE OSFlagWaitList[h]
      BY <1>1 DEF TablesTypeOK, FlagsTypeOK
    <2>4. \A h \in Group : OSFlagWaitList'[h] =
            {t \in TCB : pc'[t] = "flag" /\ node'[t].grp = h /\
                         (WaitsForFlags(t)' \/ StatPend'[t] = "TO")}
      <3> TAKE h \in Group
      <3>1. OSFlagWaitList[h] = {t \in TCB : pc[t] = "flag" /\ node[t].grp = h /\
                                             (WaitsForFlags(t) \/ StatPend[t] = "TO")}
        BY DEF FlagWaitersExact
      <3>2. OSFlagWaitList'[h] = OSFlagWaitList[h] \ S
        <4>1. h # g => \A t \in OSFlagWaitList[h] : t \notin S
          BY <1>2, ListedWait
        <4>. QED
          BY <2>3, <4>1
      <3>. QED
        BY <2>1, <2>2, <3>1, <3>2
    <2>5. \A t \in S : Stat[t] \subseteq {"FLAG"} <=> "SUSPEND" \notin Stat[t]
      BY <1>2, <1>3 DEF StatusExact
    <2>6. \A t \in TCB : OSTCBPrio'[t] \notin OSRdyTbl' <=>
            (WaitsForFlags(t)' \/ Dly'[t] > 0 \/ "SUSPEND" \in Stat'[t] \/ "SEM" \in Stat'[t])
      <3> TAKE t \in TCB
      <3>1. CASE t \in S
        BY <1>1, <1>3, <1>4, <2>1, <2>5, <3>1 DEF FlagWaitersExact
      <3>2. CASE t \notin S
        BY <1>1, <1>4, <2>1, <3>2 DEF FlagWaitersExact
      <3>. QED
        BY <3>1, <3>2
    <2>. QED
      BY <2>4, <2>6 DEF FlagWaitersExact
  <1>. QED
    BY <1>1, <1>5, <1>6, <1>7, <1>8, <1>9, <1>10, <1>11

LEMMA PostKeeps ==
  ASSUME TablesSound, NEW g \in Group, NEW flags \in SUBSET Flag, NEW set \in BOOLEAN,
         OSFlagPost(g, flags, set), UNCHANGED pc
  PROVE  TablesSound' /\ OSRdyTbl \subseteq OSRdyTbl'
  <1> DEFINE now == IF set THEN OSFlagFlags[g] \cup flags ELSE OSFlagFlags[g] \ flags
             rdy == [t \in TCB |-> Found(node[t], now)]
             S == {t \in OSFlagWaitList[g] : Satisfied(node[t], now)}
  <1>1. now \in SUBSET Flag
    BY DEF TablesSound, TablesTypeOK, FlagsTypeOK
  <1>2. /\ g \notin OSFlagFreeList
        /\ OSFlagFlags' = [OSFlagFlags EXCEPT ![g] = now]
        /\ OS_FlagTaskRdy(g, S, rdy)
        /\ UNCHANGED <<prioVars, waitVars, OSFlagFreeList, node>>
    BY DEF OSFlagPost
  <1>3. \A t \in S : rdy[t] \subseteq node[t].flags
    BY ListedWait, FoundType
  <1> HIDE DEF rdy, now
  <1>4. OSFlagFlags' \in [Group -> SUBSET Flag]
    BY <1>1, <1>2 DEF TablesSound, TablesTypeOK, FlagsTypeOK
  <1>5. \A h \in Group : OSFlagWaitList'[h] = IF h = g THEN OSFlagWaitList[h] \ S ELSE OSFlagWaitList[h]
    BY <1>2 DEF OS_FlagTaskRdy, OS_FlagUnlink, TablesSound, TablesTypeOK, FlagsTypeOK
  <1>6. \A h \in OSFlagFreeList' : OSFlagWaitList'[h] = {}
    BY <1>2, <1>5 DEF TablesSound, FlagWaitersExact, TablesTypeOK, FlagsTypeOK
  <1>7. \A h \in Group : \A t \in OSFlagWaitList'[h] : ~Satisfied(node[t], OSFlagFlags'[h])
    <2> TAKE h \in Group
    <2>1. CASE h = g
      BY <1>2, <1>5, <2>1 DEF TablesSound, TablesTypeOK, FlagsTypeOK
    <2>2. CASE h # g
      BY <1>2, <1>5, <2>2 DEF TablesSound, TablesTypeOK, FlagsTypeOK, NobodyStranded, OSFlagQuery
    <2>. QED
      BY <2>1, <2>2
  <1>8. OSFlagFreeList' \subseteq Group
    BY <1>2 DEF TablesSound, TablesTypeOK, FlagsTypeOK
  <1>9. S \in SUBSET OSFlagWaitList[g]
    OBVIOUS
  <1> HIDE DEF S
  <1>. QED
    BY <1>2, <1>3, <1>4, <1>6, <1>7, <1>8, <1>9, TaskRdyKeeps

LEMMA DelKeeps ==
  ASSUME TablesSound, NEW t \in TCB, NEW g \in Group, OSFlagDel(t, g)
  PROVE  TablesSound' /\ OSRdyTbl \subseteq OSRdyTbl'
  <1> DEFINE S == OSFlagWaitList[g]
             rdy == [u \in TCB |-> {}]
  <1>1. /\ OS_FlagTaskRdy(g, S, rdy)
        /\ OSFlagFreeList' = OSFlagFreeList \cup {g}
        /\ OSFlagFlags' = [OSFlagFlags EXCEPT ![g] = {}]
        /\ UNCHANGED <<prioVars, waitVars, pc, node>>
    BY DEF OSFlagDel
  <1>2. \A u \in S : rdy[u] \subseteq node[u].flags
    BY ListedWait
  <1> HIDE DEF rdy
  <1>3. OSFlagFlags' \in [Group -> SUBSET Flag] /\ OSFlagFreeList' \subseteq Group
    BY <1>1 DEF TablesSound, TablesTypeOK, FlagsTypeOK
  <1>4. \A h \in Group : OSFlagWaitList'[h] = IF h = g THEN {} ELSE OSFlagWaitList[h]
    BY <1>1 DEF OS_FlagTaskRdy, OS_FlagUnlink, TablesSound, TablesTypeOK, FlagsTypeOK
  <1>5. \A h \in OSFlagFreeList' : OSFlagWaitList'[h] = {}
    BY <1>1, <1>4 DEF TablesSound, FlagWaitersExact, TablesTypeOK, FlagsTypeOK
  <1>6. \A h \in Group : \A u \in OSFlagWaitList'[h] : ~Satisfied(node[u], OSFlagFlags'[h])
    BY <1>1, <1>4 DEF TablesSound, TablesTypeOK, FlagsTypeOK, NobodyStranded, OSFlagQuery
  <1> HIDE DEF S
  <1>7. S \in SUBSET OSFlagWaitList[g]
    BY DEF S
  <1>. QED
    BY <1>1, <1>2, <1>3, <1>5, <1>6, <1>7, TaskRdyKeeps, SMTT(30)

LEMMA CreateKeeps ==
  ASSUME KernelSound, NEW t \in TCB, OSFlagCreate(t)
  PROVE  KernelSound'
  <1> USE DEF KernelSound, TablesSound, coreVars, prioVars, stateVars, waitVars, cpuVars
  <1>1. PICK g \in OSFlagFreeList, flags \in SUBSET Flag :
          /\ OSFlagFreeList' = OSFlagFreeList \ {g}
          /\ OSFlagFlags' = [OSFlagFlags EXCEPT ![g] = flags]
          /\ OSFlagWaitList' = [OSFlagWaitList EXCEPT ![g] = {}]
          /\ UNCHANGED <<coreVars, node, FlagsRdy>>
    BY DEF OSFlagCreate
  <1>2. g \in Group /\ OSFlagWaitList[g] = {}
    BY DEF FlagWaitersExact, TablesTypeOK, FlagsTypeOK
  <1>3. OSFlagWaitList' = OSFlagWaitList
    BY <1>1, <1>2 DEF TablesTypeOK, FlagsTypeOK
  <1>4. TablesTypeOK'
    BY <1>1, <1>3 DEF TablesTypeOK, FlagsTypeOK
  <1>5. PrioExact' /\ IdleFree' /\ ReadyExact' /\ StatusExact' /\ NodesExact' /\ SamePolarity'
    BY <1>1 DEF PrioExact, IdleFree, ReadyExact, StatusExact, NodesExact, SamePolarity
  <1>6. SemWaitersExact' /\ FlagWaitersExact'
    BY <1>1, <1>3 DEF SemWaitersExact, FlagWaitersExact, WaitsForFlags
  <1>7. NobodyStranded'
    BY <1>1, <1>2, <1>3 DEF NobodyStranded, OSFlagQuery, TablesTypeOK, FlagsTypeOK
  <1>8. Processor'
    BY <1>1 DEF Processor
  <1>. QED
    BY <1>4, <1>5, <1>6, <1>7, <1>8

LEMMA ReturnKeeps ==
  ASSUME KernelSound, NEW t \in TCB, FlagReturn(t)
  PROVE  KernelSound'
  <1> USE DEF KernelSound, TablesSound, prioVars, stateVars, waitVars, cpuVars
  <1> DEFINE w == node[t]
             ok == StatPend[t] = "OK"
  <1>1. Stat[t] = {} /\ Dly[t] = 0 /\ pc[t] = "flag" /\ ~WaitsForFlags(t)
    BY RunningFree DEF FlagReturn, WaitsForFlags
  <1>2. w \in Waits /\ w.grp \in Group /\ FlagsRdy[t] \in SUBSET Flag
    BY <1>1 DEF NodesExact, Waits, TablesTypeOK, FlagsTypeOK
  <1>3. StatPend[t] = "TO" <=> ~ok
    BY DEF StatusExact, TablesTypeOK
  <1>4. /\ OSFlagFlags' = IF ok THEN [OSFlagFlags EXCEPT ![w.grp] = Consume(w, @, FlagsRdy[t])]
                                ELSE OSFlagFlags
        /\ OSFlagWaitList' = IF ok THEN OSFlagWaitList ELSE [OSFlagWaitList EXCEPT ![w.grp] = @ \ {t}]
        /\ Stat' = Stat
        /\ StatPend' = [StatPend EXCEPT ![t] = "OK"]
        /\ node' = [node EXCEPT ![t] = NoNode]
        /\ FlagsRdy' = [FlagsRdy EXCEPT ![t] = {}]
        /\ pc' = [pc EXCEPT ![t] = "task"]
        /\ UNCHANGED <<prioVars, Dly, OSRdyTbl, waitVars, cpuVars, OSFlagFreeList>>
    BY <1>1 DEF FlagReturn, OS_FlagUnlink, TablesTypeOK
  <1>5. \A h \in Group : OSFlagWaitList'[h] = OSFlagWaitList[h] \ {t}
    <2> TAKE h \in Group
    <2>1. t \in OSFlagWaitList[h] <=> h = w.grp /\ ~ok
      BY <1>1, <1>3 DEF FlagWaitersExact
    <2>. QED
      BY <1>2, <1>4, <2>1 DEF TablesTypeOK, FlagsTypeOK
  <1>6. TablesTypeOK'
    <2>1. Consume(w, OSFlagFlags[w.grp], FlagsRdy[t]) \in SUBSET Flag
      BY <1>2, ConsumeType DEF TablesTypeOK, FlagsTypeOK
    <2> HIDE DEF w, ok
    <2>. QED
      BY <1>2, <1>4, <2>1 DEF TablesTypeOK, FlagsTypeOK
  <1>7. PrioExact' /\ IdleFree' /\ ReadyExact'
    BY <1>1, <1>4 DEF PrioExact, IdleFree, ReadyExact, TablesTypeOK
  <1>8. StatusExact'
    BY <1>1, <1>4 DEF StatusExact, TablesTypeOK
  <1>9. NodesExact' /\ SamePolarity' /\ SemWaitersExact'
    BY <1>4 DEF NodesExact, SamePolarity, SemWaitersExact, TablesTypeOK, FlagsTypeOK
  <1>10. NobodyStranded'
    <2>1. \A h \in Group : \A u \in OSFlagWaitList'[h] : u # t /\ u \in OSFlagWaitList[h] /\ u \in TCB
      BY <1>5, ListedWait
    <2>2. \A h \in Group : \A u \in OSFlagWaitList'[h] : node'[u] = node[u]
      BY <1>4, <2>1 DEF TablesTypeOK, FlagsTypeOK
    <2>3. \A u \in TCB : pc[u] = "flag" => node[u].set = w.set
      BY <1>1 DEF SamePolarity
    <2>4. CASE ok
      <3>1. OSFlagFlags' = [OSFlagFlags EXCEPT ![w.grp] = Consume(w, @, FlagsRdy[t])]
        BY <1>4, <2>4
      <3>2. \A h \in Group : OSFlagWaitList'[h] \subseteq OSFlagWaitList[h]
        BY <1>5
      <3> HIDE DEF w, ok
      <3>. QED
        BY <1>2, <2>2, <2>3, <3>1, <3>2, ConsumeKeepsStranded
    <2>5. CASE ~ok
      BY <1>4, <2>1, <2>2, <2>5 DEF NobodyStranded, OSFlagQuery
    <2>. QED
      BY <2>4, <2>5
  <1>11. FlagWaitersExact'
    <2>1. \A u \in TCB : WaitsForFlags(u)' <=> WaitsForFlags(u)
      BY <1>1, <1>4 DEF WaitsForFlags, TablesTypeOK
    <2>2. \A u \in TCB : u # t => node'[u] = node[u] /\ pc'[u] = pc[u] /\ StatPend'[u] = StatPend[u]
      BY <1>4 DEF TablesTypeOK, FlagsTypeOK
    <2>3. pc'[t] = "task"
      BY <1>4 DEF TablesTypeOK
    <2> HIDE DEF w, ok
    <2>4. \A h \in Group : OSFlagWaitList'[h] =
            {u \in TCB : pc'[u] = "flag" /\ node'[u].grp = h /\
                         (WaitsForFlags(u)' \/ StatPend'[u] = "TO")}
      <3> TAKE h \in Group
      <3>1. OSFlagWaitList[h] = {u \in TCB : pc[u] = "flag" /\ node[u].grp = h /\
                                             (WaitsForFlags(u) \/ StatPend[u] = "TO")}
        BY DEF FlagWaitersExact
      <3>. QED
        BY <1>5, <2>1, <2>2, <2>3, <3>1
    <2>5. \A h \in OSFlagFreeList' : OSFlagWaitList'[h] = {}
      BY <1>4, <1>5 DEF FlagWaitersExact, TablesTypeOK, FlagsTypeOK
    <2>6. \A u \in TCB : OSTCBPrio'[u] \notin OSRdyTbl' <=>
            (WaitsForFlags(u)' \/ Dly'[u] > 0 \/ "SUSPEND" \in Stat'[u] \/ "SEM" \in Stat'[u])
      BY <1>4, <2>1 DEF FlagWaitersExact
    <2>. QED
      BY <2>4, <2>5, <2>6 DEF FlagWaitersExact
  <1>12. Processor'
    BY <1>4 DEF Processor
  <1>. QED
    BY <1>6, <1>7, <1>8, <1>9, <1>10, <1>11, <1>12

-----------------------------------------------------------------------------
(* Whole services, up to the call of OS_Sched that follows or the end of   *)
(* the handler.                                                            *)

LEMMA CallKeeps ==
  ASSUME KernelSound, NEW t \in TCB, InTask(t), TablesSound', UNCHANGED prioVars,
         NEW b \in BOOLEAN, ThenSched(t, b), ~b => OSRdyTbl \subseteq OSRdyTbl'
  PROVE  KernelSound'
  <1>1. OSTCBCur = t /\ OSTCBPrio[t] \in OSRdyTbl
    BY RunningFree DEF InTask, Running
  <1>2. Processor'
    BY <1>1, ThenSchedKeeps DEF KernelSound
  <1>. QED
    BY <1>2 DEF KernelSound

LEMMA HandlerKeeps ==
  ASSUME KernelSound, TablesSound', UNCHANGED prioVars, OSIntExit
  PROVE  KernelSound'
  BY IntExitKeeps DEF KernelSound

LEMMA SemPendKeeps ==
  ASSUME KernelSound, NEW t \in TCB, InTask(t), NEW e \in Event, OSSemPend(t, e),
         UNCHANGED flagVars
  PROVE  KernelSound'
  <1>1. CASE UNCHANGED coreVars
    BY <1>1, KernelFrame
  <1>2. CASE /\ Block(OSRdyTbl, t, {"SEM"}, 0) /\ OS_EventTaskWait(t, e)
             /\ pc' = [pc EXCEPT ![t] = "pend"] /\ ThenSched(t, TRUE) /\ UNCHANGED prioVars
    <2>1. TablesSound'
      BY <1>2, SemBlockKeeps
    <2>. QED
      BY <1>2, <2>1, CallKeeps
  <1>. QED
    BY <1>1, <1>2 DEF OSSemPend

LEMMA SemPostKeeps ==
  ASSUME KernelSound, NEW t \in TCB, InTask(t), NEW e \in Event, OSSemPost(t, e),
         UNCHANGED flagVars
  PROVE  KernelSound'
  <1>1. CASE UNCHANGED coreVars
    BY <1>1, KernelFrame
  <1>2. CASE /\ OSEventTbl[e] # {}
             /\ OS_EventTaskRdy(OSRdyTbl, e, FirstWaiter(e), {"SEM"}, "OK")
             /\ ThenSched(t, TRUE) /\ UNCHANGED <<prioVars, pc>>
    <2>1. TablesSound'
      BY <1>2, SemWakeKeeps DEF KernelSound
    <2>. QED
      BY <1>2, <2>1, CallKeeps
  <1>. QED
    BY <1>1, <1>2 DEF OSSemPost

LEMMA FlagPendKeeps ==
  ASSUME KernelSound, NEW t \in TCB, NEW w \in Waits, NEW timeout \in Nat,
         \A u \in TCB : pc[u] = "flag" => node[u].set = w.set,
         OSFlagPend(t, w, timeout)
  PROVE  KernelSound'
  <1>1. CASE TakeFlags(w.grp, w) /\ UNCHANGED coreVars
    <2>1. TablesSound'
      BY <1>1, TakeKeeps DEF KernelSound
    <2>. QED
      BY <1>1, <2>1 DEF KernelSound, Processor, coreVars, prioVars, stateVars, cpuVars
  <1>2. CASE /\ w.grp \notin OSFlagFreeList
             /\ ~Satisfied(w, OSFlagFlags[w.grp])
             /\ OS_FlagBlock(t, w.grp, w, timeout)
             /\ pc' = [pc EXCEPT ![t] = "flag"]
             /\ ThenSched(t, TRUE)
             /\ UNCHANGED <<prioVars, waitVars, OSFlagFreeList, OSFlagFlags, FlagsRdy>>
    <2>1. InTask(t)
      BY DEF OSFlagPend
    <2>2. TablesSound'
      BY <1>2, <2>1, FlagBlockKeeps
    <2>. QED
      BY <1>2, <2>1, <2>2, CallKeeps
  <1>. QED
    BY <1>1, <1>2 DEF OSFlagPend

LEMMA SleepsKeeps ==
  ASSUME KernelSound, NEW t \in TCB, InTask(t), TaskSleeps(t), UNCHANGED flagVars
  PROVE  KernelSound'
  <1>1. PICK ticks \in Ticks : OSTimeDly(t, ticks)
    BY DEF TaskSleeps
  <1>2. TablesSound'
    BY <1>1, DelayKeeps DEF TaskSleeps
  <1>. QED
    BY <1>1, <1>2, CallKeeps DEF TaskSleeps, OSTimeDly

LEMMA ClockKeeps ==
  ASSUME KernelSound, ClockTicks, UNCHANGED flagVars
  PROVE  KernelSound'
  <1>1. TablesSound'
    BY TickKeeps DEF KernelSound, ClockTicks, OSIntExit
  <1>. QED
    BY <1>1, HandlerKeeps DEF ClockTicks, OSTimeTick, TimersEnd

(* All tasks have been made, with priorities of their own.                 *)
LEMMA KernelStarts ==
  ASSUME NEW prio \in [TCB -> AnyPrio], prio[Idle] = IdlePrio,
         \A t, u \in TCB : prio[t] = prio[u] => t = u,
         CoreInit(TCB, prio, {}), pc = [t \in TCB |-> "task"], FlagsInit
  PROVE  KernelSound
  <1> DEFINE table == [p \in AnyPrio |->
               IF \E t \in TCB : prio[t] = p THEN CHOOSE t \in TCB : prio[t] = p ELSE NULL]
             ready == {prio[t] : t \in TCB}
  <1>1. /\ OSTCBPrioTbl = table /\ OSTCBPrio = prio
        /\ Stat = [t \in TCB |-> {}] /\ StatPend = [t \in TCB |-> "OK"]
        /\ Dly = [t \in TCB |-> 0] /\ OSRdyTbl = ready
        /\ EventPtr = [t \in TCB |-> NULL] /\ EventMultiPtr = [t \in TCB |-> {}]
        /\ OSEventTbl = [e \in Event |-> {}]
        /\ OSPrioCur = MostUrgent(ready) /\ OSTCBCur = table[OSPrioCur]
        /\ OSLockNesting = 0 /\ sched = [t \in TCB |-> FALSE]
    BY DEF CoreInit
  <1>2. \A t \in TCB : table[prio[t]] = t
    OBVIOUS
  <1>3. \A p \in AnyPrio : \/ table[p] = NULL /\ \A t \in TCB : prio[t] # p
                           \/ table[p] \in TCB /\ prio[table[p]] = p
    OBVIOUS
  <1>4. MostUrgent(ready) \in ready
    <2>1. ready \subseteq AnyPrio /\ ready # {}
      BY IdleAssumption
    <2>. QED
      BY <2>1, MostUrgentIsIn
  <1> HIDE DEF table
  <1>5. \A t \in TCB : pc[t] = "task" /\ Stat[t] = {} /\ Dly[t] = 0 /\ OSTCBPrio[t] \in OSRdyTbl
    BY <1>1
  <1>6. TablesTypeOK
    <2>1. table \in [AnyPrio -> TCB \cup {NULL, RESERVED}]
      BY <1>3 DEF table
    <2>. QED
      BY <1>1, <2>1 DEF TablesTypeOK, FlagsTypeOK, FlagsInit
  <1>7. PrioExact /\ IdleFree /\ ReadyExact /\ StatusExact
    <2>1. PrioExact
      BY <1>1, <1>2, <1>3, PointerAssumption DEF PrioExact
    <2>2. IdleFree /\ StatusExact
      BY <1>1, <1>5, IdleAssumption DEF IdleFree, StatusExact
    <2>3. ReadyExact
      BY <1>1, <1>2 DEF ReadyExact
    <2>. QED
      BY <2>1, <2>2, <2>3
  <1>8. NodesExact /\ SamePolarity /\ SemWaitersExact /\ NobodyStranded
    BY <1>1, <1>5 DEF NodesExact, SamePolarity, SemWaitersExact, NobodyStranded, FlagsInit
  <1>9. FlagWaitersExact
    BY <1>1, <1>5 DEF FlagWaitersExact, WaitsForFlags, FlagsInit
  <1>10. Processor
    <2>1. PICK t \in TCB : MostUrgent(ready) = prio[t]
      BY <1>4
    <2>2. OSPrioCur = prio[t] /\ OSTCBCur = t
      BY <1>1, <1>2, <2>1
    <2>. QED
      BY <1>1, <2>1, <2>2 DEF Processor
  <1>. QED
    BY <1>6, <1>7, <1>8, <1>9, <1>10 DEF KernelSound, TablesSound

-----------------------------------------------------------------------------
(* What a service leaves of the waits of the tasks that do not call it.    *)

(* Task u is where it was and waits for what it waited for, except that    *)
(* its wait for flags may have ended.                                      *)
Undisturbed(u) ==
  /\ pc'[u] = pc[u] /\ node'[u] = node[u] /\ EventPtr'[u] = EventPtr[u]
  /\ "SEM" \in Stat'[u] <=> "SEM" \in Stat[u]
  /\ "FLAG" \in Stat'[u] => "FLAG" \in Stat[u]

LEMMA FrameDisturbsNobody ==
  ASSUME UNCHANGED <<coreVars, node>>
  PROVE  \A u \in TCB : Undisturbed(u)
  BY DEF coreVars, stateVars, waitVars, Undisturbed

LEMMA TickDisturbsNobody ==
  ASSUME TablesSound, OSTimeTick, UNCHANGED <<flagVars, pc>>
  PROVE  \A u \in TCB : Undisturbed(u)
  BY DEF TablesSound, OSTimeTick, TimersEnd, flagVars, waitVars, Undisturbed, StatusExact, PEND_ANY

LEMMA TaskServicesDisturbNobody ==
  ASSUME TablesSound, UNCHANGED <<flagVars, pc>>,
         \/ \E p \in Prio : OSTaskSuspend(p) \/ OSTaskResume(p)
         \/ \E t \in TCB, ticks \in Ticks : OSTimeDly(t, ticks)
  PROVE  \A u \in TCB : Undisturbed(u)
  <1>1. CASE \E p \in Prio : OSTaskSuspend(p)
    BY <1>1 DEF TablesSound, TablesTypeOK, OSTaskSuspend, flagVars, waitVars, Undisturbed
  <1>2. CASE \E p \in Prio : OSTaskResume(p)
    BY <1>2 DEF TablesSound, TablesTypeOK, OSTaskResume, flagVars, waitVars, Undisturbed
  <1>3. CASE \E t \in TCB, ticks \in Ticks : OSTimeDly(t, ticks)
    BY <1>3 DEF OSTimeDly, flagVars, waitVars, Undisturbed
  <1>. QED
    BY <1>1, <1>2, <1>3

LEMMA FlagPostDisturbsNobody ==
  ASSUME TablesSound, NEW g \in Group, UNCHANGED pc,
         \/ \E flags \in SUBSET Flag, set \in BOOLEAN : OSFlagPost(g, flags, set)
         \/ \E t \in TCB : OSFlagDel(t, g)
  PROVE  \A u \in TCB : Undisturbed(u)
  <1>1. /\ UNCHANGED <<node, EventPtr>>
        /\ \E S \in SUBSET TCB :
             Stat' = [u \in TCB |-> IF u \in S THEN Stat[u] \ {"FLAG"} ELSE Stat[u]]
    <2>1. OSFlagWaitList[g] \subseteq TCB
      BY DEF TablesSound, TablesTypeOK, FlagsTypeOK
    <2>2. CASE \E flags \in SUBSET Flag, set \in BOOLEAN : OSFlagPost(g, flags, set)
      <3>1. PICK flags \in SUBSET Flag, set \in BOOLEAN : OSFlagPost(g, flags, set)
        BY <2>2
      <3> DEFINE now == IF set THEN OSFlagFlags[g] \cup flags ELSE OSFlagFlags[g] \ flags
                 S == {t \in OSFlagWaitList[g] : Satisfied(node[t], now)}
      <3>2. /\ UNCHANGED <<node, EventPtr>> /\ S \in SUBSET TCB
            /\ Stat' = [u \in TCB |-> IF u \in S THEN Stat[u] \ {"FLAG"} ELSE Stat[u]]
        BY <2>1, <3>1 DEF OSFlagPost, OS_FlagTaskRdy, waitVars
      <3>. QED
        BY <3>2
    <2>3. CASE \E t \in TCB : OSFlagDel(t, g)
      BY <2>1, <2>3 DEF OSFlagDel, OS_FlagTaskRdy, waitVars
    <2>. QED
      BY <2>2, <2>3
  <1>. QED
    BY <1>1 DEF Undisturbed

(* A post of flags ends the wait of everybody who waits for them.          *)
LEMMA FlagPostWakes ==
  ASSUME TablesSound, NEW g \in Group, NEW flags \in SUBSET Flag, OSFlagPost(g, flags, TRUE),
         NEW u \in TCB, WaitsForFlags(u), node[u].grp = g,
         Satisfied(node[u], OSFlagFlags[g] \cup flags)
  PROVE  "FLAG" \notin Stat'[u]
  <1> DEFINE now == OSFlagFlags[g] \cup flags
             S == {t \in OSFlagWaitList[g] : Satisfied(node[t], now)}
  <1>1. u \in S
    BY DEF TablesSound, FlagWaitersExact, WaitsForFlags
  <1>2. Stat' = [t \in TCB |-> IF t \in S THEN Stat[t] \ {"FLAG"} ELSE Stat[t]]
    BY DEF OSFlagPost, OS_FlagTaskRdy
  <1>. QED
    BY <1>1, <1>2

LEMMA SemPendDoes ==
  ASSUME KernelSound, NEW t \in TCB, InTask(t), NEW e \in Event, OSSemPend(t, e),
         UNCHANGED flagVars
  PROVE  /\ \A u \in TCB \ {t} : Undisturbed(u)
         /\ node'[t] = node[t] /\ "FLAG" \notin Stat'[t]
         /\ \/ /\ pc'[t] = "task" /\ "SEM" \notin Stat'[t]
               /\ cnt[e] > 0 /\ cnt' = [cnt EXCEPT ![e] = @ - 1]
            \/ /\ pc'[t] = "pend" /\ "SEM" \in Stat'[t] /\ EventPtr'[t] = e
               /\ cnt[e] = 0 /\ cnt' = cnt
  <1>1. Stat[t] = {} /\ pc[t] = "task"
    BY RunningFree DEF InTask
  <1>2. CASE cnt[e] > 0 /\ cnt' = [cnt EXCEPT ![e] = @ - 1] /\ UNCHANGED coreVars
    BY <1>1, <1>2, FrameDisturbsNobody DEF flagVars, coreVars, stateVars
  <1>3. CASE /\ cnt[e] = 0 /\ UNCHANGED cnt
             /\ Block(OSRdyTbl, t, {"SEM"}, 0) /\ OS_EventTaskWait(t, e)
             /\ pc' = [pc EXCEPT ![t] = "pend"]
    BY <1>1, <1>3 DEF KernelSound, TablesSound, TablesTypeOK, Block, OS_EventTaskWait, flagVars, Undisturbed
  <1>. QED
    BY <1>2, <1>3 DEF OSSemPend

(* A post either goes to one who waits, who then has the semaphore, or     *)
(* finds that nobody waits.                                                *)
LEMMA SemPostDoes ==
  ASSUME KernelSound, NEW t \in TCB, InTask(t), NEW e \in Event, OSSemPost(t, e),
         UNCHANGED flagVars
  PROVE  \/ /\ \A u \in TCB : Undisturbed(u)
            /\ SemWaiters(e) = {}
            /\ cnt' = [cnt EXCEPT ![e] = @ + 1]
         \/ \E v \in SemWaiters(e) :
              /\ \A u \in TCB \ {v} : Undisturbed(u)
              /\ pc'[v] = pc[v] /\ node'[v] = node[v] /\ EventPtr'[v] = EventPtr[v]
              /\ "SEM" \notin Stat'[v] /\ ("FLAG" \in Stat'[v] => "FLAG" \in Stat[v])
              /\ cnt' = cnt
  <1>1. CASE OSEventTbl[e] = {} /\ cnt' = [cnt EXCEPT ![e] = @ + 1] /\ UNCHANGED coreVars
    <2>1. SemWaiters(e) = {}
      BY <1>1 DEF KernelSound, TablesSound, SemWaitersExact, SemWaiters
    <2>. QED
      BY <1>1, <2>1, FrameDisturbsNobody DEF flagVars
  <1>2. CASE /\ OSEventTbl[e] # {}
             /\ OS_EventTaskRdy(OSRdyTbl, e, FirstWaiter(e), {"SEM"}, "OK")
             /\ UNCHANGED <<pc, cnt>>
    <2>1. PICK v \in SemWaiters(e) : FirstWaiter(e) = {v}
      BY <1>2, OneFirstWaiter DEF KernelSound, TablesSound
    <2>2. EventPtr' = EventPtr
      BY <1>2, <2>1 DEF OS_EventTaskRdy, KernelSound, TablesSound, TablesTypeOK, StatusExact
    <2>3. \A u \in TCB : Stat'[u] = IF u = v THEN Stat[u] \ {"SEM"} ELSE Stat[u]
      BY <1>2, <2>1 DEF OS_EventTaskRdy
    <2>. QED
      BY <1>2, <2>1, <2>2, <2>3 DEF flagVars, Undisturbed, SemWaiters
  <1>. QED
    BY <1>1, <1>2 DEF OSSemPost

LEMMA FlagPendDoes ==
  ASSUME KernelSound, NEW t \in TCB, NEW w \in Waits, NEW timeout \in Nat, OSFlagPend(t, w, timeout)
  PROVE  /\ \A u \in TCB \ {t} : Undisturbed(u)
         /\ "SEM" \notin Stat'[t]
         /\ \/ /\ pc'[t] = "task" /\ "FLAG" \notin Stat'[t]
               /\ TakeFlags(w.grp, w)
            \/ /\ pc'[t] = "flag" /\ node'[t] = w
               /\ ~Satisfied(w, OSFlagFlags[w.grp]) /\ OSFlagFlags' = OSFlagFlags
  <1>1. Stat[t] = {} /\ pc[t] = "task"
    BY RunningFree DEF OSFlagPend, InTask
  <1>2. CASE TakeFlags(w.grp, w) /\ UNCHANGED coreVars
    BY <1>1, <1>2, FrameDisturbsNobody DEF TakeFlags, coreVars, stateVars
  <1>3. CASE /\ ~Satisfied(w, OSFlagFlags[w.grp])
             /\ OS_FlagBlock(t, w.grp, w, timeout)
             /\ pc' = [pc EXCEPT ![t] = "flag"]
             /\ UNCHANGED <<waitVars, OSFlagFlags>>
    BY <1>1, <1>3 DEF KernelSound, TablesSound, TablesTypeOK, FlagsTypeOK, OS_FlagBlock, Block,
       waitVars, Undisturbed
  <1>. QED
    BY <1>2, <1>3 DEF OSFlagPend

LEMMA ReturnDoes ==
  ASSUME KernelSound, NEW t \in TCB,
         FlagReturn(t) \/ OSSemPendEnds(t)
  PROVE  /\ \A u \in TCB \ {t} : Undisturbed(u)
         /\ pc'[t] = "task" /\ Stat[t] = {} /\ Stat'[t] = {}
  <1>1. Stat[t] = {}
    BY RunningFree DEF FlagReturn, OSSemPendEnds
  <1>2. CASE FlagReturn(t)
    BY <1>1, <1>2 DEF KernelSound, TablesSound, TablesTypeOK, FlagsTypeOK, FlagReturn, waitVars,
       Undisturbed
  <1>3. CASE OSSemPendEnds(t)
    BY <1>1, <1>3 DEF KernelSound, TablesSound, TablesTypeOK, OSSemPendEnds, PendEnds, flagVars,
       Undisturbed
  <1>. QED
    BY <1>2, <1>3

(* Only the flags that a wait names are consumed, so the others stay set.  *)
LEMMA OtherFlagsStay ==
  ASSUME KernelSound, NEW t \in TCB, FlagReturn(t), NEW g \in Group, NEW flag \in OSFlagFlags[g],
         node[t].set, flag \notin node[t].flags
  PROVE  flag \in OSFlagFlags'[g]
  BY DEF KernelSound, TablesSound, TablesTypeOK, FlagsTypeOK, NodesExact, FlagReturn, Consume
=============================================================================
