------------------------------ MODULE UcosCore ------------------------------
(***************************************************************************)
(* The heart of the MicroC/OS-II kernel (UCOSII/src/os_core.c): task       *)
(* control blocks, the ready list, the wait lists of event control blocks, *)
(* the scheduler and the clock tick.  The modules of the kernel's services *)
(* (UcosTasks, UcosEvents) extend this one.                                *)
(*                                                                         *)
(* A critical section is one step.  OS_Sched is a critical section of its  *)
(* own: between the one that changes the ready list and the call of        *)
(* OS_Sched that follows it (sched) an interrupt may come.  An interrupt   *)
(* handler runs with interrupts off, so it is one step up to OSIntExit.    *)
(***************************************************************************)
EXTENDS Integers, FiniteSets

CONSTANTS
  TCB,       \* the task control blocks
  Idle,      \* the one of OS_TaskIdle
  Prio,      \* the priorities of the other tasks: the smaller, the more urgent
  IdlePrio,  \* OS_TASK_IDLE_PRIO
  Event,     \* the event control blocks
  NULL,      \* the null pointer
  RESERVED   \* OS_TCB_RESERVED

ASSUME IdleAssumption == Idle \in TCB
ASSUME PrioAssumption == IdlePrio \in Nat /\ Prio \subseteq 0 .. IdlePrio - 1
ASSUME PointerAssumption == NULL \notin TCB \cup Event /\ RESERVED \notin TCB \cup {NULL}

VARIABLES
  OSTCBPrioTbl,   \* priority -> task control block, NULL or RESERVED
  OSTCBPrio,      \* each task's priority
  Stat,           \* OSTCBStat: the bits that are set
  StatPend,       \* OSTCBStatPend: how the last wait ended
  Dly,            \* OSTCBDly: ticks left, 0 when no timer runs
  OSRdyTbl,       \* the priorities that are ready
  EventPtr,       \* OSTCBEventPtr
  EventMultiPtr,  \* OSTCBEventMultiPtr: the events of OSEventPendMulti, or none
  OSEventTbl,     \* event -> the priorities in its wait list
  OSTCBCur,       \* the task that has the processor
  OSPrioCur,      \* its priority, as of the last context switch
  OSLockNesting,  \* calls of OSSchedLock not yet undone
  sched,          \* the task is about to call OS_Sched
  pc              \* where the task stands: "task" is its own code

prioVars  == <<OSTCBPrioTbl, OSTCBPrio>>
stateVars == <<Stat, StatPend, Dly, OSRdyTbl>>
waitVars  == <<EventPtr, EventMultiPtr, OSEventTbl>>
cpuVars   == <<OSTCBCur, OSPrioCur, OSLockNesting, sched>>
coreVars  == <<prioVars, stateVars, waitVars, cpuVars, pc>>

AnyPrio == Prio \cup {IdlePrio}

(* OS_STAT_PEND_ANY has no bit for a wait for several events.              *)
PEND_ANY == {"SEM", "MBOX", "Q", "MUTEX", "FLAG"}

(* pcs: the values of pc in the module that extends this one.              *)
CoreTypeOK(pcs) ==
  /\ OSTCBPrioTbl \in [AnyPrio -> TCB \cup {NULL, RESERVED}]
  /\ OSTCBPrio \in [TCB -> AnyPrio]
  /\ Stat \in [TCB -> SUBSET (PEND_ANY \cup {"MULTI", "SUSPEND"})]
  /\ StatPend \in [TCB -> {"OK", "TO", "ABORT"}]
  /\ Dly \in [TCB -> Nat]
  /\ OSRdyTbl \subseteq AnyPrio
  /\ EventPtr \in [TCB -> Event \cup {NULL}]
  /\ EventMultiPtr \in [TCB -> SUBSET Event]
  /\ OSEventTbl \in [Event -> SUBSET AnyPrio]
  /\ OSTCBCur \in TCB
  /\ OSPrioCur \in AnyPrio
  /\ OSLockNesting \in Nat
  /\ sched \in [TCB -> BOOLEAN]
  /\ pc \in [TCB -> pcs]

-----------------------------------------------------------------------------
(* Definitions named X_<fault> are faulty variants of X.  No action uses    *)
(* them: putting one in the place of X shows that a property notices.      *)
MostUrgent(S) == CHOOSE p \in S : \A q \in S : p <= q

(* OSInit has made the idle task, main the other tasks of "started" and    *)
(* the mutexes that reserve priorities; OSStart gives the processor to the *)
(* most urgent task.                                                       *)
CoreInit(started, prio, reserved) ==
  /\ OSTCBPrioTbl = [p \in AnyPrio |->
       IF \E t \in started : prio[t] = p THEN CHOOSE t \in started : prio[t] = p
                                          ELSE IF p \in reserved THEN RESERVED ELSE NULL]
  /\ OSTCBPrio = prio
  /\ Stat = [t \in TCB |-> {}]
  /\ StatPend = [t \in TCB |-> "OK"]
  /\ Dly = [t \in TCB |-> 0]
  /\ OSRdyTbl = {prio[t] : t \in started}
  /\ EventPtr = [t \in TCB |-> NULL]
  /\ EventMultiPtr = [t \in TCB |-> {}]
  /\ OSEventTbl = [e \in Event |-> {}]
  /\ OSPrioCur = MostUrgent(OSRdyTbl)
  /\ OSTCBCur = OSTCBPrioTbl[OSPrioCur]
  /\ OSLockNesting = 0
  /\ sched = [t \in TCB |-> FALSE]

Running(t) == OSTCBCur = t /\ ~sched[t]

(* A task's own code, where it may call a service.                         *)
InTask(t) == Running(t) /\ pc[t] = "task" /\ t # Idle

(* What ends a service called by a task: OS_Sched follows, or it does not. *)
ThenSched(t, follows) ==
  /\ sched' = [sched EXCEPT ![t] = follows]
  /\ UNCHANGED <<OSTCBCur, OSPrioCur, OSLockNesting>>

(* OS_SchedNew and the context switch (OSCtxSw): nothing is switched when  *)
(* the most urgent ready priority is the one of the last switch.           *)
OS_SchedNew(ready, table) ==
  LET p == MostUrgent(ready)
  IN  IF p = OSPrioCur
        THEN UNCHANGED <<OSTCBCur, OSPrioCur>>
        ELSE OSPrioCur' = p /\ OSTCBCur' = table[p]

OS_Sched(t) ==
  /\ OSTCBCur = t
  /\ sched[t]
  /\ sched' = [sched EXCEPT ![t] = FALSE]
  /\ IF OSLockNesting = 0
       THEN OS_SchedNew(OSRdyTbl, OSTCBPrioTbl)
       ELSE UNCHANGED <<OSTCBCur, OSPrioCur>>
  /\ UNCHANGED <<prioVars, stateVars, waitVars, OSLockNesting, pc>>

(* The end of an interrupt handler, which may have changed the ready list. *)
OSIntExit ==
  /\ IF OSLockNesting = 0
       THEN OS_SchedNew(OSRdyTbl', OSTCBPrioTbl')
       ELSE UNCHANGED <<OSTCBCur, OSPrioCur>>
  /\ UNCHANGED <<OSLockNesting, sched, pc>>

OSSchedLock(t) ==
  /\ OSLockNesting' = OSLockNesting + 1
  /\ UNCHANGED <<prioVars, stateVars, waitVars, OSTCBCur, OSPrioCur, sched, pc>>

OSSchedUnlock_NoSched(t) ==
  /\ OSLockNesting > 0
  /\ OSLockNesting' = OSLockNesting - 1
  /\ UNCHANGED <<prioVars, stateVars, waitVars, OSTCBCur, OSPrioCur, sched, pc>>

OSSchedUnlock(t) ==
  /\ OSLockNesting > 0
  /\ OSLockNesting' = OSLockNesting - 1
  /\ sched' = [sched EXCEPT ![t] = OSLockNesting = 1]
  /\ UNCHANGED <<prioVars, stateVars, waitVars, OSTCBCur, OSPrioCur, pc>>

-----------------------------------------------------------------------------
(* OS_EventTaskRdy for each task of S, which waits for e: its timer stops, *)
(* it leaves every wait list it is in, its bits msk are cleared and its    *)
(* StatPend is s; unless it is suspended it joins the list of ready tasks. *)
OS_EventTaskRdy(ready, e, S, msk, s) ==
  /\ Dly' = [t \in TCB |-> IF t \in S THEN 0 ELSE Dly[t]]
  /\ Stat' = [t \in TCB |-> IF t \in S THEN Stat[t] \ msk ELSE Stat[t]]
  /\ StatPend' = [t \in TCB |-> IF t \in S THEN s ELSE StatPend[t]]
  /\ OSRdyTbl' = ready \cup {OSTCBPrio[t] : t \in {u \in S : "SUSPEND" \notin Stat[u]}}
  /\ OSEventTbl' = [d \in Event |->
       OSEventTbl[d] \ {OSTCBPrio[t] : t \in {u \in S : d = e \/ d \in EventMultiPtr[u]}}]
  /\ EventPtr' = [t \in TCB |->
       IF t \in S /\ EventMultiPtr[t] # {} THEN e ELSE EventPtr[t]]
  /\ UNCHANGED EventMultiPtr

(* The tasks that wait for e, and the most urgent of them.                 *)
Waiters(e)     == {OSTCBPrioTbl[p] : p \in OSEventTbl[e]}
FirstWaiter(e) == {t \in Waiters(e) : \A u \in Waiters(e) : OSTCBPrio[t] <= OSTCBPrio[u]}

(* The running task t takes itself off the list of ready tasks, to wait    *)
(* for what the bits say, with a timeout (0: for ever).                    *)
Block(ready, t, bits, timeout) ==
  /\ Stat' = [Stat EXCEPT ![t] = @ \cup bits]
  /\ StatPend' = [StatPend EXCEPT ![t] = "OK"]
  /\ Dly' = [Dly EXCEPT ![t] = timeout]
  /\ OSRdyTbl' = ready \ {OSTCBPrio[t]}

OS_EventTaskWait(t, e) ==
  /\ EventPtr' = [EventPtr EXCEPT ![t] = e]
  /\ OSEventTbl' = [OSEventTbl EXCEPT ![e] = @ \cup {OSTCBPrio[t]}]
  /\ UNCHANGED EventMultiPtr

OS_EventTaskWaitMulti(t, E) ==
  /\ EventPtr' = [EventPtr EXCEPT ![t] = NULL]
  /\ EventMultiPtr' = [EventMultiPtr EXCEPT ![t] = E]
  /\ OSEventTbl' = [e \in Event |->
       IF e \in E THEN OSEventTbl[e] \cup {OSTCBPrio[t]} ELSE OSEventTbl[e]]

(* OS_EventTaskRemove and OS_EventTaskRemoveMulti.                         *)
RemoveFrom(t, E) ==
  OSEventTbl' = [e \in Event |->
    IF e \in E THEN OSEventTbl[e] \ {OSTCBPrio[t]} ELSE OSEventTbl[e]]

(* The end of OSSemPend, OSMboxPend, OSQPend and OSMutexPend: off the wait *)
(* list after a timeout, and the control block is cleared.                 *)
PendEnds(t) ==
  /\ RemoveFrom(t, IF StatPend[t] = "TO" THEN {EventPtr[t]} ELSE {})
  /\ EventPtr' = [EventPtr EXCEPT ![t] = NULL]
  /\ EventMultiPtr' = [EventMultiPtr EXCEPT ![t] = {}]
  /\ Stat' = [Stat EXCEPT ![t] = {}]
  /\ StatPend' = [StatPend EXCEPT ![t] = "OK"]
  /\ UNCHANGED <<Dly, OSRdyTbl>>

(* The timers of the tasks of S end: a wait becomes a timeout, though the  *)
(* task stays in the wait list; it is ready unless suspended.              *)
TimersEnd(S) ==
  /\ StatPend' = [t \in TCB |->
       IF t \notin S THEN StatPend[t] ELSE IF Stat[t] \cap PEND_ANY # {} THEN "TO" ELSE "OK"]
  /\ Stat' = [t \in TCB |-> IF t \in S THEN Stat[t] \ PEND_ANY ELSE Stat[t]]
  /\ OSRdyTbl' = OSRdyTbl \cup {OSTCBPrio[t] : t \in {u \in S : "SUSPEND" \notin Stat[u]}}
  /\ UNCHANGED <<prioVars, waitVars>>

OSTimeTick_NoTest ==
  /\ \E t \in TCB : Dly[t] > 0
  /\ Dly' = [t \in TCB |-> Dly[t] - 1]
  /\ TimersEnd({t \in TCB : Dly[t] = 1})

OSTimeTick ==
  /\ \E t \in TCB : Dly[t] > 0
  /\ Dly' = [t \in TCB |-> IF Dly[t] > 0 THEN Dly[t] - 1 ELSE 0]
  /\ TimersEnd({t \in TCB : Dly[t] = 1})

-----------------------------------------------------------------------------
(* OSTaskSuspend and OSTaskResume (os_task.c) of the task at priority p.   *)
HasTask(p) == OSTCBPrioTbl[p] \in TCB \ {Idle}

OSTaskSuspend(p) ==
  LET t == OSTCBPrioTbl[p]
  IN  /\ HasTask(p)
      /\ OSRdyTbl' = OSRdyTbl \ {OSTCBPrio[t]}
      /\ Stat' = [Stat EXCEPT ![t] = @ \cup {"SUSPEND"}]
      /\ UNCHANGED <<StatPend, Dly, prioVars, waitVars>>

OSTaskResume_IgnoresDelay(p) ==
  LET t == OSTCBPrioTbl[p]
  IN  /\ HasTask(p)
      /\ "SUSPEND" \in Stat[t]
      /\ Stat' = [Stat EXCEPT ![t] = @ \ {"SUSPEND"}]
      /\ OSRdyTbl' = IF Stat[t] = {"SUSPEND"} THEN OSRdyTbl \cup {OSTCBPrio[t]} ELSE OSRdyTbl
      /\ UNCHANGED <<StatPend, Dly, prioVars, waitVars>>

OSTaskResume(p) ==
  LET t == OSTCBPrioTbl[p]
  IN  /\ HasTask(p)
      /\ "SUSPEND" \in Stat[t]
      /\ Stat' = [Stat EXCEPT ![t] = @ \ {"SUSPEND"}]
      /\ OSRdyTbl' = IF Stat[t] = {"SUSPEND"} /\ Dly[t] = 0
                       THEN OSRdyTbl \cup {OSTCBPrio[t]}
                       ELSE OSRdyTbl
      /\ UNCHANGED <<StatPend, Dly, prioVars, waitVars>>

(* OSTimeDly (os_time.c), called by the running task t.                    *)
OSTimeDly(t, ticks) ==
  /\ OSRdyTbl' = OSRdyTbl \ {OSTCBPrio[t]}
  /\ Dly' = [Dly EXCEPT ![t] = ticks]
  /\ UNCHANGED <<Stat, StatPend, prioVars, waitVars>>
=============================================================================
