----------------------------- MODULE UcosTasks -----------------------------
(***************************************************************************)
(* The task services of MicroC/OS-II (UCOSII/src/os_task.c, os_time.c and  *)
(* OS_TCBInit of os_core.c): tasks create, delete, suspend and resume each *)
(* other and themselves, move each other to other priorities, delay, lock  *)
(* the scheduler, and wait for a semaphore, while an interrupt handler     *)
(* ticks or posts.  A task may be deleted wherever it stands, in the       *)
(* middle of a service too.                                                *)
(*                                                                         *)
(* Three things are left out.  Handlers tick and post, as all handlers of  *)
(* this system do; the kernel would let them suspend and resume tasks.     *)
(* Nobody takes the priority that the running task has just left by        *)
(* deleting or moving itself with the scheduler locked (OS_Sched would     *)
(* then not see that it must switch), and a task that has deleted itself   *)
(* under the lock calls nothing but OSSchedUnlock.  And a post is not      *)
(* followed further that finds a stale entry (below) of a priority that    *)
(* has no task, or one that is being deleted: the kernel would use a null  *)
(* pointer.                                                                *)
(***************************************************************************)
EXTENDS UcosCore

CONSTANTS
  First,       \* the tasks main has created
  FirstPrio,   \* their priorities; the others' are arbitrary
  Ticks,       \* arguments of OSTimeDly and timeouts of OSSemPend
  MaxNesting,  \* bound on OSLockNesting
  MaxCnt       \* bound on the semaphores' counts

ASSUME TicksAssumption == Ticks \subseteq Nat \ {0}
ASSUME FirstAssumption ==
  /\ First \subseteq TCB /\ FirstPrio \in [TCB -> AnyPrio]
  /\ FirstPrio[Idle] = IdlePrio
  /\ \A t, u \in First \cup {Idle} : FirstPrio[t] = FirstPrio[u] => t = u

VARIABLES
  OSTCBFreeList,  \* the control blocks of no task
  DelReq,         \* OSTCBDelReq: somebody has asked for the task's deletion
  cnt,            \* OSEventCnt of the semaphores
  newPrio,        \* local to OSTaskCreateExt and OSTaskDel: their argument
  newTCB,         \* local to OS_TCBInit and OSTaskDel: their control block
  stale,          \* history: entries <<e, p>> of wait lists that are nobody's wait
  orphans         \* history: what tasks deleted inside OSTaskCreateExt had taken

taskVars == <<OSTCBFreeList, DelReq, newPrio, newTCB>>
history  == <<stale, orphans>>
vars     == <<coreVars, taskVars, cnt, history>>

(* "reserved", "link" and "undo" are inside OSTaskCreateExt, "del" between *)
(* the two critical sections of OSTaskDel, "pend" inside OSSemPend; "free" *)
(* is a control block without a task.                                      *)
Locations == {"free", "task", "reserved", "link", "undo", "del", "pend"}

TypeOK ==
  /\ CoreTypeOK(Locations)
  /\ OSTCBFreeList \subseteq TCB \ {Idle}
  /\ DelReq \in [TCB -> BOOLEAN]
  /\ cnt \in [Event -> Nat]
  /\ newPrio \in [TCB -> AnyPrio]
  /\ newTCB \in [TCB -> TCB \cup {NULL}]
  /\ stale \subseteq Event \X AnyPrio
  /\ orphans \in [prios : SUBSET AnyPrio, blocks : SUBSET TCB]

Init ==
  /\ CoreInit(First \cup {Idle}, FirstPrio, {})
  /\ pc = [t \in TCB |-> IF t \in First \cup {Idle} THEN "task" ELSE "free"]
  /\ OSTCBFreeList = TCB \ (First \cup {Idle})
  /\ DelReq = [t \in TCB |-> FALSE]
  /\ cnt = [e \in Event |-> 0]
  /\ newPrio = [t \in TCB |-> IdlePrio]
  /\ newTCB = [t \in TCB |-> NULL]
  /\ stale = {}
  /\ orphans = [prios |-> {}, blocks |-> {}]

(* u waits for e, or has timed out and has not left the list yet.          *)
WaitsFor(u, e) ==
  pc[u] = "pend" /\ EventPtr[u] = e /\ ("SEM" \in Stat[u] \/ StatPend[u] = "TO")

(* The entries of new have become stale, those no longer there are not.    *)
Stale(new) == stale' = {s \in stale \cup new : s[2] \in OSEventTbl'[s[1]]}

BeingDeleted(u) == \E t \in TCB : pc[t] = "del" /\ newTCB[t] = u

-----------------------------------------------------------------------------
(* OSTaskCreate and OSTaskCreateExt reserve the priority, then leave the   *)
(* critical section to set the stack up.                                   *)
ReservePrio(t, p) ==
  /\ InTask(t)
  /\ OSTCBPrioTbl[p] = NULL /\ p # OSPrioCur
  /\ OSTCBPrioTbl' = [OSTCBPrioTbl EXCEPT ![p] = RESERVED]
  /\ newPrio' = [newPrio EXCEPT ![t] = p]
  /\ pc' = [pc EXCEPT ![t] = "reserved"]
  /\ UNCHANGED <<OSTCBPrio, stateVars, waitVars, cpuVars, OSTCBFreeList, DelReq, newTCB, cnt, history>>

OSTaskCreate(t, p)    == ReservePrio(t, p)
OSTaskCreateExt(t, p) == ReservePrio(t, p)

(* OS_TCBInit takes a control block, if there is one.                      *)
TCBInitTake(t) ==
  /\ Running(t)
  /\ pc[t] = "reserved"
  /\ \/ \E u \in OSTCBFreeList :
          /\ OSTCBFreeList' = OSTCBFreeList \ {u}
          /\ newTCB' = [newTCB EXCEPT ![t] = u]
          /\ pc' = [pc EXCEPT ![t] = "link"]
     \/ /\ OSTCBFreeList = {}
        /\ pc' = [pc EXCEPT ![t] = "undo"]
        /\ UNCHANGED <<OSTCBFreeList, newTCB>>
  /\ UNCHANGED <<prioVars, stateVars, waitVars, cpuVars, DelReq, newPrio, cnt, history>>

(* OS_TCBInit fills it, links it and makes the task ready.                 *)
TCBInitLink(t) ==
  LET u == newTCB[t]
      p == newPrio[t]
  IN  /\ Running(t)
      /\ pc[t] = "link"
      /\ OSTCBPrioTbl' = [OSTCBPrioTbl EXCEPT ![p] = u]
      /\ OSTCBPrio' = [OSTCBPrio EXCEPT ![u] = p]
      /\ Stat' = [Stat EXCEPT ![u] = {}]
      /\ StatPend' = [StatPend EXCEPT ![u] = "OK"]
      /\ Dly' = [Dly EXCEPT ![u] = 0]
      /\ EventPtr' = [EventPtr EXCEPT ![u] = NULL]
      /\ EventMultiPtr' = [EventMultiPtr EXCEPT ![u] = {}]
      /\ DelReq' = [DelReq EXCEPT ![u] = FALSE]
      /\ OSRdyTbl' = OSRdyTbl \cup {p}
      /\ newTCB' = [newTCB EXCEPT ![t] = NULL]
      /\ newPrio' = [newPrio EXCEPT ![t] = IdlePrio]
      /\ pc' = [pc EXCEPT ![t] = "task", ![u] = "task"]
      /\ sched' = [sched EXCEPT ![t] = TRUE, ![u] = FALSE]
      /\ UNCHANGED <<OSEventTbl, OSTCBCur, OSPrioCur, OSLockNesting, OSTCBFreeList, cnt, history>>

(* No control block was left: the priority is given back.                  *)
CreateUndo(t) ==
  /\ Running(t)
  /\ pc[t] = "undo"
  /\ OSTCBPrioTbl' = [OSTCBPrioTbl EXCEPT ![newPrio[t]] = NULL]
  /\ newPrio' = [newPrio EXCEPT ![t] = IdlePrio]
  /\ pc' = [pc EXCEPT ![t] = "task"]
  /\ UNCHANGED <<OSTCBPrio, stateVars, waitVars, cpuVars, OSTCBFreeList, DelReq, newTCB, cnt, history>>

-----------------------------------------------------------------------------
OSTaskDelDisable_StaysListed(t, p) ==
  LET u == OSTCBPrioTbl[p]
  IN  /\ InTask(t)
      /\ HasTask(p)
      /\ OSRdyTbl' = OSRdyTbl \ {OSTCBPrio[u]}
      /\ UNCHANGED OSEventTbl
      /\ Stale({})
      /\ Dly' = [Dly EXCEPT ![u] = 0]
      /\ Stat' = [Stat EXCEPT ![u] = {}]
      /\ StatPend' = [StatPend EXCEPT ![u] = "OK"]
      /\ OSLockNesting' = OSLockNesting + 1
      /\ newPrio' = [newPrio EXCEPT ![t] = p]
      /\ newTCB' = [newTCB EXCEPT ![t] = u]
      /\ pc' = [pc EXCEPT ![t] = "del"]
      /\ UNCHANGED <<prioVars, EventPtr, EventMultiPtr, OSTCBCur, OSPrioCur, sched,
                     OSTCBFreeList, DelReq, cnt, orphans>>

(* The tasks inside OSTaskCreateExt, and those of them in OS_TCBInit.      *)
Creators == {t \in TCB : pc[t] \in {"reserved", "link", "undo"}}
Linkers  == {t \in TCB : pc[t] = "link"}

(* OSTaskDel of the task at priority p, t itself or another: off the ready *)
(* list and every wait list, timer stopped; and the scheduler locked, so   *)
(* that an interrupt comes back here.                                      *)
OSTaskDelDisable(t, p) ==
  LET u == OSTCBPrioTbl[p]
  IN  /\ InTask(t)
      /\ HasTask(p)
      /\ OSRdyTbl' = OSRdyTbl \ {OSTCBPrio[u]}
      /\ RemoveFrom(u, {EventPtr[u]} \cup EventMultiPtr[u])
      /\ Stale({})
      /\ Dly' = [Dly EXCEPT ![u] = 0]
      /\ Stat' = [Stat EXCEPT ![u] = {}]
      /\ StatPend' = [StatPend EXCEPT ![u] = "OK"]
      /\ OSLockNesting' = OSLockNesting + 1
      /\ newPrio' = [newPrio EXCEPT ![t] = p]
      /\ newTCB' = [newTCB EXCEPT ![t] = u]
      /\ pc' = [pc EXCEPT ![t] = "del"]
      /\ UNCHANGED <<prioVars, EventPtr, EventMultiPtr, OSTCBCur, OSPrioCur, sched,
                     OSTCBFreeList, DelReq, cnt, orphans>>

(* The control block goes back to the free list.  If the task was in the   *)
(* middle of a creation, what it had taken is never given back.  OS_Sched  *)
(* returns to a task that deletes itself only if the scheduler is locked.  *)
OSTaskDelUnlink(t) ==
  LET u == newTCB[t]
  IN  /\ Running(t)
      /\ pc[t] = "del"
      /\ OSLockNesting' = OSLockNesting - 1
      /\ OSTCBPrioTbl' = [OSTCBPrioTbl EXCEPT ![newPrio[t]] = NULL]
      /\ OSTCBFreeList' = OSTCBFreeList \cup {u}
      /\ orphans' =
           [prios  |-> orphans.prios \cup {newPrio[c] : c \in {u} \cap Creators},
            blocks |-> orphans.blocks \cup {newTCB[c] : c \in {u} \cap Linkers}]
      /\ newPrio' = [newPrio EXCEPT ![t] = IdlePrio, ![u] = IdlePrio]
      /\ newTCB' = [newTCB EXCEPT ![t] = NULL, ![u] = NULL]
      /\ pc' = [pc EXCEPT ![t] = "task", ![u] = "free"]
      /\ sched' = [sched EXCEPT ![t] = TRUE]
      /\ UNCHANGED <<OSTCBPrio, stateVars, waitVars, OSTCBCur, OSPrioCur, DelReq, cnt, stale>>

(* OSTaskDelReq(p): the task is asked to delete itself when it can.        *)
OSTaskDelReq(t, p) ==
  /\ InTask(t)
  /\ OSTCBPrioTbl[p] \in TCB \ {Idle}
  /\ DelReq' = [DelReq EXCEPT ![OSTCBPrioTbl[p]] = TRUE]
  /\ UNCHANGED <<coreVars, OSTCBFreeList, newPrio, newTCB, cnt, history>>

-----------------------------------------------------------------------------
(* The services below say what they do to the task at priority p; the      *)
(* caller is a task or an interrupt handler.                               *)
OSTimeDlyResume(p) ==
  LET t == OSTCBPrioTbl[p]
  IN  /\ HasTask(p)
      /\ Dly[t] > 0
      /\ Dly' = [Dly EXCEPT ![t] = 0]
      /\ TimersEnd({t})

(* The task's bits move to priority q in the ready list and in the wait    *)
(* lists of the events that its control block names.  It names an event    *)
(* until the task has returned from its wait: one that the event has woken *)
(* meanwhile goes back into the list, and its entry is stale.              *)
OSTaskChangePrio(p, q) ==
  LET t == OSTCBPrioTbl[p]
      E == {EventPtr[t]} \cup EventMultiPtr[t]
  IN  /\ HasTask(p)
      /\ OSTCBPrioTbl[q] = NULL /\ q # OSPrioCur
      /\ OSTCBPrioTbl' = [OSTCBPrioTbl EXCEPT ![p] = NULL, ![q] = t]
      /\ OSTCBPrio' = [OSTCBPrio EXCEPT ![t] = q]
      /\ OSRdyTbl' = IF p \in OSRdyTbl THEN (OSRdyTbl \ {p}) \cup {q} ELSE OSRdyTbl
      /\ OSEventTbl' = [e \in Event |->
           IF e \in E THEN (OSEventTbl[e] \ {p}) \cup {q} ELSE OSEventTbl[e]]
      /\ Stale({<<e, q>> : e \in {d \in Event \cap E : ~WaitsFor(t, d)}})
      /\ UNCHANGED <<Stat, StatPend, Dly, EventPtr, EventMultiPtr>>

(* OSSemPost: to the most urgent waiter, or else into the count.  A stale  *)
(* entry wakes a task from whatever holds it; if that is a wait for        *)
(* another event, its entry there becomes stale.                           *)
OSSemPost(e) ==
  /\ \/ LET p == MostUrgent(OSEventTbl[e])
            u == OSTCBPrioTbl[p]
        IN  /\ OSEventTbl[e] # {}
            /\ u \in TCB /\ ~BeingDeleted(u)
            /\ OS_EventTaskRdy(OSRdyTbl, e, {u}, {"SEM"}, "OK")
            /\ Stale({<<d, p>> : d \in {f \in Event \ {e} : WaitsFor(u, f)}})
            /\ UNCHANGED cnt
     \/ /\ OSEventTbl[e] = {}
        /\ cnt[e] < MaxCnt
        /\ cnt' = [cnt EXCEPT ![e] = @ + 1]
        /\ UNCHANGED <<stateVars, waitVars, stale>>
  /\ UNCHANGED <<prioVars, orphans>>

OSSemPend(t, e, timeout) ==
  /\ InTask(t)
  /\ OSLockNesting = 0
  /\ \/ /\ cnt[e] > 0
        /\ cnt' = [cnt EXCEPT ![e] = @ - 1]
        /\ UNCHANGED <<stateVars, waitVars, cpuVars, pc>>
     \/ /\ cnt[e] = 0
        /\ Block(OSRdyTbl, t, {"SEM"}, timeout)
        /\ OS_EventTaskWait(t, e)
        /\ pc' = [pc EXCEPT ![t] = "pend"]
        /\ ThenSched(t, TRUE)
        /\ UNCHANGED cnt
  /\ UNCHANGED <<prioVars, taskVars, history>>

OSSemPendReturn(t) ==
  /\ Running(t)
  /\ pc[t] = "pend"
  /\ PendEnds(t)
  /\ Stale({})
  /\ pc' = [pc EXCEPT ![t] = "task"]
  /\ UNCHANGED <<prioVars, cpuVars, taskVars, cnt, orphans>>

(* What OSTaskQuery copies of the control block; nothing if it finds none. *)
OSTaskQuery(p) ==
  {[OSTCBPrio |-> OSTCBPrio[t], OSTCBStat |-> Stat[t], OSTCBStatPend |-> StatPend[t],
    OSTCBDly |-> Dly[t], OSTCBEventPtr |-> EventPtr[t], OSTCBDelReq |-> DelReq[t]] :
     t \in {OSTCBPrioTbl[p]} \cap TCB}

-----------------------------------------------------------------------------
(* A call of a running task: OS_Sched follows when a task became ready, or *)
(* the caller has taken itself off the ready list, or moved a priority.    *)
BecameReady == OSRdyTbl' \ OSRdyTbl # {}

TaskCall(t) ==
  /\ InTask(t)
  /\ \/ /\ \E p \in Prio : OSTaskSuspend(p)
        /\ ThenSched(t, Stat'[t] # Stat[t])
        /\ UNCHANGED <<cnt, history>>
     \/ /\ \E p \in Prio : OSTaskResume(p) \/ OSTimeDlyResume(p)
        /\ ThenSched(t, BecameReady)
        /\ UNCHANGED <<cnt, history>>
     \/ /\ \E p, q \in Prio : OSTaskChangePrio(p, q)
        /\ ThenSched(t, TRUE)
        /\ UNCHANGED <<cnt, orphans>>
     \/ /\ \E ticks \in Ticks : OSTimeDly(t, ticks)
        /\ ThenSched(t, TRUE)
        /\ UNCHANGED <<cnt, history>>
     \/ /\ \E e \in Event : OSSemPost(e)
        /\ ThenSched(t, cnt' = cnt)
  /\ UNCHANGED <<pc, taskVars>>

(* A task that runs on after it has deleted itself with the scheduler      *)
(* locked.                                                                 *)
WasDeleted(t) == Running(t) /\ pc[t] = "free"

(* The idle task only counts.                                              *)
OS_TaskIdle == Running(Idle) /\ UNCHANGED vars

Interrupt ==
  /\ \/ OSTimeTick /\ UNCHANGED <<cnt, history>>
     \/ \E e \in Event : OSSemPost(e)
  /\ OSIntExit
  /\ UNCHANGED taskVars

Next ==
  \/ \E t \in TCB \ {Idle} :
       \/ \E p \in Prio : OSTaskCreate(t, p) \/ OSTaskCreateExt(t, p)
       \/ \E p \in Prio : OSTaskDelDisable(t, p) \/ OSTaskDelReq(t, p)
       \/ TCBInitTake(t)
       \/ TCBInitLink(t)
       \/ CreateUndo(t)
       \/ OSTaskDelUnlink(t)
       \/ \E e \in Event, timeout \in Ticks \cup {0} : OSSemPend(t, e, timeout)
       \/ OSSemPendReturn(t)
       \/ TaskCall(t)
       \/ /\ InTask(t) /\ OSLockNesting < MaxNesting /\ OSSchedLock(t)
          /\ UNCHANGED <<taskVars, cnt, history>>
       \/ /\ InTask(t) \/ WasDeleted(t)
          /\ OSSchedUnlock(t)
          /\ UNCHANGED <<taskVars, cnt, history>>
       \/ OS_Sched(t) /\ UNCHANGED <<taskVars, cnt, history>>
  \/ Interrupt
  \/ OS_TaskIdle

Spec == Init /\ [][Next]_vars

-----------------------------------------------------------------------------
(* PROPERTIES                                                              *)

Tasks == {t \in TCB : pc[t] # "free"}

(* A task that a query finds at a priority is ready there exactly when it  *)
(* has nothing that holds it, no suspension, no event, no timer, whatever  *)
(* order suspensions, delays, timeouts, posts and changes of priority came *)
(* in.                                                                     *)
ReadyExact ==
  \A p \in AnyPrio : \A data \in OSTaskQuery(p) :
    /\ data.OSTCBPrio = p
    /\ BeingDeleted(OSTCBPrioTbl[p]) \/ (p \in OSRdyTbl <=> data.OSTCBStat = {} /\ data.OSTCBDly = 0)

(* With the scheduler unlocked and no call of OS_Sched outstanding, the    *)
(* processor was last given to the most urgent ready priority.             *)
RunsMostUrgent ==
  OSLockNesting = 0 /\ ~sched[OSTCBCur] => OSPrioCur = MostUrgent(OSRdyTbl)

(* Nothing leaks but with a task that is deleted inside OSTaskCreateExt:   *)
(* every control block is free, a task's, in the hands of one OS_TCBInit   *)
(* or lost with it; every reserved priority belongs to one creation or is  *)
(* lost with it; and a deletion keeps the processor until the control      *)
(* block is in the free list.                                              *)
NothingLeaks ==
  LET linked == {t \in TCB : \E p \in AnyPrio : OSTCBPrioTbl[p] = t}
      taken  == {newTCB[t] : t \in Linkers} \cup orphans.blocks
  IN  /\ linked = Tasks
      /\ TCB = OSTCBFreeList \cup linked \cup taken
      /\ OSTCBFreeList \cap (linked \cup taken) = {}
      /\ linked \cap taken = {}
      /\ \A t \in Tasks : OSTCBPrioTbl[OSTCBPrio[t]] = t
      /\ {p \in AnyPrio : OSTCBPrioTbl[p] = RESERVED} =
           {newPrio[t] : t \in Creators} \cup orphans.prios
      /\ \A t \in TCB : pc[t] = "del" => OSTCBCur = t
      /\ \A t, u \in Creators : newPrio[t] = newPrio[u] => t = u

(* The wait list of an event holds the tasks that wait for it (ucos_ii.h:  *)
(* "List of tasks waiting for event to occur") and no others, but for the  *)
(* stale entries that OSTaskChangePrio makes (os_task.c:401-409), of       *)
(* itself and in the lists of tasks that such an entry wakes.              *)
WaitListExact ==
  \A e \in Event :
    OSEventTbl[e] =
      {OSTCBPrio[t] : t \in {u \in Tasks : WaitsFor(u, e)}}
        \cup {p \in AnyPrio : <<e, p>> \in stale}

(* The tables of the kernel agree with what the tasks are doing.           *)
TablesExact == TypeOK /\ NothingLeaks /\ WaitListExact /\ ReadyExact
=============================================================================
