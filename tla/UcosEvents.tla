----------------------------- MODULE UcosEvents -----------------------------
(***************************************************************************)
(* Semaphores, mailboxes, message queues and mutexes of MicroC/OS-II       *)
(* (UCOSII/src: os_sem.c, os_mbox.c, os_q.c, os_mutex.c) and               *)
(* OSEventPendMulti (os_core.c): their control blocks are taken from a     *)
(* common free list, filled, used by tasks and interrupt handlers, deleted *)
(* and taken again for another service.                                    *)
(*                                                                         *)
(* Tasks keep to the notes of OSMutexPend and OSMutexDel: an owner waits   *)
(* for nothing else, and its priority is not changed by others.  The code  *)
(* needs four things more, which it does not say; see MayTake, MaySuspend  *)
(* and MayDelete.                                                          *)
(*                                                                         *)
(* A queue's ring is a sequence here; UcosQueue has its pointers.  Which   *)
(* control block a free list yields is arbitrary.  A call whose checks     *)
(* fail returns an error code and changes nothing: it is left out.         *)
(***************************************************************************)
EXTENDS UcosCore, Sequences

CONSTANTS
  Msg,     \* the messages
  MaxCnt,  \* bound on OSEventCnt
  QSize,   \* OSQSize of every queue
  MaxQs,   \* OS_MAX_QS
  Several, \* the sets of events that tasks wait for with OSEventPendMulti
  Ticks    \* timeouts, and arguments of OSTimeDly

ASSUME MsgAssumption == NULL \notin Msg
ASSUME BoundAssumption == QSize \in Nat \ {0} /\ MaxQs \in Nat /\ MaxCnt \in Nat \ {0}
ASSUME TicksAssumption == Ticks \subseteq Nat \ {0}
ASSUME EventAssumption == IsFiniteSet(Event) /\ Several \subseteq (SUBSET Event) \ {{}}

VARIABLES
  OSEventType,      \* what each control block is, or "UNUSED"
  OSEventCnt,       \* a semaphore's count
  msgs,             \* what a mailbox or a queue holds, in order
  OSEventFreeList,  \* the control blocks in the free list
  OSQFreeList,      \* how many OS_Q are in theirs
  OSTCBMsg,         \* the message handed to each task, or NULL
  newEvent,         \* local to OSxxxCreate: the control block it has taken
  forgotten         \* history: the tasks that OSTaskResume did not make ready

eventVars == <<OSEventType, OSEventCnt, msgs, OSEventFreeList, OSQFreeList>>
localVars == <<OSTCBMsg, newEvent, forgotten>>

EventsTypeOK(kinds) ==
  /\ OSEventType \in [Event -> kinds \cup {"UNUSED"}]
  /\ OSEventCnt \in [Event -> Nat]
  /\ \A e \in Event : msgs[e] \in Seq(Msg) /\ Len(msgs[e]) <= QSize
  /\ OSEventFreeList \subseteq Event
  /\ OSQFreeList \in 0 .. MaxQs
  /\ OSTCBMsg \in [TCB -> Msg \cup {NULL}]
  /\ newEvent \in [TCB -> Event \cup {NULL}]
  /\ forgotten \subseteq TCB

(* The queue control blocks that are left by what main has created.        *)
OS_QInit(types) == OSQFreeList = MaxQs - Cardinality({e \in Event : types[e] = "Q"})

(* types: what main has created, with nothing in it.                       *)
EventsInit(types) ==
  /\ OSEventType = types
  /\ OSEventCnt = [e \in Event |-> 0]
  /\ msgs = [e \in Event |-> <<>>]
  /\ OSEventFreeList = {e \in Event : types[e] = "UNUSED"}
  /\ OS_QInit(types)
  /\ OSTCBMsg = [t \in TCB |-> NULL]
  /\ newEvent = [t \in TCB |-> NULL]
  /\ forgotten = {}

-----------------------------------------------------------------------------
(* Definitions named X_<fault> are faulty variants of X; nothing uses them. *)

(* The critical section that starts OSSemCreate, OSMboxCreate and          *)
(* OSQCreate: a control block leaves the free list.                        *)
TakeEvent(t) ==
  /\ InTask(t)
  /\ \E e \in OSEventFreeList :
       /\ OSEventFreeList' = OSEventFreeList \ {e}
       /\ newEvent' = [newEvent EXCEPT ![t] = e]
  /\ pc' = [pc EXCEPT ![t] = "create"]
  /\ UNCHANGED <<prioVars, stateVars, waitVars, cpuVars>>
  /\ UNCHANGED <<OSEventType, OSEventCnt, msgs, OSQFreeList, OSTCBMsg, forgotten>>

(* The control block is filled in: nobody else knows it yet.               *)
Fill(t, kind, cnt, contents) ==
  LET e == newEvent[t]
  IN  /\ OSEventType' = [OSEventType EXCEPT ![e] = kind]
      /\ OSEventCnt' = [OSEventCnt EXCEPT ![e] = cnt]
      /\ msgs' = [msgs EXCEPT ![e] = contents]
      /\ OSEventTbl' = [OSEventTbl EXCEPT ![e] = {}]
      /\ UNCHANGED OSEventFreeList

CreateEnds(t) ==
  /\ newEvent' = [newEvent EXCEPT ![t] = NULL]
  /\ pc' = [pc EXCEPT ![t] = "task"]
  /\ UNCHANGED <<prioVars, stateVars, EventPtr, EventMultiPtr, cpuVars, OSTCBMsg, forgotten>>

OSSemCreate(t) ==
  /\ Running(t)
  /\ pc[t] = "create"
  /\ \E cnt \in 0 .. MaxCnt : Fill(t, "SEM", cnt, <<>>)
  /\ CreateEnds(t)
  /\ UNCHANGED OSQFreeList

OSMboxCreate(t) ==
  /\ Running(t)
  /\ pc[t] = "create"
  /\ \E contents \in {<<>>} \cup {<<m>> : m \in Msg} : Fill(t, "MBOX", 0, contents)
  /\ CreateEnds(t)
  /\ UNCHANGED OSQFreeList

OSQCreate_KeepsEvent(t) ==
  /\ Running(t)
  /\ pc[t] = "create"
  /\ \/ /\ OSQFreeList > 0
        /\ OSQFreeList' = OSQFreeList - 1
        /\ Fill(t, "Q", 0, <<>>)
     \/ /\ OSQFreeList = 0
        /\ UNCHANGED <<OSEventFreeList, OSEventType, OSEventCnt, msgs, OSQFreeList, OSEventTbl>>
  /\ CreateEnds(t)

(* OSQCreate needs an OS_Q too; when there is none it gives the event's    *)
(* control block back.                                                     *)
OSQCreate(t) ==
  /\ Running(t)
  /\ pc[t] = "create"
  /\ \/ /\ OSQFreeList > 0
        /\ OSQFreeList' = OSQFreeList - 1
        /\ Fill(t, "Q", 0, <<>>)
     \/ /\ OSQFreeList = 0
        /\ OSEventFreeList' = OSEventFreeList \cup {newEvent[t]}
        /\ UNCHANGED <<OSEventType, OSEventCnt, msgs, OSQFreeList, OSEventTbl>>
  /\ CreateEnds(t)

-----------------------------------------------------------------------------
(* The rest of a service's functions say what they do to the event e; the  *)
(* caller is a task or, where the code allows it, an interrupt handler.    *)

Content == <<OSEventCnt, msgs>>
HasOne(e) == OSEventCnt[e] > 0 \/ msgs[e] # <<>>

(* A token, or the first message, of each event of E is taken.             *)
TakeOne(E) ==
  /\ OSEventCnt' = [e \in Event |->
       IF e \in E /\ OSEventType[e] = "SEM" THEN OSEventCnt[e] - 1 ELSE OSEventCnt[e]]
  /\ msgs' = [e \in Event |->
       IF e \in E /\ OSEventType[e] # "SEM" THEN Tail(msgs[e]) ELSE msgs[e]]

(* The tasks of S stop waiting for e, with StatPend s and message m.       *)
WakeFrom(ready, e, S, m, s) ==
  /\ OS_EventTaskRdy(ready, e, S, {OSEventType[e]}, s)
  /\ OSTCBMsg' = [t \in TCB |-> IF t \in S THEN m ELSE OSTCBMsg[t]]
  /\ forgotten' = forgotten \ S

Wake(e, S, m, s) == WakeFrom(OSRdyTbl, e, S, m, s)

Asleep == UNCHANGED <<stateVars, waitVars, OSTCBMsg, forgotten>>

OSSemPost(e) ==
  /\ OSEventType[e] = "SEM"
  /\ \/ OSEventTbl[e] # {} /\ Wake(e, FirstWaiter(e), NULL, "OK") /\ UNCHANGED Content
     \/ /\ OSEventTbl[e] = {}
        /\ OSEventCnt[e] < MaxCnt
        /\ OSEventCnt' = [OSEventCnt EXCEPT ![e] = @ + 1]
        /\ UNCHANGED msgs /\ Asleep

OSSemSet_AnyTime(e, cnt) ==
  /\ OSEventType[e] = "SEM"
  /\ OSEventCnt' = [OSEventCnt EXCEPT ![e] = cnt]
  /\ UNCHANGED msgs /\ Asleep

(* The count is not set while somebody waits.                              *)
OSSemSet(e, cnt) ==
  /\ OSEventType[e] = "SEM"
  /\ OSEventCnt[e] > 0 \/ OSEventTbl[e] = {}
  /\ OSEventCnt' = [OSEventCnt EXCEPT ![e] = cnt]
  /\ UNCHANGED msgs /\ Asleep

(* OSSemAccept, OSMboxAccept and OSQAccept: take without waiting.          *)
OSSemAccept(e)  == OSEventType[e] = "SEM" /\ HasOne(e) /\ TakeOne({e}) /\ Asleep
OSMboxAccept(e) == OSEventType[e] = "MBOX" /\ HasOne(e) /\ TakeOne({e}) /\ Asleep
OSQAccept(e)    == OSEventType[e] = "Q" /\ HasOne(e) /\ TakeOne({e}) /\ Asleep

(* S waiters get m; without any, it is put in the event with Put.          *)
PostTo(e, m, S, size, contents) ==
  \/ OSEventTbl[e] # {} /\ Wake(e, S, m, "OK") /\ UNCHANGED Content
  \/ /\ OSEventTbl[e] = {}
     /\ Len(msgs[e]) < size
     /\ msgs' = [msgs EXCEPT ![e] = contents]
     /\ UNCHANGED OSEventCnt /\ Asleep

OSMboxPost(e, m) ==
  OSEventType[e] = "MBOX" /\ PostTo(e, m, FirstWaiter(e), 1, <<m>>)

(* OS_POST_OPT_BROADCAST: all the waiters get the message.                 *)
OSMboxPostOpt(e, m) ==
  OSEventType[e] = "MBOX" /\ \E S \in {FirstWaiter(e), Waiters(e)} : PostTo(e, m, S, 1, <<m>>)

OSQPost(e, m) ==
  OSEventType[e] = "Q" /\ PostTo(e, m, FirstWaiter(e), QSize, Append(msgs[e], m))

OSQPostFront(e, m) ==
  OSEventType[e] = "Q" /\ PostTo(e, m, FirstWaiter(e), QSize, <<m>> \o msgs[e])

(* OS_POST_OPT_BROADCAST and OS_POST_OPT_FRONT.                            *)
OSQPostOpt(e, m) ==
  /\ OSEventType[e] = "Q"
  /\ \E S \in {FirstWaiter(e), Waiters(e)},
        contents \in {Append(msgs[e], m), <<m>> \o msgs[e]} : PostTo(e, m, S, QSize, contents)

(* What the queries copy for their caller, in one critical section.        *)
FirstMsg(e) == IF msgs[e] = <<>> THEN NULL ELSE Head(msgs[e])

OSSemQuery(e)  == [OSEventTbl |-> OSEventTbl[e], OSCnt |-> OSEventCnt[e]]
OSMboxQuery(e) == [OSEventTbl |-> OSEventTbl[e], OSMsg |-> FirstMsg(e)]
OSQQuery(e)    == [OSEventTbl |-> OSEventTbl[e], OSMsg |-> FirstMsg(e),
                   OSNMsgs |-> Len(msgs[e]), OSQSize |-> QSize]

OSQFlush(e) ==
  /\ OSEventType[e] = "Q"
  /\ msgs' = [msgs EXCEPT ![e] = <<>>]
  /\ UNCHANGED OSEventCnt /\ Asleep

(* OS_PEND_OPT_NONE and OS_PEND_OPT_BROADCAST.                             *)
Abort(e) ==
  /\ OSEventTbl[e] # {}
  /\ \E S \in {FirstWaiter(e), Waiters(e)} : Wake(e, S, NULL, "ABORT")
  /\ UNCHANGED Content

OSSemPendAbort(e)  == OSEventType[e] = "SEM" /\ Abort(e)
OSMboxPendAbort(e) == OSEventType[e] = "MBOX" /\ Abort(e)
OSQPendAbort(e)    == OSEventType[e] = "Q" /\ Abort(e)

(* OSxxxDel with OS_DEL_ALWAYS; OS_DEL_NO_PEND does the same when nobody   *)
(* waits, and nothing otherwise.                                           *)
Delete(e) ==
  /\ Wake(e, Waiters(e), NULL, "OK")
  /\ OSEventType' = [OSEventType EXCEPT ![e] = "UNUSED"]
  /\ OSEventCnt' = [OSEventCnt EXCEPT ![e] = 0]
  /\ msgs' = [msgs EXCEPT ![e] = <<>>]
  /\ OSEventFreeList' = OSEventFreeList \cup {e}

OSSemDel(e)  == OSEventType[e] = "SEM" /\ Delete(e) /\ UNCHANGED OSQFreeList
OSMboxDel(e) == OSEventType[e] = "MBOX" /\ Delete(e) /\ UNCHANGED OSQFreeList
OSQDel(e)    == OSEventType[e] = "Q" /\ Delete(e) /\ OSQFreeList' = OSQFreeList + 1

-----------------------------------------------------------------------------
(* A task takes what the event has, or waits.                              *)
Pend(t, e, timeout) ==
  /\ InTask(t)
  /\ OSLockNesting = 0
  /\ \/ HasOne(e) /\ TakeOne({e}) /\ UNCHANGED <<stateVars, waitVars, cpuVars, pc>>
     \/ /\ ~HasOne(e)
        /\ Block(OSRdyTbl, t, {OSEventType[e]}, timeout)
        /\ OS_EventTaskWait(t, e)
        /\ pc' = [pc EXCEPT ![t] = "pend"]
        /\ ThenSched(t, TRUE)
        /\ UNCHANGED Content
  /\ UNCHANGED <<prioVars, OSEventType, OSEventFreeList, OSQFreeList, localVars>>

OSSemPend(t, e, timeout)  == OSEventType[e] = "SEM" /\ Pend(t, e, timeout)
OSMboxPend(t, e, timeout) == OSEventType[e] = "MBOX" /\ Pend(t, e, timeout)
OSQPend(t, e, timeout)    == OSEventType[e] = "Q" /\ Pend(t, e, timeout)

(* The second half of those three.                                         *)
PendReturn(t) ==
  /\ Running(t)
  /\ pc[t] = "pend"
  /\ PendEnds(t)
  /\ OSTCBMsg' = [OSTCBMsg EXCEPT ![t] = NULL]
  /\ pc' = [pc EXCEPT ![t] = "task"]
  /\ UNCHANGED <<prioVars, cpuVars, eventVars, newEvent, forgotten>>

MultiTypes == {"SEM", "MBOX", "Q"}

(* From each event of E that has something, one is taken; when none has,   *)
(* the task waits for them all.                                            *)
OSEventPendMulti(t, E, timeout) ==
  LET ready == {e \in E : HasOne(e)}
  IN  /\ InTask(t)
      /\ OSLockNesting = 0
      /\ \A e \in E : OSEventType[e] \in MultiTypes
      /\ \/ /\ ready # {}
            /\ TakeOne(ready)
            /\ UNCHANGED <<stateVars, waitVars, cpuVars, pc>>
         \/ /\ ready = {}
            /\ Block(OSRdyTbl, t, {OSEventType[e] : e \in E} \cup {"MULTI"}, timeout)
            /\ OS_EventTaskWaitMulti(t, E)
            /\ pc' = [pc EXCEPT ![t] = "multi"]
            /\ ThenSched(t, TRUE)
            /\ UNCHANGED Content
      /\ UNCHANGED <<prioVars, OSEventType, OSEventFreeList, OSQFreeList, localVars>>

(* Its second half.  The type of the event that woke the task is looked at *)
(* only now: when the event has been deleted in the meantime, the call     *)
(* returns without clearing the task's control block.  (The message it     *)
(* leaves there is never read: OS_EventTaskRdy overwrites it before the    *)
(* next use, so the model drops it.)                                       *)
MultiReturn(t) ==
  LET e        == EventPtr[t]
      timedOut == StatPend[t] = "TO" \/ e = NULL
      gone     == ~timedOut /\ StatPend[t] = "OK" /\ OSEventType[e] \notin MultiTypes
  IN  /\ Running(t)
      /\ pc[t] = "multi"
      /\ RemoveFrom(t, IF timedOut THEN EventMultiPtr[t] ELSE {})
      /\ \/ /\ gone
            /\ UNCHANGED <<Stat, StatPend, EventPtr, EventMultiPtr>>
         \/ /\ ~gone
            /\ Stat' = [Stat EXCEPT ![t] = {}]
            /\ StatPend' = [StatPend EXCEPT ![t] = "OK"]
            /\ EventPtr' = [EventPtr EXCEPT ![t] = NULL]
            /\ EventMultiPtr' = [EventMultiPtr EXCEPT ![t] = {}]
      /\ OSTCBMsg' = [OSTCBMsg EXCEPT ![t] = NULL]
      /\ pc' = [pc EXCEPT ![t] = "task"]
      /\ UNCHANGED <<prioVars, Dly, OSRdyTbl, cpuVars, eventVars, newEvent, forgotten>>

-----------------------------------------------------------------------------
(* What a task or a handler may do to an event without waiting, with what  *)
(* it leaves alone; and what only a task may do.                           *)
Signal ==
  /\ \E e \in Event :
       \/ OSSemPost(e)
       \/ \E cnt \in 0 .. MaxCnt : OSSemSet(e, cnt)
       \/ \E m \in Msg : OSMboxPost(e, m) \/ OSQPost(e, m) \/ OSQPostFront(e, m)
       \/ OSSemAccept(e) \/ OSMboxAccept(e) \/ OSQAccept(e)
       \/ OSQFlush(e)
       \/ OSSemPendAbort(e) \/ OSMboxPendAbort(e) \/ OSQPendAbort(e)
  /\ UNCHANGED <<prioVars, OSEventType, OSEventFreeList, OSQFreeList, newEvent>>

SignalOpt ==
  /\ \E e \in Event, m \in Msg : OSMboxPostOpt(e, m) \/ OSQPostOpt(e, m)
  /\ UNCHANGED <<prioVars, OSEventType, OSEventFreeList, OSQFreeList, newEvent>>

EventDel(E) ==
  /\ \E e \in E : OSSemDel(e) \/ OSMboxDel(e) \/ OSQDel(e)
  /\ UNCHANGED <<prioVars, newEvent>>

Create(t) == TakeEvent(t) \/ OSSemCreate(t) \/ OSMboxCreate(t) \/ OSQCreate(t)

Wait(t) ==
  \E timeout \in Ticks \cup {0} :
    \/ \E e \in Event :
         OSSemPend(t, e, timeout) \/ OSMboxPend(t, e, timeout) \/ OSQPend(t, e, timeout)
    \/ \E E \in Several : OSEventPendMulti(t, E, timeout)

Return(t) == PendReturn(t) \/ MultiReturn(t)

-----------------------------------------------------------------------------
(* MUTEXES (os_mutex.c): the owner of a mutex that a more urgent task      *)
(* wants is raised to a priority reserved for it (the PIP) until it posts. *)

CONSTANTS
  Kinds,        \* what the control blocks may be at the start
  BasePrio,     \* the tasks' priorities
  PIP,          \* priorities that OSMutexCreate is called with
  Deletable,    \* the events that tasks delete, and create again
  AnyTime       \* calls are made in the states that the May... below exclude

(* AVAILABLE is no priority: OS_LOWEST_PRIO is 254 at most (ucos_ii.h).    *)
AVAILABLE == 255

ASSUME MutexAssumption ==
  /\ AnyTime \in BOOLEAN /\ Deletable \subseteq Event
  /\ PIP \subseteq Prio /\ \A t \in TCB, p \in PIP : BasePrio[t] > p

ASSUME BasePrioAssumption ==
  /\ BasePrio \in [TCB -> AnyPrio] /\ BasePrio[Idle] = IdlePrio /\ IdlePrio < AVAILABLE
  /\ \A t, u \in TCB : BasePrio[t] = BasePrio[u] => t = u

ASSUME KindsAssumption ==
  \A types \in Kinds :
    /\ types \in [Event -> MultiTypes \cup {"MUTEX", "UNUSED"}]
    /\ Cardinality({e \in Event : types[e] = "Q"}) <= MaxQs

VARIABLES
  pip,        \* the upper byte of a mutex's OSEventCnt
  ownerPrio,  \* the lower byte: the owner's priority, or AVAILABLE
  owner,      \* OSEventPtr of a mutex
  holds,      \* history: the mutexes that the calls of each task gave it
  bereft      \* history: the tasks in OSMutexPend whose mutex was deleted

mutexVars == <<pip, ownerPrio, owner>>
history == <<holds, bereft>>
vars == <<coreVars, eventVars, localVars, mutexVars, history>>

TypeOK ==
  /\ CoreTypeOK({"task", "create", "pend", "multi", "mutex"})
  /\ EventsTypeOK(MultiTypes \cup {"MUTEX"})
  /\ pip \in [Event -> Prio \cup {0}]
  /\ ownerPrio \in [Event -> AnyPrio \cup {AVAILABLE}]
  /\ owner \in [Event -> TCB \cup {NULL}]
  /\ holds \in [TCB -> SUBSET Event]
  /\ bereft \subseteq TCB

(* main has created tasks, events and mutexes: the latter with one of PIP. *)
Init ==
  /\ \E types \in Kinds :
       /\ EventsInit(types)
       /\ pip \in {f \in [Event -> PIP \cup {0}] :
            /\ \A e \in Event : f[e] = 0 <=> types[e] # "MUTEX"
            /\ \A d, e \in Event : f[d] = f[e] /\ f[d] # 0 => d = e}
  /\ CoreInit(TCB, BasePrio, {pip[e] : e \in Event} \ {0})
  /\ pc = [t \in TCB |-> "task"]
  /\ ownerPrio = [e \in Event |-> AVAILABLE]
  /\ owner = [e \in Event |-> NULL]
  /\ holds = [t \in TCB |-> {}]
  /\ bereft = {}

-----------------------------------------------------------------------------
IsMutex(e) == OSEventType[e] = "MUTEX"
OwnsNothing(t) == \A e \in Event : IsMutex(e) => owner[e] # t

(* The priority p is reserved, and the control block, which nobody else    *)
(* knows yet, is filled in.                                                *)
OSMutexCreate(t, p) ==
  /\ InTask(t)
  /\ OSTCBPrioTbl[p] = NULL
  /\ \E e \in OSEventFreeList :
       /\ OSEventFreeList' = OSEventFreeList \ {e}
       /\ OSEventType' = [OSEventType EXCEPT ![e] = "MUTEX"]
       /\ pip' = [pip EXCEPT ![e] = p]
       /\ OSEventTbl' = [OSEventTbl EXCEPT ![e] = {}]
  /\ OSTCBPrioTbl' = [OSTCBPrioTbl EXCEPT ![p] = RESERVED]
  /\ UNCHANGED <<OSTCBPrio, stateVars, EventPtr, EventMultiPtr, cpuVars, pc>>
  /\ UNCHANGED <<Content, OSQFreeList, localVars, ownerPrio, owner, history>>

(* Taking a mutex that is available.                                       *)
TakeMutex(t, e) ==
  /\ InTask(t)
  /\ IsMutex(e)
  /\ ownerPrio[e] = AVAILABLE
  /\ ownerPrio' = [ownerPrio EXCEPT ![e] = OSTCBPrio[t]]
  /\ owner' = [owner EXCEPT ![e] = t]
  /\ holds' = [holds EXCEPT ![t] = @ \cup {e}]
  /\ UNCHANGED <<coreVars, eventVars, localVars, pip, bereft>>

OSMutexAccept(t, e) == TakeMutex(t, e)

WaitForMutex_NoInheritance(t, e, timeout) ==
  /\ InTask(t)
  /\ IsMutex(e)
  /\ ownerPrio[e] # AVAILABLE
  /\ Block(OSRdyTbl, t, {"MUTEX"}, timeout)
  /\ OS_EventTaskWait(t, e)
  /\ pc' = [pc EXCEPT ![t] = "mutex"]
  /\ ThenSched(t, TRUE)
  /\ UNCHANGED <<prioVars, eventVars, localVars, mutexVars, history>>

(* The owner is raised when it is less urgent than the caller: its place   *)
(* in the ready list, or else in the wait list of the event its control    *)
(* block names, moves.  Then the caller waits.                             *)
WaitForMutex(t, e, timeout) ==
  LET o     == owner[e]
      p     == OSTCBPrio[o]
      raise == p > pip[e] /\ ownerPrio[e] > OSTCBPrio[t]
      ready == p \in OSRdyTbl
      moved(S) == (S \ {p}) \cup {pip[e]}
  IN  /\ InTask(t)
      /\ IsMutex(e)
      /\ ownerPrio[e] # AVAILABLE
      /\ Block(IF raise /\ ready THEN moved(OSRdyTbl) ELSE OSRdyTbl, t, {"MUTEX"}, timeout)
      /\ EventPtr' = [EventPtr EXCEPT ![t] = e]
      /\ OSEventTbl' = [d \in Event |->
           (IF raise /\ ~ready /\ d = EventPtr[o] THEN moved(OSEventTbl[d]) ELSE OSEventTbl[d])
             \cup (IF d = e THEN {OSTCBPrio[t]} ELSE {})]
      /\ OSTCBPrio' = IF raise THEN [OSTCBPrio EXCEPT ![o] = pip[e]] ELSE OSTCBPrio
      /\ OSTCBPrioTbl' = IF raise THEN [OSTCBPrioTbl EXCEPT ![pip[e]] = o] ELSE OSTCBPrioTbl
      /\ pc' = [pc EXCEPT ![t] = "mutex"]
      /\ ThenSched(t, TRUE)
      /\ UNCHANGED <<EventMultiPtr, eventVars, localVars, mutexVars, history>>

OSMutexPend(t, e, timeout) ==
  OSLockNesting = 0 /\ (TakeMutex(t, e) \/ WaitForMutex(t, e, timeout))

(* OSMutex_RdyAtPrio(o, ownerPrio[e]) when o is at e's PIP: the ready list *)
(* and the priorities after it.                                            *)
Raised(o, e)  == o # NULL /\ OSTCBPrio[o] = pip[e]
RdyAtPrio(e)  == IF Raised(owner[e], e) THEN (OSRdyTbl \ {pip[e]}) \cup {ownerPrio[e]} ELSE OSRdyTbl
PrioAfter(e)  == IF Raised(owner[e], e) THEN [OSTCBPrio EXCEPT ![owner[e]] = ownerPrio[e]]
                                        ELSE OSTCBPrio

(* The owner goes back to its priority and hands the mutex to the most     *)
(* urgent waiter; without one it does not call OS_Sched.                   *)
OSMutexPost(t, e) ==
  /\ InTask(t)
  /\ IsMutex(e)
  /\ owner[e] = t
  /\ WakeFrom(RdyAtPrio(e), e, FirstWaiter(e), NULL, "OK")
  /\ OSTCBPrio' = PrioAfter(e)
  /\ OSTCBPrioTbl' = [OSTCBPrioTbl EXCEPT ![pip[e]] = RESERVED]
  /\ \/ /\ OSEventTbl[e] = {}
        /\ ownerPrio' = [ownerPrio EXCEPT ![e] = AVAILABLE]
        /\ owner' = [owner EXCEPT ![e] = NULL]
        /\ ThenSched(t, FALSE)
     \/ /\ OSEventTbl[e] # {}
        /\ ownerPrio' = [ownerPrio EXCEPT ![e] = MostUrgent(OSEventTbl[e])]
        /\ owner' = [owner EXCEPT ![e] = OSTCBPrioTbl[MostUrgent(OSEventTbl[e])]]
        /\ ThenSched(t, TRUE)
  /\ holds' = [holds EXCEPT ![t] = @ \ {e}]
  /\ UNCHANGED <<pc, eventVars, newEvent, pip, bereft>>

(* OS_DEL_ALWAYS lowers a raised owner and readies the waiters;            *)
(* OS_DEL_NO_PEND needs an empty wait list and lowers nobody.  Both free   *)
(* the PIP and the control block.  The tasks that are still in OSMutexPend *)
(* for this mutex, whether they waited or had been given it, return with   *)
(* OS_ERR_NONE and own nothing.                                            *)
OSMutexDel(t, e, opt) ==
  /\ InTask(t)
  /\ IsMutex(e)
  /\ \/ /\ opt = "NO_PEND"
        /\ OSEventTbl[e] = {}
        /\ UNCHANGED <<OSTCBPrio, stateVars, waitVars, OSTCBMsg, forgotten>>
     \/ /\ opt = "ALWAYS"
        /\ WakeFrom(RdyAtPrio(e), e, Waiters(e), NULL, "OK")
        /\ OSTCBPrio' = PrioAfter(e)
  /\ OSTCBPrioTbl' = [OSTCBPrioTbl EXCEPT ![pip[e]] = NULL]
  /\ OSEventType' = [OSEventType EXCEPT ![e] = "UNUSED"]
  /\ OSEventFreeList' = OSEventFreeList \cup {e}
  /\ ownerPrio' = [ownerPrio EXCEPT ![e] = AVAILABLE]
  /\ owner' = [owner EXCEPT ![e] = NULL]
  /\ pip' = [pip EXCEPT ![e] = 0]
  /\ holds' = [u \in TCB |-> holds[u] \ {e}]
  /\ bereft' = bereft \cup {u \in TCB : pc[u] = "mutex" /\ EventPtr[u] = e}
  /\ ThenSched(t, OSEventTbl[e] # {})
  /\ UNCHANGED <<pc, Content, OSQFreeList, newEvent>>

OSMutexQuery(e) ==
  [OSEventTbl |-> OSEventTbl[e], OSMutexPIP |-> pip[e], OSOwnerPrio |-> ownerPrio[e],
   OSValue |-> ownerPrio[e] = AVAILABLE]

(* The second half of OSMutexPend.                                         *)
MutexReturn(t) ==
  /\ Running(t)
  /\ pc[t] = "mutex"
  /\ PendEnds(t)
  /\ holds' = IF StatPend[t] = "OK" /\ t \notin bereft
                THEN [holds EXCEPT ![t] = @ \cup {EventPtr[t]}] ELSE holds
  /\ bereft' = bereft \ {t}
  /\ pc' = [pc EXCEPT ![t] = "task"]
  /\ UNCHANGED <<prioVars, cpuVars, eventVars, localVars, mutexVars>>

-----------------------------------------------------------------------------
(* What the notes of os_mutex.c ask for: an owner waits for nothing else.  *)
(* And four things more that the code does not survive:                    *)
(*   a task that MultiReturn has left with an old EventPtr takes no mutex  *)
(*   before a wait for one event has cleared it;                           *)
(*   a task in OSMutexPend is not suspended;                               *)
(*   OS_DEL_ALWAYS finds the mutex's owner, if there is one, ready to run; *)
(*   OS_DEL_NO_PEND does not find it at the PIP.                           *)
MayWait(t) == AnyTime \/ OwnsNothing(t)
MayTake(t) == AnyTime \/ (OwnsNothing(t) /\ EventMultiPtr[t] = {})

MaySuspend(p) == AnyTime \/ (HasTask(p) => pc[OSTCBPrioTbl[p]] # "mutex")

MayDelete(e, opt) ==
  AnyTime \/ (owner[e] # NULL => IF opt = "ALWAYS" THEN OSTCBPrio[owner[e]] \in OSRdyTbl
                                                   ELSE OSTCBPrio[owner[e]] # pip[e])

(* OSTaskResume takes any bit left in OSTCBStat for a wait.  A wait for    *)
(* several events that ends while its task is suspended leaves some: the   *)
(* task is resumed, and forgotten.                                         *)
Waiting(t) == StatPend[t] # "TO" /\ \E e \in Event : OSTCBPrio[t] \in OSEventTbl[e]

Resume(p) ==
  /\ OSTaskResume(p)
  /\ forgotten' = forgotten \cup
       {t \in TCB : t = OSTCBPrioTbl[p] /\ Stat[t] # {"SUSPEND"} /\ Dly[t] = 0 /\ ~Waiting(t)}

TaskCall(t) ==
  /\ InTask(t)
  /\ \/ (Signal \/ SignalOpt \/ EventDel(Deletable)) /\ ThenSched(t, OSEventTbl' # OSEventTbl)
     \/ SignalOpt /\ ThenSched(t, FALSE)
     \/ /\ \E p \in Prio : Resume(p)
        /\ ThenSched(t, OSRdyTbl' # OSRdyTbl)
        /\ UNCHANGED <<eventVars, OSTCBMsg, newEvent>>
     \/ /\ \/ /\ \E p \in Prio : MaySuspend(p) /\ OSTaskSuspend(p)
              /\ ThenSched(t, Stat'[t] # Stat[t])
           \/ /\ \E ticks \in Ticks : OSTimeDly(t, ticks)
              /\ ThenSched(t, TRUE)
        /\ UNCHANGED <<eventVars, localVars>>
  /\ UNCHANGED <<pc, mutexVars, history>>

MutexCall(t) ==
  \/ \E p \in PIP : OSMutexCreate(t, p)
  \/ \E e \in Event : MayTake(t) /\ OSMutexAccept(t, e)
  \/ \E e \in Event, timeout \in Ticks \cup {0} :
       MayTake(t) /\ OSMutexPend(t, e, timeout)
  \/ \E e \in Event : OSMutexPost(t, e)
  \/ \E e \in Deletable, opt \in {"NO_PEND", "ALWAYS"} : MayDelete(e, opt) /\ OSMutexDel(t, e, opt)
  \/ MutexReturn(t)

(* Handlers post, take, flush and abort; they cannot wait, create, delete  *)
(* or touch a mutex.                                                       *)
Interrupt ==
  /\ \/ OSTimeTick /\ UNCHANGED <<eventVars, localVars>>
     \/ Signal \/ SignalOpt
  /\ OSIntExit
  /\ UNCHANGED <<mutexVars, history>>

OS_TaskIdle == Running(Idle) /\ UNCHANGED vars

Next ==
  \/ \E t \in TCB \ {Idle} :
       \/ Create(t) /\ UNCHANGED <<mutexVars, history>>
       \/ MayWait(t) /\ Wait(t) /\ UNCHANGED <<mutexVars, history>>
       \/ Return(t) /\ UNCHANGED <<mutexVars, history>>
       \/ TaskCall(t)
       \/ MutexCall(t)
  \/ \E t \in TCB : OS_Sched(t) /\ UNCHANGED <<eventVars, localVars, mutexVars, history>>
  \/ Interrupt
  \/ OS_TaskIdle

Spec == Init /\ [][Next]_vars

-----------------------------------------------------------------------------
(* PROPERTIES                                                              *)

(* The tasks in e's wait list: those that wait for it alone, until they    *)
(* are woken or return from a timeout, and those that wait for several     *)
(* events of which none has come.                                          *)
WaitsFor(t, e) ==
  \/ /\ pc[t] \in {"pend", "mutex"}
     /\ EventPtr[t] = e
     /\ Stat[t] \cap PEND_ANY # {} \/ StatPend[t] = "TO"
  \/ pc[t] = "multi" /\ e \in EventMultiPtr[t] /\ EventPtr[t] = NULL

(* What MultiReturn may leave, until the next return clears it: old bits   *)
(* in OSTCBStat, by which its next wait for one event cannot be told.      *)
LeftOver(t) == pc[t] # "multi" /\ EventMultiPtr[t] # {}

(* The wait list of an event holds exactly the tasks that wait for it      *)
(* (OSEventTbl of ucos_ii.h, "List of tasks waiting for event to occur"),  *)
(* and an event that is deleted or being created has none, though posts,   *)
(* aborts, timeouts, raised priorities and reuse of control blocks come    *)
(* between a task's wait and its return.                                   *)
WaitListExact ==
  \A e \in Event :
    /\ \A t \in TCB : LeftOver(t) \/ (WaitsFor(t, e) <=> OSTCBPrio[t] \in OSEventTbl[e])
    /\ OSEventTbl[e] \subseteq {OSTCBPrio[t] : t \in {u \in TCB : WaitsFor(u, e)}}
    /\ OSEventTbl[e] # {} => OSEventType[e] # "UNUSED"

(* No control block leaks: each event's is in the free list, in use, or in *)
(* the hands of one call of OSxxxCreate; each OS_Q is free or a queue's;   *)
(* a reserved priority is a mutex's.                                       *)
NothingLeaks ==
  LET taken == {newEvent[t] : t \in {u \in TCB : pc[u] = "create"}}
  IN  /\ OSEventFreeList \cap taken = {}
      /\ \A e \in Event : OSEventType[e] = "UNUSED" <=> e \in OSEventFreeList \cup taken
      /\ \A t, u \in TCB : newEvent[t] = newEvent[u] /\ newEvent[t] # NULL => t = u
      /\ OSQFreeList + Cardinality({e \in Event : OSEventType[e] = "Q"}) = MaxQs

(* No query tells of a task that waits for an event with something to give *)
(* (the comments of os_sem.c, os_mbox.c, os_q.c and os_mutex.c: "Get       *)
(* semaphore count", "Get next message to return if available"), whatever  *)
(* mix of posts, sets, aborts, timeouts and waits for several events.      *)
NobodyStranded ==
  \A e \in Event :
    /\ OSEventType[e] = "SEM" => LET q == OSSemQuery(e) IN q.OSEventTbl = {} \/ q.OSCnt = 0
    /\ OSEventType[e] = "MBOX" => LET q == OSMboxQuery(e) IN q.OSEventTbl = {} \/ q.OSMsg = NULL
    /\ OSEventType[e] = "Q" =>
         LET q == OSQQuery(e)
         IN  (q.OSEventTbl = {} \/ q.OSNMsgs = 0) /\ (q.OSNMsgs = 0 <=> q.OSMsg = NULL)
    /\ IsMutex(e) =>
         LET q == OSMutexQuery(e)
         IN  (q.OSEventTbl = {} \/ ~q.OSValue) /\ (q.OSValue <=> owner[e] = NULL)

(* A task is ready exactly when it is not suspended, its timer does not    *)
(* run and no wait holds it, but for those that OSTaskResume forgets: only *)
(* tasks whose wait for several events came to its end.  And a message     *)
(* handed to a task is still there for it: neither a timeout nor a second  *)
(* post takes its place.                                                   *)
Held(t) ==
  \/ "SUSPEND" \in Stat[t]
  \/ Dly[t] > 0
  \/ StatPend[t] # "TO" /\ \E e \in Event : WaitsFor(t, e)

ReadyExact ==
  \A t \in TCB :
    /\ LeftOver(t) \/ (OSTCBPrio[t] \in OSRdyTbl <=> ~Held(t) /\ t \notin forgotten)
    /\ t \in forgotten => EventMultiPtr[t] # {}
    /\ OSTCBMsg[t] # NULL /\ pc[t] \in {"pend", "multi"} => StatPend[t] = "OK"

TablesExact == TypeOK /\ WaitListExact /\ NothingLeaks /\ ReadyExact

(* A mutex has one owner or none.  The owner is the task that its calls    *)
(* have given the mutex to, or will when it returns from its wait; never   *)
(* one that returns with a timeout, nor one whose mutex was deleted while  *)
(* it was in OSMutexPend, though this one is told that it has the mutex    *)
(* and its control block may be another mutex by then.                     *)
OwnerExact ==
  \A e \in Event : IsMutex(e) =>
    {t \in TCB \ bereft :
       e \in holds[t] \/ (pc[t] = "mutex" /\ EventPtr[t] = e /\ ~WaitsFor(t, e))}
      = {owner[e]} \ {NULL}

(* A task has its own priority, or it owns a mutex that has raised it to   *)
(* the PIP; it is raised at least while a more urgent task waits; and the  *)
(* priority table finds it there.                                          *)
InheritsExact ==
  /\ \A t \in TCB :
       /\ OSTCBPrioTbl[OSTCBPrio[t]] = t /\ OSTCBPrioTbl[BasePrio[t]] = t
       /\ OSTCBPrio[t] # BasePrio[t] =>
            \E e \in Event : IsMutex(e) /\ owner[e] = t /\ OSTCBPrio[t] = pip[e]
  /\ \A e \in Event : IsMutex(e) =>
       /\ OSTCBPrioTbl[pip[e]] \in {RESERVED, owner[e]}
       /\ owner[e] # NULL => ownerPrio[e] = BasePrio[owner[e]]
       /\ \A t \in Waiters(e) :
            OSTCBPrio[t] < ownerPrio[e] => OSTCBPrio[owner[e]] = pip[e]

MutexExact == OwnerExact /\ InheritsExact
=============================================================================
