-------------------------- MODULE UcosEventsProofs --------------------------
(***************************************************************************)
(* Proofs about semaphores, mailboxes, queues, waits for several events    *)
(* and mutexes, for any number of tasks, events, messages and timeouts,    *)
(* when tasks keep to the notes on mutexes and to the four things more     *)
(* that UcosEvents lists before MayWait (AnyTime is FALSE).                *)
(*                                                                         *)
(* First the invariant.  Then what the services do to the tasks' control   *)
(* blocks (TasksInv), to owners (OwnInv), to the processor (CpuInv) and to *)
(* the events (StoreInv); with these, the calls: those that do not wait,   *)
(* those that do, the return, and those of mutexes.  Last the step of the  *)
(* system, and what follows from the invariant.                            *)
(***************************************************************************)
EXTENDS UcosEvents, FiniteSetTheorems, WellFoundedInduction, TLAPS

(* The events in whose wait lists a task is.                               *)
Lists(t) == {e \in Event : OSTCBPrio[t] \in OSEventTbl[e]}

(* What a task's control block may hold, by the place "at" where the task  *)
(* stands, the wait lists "in" which it is and what they are of.  A wait   *)
(* that has been ended leaves its traces until the task runs: it is in no  *)
(* list, or it has timed out and is still in them all.  A task that is in  *)
(* its own code with events in OSTCBEventMultiPtr is one that MultiReturn  *)
(* has left so.                                                            *)
Consistent(at, stat, ended, dly, ptr, multi, in, msg, type) ==
  /\ at \in {"task", "create"} => in = {} /\ (multi = {} => ptr = NULL /\ ended = "OK")
  /\ at \in {"pend", "mutex"} => ptr \in Event /\ in \subseteq {ptr}
  /\ at = "mutex" => "SUSPEND" \notin stat
  /\ at = "multi" => multi # {} /\ in = IF ptr = NULL THEN multi ELSE {}
  /\ at \notin {"task", "create"} /\ in = {} => dly = 0 /\ ended # "TO"
  /\ IF multi = {} THEN "MULTI" \notin stat
                   ELSE "MULTI" \in stat /\ at # "mutex"
  /\ in = {} /\ multi = {} => stat \subseteq {"SUSPEND"}
  /\ in # {} /\ ended = "TO" => stat \cap PEND_ANY = {} /\ dly = 0
  /\ in # {} /\ ended # "TO" =>
       /\ ended = "OK"
       /\ \A e \in in : type[e] \in stat
       /\ multi = {} => \A s \in stat : s = "SUSPEND" \/ \E e \in in : s = type[e]
  /\ \A e \in in : IF at = "mutex" THEN type[e] = "MUTEX" ELSE type[e] \in MultiTypes
  /\ msg # NULL => at \in {"pend", "multi"} /\ in = {} /\ ended = "OK"

Runnable(stat, ended, dly, in) == "SUSPEND" \notin stat /\ dly = 0 /\ (in = {} \/ ended = "TO")

TaskInv(t) ==
  /\ Consistent(pc[t], Stat[t], StatPend[t], Dly[t], EventPtr[t], EventMultiPtr[t], Lists(t),
                OSTCBMsg[t], OSEventType)
  /\ OSTCBPrio[t] \in OSRdyTbl <=>
       Runnable(Stat[t], StatPend[t], Dly[t], Lists(t)) /\ t \notin forgotten
  /\ t \in forgotten =>
       EventMultiPtr[t] # {} /\ Dly[t] = 0 /\ (Lists(t) = {} \/ StatPend[t] = "TO")

(* Two tasks have two priorities, and the lists have the priorities of     *)
(* tasks.                                                                  *)
Distinct == \A t, u \in TCB : OSTCBPrio[t] = OSTCBPrio[u] => t = u

OfTasks ==
  /\ OSRdyTbl \subseteq {OSTCBPrio[t] : t \in TCB}
  /\ \A e \in Event : OSEventTbl[e] \subseteq {OSTCBPrio[t] : t \in TCB}

IdleInv == pc[Idle] = "task" /\ Stat[Idle] = {} /\ Dly[Idle] = 0 /\ EventMultiPtr[Idle] = {}

Places == {"task", "create", "pend", "multi", "mutex"}

TaskTypes ==
  /\ OSTCBPrio \in [TCB -> AnyPrio]
  /\ Stat \in [TCB -> SUBSET (PEND_ANY \cup {"MULTI", "SUSPEND"})]
  /\ StatPend \in [TCB -> {"OK", "TO", "ABORT"}]
  /\ Dly \in [TCB -> Nat]
  /\ OSRdyTbl \subseteq AnyPrio
  /\ EventPtr \in [TCB -> Event \cup {NULL}]
  /\ EventMultiPtr \in [TCB -> SUBSET Event]
  /\ OSEventTbl \in [Event -> SUBSET AnyPrio]
  /\ pc \in [TCB -> Places]
  /\ OSTCBMsg \in [TCB -> Msg \cup {NULL}]
  /\ OSEventType \in [Event -> MultiTypes \cup {"MUTEX", "UNUSED"}]
  /\ forgotten \subseteq TCB

TasksInv ==
  /\ TaskTypes /\ Distinct /\ OfTasks /\ IdleInv
  /\ \A t \in TCB : TaskInv(t)

-----------------------------------------------------------------------------
(* Who owns which mutex, and at which priority.                            *)
Owns(t, e) == IsMutex(e) /\ owner[e] = t

PriosInv ==
  \A t \in TCB :
    /\ OSTCBPrioTbl[OSTCBPrio[t]] = t /\ OSTCBPrioTbl[BasePrio[t]] = t
    /\ OSTCBPrio[t] # BasePrio[t] => \E e \in Event : Owns(t, e) /\ OSTCBPrio[t] = pip[e]

MutexInv ==
  /\ \A e \in Event :
       IF IsMutex(e)
         THEN /\ pip[e] \in PIP
              /\ owner[e] # NULL => ownerPrio[e] = BasePrio[owner[e]]
              /\ owner[e] = NULL => ownerPrio[e] = AVAILABLE /\ OSEventTbl[e] = {}
              /\ OSTCBPrioTbl[pip[e]] \in {RESERVED, owner[e]} \ {NULL}
              /\ \A p \in OSEventTbl[e] : p < ownerPrio[e] => OSTCBPrio[owner[e]] = pip[e]
         ELSE owner[e] = NULL /\ ownerPrio[e] = AVAILABLE
  /\ \A d, e \in Event : IsMutex(d) /\ IsMutex(e) /\ pip[d] = pip[e] => d = e

OwnersInv ==
  /\ \A d, e \in Event : owner[d] = owner[e] /\ owner[d] # NULL => d = e
  /\ \A e \in Event, t \in TCB : owner[e] = t =>
       /\ t # Idle /\ EventMultiPtr[t] = {} /\ Lists(t) = {}
       /\ \/ pc[t] \in {"task", "create"}
          \/ pc[t] = "mutex" /\ EventPtr[t] = e /\ StatPend[t] = "OK"
  /\ \A t \in TCB :
       /\ pc[t] = "mutex" /\ Lists(t) = {} /\ t \notin bereft => owner[EventPtr[t]] = t
       /\ t \in bereft => pc[t] = "mutex" /\ Lists(t) = {} /\ \A e \in Event : owner[e] # t
       /\ \A e \in Event : e \in holds[t] <=> owner[e] = t /\ pc[t] # "mutex"

MutexTypes ==
  /\ OSTCBPrioTbl \in [AnyPrio -> TCB \cup {NULL, RESERVED}]
  /\ pip \in [Event -> Prio \cup {0}]
  /\ ownerPrio \in [Event -> AnyPrio \cup {AVAILABLE}]
  /\ owner \in [Event -> TCB \cup {NULL}]
  /\ holds \in [TCB -> SUBSET Event]
  /\ bereft \subseteq TCB

OwnInv == MutexTypes /\ PriosInv /\ MutexInv /\ OwnersInv

-----------------------------------------------------------------------------
(* What the events hold.                                                   *)
ContentInv ==
  \A e \in Event :
    /\ msgs[e] \in Seq(Msg) /\ Len(msgs[e]) <= QSize
    /\ HasOne(e) => OSEventTbl[e] = {}
    /\ OSEventType[e] # "SEM" => OSEventCnt[e] = 0
    /\ OSEventType[e] \notin {"MBOX", "Q"} => msgs[e] = <<>>
    /\ OSEventType[e] = "UNUSED" => OSEventTbl[e] = {}

StoreTypes ==
  /\ OSEventCnt \in [Event -> Nat] /\ msgs \in [Event -> Seq(Msg)]
  /\ OSEventFreeList \subseteq Event
  /\ OSQFreeList \in 0 .. MaxQs
  /\ newEvent \in [TCB -> Event \cup {NULL}]

Taken == {newEvent[t] : t \in {u \in TCB : pc[u] = "create"}}

BlocksInv ==
  /\ \A t \in TCB : newEvent[t] # NULL <=> pc[t] = "create"
  /\ \A t, u \in TCB : newEvent[t] = newEvent[u] /\ newEvent[t] # NULL => t = u
  /\ \A t \in TCB : newEvent[t] \notin OSEventFreeList
  /\ \A e \in Event : OSEventType[e] = "UNUSED" <=> e \in OSEventFreeList \/ \E t \in TCB : newEvent[t] = e
  /\ OSQFreeList + Cardinality({e \in Event : OSEventType[e] = "Q"}) = MaxQs

StoreInv == StoreTypes /\ ContentInv /\ BlocksInv

-----------------------------------------------------------------------------
(* The processor.  When a mutex is posted to nobody, its owner runs on,    *)
(* and OSPrioCur is still the priority to which it was raised: until the   *)
(* next switch nobody may get this priority.                               *)
Stale ==
  /\ OSPrioCur \in PIP /\ \A u \in TCB : OSTCBPrio[u] # OSPrioCur
  /\ \/ sched[OSTCBCur]
     \/ \A e \in Event : IsMutex(e) /\ pip[e] = OSPrioCur => owner[e] \in {NULL, OSTCBCur}

CpuInv ==
  /\ OSTCBCur \in TCB /\ OSPrioCur \in AnyPrio /\ sched \in [TCB -> BOOLEAN]
  /\ OSLockNesting = 0
  /\ ~sched[OSTCBCur] => OSTCBPrio[OSTCBCur] \in OSRdyTbl
  /\ OSTCBPrio[OSTCBCur] = OSPrioCur \/ Stale

EventsInv == TasksInv /\ OwnInv /\ StoreInv /\ CpuInv
-----------------------------------------------------------------------------
(* Sets of tasks and of priorities.                                        *)

LEMMA PrioIsNat == AnyPrio \subseteq Nat /\ IdlePrio \in AnyPrio /\ AVAILABLE \notin AnyPrio
  BY PrioAssumption, BasePrioAssumption DEF AnyPrio, AVAILABLE

LEMMA Least ==
  ASSUME NEW S, S \subseteq Nat, S # {}
  PROVE  \E p \in S : \A q \in S : p <= q
  <1> DEFINE R == {ss \in Nat \X Nat : ss[1] < ss[2]}
  <1>1. IsWellFoundedOn(R, Nat)
    BY NatLessThanWellFounded DEF OpToRel
  <1>2. \E x \in S : \A y \in S : ~(<<y, x>> \in R)
    BY <1>1, WFMin
  <1>3. PICK x \in S : \A y \in S : ~(<<y, x>> \in R)
    BY <1>2
  <1>4. \A y \in S : ~(y < x)
    BY <1>3
  <1>. QED
    BY <1>4, x \in Nat

LEMMA MostUrgentIs ==
  ASSUME NEW S, S \subseteq AnyPrio, S # {}
  PROVE  MostUrgent(S) \in S /\ \A q \in S : MostUrgent(S) <= q
  <1>1. \E p \in S : \A q \in S : p <= q
    BY Least, PrioIsNat
  <1>. QED
    BY <1>1 DEF MostUrgent

(* The tasks in e's wait list are those that Waiters finds.                *)
LEMMA WaitersAre ==
  ASSUME Distinct, OfTasks, TaskTypes, PriosInv, NEW e \in Event
  PROVE  Waiters(e) = {t \in TCB : e \in Lists(t)}
  BY DEF Distinct, OfTasks, TaskTypes, PriosInv, Waiters, Lists

LEMMA FirstWaiterIs ==
  ASSUME Distinct, OfTasks, TaskTypes, PriosInv, NEW e \in Event, OSEventTbl[e] # {}
  PROVE  LET t == OSTCBPrioTbl[MostUrgent(OSEventTbl[e])]
         IN  /\ t \in TCB /\ e \in Lists(t) /\ OSTCBPrio[t] = MostUrgent(OSEventTbl[e])
             /\ FirstWaiter(e) = {t}
             /\ \A p \in OSEventTbl[e] : p # OSTCBPrio[t] => OSTCBPrio[t] < p
  <1> DEFINE p == MostUrgent(OSEventTbl[e])
  <1>1. OSEventTbl[e] \subseteq AnyPrio
    BY DEF TaskTypes
  <1>2. p \in OSEventTbl[e] /\ \A q \in OSEventTbl[e] : p <= q
    BY <1>1, MostUrgentIs
  <1> HIDE DEF p
  <1>3. PICK t \in TCB : OSTCBPrio[t] = p
    BY <1>2 DEF OfTasks
  <1>4. OSTCBPrioTbl[p] = t
    BY <1>3 DEF PriosInv
  <1>5. e \in Lists(t)
    BY <1>2, <1>3 DEF Lists
  <1>6. Waiters(e) = {u \in TCB : e \in Lists(u)}
    BY WaitersAre
  <1>7. \A u \in Waiters(e) : OSTCBPrio[u] \in OSEventTbl[e] /\ OSTCBPrio[u] \in Nat
    BY <1>1, <1>6, PrioIsNat DEF Lists
  <1>8. p \in Nat
    BY <1>1, <1>2, PrioIsNat
  <1>9. \A q \in OSEventTbl[e] : q # p => p < q
    <2> TAKE q \in OSEventTbl[e]
    <2>1. q \in Nat /\ p <= q
      BY <1>1, <1>2, PrioIsNat
    <2>. QED
      BY <2>1, <1>8
  <1>10. t \in FirstWaiter(e)
    BY <1>2, <1>3, <1>5, <1>6, <1>7 DEF FirstWaiter
  <1>11. ASSUME NEW u \in FirstWaiter(e) PROVE u = t
    <2>1. u \in Waiters(e) /\ OSTCBPrio[u] <= OSTCBPrio[t]
      BY <1>5, <1>6 DEF FirstWaiter
    <2>2. OSTCBPrio[u] = OSTCBPrio[t]
      BY <2>1, <1>3, <1>7, <1>8, <1>9
    <2>. QED
      BY <2>1, <2>2, <1>6 DEF Distinct
  <1>12. FirstWaiter(e) = {t}
    BY <1>10, <1>11
  <1>. QED
    BY <1>3, <1>4, <1>5, <1>9, <1>12 DEF p

-----------------------------------------------------------------------------
(* What the services do to a control block.                                *)

Bits == PEND_ANY \cup {"MULTI", "SUSPEND"}

(* OS_EventTaskRdy, of a task that waits for e.                            *)
LEMMA Woken ==
  ASSUME NEW at, NEW stat, NEW ended, NEW dly, NEW ptr, NEW multi, NEW in, NEW msg, NEW type,
         NEW newType, NEW e, NEW s, NEW m, NEW newPtr,
         Consistent(at, stat, ended, dly, ptr, multi, in, msg, type),
         at \in Places, stat \in SUBSET Bits,
         e \in in, in \subseteq Event, NULL \notin Event,
         newPtr = (IF multi # {} THEN e ELSE ptr),
         s \in {"OK", "ABORT"}, m # NULL => s = "OK" /\ type[e] # "MUTEX",
         type[e] = "MUTEX" => s = "OK",
         multi # {} => type[e] # "MUTEX"
  PROVE  Consistent(at, stat \ {type[e]}, s, 0, newPtr, multi, {}, m, newType)
  <1>1. at \in {"pend", "mutex", "multi"} /\ in # {}
    BY DEF Consistent, Places
  <1>2. in \subseteq {e} \cup multi
    BY <1>1 DEF Consistent
  <1>3. IF at = "mutex" THEN type[e] = "MUTEX" ELSE type[e] \in MultiTypes
    BY DEF Consistent
  <1>4. multi = {} => stat \ {type[e]} \subseteq {"SUSPEND"}
    <2> SUFFICES ASSUME multi = {}, NEW x \in stat \ {type[e]} PROVE x = "SUSPEND"
      OBVIOUS
    <2>1. in = {e} /\ "MULTI" \notin stat
      BY <1>2 DEF Consistent
    <2>2. CASE ended = "TO"
      BY <2>1, <2>2 DEF Consistent, Bits
    <2>3. CASE ended # "TO"
      BY <2>1, <2>3 DEF Consistent
    <2>. QED
      BY <2>2, <2>3
  <1>5. IF multi = {} THEN "MULTI" \notin stat \ {type[e]}
          ELSE "MULTI" \in stat \ {type[e]} /\ at # "mutex"
    BY <1>3 DEF Consistent, MultiTypes
  <1>6. at \in {"pend", "mutex"} => ptr \in Event /\ (multi # {} => e \in Event)
    BY DEF Consistent
  <1>7. at = "multi" => multi # {} /\ e # NULL
    BY DEF Consistent
  <1>8. m # NULL => at \in {"pend", "multi"}
    BY <1>1, <1>3
  <1> HIDE DEF Places
  <1>. QED
    BY <1>1, <1>2, <1>4, <1>5, <1>6, <1>7, <1>8 DEF Consistent

(* A timer ends.                                                           *)
LEMMA TimedOut ==
  ASSUME NEW at, NEW stat, NEW ended, NEW ptr, NEW multi, NEW in, NEW msg, NEW type, NEW dly, NEW to,
         at \in Places, stat \in SUBSET Bits, dly \in Nat, dly # 0,
         \A e \in in : type[e] \in MultiTypes \cup {"MUTEX", "UNUSED"},
         Consistent(at, stat, ended, dly, ptr, multi, in, msg, type),
         to = (IF stat \cap PEND_ANY # {} THEN "TO" ELSE "OK")
  PROVE  /\ Consistent(at, stat \ PEND_ANY, to, 0, ptr, multi, in, msg, type)
         /\ Runnable(stat \ PEND_ANY, to, 0, in) <=> "SUSPEND" \notin stat
  BY DEF Consistent, Bits, PEND_ANY, MultiTypes, Runnable

(* A timer runs on.                                                        *)
LEMMA TimerRuns ==
  ASSUME NEW at, NEW stat, NEW ended, NEW ptr, NEW multi, NEW in, NEW msg, NEW type, NEW dly, NEW later,
         at \in Places, dly \in Nat \ {0},
         Consistent(at, stat, ended, dly, ptr, multi, in, msg, type)
  PROVE  Consistent(at, stat, ended, later, ptr, multi, in, msg, type)
  BY DEF Consistent

LEMMA Suspended ==
  ASSUME NEW at, NEW stat, NEW ended, NEW dly, NEW ptr, NEW multi, NEW in, NEW msg, NEW type,
         at \in Places, stat \in SUBSET Bits, at # "mutex",
         Consistent(at, stat, ended, dly, ptr, multi, in, msg, type)
  PROVE  Consistent(at, stat \cup {"SUSPEND"}, ended, dly, ptr, multi, in, msg, type)
  BY DEF Consistent, PEND_ANY

LEMMA Resumed ==
  ASSUME NEW at, NEW stat, NEW ended, NEW dly, NEW ptr, NEW multi, NEW in, NEW msg, NEW type,
         at \in Places, stat \in SUBSET Bits, "SUSPEND" \in stat,
         \A e \in in : type[e] \in MultiTypes \cup {"MUTEX", "UNUSED"},
         Consistent(at, stat, ended, dly, ptr, multi, in, msg, type)
  PROVE  /\ Consistent(at, stat \ {"SUSPEND"}, ended, dly, ptr, multi, in, msg, type)
         /\ stat = {"SUSPEND"} => multi = {} /\ (in = {} \/ ended = "TO")
         /\ in = {} \/ ended = "TO" => stat = {"SUSPEND"} \/ multi # {}
  <1>1. \A e \in in : type[e] # "SUSPEND"
    BY DEF MultiTypes
  <1>2. Consistent(at, stat \ {"SUSPEND"}, ended, dly, ptr, multi, in, msg, type)
    BY <1>1 DEF Consistent
  <1>3. stat = {"SUSPEND"} => multi = {} /\ (in = {} \/ ended = "TO")
    BY <1>1 DEF Consistent
  <1>4. CASE multi = {} /\ in = {}
    BY <1>2, <1>3, <1>4 DEF Consistent
  <1>5. CASE multi = {} /\ in # {} /\ ended = "TO"
    BY <1>2, <1>3, <1>5 DEF Consistent, Bits
  <1>. QED
    BY <1>2, <1>3, <1>4, <1>5

(* OSSemPend and its like, and OSMutexPend, when the task has to wait.     *)
LEMMA BlocksOn ==
  ASSUME NEW stat, NEW ended, NEW dly, NEW ptr, NEW multi, NEW msg, NEW type, NEW e, NEW to, NEW timeout,
         Consistent("task", stat, ended, dly, ptr, multi, {}, msg, type),
         stat \in SUBSET Bits, e \in Event, to \in {"pend", "mutex"},
         IF to = "mutex" THEN type[e] = "MUTEX" /\ multi = {} ELSE type[e] \in MultiTypes,
         "SUSPEND" \notin stat
  PROVE  /\ Consistent(to, stat \cup {type[e]}, "OK", timeout, e, multi, {e}, msg, type)
         /\ ~Runnable(stat \cup {type[e]}, "OK", timeout, {e})
  BY DEF Consistent, PEND_ANY, MultiTypes, Runnable

LEMMA BlocksOnSeveral ==
  ASSUME NEW stat, NEW ended, NEW dly, NEW ptr, NEW multi, NEW msg, NEW type, NEW E, NEW timeout, NEW bits,
         Consistent("task", stat, ended, dly, ptr, multi, {}, msg, type),
         stat \in SUBSET Bits, E # {}, \A e \in E : type[e] \in MultiTypes,
         "SUSPEND" \notin stat, bits = stat \cup {type[e] : e \in E} \cup {"MULTI"}
  PROVE  /\ Consistent("multi", bits, "OK", timeout, NULL, E, E, msg, type)
         /\ ~Runnable(bits, "OK", timeout, E)
  <1>1. msg = NULL /\ E # {}
    BY DEF Consistent
  <1>2. "MULTI" \in bits /\ \A e \in E : type[e] \in bits
    OBVIOUS
  <1>3. "SUSPEND" \notin bits
    BY DEF MultiTypes
  <1>. QED
    BY <1>1, <1>2, <1>3 DEF Consistent, Runnable

(* A task in its own code, or about to fill in an event.                   *)
LEMMA InOwnCode ==
  ASSUME NEW at, NEW stat, NEW ended, NEW dly, NEW ptr, NEW multi, NEW in, NEW msg, NEW type,
         NEW to, NEW newType, NEW later,
         at \in {"task", "create"}, to \in {"task", "create"},
         Consistent(at, stat, ended, dly, ptr, multi, in, msg, type)
  PROVE  /\ in = {} /\ msg = NULL
         /\ Consistent(to, stat, ended, later, ptr, multi, in, msg, newType)
  BY DEF Consistent

LEMMA Returned ==
  ASSUME NEW dly, NEW type
  PROVE  /\ Consistent("task", {}, "OK", dly, NULL, {}, {}, NULL, type)
         /\ Runnable({}, "OK", 0, {})
  BY DEF Consistent, Runnable

(* Only the types of the events that a task waits for matter.              *)
LEMMA TypesOfLists ==
  ASSUME NEW at, NEW stat, NEW ended, NEW dly, NEW ptr, NEW multi, NEW in, NEW msg, NEW type,
         NEW newType, at \in Places,
         Consistent(at, stat, ended, dly, ptr, multi, in, msg, type),
         \A e \in in : newType[e] = type[e]
  PROVE  Consistent(at, stat, ended, dly, ptr, multi, in, msg, newType)
  BY DEF Consistent
-----------------------------------------------------------------------------
(* What the services do to the tasks.  A mutex's owner may change its      *)
(* priority meanwhile: it is in no wait list, and nobody else has had the  *)
(* new one.                                                                *)
Renamed ==
  /\ OSTCBPrio' \in [TCB -> AnyPrio] /\ Distinct'
  /\ \A t \in TCB : OSTCBPrio'[t] # OSTCBPrio[t] =>
       Lists(t) = {} /\ \A d \in Event : OSTCBPrio'[t] \notin OSEventTbl[d]

(* The same tasks are in the list "ready" under their new priorities.      *)
SameReady(ready) ==
  /\ ready \subseteq {OSTCBPrio'[t] : t \in TCB}
  /\ \A t \in TCB : OSTCBPrio'[t] \in ready <=> OSTCBPrio[t] \in OSRdyTbl

LEMMA NotRenamed ==
  ASSUME TasksInv, UNCHANGED OSTCBPrio
  PROVE  Renamed /\ SameReady(OSRdyTbl)
  BY DEF TasksInv, TaskTypes, Distinct, OfTasks, Renamed, SameReady

LEMMA WakeLists ==
  ASSUME TasksInv, PriosInv, NEW e \in Event, NEW S \in SUBSET Waiters(e),
         NEW ready, NEW s, OS_EventTaskRdy(ready, e, S, {OSEventType[e]}, s), Renamed
  PROVE  /\ S \subseteq TCB
         /\ \A t \in S : e \in Lists(t) /\ Lists(t) \subseteq {e} \cup EventMultiPtr[t]
                         /\ OSTCBPrio'[t] = OSTCBPrio[t]
         /\ \A t \in TCB : Lists(t)' = IF t \in S THEN {} ELSE Lists(t)
  <1>1. Waiters(e) = {t \in TCB : e \in Lists(t)}
    BY WaitersAre DEF TasksInv
  <1>2. S \subseteq TCB /\ \A t \in S : e \in Lists(t) /\ OSTCBPrio'[t] = OSTCBPrio[t]
    BY <1>1 DEF Renamed
  <1>3. ASSUME NEW t \in S PROVE Lists(t) \subseteq {e} \cup EventMultiPtr[t]
    <2>1. t \in TCB /\ e \in Lists(t)
      BY <1>2
    <2>2. Consistent(pc[t], Stat[t], StatPend[t], Dly[t], EventPtr[t], EventMultiPtr[t], Lists(t),
                     OSTCBMsg[t], OSEventType) /\ pc[t] \in Places
      BY <2>1 DEF TasksInv, TaskInv, TaskTypes
    <2>. QED
      BY <2>1, <2>2 DEF Consistent, Places
  <1>4. \A d \in Event : OSEventTbl'[d] =
          OSEventTbl[d] \ {OSTCBPrio[u] : u \in {v \in S : d = e \/ d \in EventMultiPtr[v]}}
    BY DEF OS_EventTaskRdy
  <1>5. ASSUME NEW t \in TCB, NEW d \in Event
        PROVE  d \in Lists(t)' <=> d \in Lists(t) /\ t \notin S
    <2>1. d \in Lists(t)' <=> OSTCBPrio'[t] \in OSEventTbl'[d]
      BY DEF Lists
    <2>2. CASE OSTCBPrio'[t] # OSTCBPrio[t]
      BY <1>4, <2>1, <2>2 DEF Renamed
    <2>3. CASE OSTCBPrio'[t] = OSTCBPrio[t]
      <3>1. \A u \in S : OSTCBPrio[t] = OSTCBPrio[u] <=> t = u
        BY <1>2 DEF TasksInv, Distinct
      <3>2. OSTCBPrio[t] \in {OSTCBPrio[u] : u \in {v \in S : d = e \/ d \in EventMultiPtr[v]}}
              <=> t \in S /\ (d = e \/ d \in EventMultiPtr[t])
        BY <3>1
      <3>3. d \in Lists(t) <=> OSTCBPrio[t] \in OSEventTbl[d]
        BY DEF Lists
      <3>. QED
        BY <1>3, <1>4, <2>1, <2>3, <3>2, <3>3
    <2>. QED
      BY <2>2, <2>3
  <1>6. \A t \in TCB : Lists(t)' \subseteq Event /\ Lists(t) \subseteq Event
    BY DEF Lists
  <1>. QED
    BY <1>2, <1>3, <1>5, <1>6

EventTypes == MultiTypes \cup {"MUTEX", "UNUSED"}

(* A task stays in a wait list under the priority it had.                  *)
LEMMA ListsOfTasks ==
  ASSUME TasksInv, Renamed, NEW p, NEW d \in Event, p \in OSEventTbl[d]
  PROVE  \E t \in TCB : p = OSTCBPrio'[t] /\ OSTCBPrio'[t] = OSTCBPrio[t] /\ d \in Lists(t)
  <1>1. PICK t \in TCB : p = OSTCBPrio[t]
    BY DEF TasksInv, OfTasks
  <1>2. d \in Lists(t)
    BY <1>1 DEF Lists
  <1>. QED
    BY <1>1, <1>2 DEF Renamed

LEMMA WokenKeeps ==
  ASSUME TasksInv, PriosInv, NEW e \in Event, NEW S \in SUBSET Waiters(e), NEW ready,
         NEW m \in Msg \cup {NULL}, NEW s \in {"OK", "ABORT"},
         WakeFrom(ready, e, S, m, s), Renamed, SameReady(ready), UNCHANGED pc,
         OSEventType' \in [Event -> EventTypes],
         \A d \in Event : OSEventType'[d] = OSEventType[d] \/ (d = e /\ S = Waiters(e)),
         m # NULL => s = "OK" /\ OSEventType[e] # "MUTEX",
         OSEventType[e] = "MUTEX" => s = "OK"
  PROVE  TasksInv'
  <1> USE DEF TasksInv
  <1>1. OS_EventTaskRdy(ready, e, S, {OSEventType[e]}, s)
    BY DEF WakeFrom
  <1>2. /\ S \subseteq TCB
        /\ \A t \in S : e \in Lists(t) /\ Lists(t) \subseteq {e} \cup EventMultiPtr[t]
                        /\ OSTCBPrio'[t] = OSTCBPrio[t]
        /\ \A t \in TCB : Lists(t)' = IF t \in S THEN {} ELSE Lists(t)
    BY <1>1, WakeLists, ZenonT(60)
  <1>3. Waiters(e) = {t \in TCB : e \in Lists(t)}
    BY WaitersAre
  <1>4. OSRdyTbl' = ready \cup {OSTCBPrio'[t] : t \in {u \in S : "SUSPEND" \notin Stat[u]}}
    BY <1>1, <1>2 DEF OS_EventTaskRdy
  <1>5. \A t \in TCB :
          /\ Dly'[t] = (IF t \in S THEN 0 ELSE Dly[t])
          /\ Stat'[t] = (IF t \in S THEN Stat[t] \ {OSEventType[e]} ELSE Stat[t])
          /\ StatPend'[t] = (IF t \in S THEN s ELSE StatPend[t])
          /\ EventPtr'[t] = (IF t \in S /\ EventMultiPtr[t] # {} THEN e ELSE EventPtr[t])
          /\ EventMultiPtr'[t] = EventMultiPtr[t] /\ pc'[t] = pc[t]
          /\ OSTCBMsg'[t] = (IF t \in S THEN m ELSE OSTCBMsg[t])
          /\ t \in forgotten' <=> t \in forgotten /\ t \notin S
    BY <1>1 DEF OS_EventTaskRdy, WakeFrom
  <1>6. TaskTypes'
    <2>1. OSTCBPrio' \in [TCB -> AnyPrio] /\ OSRdyTbl' \subseteq AnyPrio
      BY <1>2, <1>4 DEF Renamed, SameReady
    <2>2. Stat' \in [TCB -> SUBSET (PEND_ANY \cup {"MULTI", "SUSPEND"})]
      BY <1>1 DEF OS_EventTaskRdy, TaskTypes
    <2>3. StatPend' \in [TCB -> {"OK", "TO", "ABORT"}]
      BY <1>1 DEF OS_EventTaskRdy, TaskTypes
    <2>4. Dly' \in [TCB -> Nat]
      BY <1>1 DEF OS_EventTaskRdy, TaskTypes
    <2>5. EventPtr' \in [TCB -> Event \cup {NULL}]
      BY <1>1 DEF OS_EventTaskRdy, TaskTypes
    <2>6. OSEventTbl' \in [Event -> SUBSET AnyPrio]
      BY <1>1 DEF OS_EventTaskRdy, TaskTypes
    <2>7. OSTCBMsg' \in [TCB -> Msg \cup {NULL}]
      BY DEF WakeFrom, TaskTypes
    <2>8. EventMultiPtr' \in [TCB -> SUBSET Event] /\ pc' \in [TCB -> Places]
      BY <1>1 DEF OS_EventTaskRdy, TaskTypes
    <2>9. forgotten' \subseteq TCB
      BY DEF WakeFrom, TaskTypes
    <2>. QED
      BY <2>1, <2>2, <2>3, <2>4, <2>5, <2>6, <2>7, <2>8, <2>9 DEF TaskTypes, EventTypes
  <1>7. OfTasks'
    <2>1. OSRdyTbl' \subseteq {OSTCBPrio'[t] : t \in TCB}
      BY <1>2, <1>4 DEF SameReady
    <2>2. \A d \in Event : OSEventTbl'[d] \subseteq OSEventTbl[d]
      BY <1>1 DEF OS_EventTaskRdy
    <2>. QED
      BY <2>1, <2>2, ListsOfTasks DEF OfTasks
  <1>8. ASSUME NEW t \in TCB PROVE TaskInv(t)'
    <2>1. /\ Consistent(pc[t], Stat[t], StatPend[t], Dly[t], EventPtr[t], EventMultiPtr[t], Lists(t),
                        OSTCBMsg[t], OSEventType)
          /\ OSTCBPrio[t] \in OSRdyTbl <=>
               Runnable(Stat[t], StatPend[t], Dly[t], Lists(t)) /\ t \notin forgotten
          /\ t \in forgotten =>
               EventMultiPtr[t] # {} /\ Dly[t] = 0 /\ (Lists(t) = {} \/ StatPend[t] = "TO")
      BY DEF TaskInv
    <2>2. /\ pc[t] \in Places /\ Stat[t] \in SUBSET Bits /\ OSEventType[e] \in EventTypes
          /\ Lists(t) \subseteq Event
      BY DEF TaskTypes, Bits, EventTypes, Lists
    <2>3. OSTCBPrio'[t] \in ready <=> OSTCBPrio[t] \in OSRdyTbl
      BY DEF SameReady
    <2>4. OSTCBPrio'[t] \in {OSTCBPrio'[v] : v \in {u \in S : "SUSPEND" \notin Stat[u]}}
            <=> t \in S /\ "SUSPEND" \notin Stat[t]
      BY <1>2 DEF Renamed, Distinct
    <2>5. CASE t \in S
      <3>1. e \in Lists(t)
        BY <1>2, <2>5
      <3>2. EventMultiPtr[t] # {} => OSEventType[e] # "MUTEX"
        BY <2>1, <3>1 DEF Consistent, MultiTypes
      <3>3. Consistent(pc[t], Stat[t] \ {OSEventType[e]}, s, 0,
                       IF EventMultiPtr[t] # {} THEN e ELSE EventPtr[t], EventMultiPtr[t], {}, m, OSEventType')
        <4> DEFINE stat == Stat[t]
                   in   == Lists(t)
                   at   == pc[t]
                   multi == EventMultiPtr[t]
        <4>1. Consistent(at, stat, StatPend[t], Dly[t], EventPtr[t], multi, in, OSTCBMsg[t], OSEventType)
          BY <2>1
        <4>2. at \in Places /\ stat \in SUBSET Bits /\ e \in in /\ in \subseteq Event /\ NULL \notin Event
          BY <2>2, <3>1, PointerAssumption
        <4>3. multi # {} => OSEventType[e] # "MUTEX"
          BY <3>2
        <4> HIDE DEF at, stat, in, multi, TasksInv
        <4>4. ASSUME NEW ptr, ptr = (IF multi # {} THEN e ELSE EventPtr[t])
              PROVE  Consistent(at, stat \ {OSEventType[e]}, s, 0, ptr, multi, {}, m, OSEventType')
          BY <4>1, <4>2, <4>3, <4>4, Woken
        <4>. QED
          BY <4>4 DEF at, stat, in, multi
      <3>4. Consistent(pc[t], Stat[t], StatPend[t], Dly[t], EventPtr[t], EventMultiPtr[t], Lists(t),
                       OSTCBMsg[t], OSEventType)'
        BY <1>2, <1>5, <2>5, <3>3
      <3>5. Runnable(Stat[t] \ {OSEventType[e]}, s, 0, {}) <=> "SUSPEND" \notin Stat[t]
        BY <2>2 DEF Runnable, EventTypes, MultiTypes
      <3>6. OSTCBPrio'[t] \in OSRdyTbl' <=> "SUSPEND" \notin Stat[t]
        BY <1>4, <2>1, <2>3, <2>4, <2>5 DEF Runnable
      <3>. QED
        BY <1>2, <1>5, <2>5, <3>4, <3>5, <3>6 DEF TaskInv
    <2>6. CASE t \notin S
      <3>1. \A d \in Lists(t) : OSEventType'[d] = OSEventType[d]
        BY <1>3, <2>2, <2>6
      <3>2. Consistent(pc[t], Stat[t], StatPend[t], Dly[t], EventPtr[t], EventMultiPtr[t], Lists(t),
                       OSTCBMsg[t], OSEventType')
        BY <2>1, <2>2, <3>1, TypesOfLists
      <3>3. Consistent(pc[t], Stat[t], StatPend[t], Dly[t], EventPtr[t], EventMultiPtr[t], Lists(t),
                       OSTCBMsg[t], OSEventType)'
        BY <1>2, <1>5, <2>6, <3>2
      <3>4. OSTCBPrio'[t] \in OSRdyTbl' <=> OSTCBPrio[t] \in OSRdyTbl
        BY <1>4, <2>3, <2>4, <2>6
      <3>. QED
        BY <1>2, <1>5, <2>1, <2>6, <3>3, <3>4 DEF TaskInv
    <2>. QED
      BY <2>5, <2>6
  <1>9. IdleInv'
    <2>1. Idle \in TCB /\ Lists(Idle) = {}
      BY IdleAssumption DEF IdleInv, TaskInv, Consistent
    <2>2. Idle \notin S
      BY <1>2, <2>1
    <2>. QED
      BY <1>5, <2>1, <2>2 DEF IdleInv
  <1>. QED
    BY <1>6, <1>7, <1>8, <1>9 DEF Renamed

(* Most steps change one task, t.                                          *)
OthersSame(t) ==
  \A u \in TCB \ {t} :
    /\ pc'[u] = pc[u] /\ Stat'[u] = Stat[u] /\ StatPend'[u] = StatPend[u] /\ Dly'[u] = Dly[u]
    /\ EventPtr'[u] = EventPtr[u] /\ EventMultiPtr'[u] = EventMultiPtr[u] /\ OSTCBMsg'[u] = OSTCBMsg[u]
    /\ Lists(u)' = Lists(u) /\ \A d \in Lists(u) : OSEventType'[d] = OSEventType[d]
    /\ u \in forgotten' <=> u \in forgotten
    /\ OSTCBPrio'[u] \in OSRdyTbl' <=> OSTCBPrio[u] \in OSRdyTbl

LEMMA OneTask ==
  ASSUME TasksInv, NEW t \in TCB \ {Idle}, TaskTypes', Distinct', OfTasks', OthersSame(t), TaskInv(t)'
  PROVE  TasksInv'
  <1>1. ASSUME NEW u \in TCB, u # t PROVE TaskInv(u)'
    <2>1. /\ Consistent(pc[u], Stat[u], StatPend[u], Dly[u], EventPtr[u], EventMultiPtr[u], Lists(u),
                        OSTCBMsg[u], OSEventType)
          /\ pc[u] \in Places
          /\ OSTCBPrio[u] \in OSRdyTbl <=>
               Runnable(Stat[u], StatPend[u], Dly[u], Lists(u)) /\ u \notin forgotten
          /\ u \in forgotten =>
               EventMultiPtr[u] # {} /\ Dly[u] = 0 /\ (Lists(u) = {} \/ StatPend[u] = "TO")
      BY DEF TasksInv, TaskInv, TaskTypes
    <2>2. \A d \in Lists(u) : OSEventType'[d] = OSEventType[d]
      BY <1>1 DEF OthersSame
    <2>3. Consistent(pc[u], Stat[u], StatPend[u], Dly[u], EventPtr[u], EventMultiPtr[u], Lists(u),
                     OSTCBMsg[u], OSEventType')
      BY <2>1, <2>2, TypesOfLists
    <2>. QED
      BY <1>1, <2>1, <2>3 DEF TaskInv, OthersSame
  <1>2. IdleInv'
    BY IdleAssumption DEF TasksInv, IdleInv, OthersSame
  <1>. QED
    BY <1>1, <1>2 DEF TasksInv

LEMMA ListsOfOthers ==
  ASSUME TasksInv, NEW t \in TCB, UNCHANGED OSTCBPrio,
         \A d \in Event : OSEventTbl'[d] \ {OSTCBPrio[t]} = OSEventTbl[d] \ {OSTCBPrio[t]}
  PROVE  \A u \in TCB \ {t} : Lists(u)' = Lists(u)
  BY DEF TasksInv, Distinct, Lists

(* A step that leaves the tasks alone, or moves one within its own code;   *)
(* events for which nobody waits may change their types.                   *)
LEMMA SameTasks ==
  ASSUME TasksInv, UNCHANGED <<OSTCBPrio, stateVars, waitVars, pc, OSTCBMsg, OSEventType, forgotten>>
  PROVE  TasksInv'
  <1>1. \A t \in TCB : Lists(t)' = Lists(t)
    BY DEF Lists, waitVars
  <1>2. \A t \in TCB : TaskInv(t)'
    BY <1>1 DEF TasksInv, TaskInv, stateVars, waitVars
  <1>. QED
    BY <1>2 DEF TasksInv, TaskTypes, Distinct, OfTasks, IdleInv, stateVars, waitVars

LEMMA OwnCodeKeeps ==
  ASSUME TasksInv, NEW t \in TCB \ {Idle}, pc[t] \in {"task", "create"}, NEW at \in {"task", "create"},
         pc' = [pc EXCEPT ![t] = at], UNCHANGED <<OSTCBPrio, stateVars, waitVars, OSTCBMsg, forgotten>>,
         OSEventType' \in [Event -> EventTypes],
         \A d \in Event : OSEventType'[d] = OSEventType[d] \/ OSEventTbl[d] = {}
  PROVE  TasksInv'
  <1>1. TaskTypes'
    BY DEF TasksInv, TaskTypes, EventTypes, stateVars, waitVars, Places
  <1>2. Distinct' /\ OfTasks'
    BY DEF TasksInv, Distinct, OfTasks, stateVars, waitVars
  <1>3. \A u \in TCB : Lists(u)' = Lists(u) /\ \A d \in Lists(u) : OSEventType'[d] = OSEventType[d]
    BY DEF Lists, waitVars
  <1>4. OthersSame(t)
    BY <1>3 DEF OthersSame, stateVars, waitVars, TasksInv, TaskTypes
  <1>5. TaskInv(t)'
    <2>1. /\ Consistent(pc[t], Stat[t], StatPend[t], Dly[t], EventPtr[t], EventMultiPtr[t], Lists(t),
                        OSTCBMsg[t], OSEventType)
          /\ OSTCBPrio[t] \in OSRdyTbl <=>
               Runnable(Stat[t], StatPend[t], Dly[t], Lists(t)) /\ t \notin forgotten
          /\ t \in forgotten =>
               EventMultiPtr[t] # {} /\ Dly[t] = 0 /\ (Lists(t) = {} \/ StatPend[t] = "TO")
      BY DEF TasksInv, TaskInv
    <2>2. Consistent(at, Stat[t], StatPend[t], Dly[t], EventPtr[t], EventMultiPtr[t], Lists(t),
                     OSTCBMsg[t], OSEventType')
      BY <2>1, InOwnCode
    <2>3. pc'[t] = at
      BY DEF TasksInv, TaskTypes
    <2>. QED
      BY <1>3, <2>1, <2>2, <2>3 DEF TaskInv, stateVars, waitVars
  <1>. QED
    BY <1>1, <1>2, <1>4, <1>5, OneTask

LEMMA SuspendKeeps ==
  ASSUME TasksInv, PriosInv, NEW p, OSTaskSuspend(p), pc[OSTCBPrioTbl[p]] # "mutex",
         UNCHANGED <<pc, OSTCBMsg, OSEventType, forgotten>>
  PROVE  TasksInv'
  <1>1. PICK t \in TCB \ {Idle} : t = OSTCBPrioTbl[p]
    BY DEF OSTaskSuspend, HasTask
  <1>2. /\ OSRdyTbl' = OSRdyTbl \ {OSTCBPrio[t]} /\ Stat' = [Stat EXCEPT ![t] = @ \cup {"SUSPEND"}]
        /\ UNCHANGED <<StatPend, Dly, OSTCBPrio, waitVars>> /\ pc[t] # "mutex"
    BY <1>1 DEF OSTaskSuspend, prioVars
  <1>3. TaskTypes'
    BY <1>1, <1>2 DEF TasksInv, TaskTypes, waitVars
  <1>4. Distinct' /\ OfTasks'
    BY <1>2 DEF TasksInv, Distinct, OfTasks, waitVars
  <1>5. \A u \in TCB : Lists(u)' = Lists(u)
    BY <1>2 DEF Lists, waitVars
  <1>6. OthersSame(t)
    BY <1>1, <1>2, <1>5 DEF OthersSame, waitVars, TasksInv, TaskTypes, Distinct
  <1>7. TaskInv(t)'
    <2>1. /\ Consistent(pc[t], Stat[t], StatPend[t], Dly[t], EventPtr[t], EventMultiPtr[t], Lists(t),
                        OSTCBMsg[t], OSEventType)
          /\ pc[t] \in Places /\ Stat[t] \in SUBSET Bits
          /\ t \in forgotten =>
               EventMultiPtr[t] # {} /\ Dly[t] = 0 /\ (Lists(t) = {} \/ StatPend[t] = "TO")
      BY <1>1 DEF TasksInv, TaskInv, TaskTypes, Bits
    <2>2. Consistent(pc[t], Stat[t] \cup {"SUSPEND"}, StatPend[t], Dly[t], EventPtr[t], EventMultiPtr[t],
                     Lists(t), OSTCBMsg[t], OSEventType)
      BY <1>2, <2>1, Suspended
    <2>3. Stat'[t] = Stat[t] \cup {"SUSPEND"}
      BY <1>1, <1>2 DEF TasksInv, TaskTypes
    <2>. QED
      BY <1>2, <1>5, <2>1, <2>2, <2>3 DEF TaskInv, waitVars, Runnable
  <1>. QED
    BY <1>1, <1>3, <1>4, <1>6, <1>7, OneTask

LEMMA ResumeKeeps ==
  ASSUME TasksInv, PriosInv, NEW p, Resume(p), UNCHANGED <<pc, OSTCBMsg, OSEventType>>
  PROVE  TasksInv'
  <1>1. PICK t \in TCB \ {Idle} : t = OSTCBPrioTbl[p]
    BY DEF Resume, OSTaskResume, HasTask
  <1> DEFINE free == Lists(t) = {} \/ StatPend[t] = "TO"
  <1>2. /\ OSRdyTbl' = IF Stat[t] = {"SUSPEND"} /\ Dly[t] = 0 THEN OSRdyTbl \cup {OSTCBPrio[t]} ELSE OSRdyTbl
        /\ Stat' = [Stat EXCEPT ![t] = @ \ {"SUSPEND"}]
        /\ UNCHANGED <<StatPend, Dly, OSTCBPrio, waitVars>> /\ "SUSPEND" \in Stat[t]
    BY <1>1 DEF Resume, OSTaskResume, prioVars
  <1>3. /\ forgotten' \subseteq forgotten \cup {t} /\ forgotten \subseteq forgotten'
        /\ t \in forgotten' <=> t \in forgotten \/ (Stat[t] # {"SUSPEND"} /\ Dly[t] = 0 /\ free)
    BY <1>1 DEF Resume, Waiting, Lists
  <1> HIDE DEF free
  <1>4. TaskTypes'
    BY <1>1, <1>2, <1>3 DEF TasksInv, TaskTypes, waitVars
  <1>5. Distinct' /\ OfTasks'
    BY <1>1, <1>2 DEF TasksInv, Distinct, OfTasks, waitVars
  <1>6. \A u \in TCB : Lists(u)' = Lists(u)
    BY <1>2 DEF Lists, waitVars
  <1>7. OthersSame(t)
    BY <1>1, <1>2, <1>3, <1>6 DEF OthersSame, waitVars, TasksInv, TaskTypes, Distinct
  <1>8. TaskInv(t)'
    <2>1. /\ Consistent(pc[t], Stat[t], StatPend[t], Dly[t], EventPtr[t], EventMultiPtr[t], Lists(t),
                        OSTCBMsg[t], OSEventType)
          /\ pc[t] \in Places /\ Stat[t] \in SUBSET Bits
          /\ \A e \in Lists(t) : OSEventType[e] \in MultiTypes \cup {"MUTEX", "UNUSED"}
          /\ OSTCBPrio[t] \in OSRdyTbl <=>
               Runnable(Stat[t], StatPend[t], Dly[t], Lists(t)) /\ t \notin forgotten
          /\ t \in forgotten => EventMultiPtr[t] # {} /\ Dly[t] = 0 /\ free
      BY <1>1 DEF TasksInv, TaskInv, TaskTypes, Bits, Lists, free
    <2>2. /\ Consistent(pc[t], Stat[t] \ {"SUSPEND"}, StatPend[t], Dly[t], EventPtr[t], EventMultiPtr[t],
                        Lists(t), OSTCBMsg[t], OSEventType)
          /\ Stat[t] = {"SUSPEND"} => EventMultiPtr[t] = {} /\ free
          /\ free => Stat[t] = {"SUSPEND"} \/ EventMultiPtr[t] # {}
      <3> DEFINE stat == Stat[t]
                 in   == Lists(t)
      <3>1. /\ Consistent(pc[t], stat, StatPend[t], Dly[t], EventPtr[t], EventMultiPtr[t], in,
                          OSTCBMsg[t], OSEventType)
            /\ pc[t] \in Places /\ stat \in SUBSET Bits /\ "SUSPEND" \in stat
            /\ \A e \in in : OSEventType[e] \in MultiTypes \cup {"MUTEX", "UNUSED"}
            /\ free <=> in = {} \/ StatPend[t] = "TO"
        BY <1>2, <2>1 DEF free
      <3> HIDE DEF stat, in
      <3>2. /\ Consistent(pc[t], stat \ {"SUSPEND"}, StatPend[t], Dly[t], EventPtr[t], EventMultiPtr[t], in,
                          OSTCBMsg[t], OSEventType)
            /\ stat = {"SUSPEND"} => EventMultiPtr[t] = {} /\ (in = {} \/ StatPend[t] = "TO")
            /\ in = {} \/ StatPend[t] = "TO" => stat = {"SUSPEND"} \/ EventMultiPtr[t] # {}
        BY <3>1, Resumed, SMTT(60)
      <3>. QED
        BY <3>1, <3>2 DEF stat, in
    <2>3. Stat'[t] = Stat[t] \ {"SUSPEND"}
      BY <1>1, <1>2 DEF TasksInv, TaskTypes
    <2>4. OSTCBPrio[t] \notin OSRdyTbl
      BY <1>2, <2>1 DEF Runnable
    <2>5. Runnable(Stat'[t], StatPend[t], Dly[t], Lists(t)) <=> Dly[t] = 0 /\ free
      BY <2>3 DEF Runnable, free
    <2>6. OSTCBPrio[t] \in OSRdyTbl' <=> Dly[t] = 0 /\ free /\ t \notin forgotten'
      BY <1>2, <1>3, <2>1, <2>2, <2>4
    <2>7. t \in forgotten' => EventMultiPtr[t] # {} /\ Dly[t] = 0 /\ free
      BY <1>3, <2>1, <2>2
    <2>. QED
      BY <1>2, <1>6, <2>2, <2>3, <2>5, <2>6, <2>7 DEF TaskInv, waitVars, free
  <1>. QED
    BY <1>1, <1>4, <1>5, <1>7, <1>8, OneTask

LEMMA DelayKeeps ==
  ASSUME TasksInv, NEW t \in TCB \ {Idle}, pc[t] = "task", NEW ticks \in Ticks, OSTimeDly(t, ticks),
         OSTCBPrio[t] \in OSRdyTbl, UNCHANGED <<pc, OSTCBMsg, OSEventType, forgotten>>
  PROVE  TasksInv'
  <1>2. /\ OSRdyTbl' = OSRdyTbl \ {OSTCBPrio[t]} /\ Dly' = [Dly EXCEPT ![t] = ticks]
        /\ UNCHANGED <<Stat, StatPend, OSTCBPrio, waitVars>> /\ ticks \in Nat /\ ticks # 0
    BY TicksAssumption DEF OSTimeDly, prioVars
  <1>3. TaskTypes'
    BY <1>2 DEF TasksInv, TaskTypes, waitVars
  <1>4. Distinct' /\ OfTasks'
    BY <1>2 DEF TasksInv, Distinct, OfTasks, waitVars
  <1>5. \A u \in TCB : Lists(u)' = Lists(u)
    BY <1>2 DEF Lists, waitVars
  <1>6. OthersSame(t)
    BY <1>2, <1>5 DEF OthersSame, waitVars, TasksInv, TaskTypes, Distinct
  <1>7. TaskInv(t)'
    <2>1. /\ Consistent(pc[t], Stat[t], StatPend[t], Dly[t], EventPtr[t], EventMultiPtr[t], Lists(t),
                        OSTCBMsg[t], OSEventType)
          /\ t \notin forgotten
      BY DEF TasksInv, TaskInv
    <2>2. Consistent(pc[t], Stat[t], StatPend[t], ticks, EventPtr[t], EventMultiPtr[t],
                     Lists(t), OSTCBMsg[t], OSEventType)
      BY <2>1, InOwnCode
    <2>3. Dly'[t] = ticks
      BY <1>2 DEF TasksInv, TaskTypes
    <2>. QED
      BY <1>2, <1>5, <2>1, <2>2, <2>3 DEF TaskInv, waitVars, Runnable
  <1>. QED
    BY <1>3, <1>4, <1>6, <1>7, OneTask

(* The running task t waits for e; the owner of e, if it is a mutex, may   *)
(* be raised at the same time.                                             *)
LEMMA BlockKeeps ==
  ASSUME TasksInv, NEW t \in TCB \ {Idle}, NEW e \in Event, NEW ready, NEW timeout \in Nat,
         NEW at \in {"pend", "mutex"}, pc[t] = "task",
         IF at = "mutex" THEN OSEventType[e] = "MUTEX" /\ EventMultiPtr[t] = {} ELSE OSEventType[e] \in MultiTypes,
         OSTCBPrio[t] \in OSRdyTbl, OSTCBPrio'[t] = OSTCBPrio[t], Renamed, SameReady(ready),
         Block(ready, t, {OSEventType[e]}, timeout), EventPtr' = [EventPtr EXCEPT ![t] = e],
         UNCHANGED <<EventMultiPtr, OSTCBMsg, OSEventType, forgotten>>, pc' = [pc EXCEPT ![t] = at],
         OSEventTbl' \in [Event -> SUBSET AnyPrio],
         \A u \in TCB : Lists(u)' = IF u = t THEN {e} ELSE Lists(u),
         \A d \in Event : OSEventTbl'[d] \subseteq {OSTCBPrio'[u] : u \in TCB}
  PROVE  TasksInv'
  <1>1. TaskTypes /\ Distinct'
    BY DEF TasksInv, Renamed
  <1>2. /\ Stat' = [Stat EXCEPT ![t] = @ \cup {OSEventType[e]}] /\ StatPend' = [StatPend EXCEPT ![t] = "OK"]
        /\ Dly' = [Dly EXCEPT ![t] = timeout] /\ OSRdyTbl' = ready \ {OSTCBPrio'[t]}
        /\ ready \subseteq {OSTCBPrio'[u] : u \in TCB}
        /\ \A u \in TCB : OSTCBPrio'[u] \in ready <=> OSTCBPrio[u] \in OSRdyTbl
    BY DEF Block, SameReady
  <1>3. TaskTypes'
    <2>1. Stat' \in [TCB -> SUBSET (PEND_ANY \cup {"MULTI", "SUSPEND"})]
      BY <1>1, <1>2 DEF TaskTypes, MultiTypes, PEND_ANY
    <2>2. OSRdyTbl' \subseteq AnyPrio /\ OSTCBPrio' \in [TCB -> AnyPrio]
      BY <1>2 DEF Renamed
    <2>. QED
      BY <1>1, <1>2, <2>1, <2>2 DEF TaskTypes, Places
  <1>4. OfTasks'
    BY <1>2 DEF OfTasks
  <1>5. OthersSame(t)
    BY <1>1, <1>2 DEF OthersSame, TaskTypes, Distinct
  <1>6. TaskInv(t)'
    <2>1. /\ Consistent("task", Stat[t], StatPend[t], Dly[t], EventPtr[t], EventMultiPtr[t], Lists(t),
                        OSTCBMsg[t], OSEventType)
          /\ OSTCBPrio[t] \in OSRdyTbl <=>
               Runnable(Stat[t], StatPend[t], Dly[t], Lists(t)) /\ t \notin forgotten
          /\ Stat[t] \in SUBSET Bits
      BY DEF TasksInv, TaskInv, TaskTypes, Bits
    <2>2. Lists(t) = {} /\ "SUSPEND" \notin Stat[t] /\ t \notin forgotten
      BY <2>1 DEF Consistent, Runnable
    <2>3. Consistent("task", Stat[t], StatPend[t], Dly[t], EventPtr[t], EventMultiPtr[t], {},
                     OSTCBMsg[t], OSEventType)
      BY <2>1, <2>2
    <2>4. /\ Consistent(at, Stat[t] \cup {OSEventType[e]}, "OK", timeout, e, EventMultiPtr[t], {e},
                        OSTCBMsg[t], OSEventType)
          /\ ~Runnable(Stat[t] \cup {OSEventType[e]}, "OK", timeout, {e})
      BY <2>1, <2>2, <2>3, BlocksOn
    <2>5. /\ pc'[t] = at /\ Stat'[t] = Stat[t] \cup {OSEventType[e]} /\ StatPend'[t] = "OK"
          /\ Dly'[t] = timeout /\ EventPtr'[t] = e
      BY <1>1, <1>2 DEF TaskTypes
    <2>. QED
      BY <1>2, <2>2, <2>4, <2>5 DEF TaskInv
  <1>. QED
    BY <1>1, <1>3, <1>4, <1>5, <1>6, OneTask

LEMMA BlockSeveralKeeps ==
  ASSUME TasksInv, NEW t \in TCB \ {Idle}, NEW E \in (SUBSET Event) \ {{}}, NEW timeout \in Nat,
         pc[t] = "task", \A e \in E : OSEventType[e] \in MultiTypes, OSTCBPrio[t] \in OSRdyTbl,
         Block(OSRdyTbl, t, {OSEventType[e] : e \in E} \cup {"MULTI"}, timeout), OS_EventTaskWaitMulti(t, E),
         UNCHANGED <<OSTCBPrio, OSTCBMsg, OSEventType, forgotten>>, pc' = [pc EXCEPT ![t] = "multi"]
  PROVE  TasksInv'
  <1> DEFINE bits == Stat[t] \cup {OSEventType[e] : e \in E} \cup {"MULTI"}
  <1>1. TaskTypes /\ Distinct' /\ Distinct
    BY DEF TasksInv, Distinct
  <1>2. /\ Stat' = [Stat EXCEPT ![t] = bits] /\ StatPend' = [StatPend EXCEPT ![t] = "OK"]
        /\ Dly' = [Dly EXCEPT ![t] = timeout] /\ OSRdyTbl' = OSRdyTbl \ {OSTCBPrio[t]}
        /\ EventPtr' = [EventPtr EXCEPT ![t] = NULL] /\ EventMultiPtr' = [EventMultiPtr EXCEPT ![t] = E]
        /\ OSEventTbl' = [e \in Event |->
             IF e \in E THEN OSEventTbl[e] \cup {OSTCBPrio[t]} ELSE OSEventTbl[e]]
    BY DEF Block, OS_EventTaskWaitMulti
  <1>3. TaskTypes'
    <2>1. bits \in SUBSET (PEND_ANY \cup {"MULTI", "SUSPEND"})
      BY <1>1 DEF TaskTypes, MultiTypes, PEND_ANY
    <2>2. Stat' \in [TCB -> SUBSET (PEND_ANY \cup {"MULTI", "SUSPEND"})]
      BY <1>1, <1>2, <2>1 DEF TaskTypes
    <2>3. OSEventTbl' \in [Event -> SUBSET AnyPrio]
      BY <1>1, <1>2 DEF TaskTypes
    <2>. QED
      BY <1>1, <1>2, <2>2, <2>3 DEF TaskTypes, Places
  <1>4. OfTasks'
    BY <1>2 DEF TasksInv, OfTasks
  <1>5. \A u \in TCB : OSTCBPrio[u] = OSTCBPrio[t] <=> u = t
    BY <1>1 DEF Distinct
  <1>6. \A u \in TCB \ {t} : Lists(u)' = Lists(u)
    BY <1>2, <1>5 DEF Lists
  <1>7. OthersSame(t)
    BY <1>1, <1>2, <1>5, <1>6 DEF OthersSame, TaskTypes
  <1>8. TaskInv(t)'
    <2>1. /\ Consistent("task", Stat[t], StatPend[t], Dly[t], EventPtr[t], EventMultiPtr[t], Lists(t),
                        OSTCBMsg[t], OSEventType)
          /\ OSTCBPrio[t] \in OSRdyTbl <=>
               Runnable(Stat[t], StatPend[t], Dly[t], Lists(t)) /\ t \notin forgotten
          /\ Stat[t] \in SUBSET Bits
      BY DEF TasksInv, TaskInv, TaskTypes, Bits
    <2>2. Lists(t) = {} /\ "SUSPEND" \notin Stat[t] /\ t \notin forgotten
      BY <2>1 DEF Consistent, Runnable
    <2>3. Consistent("task", Stat[t], StatPend[t], Dly[t], EventPtr[t], EventMultiPtr[t], {},
                     OSTCBMsg[t], OSEventType)
      BY <2>1, <2>2
    <2>4. /\ Consistent("multi", bits, "OK", timeout, NULL, E, E, OSTCBMsg[t], OSEventType)
          /\ ~Runnable(bits, "OK", timeout, E)
      <3>1. E # {} /\ bits = Stat[t] \cup {OSEventType[e] : e \in E} \cup {"MULTI"}
        OBVIOUS
      <3> HIDE DEF bits
      <3>. QED
        BY <2>1, <2>2, <2>3, <3>1, BlocksOnSeveral
    <2>5. /\ pc'[t] = "multi" /\ Stat'[t] = bits /\ StatPend'[t] = "OK"
          /\ Dly'[t] = timeout /\ EventPtr'[t] = NULL /\ EventMultiPtr'[t] = E
      BY <1>1, <1>2 DEF TaskTypes
    <2>6. Lists(t)' = E
      <3>1. \A d \in Event : OSTCBPrio[t] \in OSEventTbl'[d] <=> d \in E
        BY <1>2, <2>2 DEF Lists
      <3>. QED
        BY <3>1 DEF Lists
    <2>. QED
      BY <1>2, <2>2, <2>4, <2>5, <2>6 DEF TaskInv
  <1>. QED
    BY <1>1, <1>3, <1>4, <1>7, <1>8, OneTask

(* A task that has been woken, or whose timer has ended, returns.          *)
LEMMA ReturnKeeps ==
  ASSUME TasksInv, NEW t \in TCB \ {Idle}, OSTCBPrio[t] \in OSRdyTbl, NEW E,
         RemoveFrom(t, E), Lists(t) \subseteq E,
         EventPtr' = [EventPtr EXCEPT ![t] = NULL], EventMultiPtr' = [EventMultiPtr EXCEPT ![t] = {}],
         Stat' = [Stat EXCEPT ![t] = {}], StatPend' = [StatPend EXCEPT ![t] = "OK"],
         UNCHANGED <<Dly, OSRdyTbl, OSTCBPrio, OSEventType, forgotten>>,
         OSTCBMsg' = [OSTCBMsg EXCEPT ![t] = NULL], pc' = [pc EXCEPT ![t] = "task"]
  PROVE  TasksInv'
  <1>1. TaskTypes /\ Distinct' /\ Distinct
    BY DEF TasksInv, Distinct
  <1>2. OSEventTbl' = [e \in Event |-> IF e \in E THEN OSEventTbl[e] \ {OSTCBPrio[t]} ELSE OSEventTbl[e]]
    BY DEF RemoveFrom
  <1>3. TaskTypes'
    <2>1. OSEventTbl' \in [Event -> SUBSET AnyPrio]
      BY <1>1, <1>2 DEF TaskTypes
    <2>2. Stat' \in [TCB -> SUBSET (PEND_ANY \cup {"MULTI", "SUSPEND"})]
      BY <1>1 DEF TaskTypes
    <2>. QED
      BY <1>1, <2>1, <2>2 DEF TaskTypes, Places
  <1>4. OfTasks'
    BY <1>2 DEF TasksInv, OfTasks
  <1>5. \A u \in TCB : OSTCBPrio[u] = OSTCBPrio[t] <=> u = t
    BY <1>1 DEF Distinct
  <1>6. \A u \in TCB \ {t} : Lists(u)' = Lists(u)
    BY <1>2, <1>5 DEF Lists
  <1>7. OthersSame(t)
    BY <1>1, <1>6 DEF OthersSame, TaskTypes
  <1>8. Lists(t)' = {}
    BY <1>2 DEF Lists
  <1>9. TaskInv(t)'
    <2>1. Dly'[t] = 0 /\ OSTCBPrio'[t] \in OSRdyTbl' /\ t \notin forgotten'
      BY DEF TasksInv, TaskInv, Runnable
    <2>2. /\ pc'[t] = "task" /\ Stat'[t] = {} /\ StatPend'[t] = "OK" /\ EventPtr'[t] = NULL
          /\ EventMultiPtr'[t] = {} /\ OSTCBMsg'[t] = NULL
      BY <1>1 DEF TaskTypes
    <2>3. Consistent("task", {}, "OK", 0, NULL, {}, {}, NULL, OSEventType') /\ Runnable({}, "OK", 0, {})
      BY Returned
    <2>. QED
      BY <1>8, <2>1, <2>2, <2>3 DEF TaskInv
  <1>. QED
    BY <1>1, <1>3, <1>4, <1>7, <1>9, OneTask

(* OSEventPendMulti returns, and the event that woke the task is gone.     *)
LEMMA ReturnGoneKeeps ==
  ASSUME TasksInv, NEW t \in TCB \ {Idle}, pc[t] = "multi", Lists(t) = {},
         UNCHANGED <<OSTCBPrio, stateVars, waitVars, OSEventType, forgotten>>,
         OSTCBMsg' = [OSTCBMsg EXCEPT ![t] = NULL], pc' = [pc EXCEPT ![t] = "task"]
  PROVE  TasksInv'
  <1>1. TaskTypes /\ Distinct' /\ OfTasks'
    BY DEF TasksInv, Distinct, OfTasks, stateVars, waitVars
  <1>3. TaskTypes'
    BY <1>1 DEF TaskTypes, Places, stateVars, waitVars
  <1>6. \A u \in TCB : Lists(u)' = Lists(u)
    BY DEF Lists, waitVars
  <1>7. OthersSame(t)
    BY <1>1, <1>6 DEF OthersSame, TaskTypes, stateVars, waitVars
  <1>8. TaskInv(t)'
    <2>1. /\ Consistent("multi", Stat[t], StatPend[t], Dly[t], EventPtr[t], EventMultiPtr[t], {},
                        OSTCBMsg[t], OSEventType)
          /\ OSTCBPrio[t] \in OSRdyTbl <=>
               Runnable(Stat[t], StatPend[t], Dly[t], {}) /\ t \notin forgotten
          /\ t \in forgotten =>
               EventMultiPtr[t] # {} /\ Dly[t] = 0 /\ (Lists(t) = {} \/ StatPend[t] = "TO")
      BY DEF TasksInv, TaskInv
    <2>2. Consistent("task", Stat[t], StatPend[t], Dly[t], EventPtr[t], EventMultiPtr[t], {},
                     NULL, OSEventType)
      BY <2>1 DEF Consistent
    <2>3. pc'[t] = "task" /\ OSTCBMsg'[t] = NULL
      BY <1>1 DEF TaskTypes
    <2>. QED
      BY <1>6, <2>1, <2>2, <2>3 DEF TaskInv, stateVars, waitVars
  <1>. QED
    BY <1>1, <1>3, <1>7, <1>8, OneTask

LEMMA TickKeeps ==
  ASSUME TasksInv, OSTimeTick, UNCHANGED <<pc, OSTCBMsg, OSEventType, forgotten>>
  PROVE  TasksInv'
  <1> DEFINE S == {t \in TCB : Dly[t] = 1}
  <1>1. TaskTypes /\ Distinct /\ UNCHANGED <<OSTCBPrio, waitVars>>
    BY DEF TasksInv, OSTimeTick, TimersEnd, prioVars
  <1>2. \A t \in TCB :
          /\ Dly'[t] = (IF Dly[t] > 0 THEN Dly[t] - 1 ELSE 0)
          /\ StatPend'[t] = (IF t \notin S THEN StatPend[t]
                               ELSE IF Stat[t] \cap PEND_ANY # {} THEN "TO" ELSE "OK")
          /\ Stat'[t] = (IF t \in S THEN Stat[t] \ PEND_ANY ELSE Stat[t])
    BY DEF OSTimeTick, TimersEnd
  <1>3. OSRdyTbl' = OSRdyTbl \cup {OSTCBPrio[t] : t \in {u \in S : "SUSPEND" \notin Stat[u]}}
    BY DEF OSTimeTick, TimersEnd
  <1>4. TaskTypes'
    <2>1. Dly' \in [TCB -> Nat]
      BY <1>1 DEF OSTimeTick, TaskTypes
    <2>2. Stat' \in [TCB -> SUBSET (PEND_ANY \cup {"MULTI", "SUSPEND"})]
      BY <1>1 DEF OSTimeTick, TimersEnd, TaskTypes
    <2>3. StatPend' \in [TCB -> {"OK", "TO", "ABORT"}]
      BY <1>1 DEF OSTimeTick, TimersEnd, TaskTypes
    <2>4. OSRdyTbl' \subseteq AnyPrio
      BY <1>1, <1>3 DEF TaskTypes
    <2>. QED
      BY <1>1, <2>1, <2>2, <2>3, <2>4 DEF TaskTypes, waitVars
  <1>5. Distinct' /\ OfTasks'
    BY <1>1, <1>3 DEF TasksInv, Distinct, OfTasks, waitVars
  <1>6. \A u \in TCB : Lists(u)' = Lists(u)
    BY <1>1 DEF Lists, waitVars
  <1>7. ASSUME NEW t \in TCB PROVE TaskInv(t)'
    <2>1. /\ Consistent(pc[t], Stat[t], StatPend[t], Dly[t], EventPtr[t], EventMultiPtr[t], Lists(t),
                        OSTCBMsg[t], OSEventType)
          /\ OSTCBPrio[t] \in OSRdyTbl <=>
               Runnable(Stat[t], StatPend[t], Dly[t], Lists(t)) /\ t \notin forgotten
          /\ t \in forgotten =>
               EventMultiPtr[t] # {} /\ Dly[t] = 0 /\ (Lists(t) = {} \/ StatPend[t] = "TO")
          /\ pc[t] \in Places /\ Stat[t] \in SUBSET Bits /\ Dly[t] \in Nat
          /\ \A e \in Lists(t) : OSEventType[e] \in MultiTypes \cup {"MUTEX", "UNUSED"}
      BY DEF TasksInv, TaskInv, TaskTypes, Bits, Lists
    <2>2. OSTCBPrio[t] \in {OSTCBPrio[v] : v \in {u \in S : "SUSPEND" \notin Stat[u]}}
            <=> t \in S /\ "SUSPEND" \notin Stat[t]
      BY <1>1 DEF Distinct
    <2> DEFINE inS == t \in S
    <2>6. inS <=> Dly[t] = 1
      OBVIOUS
    <2>7. /\ Dly'[t] = (IF Dly[t] > 0 THEN Dly[t] - 1 ELSE 0)
          /\ StatPend'[t] = (IF ~inS THEN StatPend[t]
                               ELSE IF Stat[t] \cap PEND_ANY # {} THEN "TO" ELSE "OK")
          /\ Stat'[t] = (IF inS THEN Stat[t] \ PEND_ANY ELSE Stat[t])
          /\ OSTCBPrio[t] \in OSRdyTbl' <=> OSTCBPrio[t] \in OSRdyTbl \/ (inS /\ "SUSPEND" \notin Stat[t])
      BY <1>2, <1>3, <2>2
    <2> HIDE DEF S, inS
    <2>3. CASE Dly[t] = 0
      <3>1. /\ Dly'[t] = Dly[t] /\ Stat'[t] = Stat[t] /\ StatPend'[t] = StatPend[t]
            /\ OSTCBPrio[t] \in OSRdyTbl' <=> OSTCBPrio[t] \in OSRdyTbl
        BY <2>3, <2>6, <2>7
      <3>. QED
        BY <1>1, <1>6, <2>1, <3>1 DEF TaskInv, waitVars
    <2>4. CASE Dly[t] = 1
      <3>1. /\ Dly'[t] = 0 /\ Stat'[t] = Stat[t] \ PEND_ANY
            /\ StatPend'[t] = IF Stat[t] \cap PEND_ANY # {} THEN "TO" ELSE "OK"
        BY <2>4, <2>6, <2>7
      <3>2. /\ Consistent(pc[t], Stat[t] \ PEND_ANY, StatPend'[t], 0, EventPtr[t], EventMultiPtr[t], Lists(t),
                          OSTCBMsg[t], OSEventType)
            /\ Runnable(Stat[t] \ PEND_ANY, StatPend'[t], 0, Lists(t)) <=> "SUSPEND" \notin Stat[t]
        <4> DEFINE to == StatPend'[t]
                   dly == Dly[t]
        <4>1. to = (IF Stat[t] \cap PEND_ANY # {} THEN "TO" ELSE "OK")
          BY <3>1
        <4>2. /\ Consistent(pc[t], Stat[t], StatPend[t], dly, EventPtr[t], EventMultiPtr[t], Lists(t),
                            OSTCBMsg[t], OSEventType)
              /\ dly \in Nat /\ dly # 0
          BY <2>1, <2>4
        <4> HIDE DEF to, dly
        <4>3. /\ Consistent(pc[t], Stat[t] \ PEND_ANY, to, 0, EventPtr[t], EventMultiPtr[t], Lists(t),
                            OSTCBMsg[t], OSEventType)
              /\ Runnable(Stat[t] \ PEND_ANY, to, 0, Lists(t)) <=> "SUSPEND" \notin Stat[t]
          BY <2>1, <4>1, <4>2, TimedOut, ZenonT(60)
        <4>. QED
          BY <4>3 DEF to
      <3>3. OSTCBPrio[t] \in OSRdyTbl' <=> "SUSPEND" \notin Stat[t]
        BY <2>1, <2>4, <2>6, <2>7 DEF Runnable
      <3>4. t \notin forgotten'
        BY <1>1, <2>1, <2>4
      <3>. QED
        BY <1>1, <1>6, <3>1, <3>2, <3>3, <3>4 DEF TaskInv, waitVars
    <2>5. CASE Dly[t] > 1
      <3>1. Consistent(pc[t], Stat[t], StatPend[t], Dly[t] - 1, EventPtr[t], EventMultiPtr[t], Lists(t),
                       OSTCBMsg[t], OSEventType)
        BY <2>1, <2>5, TimerRuns
      <3>2. Dly'[t] = Dly[t] - 1 /\ Dly'[t] # 0 /\ Stat'[t] = Stat[t] /\ StatPend'[t] = StatPend[t]
        BY <2>1, <2>5, <2>6, <2>7
      <3>3. OSTCBPrio[t] \notin OSRdyTbl'
        BY <2>1, <2>5, <2>6, <2>7 DEF Runnable
      <3>4. t \notin forgotten'
        BY <1>1, <2>1, <2>5
      <3>. QED
        BY <1>1, <1>6, <3>1, <3>2, <3>3, <3>4 DEF TaskInv, waitVars, Runnable
    <2>. QED
      BY <2>1, <2>3, <2>4, <2>5
  <1>8. IdleInv'
    BY <1>1, <1>2, IdleAssumption DEF TasksInv, IdleInv, waitVars
  <1>. QED
    BY <1>4, <1>5, <1>7, <1>8 DEF TasksInv

-----------------------------------------------------------------------------
(* Owners.  A step that gives no mutex and takes none.                     *)
OwnsSame ==
  /\ UNCHANGED <<prioVars, mutexVars, history>>
  /\ \A e \in Event : IsMutex(e)' <=> IsMutex(e)
  /\ \A e \in Event : IsMutex(e) => OSEventTbl'[e] \subseteq OSEventTbl[e]
  /\ \A t \in TCB :
       /\ pc'[t] = "mutex" <=> pc[t] = "mutex"
       /\ pc[t] = "mutex" => EventPtr'[t] = EventPtr[t] /\ (Lists(t)' = {} <=> Lists(t) = {})

OwnersSame ==
  \A e \in Event, t \in TCB : owner[e] = t =>
    /\ EventMultiPtr'[t] = {} /\ Lists(t)' = {}
    /\ pc'[t] = pc[t] \/ pc'[t] \in {"task", "create"}
    /\ pc[t] = "mutex" => StatPend'[t] = StatPend[t]

LEMMA OwnFrame ==
  ASSUME OwnInv, OwnsSame, OwnersSame
  PROVE  OwnInv'
  <1>1. /\ UNCHANGED <<OSTCBPrioTbl, OSTCBPrio, pip, ownerPrio, owner, holds, bereft>>
        /\ \A e \in Event : IsMutex(e)' <=> IsMutex(e)
    BY DEF OwnsSame, prioVars, mutexVars, history
  <1>2. MutexTypes'
    BY <1>1 DEF OwnInv, MutexTypes
  <1>3. PriosInv'
    BY <1>1 DEF OwnInv, PriosInv, Owns
  <1>4. MutexInv'
    <2>1. \A e \in Event : IsMutex(e) => OSEventTbl'[e] \subseteq OSEventTbl[e]
      BY DEF OwnsSame
    <2>. QED
      BY <1>1, <2>1 DEF OwnInv, MutexInv
  <1>5. OwnersInv'
    <2>1. ASSUME NEW e \in Event, NEW t \in TCB, owner[e] = t
          PROVE  /\ t # Idle /\ EventMultiPtr'[t] = {} /\ Lists(t)' = {}
                 /\ \/ pc'[t] \in {"task", "create"}
                    \/ pc'[t] = "mutex" /\ EventPtr'[t] = e /\ StatPend'[t] = "OK"
      <3>1. /\ t # Idle
            /\ \/ pc[t] \in {"task", "create"}
               \/ pc[t] = "mutex" /\ EventPtr[t] = e /\ StatPend[t] = "OK"
        BY <2>1 DEF OwnInv, OwnersInv
      <3>2. pc[t] = "mutex" => EventPtr'[t] = EventPtr[t]
        BY <3>1 DEF OwnsSame
      <3>. QED
        BY <2>1, <3>1, <3>2 DEF OwnersSame
    <2>2. ASSUME NEW t \in TCB
          PROVE  /\ pc'[t] = "mutex" /\ Lists(t)' = {} /\ t \notin bereft => owner[EventPtr'[t]] = t
                 /\ t \in bereft => pc'[t] = "mutex" /\ Lists(t)' = {} /\ \A e \in Event : owner[e] # t
                 /\ \A e \in Event : e \in holds[t] <=> owner[e] = t /\ pc'[t] # "mutex"
      BY DEF OwnInv, OwnersInv, OwnsSame
    <2>. QED
      BY <1>1, <2>1, <2>2 DEF OwnInv, OwnersInv
  <1>. QED
    BY <1>2, <1>3, <1>4, <1>5 DEF OwnInv

(* Waking from an event that is no mutex reaches no owner, and nobody who  *)
(* waits for a mutex.                                                      *)
LEMMA WakeKeepsOwners ==
  ASSUME TasksInv, OwnInv, NEW e \in Event, ~IsMutex(e), NEW S \in SUBSET Waiters(e), NEW m, NEW s,
         Wake(e, S, m, s), UNCHANGED <<prioVars, mutexVars, history, pc>>,
         \A d \in Event : IsMutex(d)' <=> IsMutex(d)
  PROVE  OwnInv'
  <1>1. OS_EventTaskRdy(OSRdyTbl, e, S, {OSEventType[e]}, s) /\ Renamed /\ PriosInv
    BY NotRenamed DEF Wake, WakeFrom, prioVars, OwnInv
  <1>2. /\ S \subseteq TCB
        /\ \A t \in S : e \in Lists(t)
        /\ \A t \in TCB : Lists(t)' = IF t \in S THEN {} ELSE Lists(t)
    BY <1>1, WakeLists
  <1>3. \A t \in S : pc[t] # "mutex"
    <2> TAKE t \in S
    <2>1. Consistent(pc[t], Stat[t], StatPend[t], Dly[t], EventPtr[t], EventMultiPtr[t], Lists(t),
                     OSTCBMsg[t], OSEventType)
      BY <1>2 DEF TasksInv, TaskInv
    <2>. QED
      BY <1>2, <2>1 DEF Consistent, IsMutex
  <1>4. /\ \A t \in TCB :
             /\ StatPend'[t] = (IF t \in S THEN s ELSE StatPend[t])
             /\ EventPtr'[t] = (IF t \in S /\ EventMultiPtr[t] # {} THEN e ELSE EventPtr[t])
             /\ EventMultiPtr'[t] = EventMultiPtr[t]
        /\ \A d \in Event : OSEventTbl'[d] \subseteq OSEventTbl[d]
    BY <1>1 DEF OS_EventTaskRdy
  <1>5. OwnsSame
    BY <1>2, <1>3, <1>4 DEF OwnsSame
  <1>6. OwnersSame
    <2> SUFFICES ASSUME NEW d \in Event, NEW t \in TCB, owner[d] = t
                 PROVE  /\ EventMultiPtr'[t] = {} /\ Lists(t)' = {} /\ pc'[t] = pc[t]
                        /\ pc[t] = "mutex" => StatPend'[t] = StatPend[t]
      BY DEF OwnersSame
    <2>1. EventMultiPtr[t] = {} /\ Lists(t) = {}
      BY DEF OwnInv, OwnersInv
    <2>. QED
      BY <1>2, <1>3, <1>4, <2>1
  <1>. QED
    BY <1>5, <1>6, OwnFrame

LEMMA OwnerIs ==
  ASSUME OwnInv, NEW e \in Event, owner[e] # NULL
  PROVE  /\ owner[e] \in TCB \ {Idle} /\ EventMultiPtr[owner[e]] = {} /\ Lists(owner[e]) = {}
         /\ pc[owner[e]] \in {"task", "create", "mutex"} /\ IsMutex(e)
         /\ \A d \in Event : owner[d] = owner[e] => d = e
  BY DEF OwnInv, OwnersInv, MutexTypes, MutexInv

(* A step that leaves the wait lists alone.                                *)
LEMMA QuietKeepsOwners ==
  ASSUME OwnInv, UNCHANGED <<prioVars, mutexVars, history, waitVars>>,
         \A t \in TCB : pc'[t] = pc[t] \/ (pc[t] # "mutex" /\ pc'[t] \in {"task", "create"}),
         \A t \in TCB : pc[t] = "mutex" /\ Lists(t) = {} => StatPend'[t] = StatPend[t],
         \A e \in Event : IsMutex(e)' <=> IsMutex(e)
  PROVE  OwnInv'
  <1>1. UNCHANGED <<EventPtr, EventMultiPtr, OSEventTbl, OSTCBPrio>> /\ \A t \in TCB : Lists(t)' = Lists(t)
    BY DEF Lists, waitVars, prioVars
  <1>2. OwnsSame
    BY <1>1 DEF OwnsSame
  <1>3. OwnersSame
    BY <1>1 DEF OwnersSame, OwnInv, OwnersInv
  <1>. QED
    BY <1>2, <1>3, OwnFrame

(* A step of a task that neither owns a mutex nor waits for one.           *)
LEMMA OthersKeepOwners ==
  ASSUME OwnInv, NEW t \in TCB, UNCHANGED <<prioVars, mutexVars, history>>,
         \A e \in Event : owner[e] # t, pc[t] # "mutex", pc'[t] # "mutex",
         \A u \in TCB \ {t} :
           /\ pc'[u] = pc[u] /\ StatPend'[u] = StatPend[u] /\ EventPtr'[u] = EventPtr[u]
           /\ EventMultiPtr'[u] = EventMultiPtr[u] /\ Lists(u)' = Lists(u),
         \A e \in Event : IsMutex(e)' <=> IsMutex(e),
         \A e \in Event : IsMutex(e) => OSEventTbl'[e] \subseteq OSEventTbl[e]
  PROVE  OwnInv'
  <1>1. OwnsSame
    BY DEF OwnsSame
  <1>2. OwnersSame
    BY DEF OwnersSame, OwnInv, OwnersInv
  <1>. QED
    BY <1>1, <1>2, OwnFrame

-----------------------------------------------------------------------------
(* Control blocks of events that no step creates or deletes.               *)
LEMMA SameBlocks ==
  ASSUME BlocksInv, UNCHANGED <<OSEventType, OSEventFreeList, OSQFreeList, newEvent>>,
         \A t \in TCB : pc'[t] = "create" <=> pc[t] = "create"
  PROVE  BlocksInv'
  BY DEF BlocksInv

LEMMA SameContent ==
  ASSUME ContentInv, UNCHANGED <<OSEventType, Content>>,
         \A e \in Event : OSEventTbl'[e] # {} => OSEventTbl[e] # {}
  PROVE  ContentInv'
  BY DEF ContentInv, Content, HasOne

LEMMA StoreFrame ==
  ASSUME StoreInv, UNCHANGED <<eventVars, newEvent>>,
         \A t \in TCB : pc'[t] = "create" <=> pc[t] = "create",
         \A e \in Event : OSEventTbl'[e] # {} => OSEventTbl[e] # {}
  PROVE  StoreInv'
  <1>1. UNCHANGED <<OSEventType, OSEventCnt, msgs, OSEventFreeList, OSQFreeList, newEvent, Content>>
    BY DEF eventVars, Content
  <1>2. BlocksInv'
    BY <1>1, SameBlocks DEF StoreInv
  <1>3. ContentInv'
    BY <1>1, SameContent DEF StoreInv
  <1>. QED
    BY <1>1, <1>2, <1>3 DEF StoreInv, StoreTypes

-----------------------------------------------------------------------------
(* The processor.                                                          *)
LEMMA CpuKeeps ==
  ASSUME CpuInv, NEW t, Running(t), NEW b \in BOOLEAN, ThenSched(t, b),
         UNCHANGED <<OSTCBPrio, pip, owner>>, \A e \in Event : IsMutex(e)' => IsMutex(e),
         ~b => OSTCBPrio[t] \in OSRdyTbl'
  PROVE  CpuInv'
  <1>1. /\ t = OSTCBCur /\ t \in TCB /\ ~sched[t] /\ OSTCBCur' = t /\ OSPrioCur' = OSPrioCur
        /\ OSLockNesting' = 0 /\ sched' \in [TCB -> BOOLEAN] /\ OSPrioCur \in AnyPrio
        /\ sched'[t] <=> b
    BY DEF CpuInv, Running, ThenSched
  <1>2. OSTCBPrio[t] = OSPrioCur \/ Stale
    BY <1>1 DEF CpuInv
  <1>3. Stale => Stale'
    BY <1>1 DEF Stale
  <1>. QED
    BY <1>1, <1>2, <1>3 DEF CpuInv

LEMMA CpuSame ==
  ASSUME CpuInv, NEW t, Running(t), UNCHANGED cpuVars,
         UNCHANGED <<OSTCBPrio, pip, owner>>, \A e \in Event : IsMutex(e)' => IsMutex(e),
         OSTCBPrio[t] \in OSRdyTbl'
  PROVE  CpuInv'
  <1>1. t \in TCB /\ ThenSched(t, FALSE)
    BY DEF CpuInv, Running, ThenSched, cpuVars
  <1>. QED
    BY <1>1, CpuKeeps

LEMMA RunningIsReady ==
  ASSUME CpuInv, TasksInv, NEW t, Running(t)
  PROVE  t \in TCB /\ OSTCBPrio[t] \in OSRdyTbl /\ Runnable(Stat[t], StatPend[t], Dly[t], Lists(t))
  BY DEF CpuInv, Running, TasksInv, TaskInv

(* Somebody is always ready: the idle task.                                *)
LEMMA SomebodyIsReady ==
  ASSUME TasksInv
  PROVE  MostUrgent(OSRdyTbl) \in OSRdyTbl
  <1>1. /\ Idle \in TCB /\ TaskInv(Idle) /\ pc[Idle] = "task" /\ Stat[Idle] = {} /\ Dly[Idle] = 0
        /\ EventMultiPtr[Idle] = {}
    BY IdleAssumption DEF TasksInv, IdleInv
  <1>2. OSTCBPrio[Idle] \in OSRdyTbl
    BY <1>1 DEF TaskInv, Consistent, Runnable
  <1>3. OSRdyTbl \subseteq AnyPrio
    BY DEF TasksInv, TaskTypes
  <1>. QED
    BY <1>2, <1>3, MostUrgentIs

(* OS_SchedNew ends with the most urgent task running.                     *)
LEMMA Switched ==
  ASSUME TasksInv, PriosInv, CpuInv, OS_SchedNew(OSRdyTbl, OSTCBPrioTbl)
  PROVE  /\ OSTCBCur' \in TCB /\ OSPrioCur' \in AnyPrio /\ OSTCBPrio[OSTCBCur'] = OSPrioCur'
         /\ OSPrioCur' \in OSRdyTbl
  <1> DEFINE p == MostUrgent(OSRdyTbl)
  <1>1. p \in OSRdyTbl
    BY SomebodyIsReady
  <1>2. PICK u \in TCB : OSTCBPrio[u] = p
    BY <1>1 DEF TasksInv, OfTasks
  <1>3. OSTCBPrioTbl[p] = u /\ p \in AnyPrio
    BY <1>2 DEF PriosInv, TasksInv, TaskTypes
  <1>4. IF p = OSPrioCur THEN UNCHANGED <<OSTCBCur, OSPrioCur>>
                         ELSE OSPrioCur' = p /\ OSTCBCur' = OSTCBPrioTbl[p]
    BY DEF OS_SchedNew
  <1> HIDE DEF p
  <1>5. CASE p = OSPrioCur
    <2>1. OSTCBPrio[OSTCBCur] = p
      BY <1>2, <1>5 DEF CpuInv, Stale
    <2>. QED
      BY <1>1, <1>4, <1>5, <2>1 DEF CpuInv
  <1>6. CASE p # OSPrioCur
    BY <1>1, <1>2, <1>3, <1>4, <1>6
  <1>. QED
    BY <1>5, <1>6

LEMMA IntExitKeepsCpu ==
  ASSUME TasksInv', PriosInv', CpuInv, OSIntExit, UNCHANGED OSTCBPrio
  PROVE  CpuInv'
  <1> DEFINE p == MostUrgent(OSRdyTbl')
  <1>1. p \in OSRdyTbl'
    <2>1. /\ Idle \in TCB /\ TaskInv(Idle)' /\ pc'[Idle] = "task" /\ Stat'[Idle] = {} /\ Dly'[Idle] = 0
          /\ EventMultiPtr'[Idle] = {}
          /\ OSRdyTbl' \subseteq AnyPrio
      BY IdleAssumption DEF TasksInv, IdleInv, TaskTypes
    <2>2. OSTCBPrio'[Idle] \in OSRdyTbl'
      BY <2>1 DEF TaskInv, Consistent, Runnable
    <2>. QED
      BY <2>1, <2>2, MostUrgentIs
  <1>2. PICK u \in TCB : OSTCBPrio'[u] = p
    BY <1>1 DEF TasksInv, OfTasks
  <1>3. OSTCBPrioTbl'[p] = u /\ p \in AnyPrio
    BY <1>2 DEF PriosInv, TasksInv, TaskTypes
  <1>4. IF p = OSPrioCur THEN UNCHANGED <<OSTCBCur, OSPrioCur>>
                         ELSE OSPrioCur' = p /\ OSTCBCur' = OSTCBPrioTbl'[p]
    BY DEF OSIntExit, OS_SchedNew, CpuInv
  <1>5. UNCHANGED <<OSLockNesting, sched>>
    BY DEF OSIntExit
  <1> HIDE DEF p
  <1>6. OSTCBPrio'[OSTCBCur'] = p /\ OSTCBCur' \in TCB /\ OSPrioCur' = p
    <2>1. CASE p = OSPrioCur
      <3>1. OSTCBPrio[OSTCBCur] = p
        BY <1>2, <2>1 DEF CpuInv, Stale
      <3>. QED
        BY <1>4, <2>1, <3>1 DEF CpuInv
    <2>2. CASE p # OSPrioCur
      BY <1>2, <1>3, <1>4, <2>2
    <2>. QED
      BY <2>1, <2>2
  <1>. QED
    BY <1>1, <1>3, <1>5, <1>6 DEF CpuInv

LEMMA SchedKeeps ==
  ASSUME EventsInv, NEW t, OS_Sched(t), UNCHANGED <<eventVars, localVars, mutexVars, history>>
  PROVE  EventsInv'
  <1>1. UNCHANGED <<OSTCBPrioTbl, OSTCBPrio, stateVars, waitVars, OSLockNesting, pc, OSTCBMsg, OSEventType,
                    forgotten>>
    BY DEF OS_Sched, prioVars, eventVars, localVars
  <1>2. TasksInv'
    BY <1>1, SameTasks DEF EventsInv
  <1>3. OwnInv'
    BY <1>1, QuietKeepsOwners DEF EventsInv, prioVars, waitVars, stateVars, IsMutex
  <1>4. StoreInv'
    BY <1>1, StoreFrame DEF EventsInv, waitVars, localVars
  <1>5. CpuInv'
    <2>1. /\ OSTCBCur' \in TCB /\ OSPrioCur' \in AnyPrio /\ OSTCBPrio[OSTCBCur'] = OSPrioCur'
          /\ OSPrioCur' \in OSRdyTbl
      BY Switched DEF EventsInv, OwnInv, OS_Sched, CpuInv
    <2>2. sched' \in [TCB -> BOOLEAN]
      BY DEF OS_Sched, EventsInv, CpuInv
    <2>. QED
      BY <1>1, <2>1, <2>2 DEF EventsInv, CpuInv, stateVars
  <1>. QED
    BY <1>2, <1>3, <1>4, <1>5 DEF EventsInv

-----------------------------------------------------------------------------
(* What is put into an event, or taken.                                    *)
Contents == ContentInv /\ OSEventCnt \in [Event -> Nat] /\ msgs \in [Event -> Seq(Msg)]

LEMMA TakeKeeps ==
  ASSUME Contents, NEW E, \A e \in E : e \in Event /\ HasOne(e) /\ OSEventType[e] \in MultiTypes,
         TakeOne(E), UNCHANGED <<OSEventType, OSEventTbl>>
  PROVE  Contents'
  <1>1. ASSUME NEW e \in E, OSEventType[e] = "SEM" PROVE OSEventCnt[e] > 0
    BY <1>1 DEF Contents, ContentInv, HasOne
  <1>2. ASSUME NEW e \in E, OSEventType[e] # "SEM" PROVE msgs[e] # <<>>
    BY <1>2 DEF Contents, ContentInv, HasOne, MultiTypes
  <1>3. \A s \in Seq(Msg) : s # <<>> => Tail(s) \in Seq(Msg) /\ Len(Tail(s)) <= Len(s) - 1 /\ Len(s) \in Nat
    OBVIOUS
  <1>4. ASSUME NEW e \in Event
        PROVE  /\ OSEventCnt'[e] \in Nat /\ msgs'[e] \in Seq(Msg)
               /\ OSEventCnt'[e] <= OSEventCnt[e] /\ (OSEventCnt[e] = 0 => OSEventCnt'[e] = 0)
               /\ Len(msgs'[e]) <= QSize
               /\ (msgs[e] = <<>> => msgs'[e] = <<>>)
    <2>1. OSEventCnt[e] \in Nat /\ msgs[e] \in Seq(Msg) /\ Len(msgs[e]) <= QSize
      BY DEF Contents, ContentInv
    <2>2. OSEventCnt'[e] = (IF e \in E /\ OSEventType[e] = "SEM" THEN OSEventCnt[e] - 1 ELSE OSEventCnt[e])
      BY DEF TakeOne
    <2>3. msgs'[e] = (IF e \in E /\ OSEventType[e] # "SEM" THEN Tail(msgs[e]) ELSE msgs[e])
      BY DEF TakeOne
    <2>4. OSEventCnt'[e] \in Nat /\ OSEventCnt'[e] <= OSEventCnt[e] /\ (OSEventCnt[e] = 0 => OSEventCnt'[e] = 0)
      BY <1>1, <2>1, <2>2
    <2>5. msgs'[e] \in Seq(Msg) /\ Len(msgs'[e]) <= QSize /\ (msgs[e] = <<>> => msgs'[e] = <<>>)
      <3>1. CASE e \in E /\ OSEventType[e] # "SEM"
        <4>1. msgs[e] # <<>> /\ msgs'[e] = Tail(msgs[e])
          BY <1>2, <2>3, <3>1
        <4>2. Tail(msgs[e]) \in Seq(Msg) /\ Len(Tail(msgs[e])) <= Len(msgs[e]) - 1 /\ Len(msgs[e]) \in Nat
          BY <1>3, <2>1, <4>1
        <4>3. Len(Tail(msgs[e])) \in Nat
          BY <4>2
        <4>. QED
          BY <2>1, <4>1, <4>2, <4>3, BoundAssumption
      <3>2. CASE ~(e \in E /\ OSEventType[e] # "SEM")
        BY <2>1, <2>3, <3>2
      <3>. QED
        BY <3>1, <3>2
    <2>. QED
      BY <2>4, <2>5
  <1>5. OSEventCnt' \in [Event -> Nat] /\ msgs' \in [Event -> Seq(Msg)]
    <2>1. DOMAIN OSEventCnt' = Event /\ DOMAIN msgs' = Event
      BY DEF TakeOne
    <2>. QED
      BY <1>4, <2>1 DEF TakeOne
  <1>6. ASSUME NEW e \in Event PROVE HasOne(e)' => HasOne(e)
    <2>1. OSEventCnt[e] \in Nat
      BY DEF Contents
    <2>. QED
      BY <1>4, <2>1 DEF HasOne
  <1>. QED
    BY <1>4, <1>5, <1>6 DEF Contents, ContentInv

(* The content of e changes, when nobody waits for it.                     *)
LEMMA PutKeeps ==
  ASSUME Contents, NEW e, NEW cnt, NEW contents, e \in Event, OSEventTbl[e] = {},
         UNCHANGED <<OSEventType, OSEventTbl>>,
         cnt \in Nat, contents \in Seq(Msg), Len(contents) <= QSize,
         OSEventType[e] # "SEM" => cnt = 0, OSEventType[e] \notin {"MBOX", "Q"} => contents = <<>>,
         OSEventCnt' = [OSEventCnt EXCEPT ![e] = cnt], msgs' = [msgs EXCEPT ![e] = contents]
  PROVE  Contents'
  <1>1. OSEventCnt' \in [Event -> Nat] /\ msgs' \in [Event -> Seq(Msg)]
    BY DEF Contents
  <1>2. \A d \in Event : d # e => OSEventCnt'[d] = OSEventCnt[d] /\ msgs'[d] = msgs[d]
    BY DEF Contents
  <1>3. OSEventCnt'[e] = cnt /\ msgs'[e] = contents
    BY DEF Contents
  <1>4. ASSUME NEW d \in Event PROVE HasOne(d)' => OSEventTbl[d] = {}
    BY <1>2 DEF Contents, ContentInv, HasOne
  <1>. QED
    BY <1>1, <1>2, <1>3, <1>4 DEF Contents, ContentInv

(* What Signal and SignalOpt do: tasks are woken, or a content changes.    *)
Awakens ==
  \E e \in Event : ~IsMutex(e) /\ \E S \in SUBSET Waiters(e), m \in Msg \cup {NULL}, s \in {"OK", "ABORT"} :
    /\ Wake(e, S, m, s) /\ UNCHANGED Content
    /\ m # NULL => s = "OK"

LEMMA SemPostIs ==
  ASSUME Contents, NEW e \in Event, OSSemPost(e), UNCHANGED OSEventType
  PROVE  Awakens \/ (Asleep /\ Contents')
  <1>1. OSEventType[e] = "SEM"
    BY DEF OSSemPost
  <1>2. CASE OSEventTbl[e] # {} /\ Wake(e, FirstWaiter(e), NULL, "OK") /\ UNCHANGED Content
    BY <1>1, <1>2 DEF Awakens, FirstWaiter, IsMutex
  <1>3. CASE /\ OSEventTbl[e] = {}
             /\ OSEventCnt' = [OSEventCnt EXCEPT ![e] = @ + 1]
             /\ UNCHANGED msgs /\ Asleep
    <2>1. msgs[e] = <<>> /\ msgs[e] \in Seq(Msg) /\ Len(msgs[e]) <= QSize /\ OSEventCnt[e] + 1 \in Nat
      BY <1>1 DEF Contents, ContentInv
    <2>2. msgs' = [msgs EXCEPT ![e] = msgs[e]] /\ OSEventCnt' = [OSEventCnt EXCEPT ![e] = OSEventCnt[e] + 1]
      BY <1>3 DEF Contents
    <2>3. UNCHANGED OSEventTbl
      BY <1>3 DEF Asleep, waitVars
    <2>4. Contents'
      BY <1>1, <1>3, <2>1, <2>2, <2>3, PutKeeps
    <2>. QED
      BY <1>3, <2>4
  <1>. QED
    BY <1>2, <1>3 DEF OSSemPost

LEMMA SemSetIs ==
  ASSUME Contents, NEW e \in Event, NEW cnt \in 0 .. MaxCnt, OSSemSet(e, cnt), UNCHANGED OSEventType
  PROVE  Asleep /\ Contents'
  <1>1. OSEventType[e] = "SEM" /\ OSEventTbl[e] = {} /\ Asleep /\ UNCHANGED msgs /\ cnt \in Nat
        /\ OSEventCnt' = [OSEventCnt EXCEPT ![e] = cnt]
    BY BoundAssumption DEF OSSemSet, Contents, ContentInv, HasOne
  <1>2. msgs[e] = <<>> /\ msgs[e] \in Seq(Msg) /\ Len(msgs[e]) <= QSize
    BY <1>1 DEF Contents, ContentInv
  <1>3. msgs' = [msgs EXCEPT ![e] = msgs[e]] /\ UNCHANGED OSEventTbl
    BY <1>1 DEF Contents, Asleep, waitVars
  <1>4. Contents'
    BY <1>1, <1>2, <1>3, PutKeeps
  <1>. QED
    BY <1>1, <1>4

LEMMA PostToIs ==
  ASSUME Contents, NEW e \in Event, OSEventType[e] \in {"MBOX", "Q"}, NEW m \in Msg,
         NEW S \in {FirstWaiter(e), Waiters(e)}, NEW size \in Nat, size <= QSize,
         NEW contents \in Seq(Msg), Len(msgs[e]) < size => Len(contents) <= size,
         PostTo(e, m, S, size, contents), UNCHANGED OSEventType
  PROVE  Awakens \/ (Asleep /\ Contents')
  <1>1. CASE OSEventTbl[e] # {} /\ Wake(e, S, m, "OK") /\ UNCHANGED Content
    <2>1. S \in SUBSET Waiters(e) /\ ~IsMutex(e)
      BY DEF FirstWaiter, IsMutex
    <2>. QED
      BY <1>1, <2>1 DEF Awakens
  <1>2. CASE /\ OSEventTbl[e] = {} /\ Len(msgs[e]) < size
             /\ msgs' = [msgs EXCEPT ![e] = contents]
             /\ UNCHANGED OSEventCnt /\ Asleep
    <2>1. OSEventCnt[e] = 0 /\ Len(contents) <= QSize
      <3>1. Len(contents) \in Nat /\ Len(contents) <= size
        BY <1>2
      <3>. QED
        BY <3>1, BoundAssumption DEF Contents, ContentInv
    <2>2. OSEventCnt' = [OSEventCnt EXCEPT ![e] = 0] /\ UNCHANGED OSEventTbl
      BY <1>2, <2>1 DEF Contents, Asleep, waitVars
    <2>3. Contents'
      <3>1. PICK none \in Nat : none = 0
        OBVIOUS
      <3>2. OSEventCnt' = [OSEventCnt EXCEPT ![e] = none]
        BY <2>2, <3>1
      <3>. QED
        BY <1>2, <2>1, <2>2, <3>1, <3>2, PutKeeps
    <2>. QED
      BY <1>2, <2>3
  <1>. QED
    BY <1>1, <1>2 DEF PostTo

LEMMA QueuedLengths ==
  ASSUME NEW s \in Seq(Msg), NEW m \in Msg
  PROVE  /\ Append(s, m) \in Seq(Msg) /\ <<m>> \o s \in Seq(Msg) /\ <<m>> \in Seq(Msg) /\ Len(s) \in Nat
         /\ Len(Append(s, m)) = Len(s) + 1 /\ Len(<<m>> \o s) = Len(s) + 1 /\ Len(<<m>>) = 1
  OBVIOUS

LEMMA SignalIs ==
  ASSUME Contents, Signal \/ SignalOpt
  PROVE  Awakens \/ (Asleep /\ Contents')
  <1> USE DEF Contents
  <1>1. UNCHANGED OSEventType
    BY DEF Signal, SignalOpt
  <1>2. ASSUME NEW e \in Event, NEW m \in Msg
        PROVE  /\ Append(msgs[e], m) \in Seq(Msg) /\ <<m>> \o msgs[e] \in Seq(Msg) /\ <<m>> \in Seq(Msg)
               /\ Len(msgs[e]) < QSize => Len(Append(msgs[e], m)) <= QSize /\ Len(<<m>> \o msgs[e]) <= QSize
               /\ Len(<<m>>) <= 1
    <2>1. msgs[e] \in Seq(Msg) /\ QSize \in Nat
      BY BoundAssumption
    <2>. QED
      BY <2>1, QueuedLengths
  <1>3. 1 \in Nat /\ 1 <= QSize /\ QSize \in Nat /\ QSize <= QSize
    BY BoundAssumption
  <1>4. ASSUME NEW e \in Event, OSSemPost(e) PROVE Awakens \/ (Asleep /\ Contents')
    BY <1>1, <1>4, SemPostIs
  <1>5. ASSUME NEW e \in Event, NEW cnt \in 0 .. MaxCnt, OSSemSet(e, cnt) PROVE Asleep /\ Contents'
    BY <1>1, <1>5, SemSetIs
  <1>6. ASSUME NEW e \in Event, NEW m \in Msg, OSMboxPost(e, m) \/ OSMboxPostOpt(e, m)
        PROVE  Awakens \/ (Asleep /\ Contents')
    <2>1. PICK S \in {FirstWaiter(e), Waiters(e)} : PostTo(e, m, S, 1, <<m>>)
      BY <1>6 DEF OSMboxPost, OSMboxPostOpt
    <2>2. OSEventType[e] \in {"MBOX", "Q"}
      BY <1>6 DEF OSMboxPost, OSMboxPostOpt
    <2>. QED
      BY <1>1, <1>2, <1>3, <2>1, <2>2, PostToIs
  <1>7. ASSUME NEW e \in Event, NEW m \in Msg, OSQPost(e, m) \/ OSQPostFront(e, m) \/ OSQPostOpt(e, m)
        PROVE  Awakens \/ (Asleep /\ Contents')
    <2>1. PICK S \in {FirstWaiter(e), Waiters(e)}, contents \in {Append(msgs[e], m), <<m>> \o msgs[e]} :
             PostTo(e, m, S, QSize, contents)
      BY <1>7 DEF OSQPost, OSQPostFront, OSQPostOpt
    <2>2. OSEventType[e] \in {"MBOX", "Q"}
      BY <1>7 DEF OSQPost, OSQPostFront, OSQPostOpt
    <2>3. contents \in Seq(Msg) /\ (Len(msgs[e]) < QSize => Len(contents) <= QSize)
      BY <1>2
    <2>. QED
      BY <1>1, <1>3, <2>1, <2>2, <2>3, PostToIs
  <1>8. ASSUME NEW e \in Event, OSSemAccept(e) \/ OSMboxAccept(e) \/ OSQAccept(e)
        PROVE  Asleep /\ Contents'
    <2>1. OSEventType[e] \in MultiTypes /\ HasOne(e) /\ TakeOne({e}) /\ Asleep /\ UNCHANGED OSEventTbl
      BY <1>8 DEF OSSemAccept, OSMboxAccept, OSQAccept, MultiTypes, Asleep, waitVars
    <2>2. \A d \in {e} : d \in Event /\ HasOne(d) /\ OSEventType[d] \in MultiTypes
      BY <2>1
    <2>. QED
      BY <1>1, <2>1, <2>2, TakeKeeps
  <1>9. ASSUME NEW e \in Event, OSQFlush(e) PROVE Asleep /\ Contents'
    <2>1. OSEventType[e] = "Q" /\ msgs' = [msgs EXCEPT ![e] = <<>>] /\ UNCHANGED OSEventCnt /\ Asleep
          /\ UNCHANGED OSEventTbl
      BY <1>9 DEF OSQFlush, Asleep, waitVars
    <2>2. <<>> \in Seq(Msg) /\ Len(<<>>) = 0
      OBVIOUS
    <2>3. Contents'
      BY <1>1, <2>1, <2>2, BoundAssumption DEF ContentInv, HasOne
    <2>. QED
      BY <2>1, <2>3
  <1>10. ASSUME NEW e \in Event, OSSemPendAbort(e) \/ OSMboxPendAbort(e) \/ OSQPendAbort(e) PROVE Awakens
    <2>1. ~IsMutex(e) /\ UNCHANGED Content /\ \E S \in {FirstWaiter(e), Waiters(e)} : Wake(e, S, NULL, "ABORT")
      BY <1>10 DEF OSSemPendAbort, OSMboxPendAbort, OSQPendAbort, Abort, IsMutex
    <2>2. FirstWaiter(e) \in SUBSET Waiters(e)
      BY DEF FirstWaiter
    <2>. QED
      BY <2>1, <2>2 DEF Awakens
  <1> HIDE DEF Contents
  <1>11. CASE Signal
    BY <1>4, <1>5, <1>6, <1>7, <1>8, <1>9, <1>10, <1>11 DEF Signal
  <1>12. CASE SignalOpt
    BY <1>6, <1>7, <1>12 DEF SignalOpt
  <1>. QED
    BY <1>11, <1>12

LEMMA SignalKeeps ==
  ASSUME EventsInv, Signal \/ SignalOpt, UNCHANGED <<pc, mutexVars, history>>
  PROVE  TasksInv' /\ OwnInv' /\ StoreInv' /\ OSRdyTbl \subseteq OSRdyTbl'
  <1>1. UNCHANGED <<prioVars, OSEventType, OSEventFreeList, OSQFreeList, newEvent>>
    BY DEF Signal, SignalOpt
  <1>2. TasksInv /\ OwnInv /\ PriosInv /\ StoreInv /\ Contents /\ OSEventType \in [Event -> EventTypes]
    BY DEF EventsInv, OwnInv, StoreInv, StoreTypes, Contents, TasksInv, TaskTypes, EventTypes
  <1>3. CASE Awakens
    <2>1. PICK e \in Event : ~IsMutex(e) /\ \E S \in SUBSET Waiters(e), m \in Msg \cup {NULL}, s \in {"OK", "ABORT"} :
                               Wake(e, S, m, s) /\ UNCHANGED Content /\ (m # NULL => s = "OK")
      BY <1>3 DEF Awakens
    <2>2. PICK S \in SUBSET Waiters(e), m \in Msg \cup {NULL}, s \in {"OK", "ABORT"} :
                               Wake(e, S, m, s) /\ UNCHANGED Content /\ (m # NULL => s = "OK")
      BY <2>1
    <2>3. Renamed /\ SameReady(OSRdyTbl) /\ WakeFrom(OSRdyTbl, e, S, m, s)
      BY <1>1, <1>2, <2>2, NotRenamed DEF prioVars, Wake
    <2>4. TasksInv'
      BY <1>1, <1>2, <2>1, <2>2, <2>3, WokenKeeps DEF IsMutex
    <2>5. OwnInv'
      BY <1>1, <1>2, <2>1, <2>2, WakeKeepsOwners DEF IsMutex
    <2>6. /\ \A d \in Event : OSEventTbl'[d] \subseteq OSEventTbl[d]
          /\ OSRdyTbl \subseteq OSRdyTbl'
      BY <2>2 DEF Wake, WakeFrom, OS_EventTaskRdy
    <2>7. StoreInv'
      BY <1>1, <1>2, <2>2, <2>6, StoreFrame DEF eventVars, Content
    <2>. QED
      BY <2>4, <2>5, <2>6, <2>7
  <1>4. CASE Asleep /\ Contents'
    <2>1. UNCHANGED <<stateVars, waitVars, OSTCBMsg, forgotten, OSTCBPrio, StatPend, OSRdyTbl>>
      BY <1>1, <1>4 DEF Asleep, prioVars, stateVars
    <2>2. TasksInv'
      BY <1>1, <1>2, <2>1, SameTasks
    <2>3. OwnInv'
      BY <1>1, <1>2, <2>1, QuietKeepsOwners DEF IsMutex
    <2>4. BlocksInv'
      BY <1>1, <1>2, SameBlocks DEF StoreInv
    <2>5. StoreInv'
      BY <1>1, <1>2, <1>4, <2>4 DEF StoreInv, StoreTypes, Contents
    <2>. QED
      BY <2>1, <2>2, <2>3, <2>5
  <1>. QED
    BY <1>2, <1>3, <1>4, SignalIs

-----------------------------------------------------------------------------
(* Control blocks are taken, filled in and given back.                     *)
Queues == {e \in Event : OSEventType[e] = "Q"}

LEMMA QueuesChange ==
  ASSUME NEW e \in Event, NEW kind,
         \A d \in Event : OSEventType'[d] = IF d = e THEN kind ELSE OSEventType[d]
  PROVE  /\ Cardinality(Queues) \in Nat /\ Cardinality(Queues') \in Nat
         /\ OSEventType[e] # "Q" /\ kind # "Q" => Cardinality(Queues') = Cardinality(Queues)
         /\ OSEventType[e] # "Q" /\ kind = "Q" => Cardinality(Queues') = Cardinality(Queues) + 1
         /\ OSEventType[e] = "Q" /\ kind # "Q" => Cardinality(Queues) = Cardinality(Queues') + 1
  <1>1. IsFiniteSet(Queues) /\ IsFiniteSet(Queues')
    BY EventAssumption, FS_Subset DEF Queues
  <1>2. Cardinality(Queues) \in Nat /\ Cardinality(Queues') \in Nat
    BY <1>1, FS_CardinalityType
  <1>4. CASE OSEventType[e] # "Q" /\ kind # "Q"
    <2>1. Queues' = Queues
      BY <1>4 DEF Queues
    <2>. QED
      BY <1>2, <1>4, <2>1
  <1>5. CASE OSEventType[e] # "Q" /\ kind = "Q"
    <2>1. Queues' = Queues \cup {e} /\ e \notin Queues
      BY <1>5 DEF Queues
    <2>. QED
      BY <1>1, <1>2, <1>5, <2>1, FS_AddElement
  <1>6. CASE OSEventType[e] = "Q" /\ kind # "Q"
    <2>1. Queues = Queues' \cup {e} /\ e \notin Queues'
      BY <1>6 DEF Queues
    <2>. QED
      BY <1>1, <1>2, <1>6, <2>1, FS_AddElement
  <1>. QED
    BY <1>2, <1>4, <1>5, <1>6


LEMMA TakeEventKeeps ==
  ASSUME EventsInv, NEW t, TakeEvent(t), UNCHANGED <<mutexVars, history>>
  PROVE  EventsInv'
  <1>1. /\ Running(t) /\ t \in TCB \ {Idle} /\ pc[t] = "task" /\ OSTCBPrio[t] \in OSRdyTbl
        /\ pc' = [pc EXCEPT ![t] = "create"] /\ pc \in [TCB -> Places]
    BY RunningIsReady DEF TakeEvent, InTask, EventsInv, TasksInv, TaskTypes
  <1>2. UNCHANGED <<OSTCBPrioTbl, OSTCBPrio, prioVars, stateVars, waitVars, cpuVars, OSEventType, OSEventCnt, msgs,
                    Content, OSQFreeList, OSTCBMsg, forgotten, StatPend, OSRdyTbl, OSEventTbl, pip, ownerPrio, owner>>
    BY DEF TakeEvent, prioVars, stateVars, Content, waitVars, mutexVars
  <1>3. PICK e \in OSEventFreeList : OSEventFreeList' = OSEventFreeList \ {e} /\ newEvent' = [newEvent EXCEPT ![t] = e]
    BY DEF TakeEvent
  <1>4. TasksInv'
    BY <1>1, <1>2, OwnCodeKeeps DEF EventsInv, TasksInv, TaskTypes, EventTypes
  <1>5. OwnInv'
    BY <1>1, <1>2, QuietKeepsOwners DEF EventsInv, IsMutex
  <1>6. StoreInv'
    <2>1. StoreInv /\ e \in Event /\ NULL \notin Event /\ newEvent \in [TCB -> Event \cup {NULL}]
      BY <1>3, PointerAssumption DEF EventsInv, StoreInv, StoreTypes
    <2>2. StoreTypes'
      BY <1>1, <1>2, <1>3, <2>1 DEF StoreInv, StoreTypes
    <2>3. ContentInv'
      BY <1>2, <2>1, SameContent DEF StoreInv
    <2>4. BlocksInv'
      <3>1. \A u \in TCB : newEvent'[u] = (IF u = t THEN e ELSE newEvent[u])
                           /\ pc'[u] = (IF u = t THEN "create" ELSE pc[u])
        BY <1>1, <1>3, <2>1
      <3>2. \A u \in TCB : newEvent[u] # e
        BY <2>1 DEF StoreInv, BlocksInv
      <3>3. newEvent[t] = NULL
        BY <1>1, <2>1 DEF StoreInv, BlocksInv
      <3>. QED
        BY <1>1, <1>2, <1>3, <2>1, <3>1, <3>2, <3>3 DEF StoreInv, BlocksInv
    <2>. QED
      BY <2>2, <2>3, <2>4 DEF StoreInv
  <1>7. CpuInv'
    BY <1>1, <1>2, CpuSame DEF EventsInv, IsMutex
  <1>. QED
    BY <1>4, <1>5, <1>6, <1>7 DEF EventsInv

(* A task that creates an event has taken its control block, for which     *)
(* nobody waits.                                                           *)
LEMMA BeingCreated ==
  ASSUME EventsInv, NEW t, Running(t), pc[t] = "create"
  PROVE  /\ t \in TCB \ {Idle} /\ OSTCBPrio[t] \in OSRdyTbl /\ newEvent[t] \in Event
         /\ OSEventType[newEvent[t]] = "UNUSED" /\ OSEventTbl[newEvent[t]] = {}
         /\ newEvent[t] \notin OSEventFreeList
         /\ \A u \in TCB : newEvent[u] = newEvent[t] => u = t
  <1>1. t \in TCB /\ OSTCBPrio[t] \in OSRdyTbl /\ t # Idle
    BY RunningIsReady DEF EventsInv, TasksInv, IdleInv
  <1>2. newEvent[t] # NULL /\ newEvent[t] \in Event
    BY <1>1 DEF EventsInv, StoreInv, StoreTypes, BlocksInv
  <1>3. OSEventType[newEvent[t]] = "UNUSED" /\ newEvent[t] \notin OSEventFreeList
        /\ \A u \in TCB : newEvent[u] = newEvent[t] => u = t
    BY <1>1, <1>2 DEF EventsInv, StoreInv, BlocksInv
  <1>4. OSEventTbl[newEvent[t]] = {}
    BY <1>2, <1>3 DEF EventsInv, StoreInv, ContentInv
  <1>. QED
    BY <1>1, <1>2, <1>3, <1>4

LEMMA FillKeeps ==
  ASSUME EventsInv, NEW t, Running(t), pc[t] = "create", UNCHANGED <<mutexVars, history>>,
         NEW kind, NEW cnt, NEW contents,
         kind \in MultiTypes, cnt \in Nat, contents \in Seq(Msg), Len(contents) <= QSize,
         kind # "SEM" => cnt = 0, kind = "SEM" => contents = <<>>,
         Fill(t, kind, cnt, contents), CreateEnds(t),
         IF kind = "Q" THEN OSQFreeList > 0 /\ OSQFreeList' = OSQFreeList - 1 ELSE UNCHANGED OSQFreeList
  PROVE  EventsInv'
  <1>1. PICK e \in Event : e = newEvent[t]
    BY BeingCreated
  <1>2. /\ t \in TCB \ {Idle} /\ OSTCBPrio[t] \in OSRdyTbl
        /\ OSEventType[e] = "UNUSED" /\ OSEventTbl[e] = {} /\ e \notin OSEventFreeList
        /\ \A u \in TCB : newEvent[u] = e => u = t
    BY <1>1, BeingCreated
  <1>3. /\ OSEventType' = [OSEventType EXCEPT ![e] = kind] /\ OSEventCnt' = [OSEventCnt EXCEPT ![e] = cnt]
        /\ msgs' = [msgs EXCEPT ![e] = contents] /\ UNCHANGED OSEventFreeList
        /\ newEvent' = [newEvent EXCEPT ![t] = NULL] /\ pc' = [pc EXCEPT ![t] = "task"]
        /\ OSEventTbl' = [OSEventTbl EXCEPT ![e] = {}]
    BY <1>1 DEF Fill, CreateEnds
  <1>4. EventsInv => /\ pc \in [TCB -> Places] /\ OSEventType \in [Event -> EventTypes]
                     /\ OSEventTbl \in [Event -> SUBSET AnyPrio] /\ newEvent \in [TCB -> Event \cup {NULL}]
                     /\ OSEventCnt \in [Event -> Nat] /\ msgs \in [Event -> Seq(Msg)]
    BY DEF EventsInv, TasksInv, TaskTypes, EventTypes, StoreInv, StoreTypes
  <1>5. OSEventTbl' = OSEventTbl
    BY <1>2, <1>3, <1>4
  <1>6. UNCHANGED <<OSTCBPrioTbl, OSTCBPrio, prioVars, stateVars, waitVars, cpuVars, OSTCBMsg, forgotten, StatPend, OSRdyTbl,
                    pip, ownerPrio, owner>>
    BY <1>5 DEF CreateEnds, prioVars, stateVars, waitVars, mutexVars
  <1>7. /\ \A d \in Event : OSEventType'[d] = (IF d = e THEN kind ELSE OSEventType[d])
        /\ \A d \in Event : OSEventCnt'[d] = (IF d = e THEN cnt ELSE OSEventCnt[d])
        /\ \A d \in Event : msgs'[d] = (IF d = e THEN contents ELSE msgs[d])
        /\ \A u \in TCB : newEvent'[u] = (IF u = t THEN NULL ELSE newEvent[u])
        /\ \A u \in TCB : pc'[u] = (IF u = t THEN "task" ELSE pc[u])
        /\ OSEventType' \in [Event -> EventTypes]
    BY <1>3, <1>4 DEF EventTypes
  <1>8. \A d \in Event : IsMutex(d)' <=> IsMutex(d)
    BY <1>2, <1>7 DEF IsMutex, MultiTypes
  <1>9. TasksInv'
    BY <1>2, <1>3, <1>6, <1>7, OwnCodeKeeps DEF EventsInv
  <1>10. OwnInv'
    BY <1>2, <1>6, <1>7, <1>8, QuietKeepsOwners DEF EventsInv
  <1>11. StoreInv'
    <2>1. StoreTypes'
      <3>1. OSQFreeList' \in 0 .. MaxQs
        BY BoundAssumption DEF EventsInv, StoreInv, StoreTypes
      <3>2. newEvent' \in [TCB -> Event \cup {NULL}]
        BY <1>3, <1>4
      <3>. QED
        BY <1>3, <1>4, <3>1, <3>2 DEF EventsInv, StoreInv, StoreTypes
    <2>2. ContentInv'
      BY <1>2, <1>5, <1>7 DEF EventsInv, StoreInv, ContentInv, HasOne, MultiTypes
    <2>3. BlocksInv'
      <3>1. OSQFreeList' + Cardinality(Queues') = MaxQs
        <4>1. /\ Cardinality(Queues) \in Nat /\ Cardinality(Queues') \in Nat
              /\ kind # "Q" => Cardinality(Queues') = Cardinality(Queues)
              /\ kind = "Q" => Cardinality(Queues') = Cardinality(Queues) + 1
          BY <1>2, <1>7, QueuesChange, ZenonT(60)
        <4>2. OSQFreeList + Cardinality(Queues) = MaxQs /\ OSQFreeList \in Nat
          BY BoundAssumption DEF EventsInv, StoreInv, StoreTypes, BlocksInv, Queues
        <4>. QED
          BY <4>1, <4>2
      <3>2. NULL \notin Event /\ kind # "UNUSED"
        BY PointerAssumption DEF MultiTypes
      <3>3. /\ \A u \in TCB : newEvent[u] # NULL <=> pc[u] = "create"
            /\ \A u, v \in TCB : newEvent[u] = newEvent[v] /\ newEvent[u] # NULL => u = v
            /\ \A u \in TCB : newEvent[u] \notin OSEventFreeList
            /\ \A d \in Event : OSEventType[d] = "UNUSED" <=> d \in OSEventFreeList \/ \E u \in TCB : newEvent[u] = d
            /\ OSEventFreeList \subseteq Event
        BY DEF EventsInv, StoreInv, BlocksInv, StoreTypes
      <3>4. \A d \in Event : OSEventType'[d] = "UNUSED" <=> d \in OSEventFreeList' \/ \E u \in TCB : newEvent'[u] = d
        <4> TAKE d \in Event
        <4>1. CASE d = e
          BY <1>1, <1>2, <1>3, <1>7, <3>2, <4>1
        <4>2. CASE d # e
          BY <1>1, <1>3, <1>7, <3>2, <3>3, <4>2
        <4>. QED
          BY <4>1, <4>2
      <3>5. \A u \in TCB : newEvent'[u] # NULL <=> pc'[u] = "create"
        BY <1>7, <3>3
      <3>6. \A u, v \in TCB : newEvent'[u] = newEvent'[v] /\ newEvent'[u] # NULL => u = v
        BY <1>7, <3>3
      <3>7. \A u \in TCB : newEvent'[u] \notin OSEventFreeList'
        BY <1>3, <1>7, <3>2, <3>3
      <3>. QED
        BY <3>1, <3>4, <3>5, <3>6, <3>7 DEF BlocksInv, Queues
    <2>. QED
      BY <2>1, <2>2, <2>3 DEF StoreInv
  <1>12. CpuInv'
    BY <1>2, <1>6, <1>8, CpuSame DEF EventsInv
  <1>. QED
    BY <1>9, <1>10, <1>11, <1>12 DEF EventsInv

(* OSQCreate gives the event's control block back.                         *)
LEMMA GiveBackKeeps ==
  ASSUME EventsInv, NEW t, Running(t), pc[t] = "create", UNCHANGED <<mutexVars, history>>,
         OSEventFreeList' = OSEventFreeList \cup {newEvent[t]},
         UNCHANGED <<OSEventType, OSEventCnt, msgs, OSQFreeList, OSEventTbl>>, CreateEnds(t)
  PROVE  EventsInv'
  <1>1. PICK e \in Event : e = newEvent[t]
    BY BeingCreated
  <1>2. /\ t \in TCB \ {Idle} /\ OSTCBPrio[t] \in OSRdyTbl
        /\ OSEventType[e] = "UNUSED" /\ \A u \in TCB : newEvent[u] = e => u = t
    BY <1>1, BeingCreated
  <1>3. /\ newEvent' = [newEvent EXCEPT ![t] = NULL] /\ pc' = [pc EXCEPT ![t] = "task"]
        /\ OSEventFreeList' = OSEventFreeList \cup {e}
    BY <1>1 DEF CreateEnds
  <1>4. pc \in [TCB -> Places] /\ newEvent \in [TCB -> Event \cup {NULL}] /\ OSEventType \in [Event -> EventTypes]
    BY DEF EventsInv, TasksInv, TaskTypes, EventTypes, StoreInv, StoreTypes
  <1>5. UNCHANGED <<OSTCBPrioTbl, OSTCBPrio, prioVars, stateVars, waitVars, cpuVars, OSTCBMsg, forgotten, StatPend, OSRdyTbl,
                    pip, ownerPrio, owner, Content>>
    BY DEF CreateEnds, prioVars, stateVars, waitVars, mutexVars, Content
  <1>6. /\ \A u \in TCB : newEvent'[u] = (IF u = t THEN NULL ELSE newEvent[u])
        /\ \A u \in TCB : pc'[u] = (IF u = t THEN "task" ELSE pc[u])
    BY <1>3, <1>4
  <1>7. TasksInv'
    BY <1>2, <1>3, <1>4, <1>5, OwnCodeKeeps DEF EventsInv
  <1>8. OwnInv'
    BY <1>2, <1>5, <1>6, QuietKeepsOwners DEF EventsInv, IsMutex
  <1>9. StoreInv'
    <2>1. StoreTypes'
      BY <1>3, <1>4 DEF EventsInv, StoreInv, StoreTypes
    <2>2. ContentInv'
      BY <1>5, SameContent DEF EventsInv, StoreInv
    <2>3. BlocksInv'
      <3>1. /\ \A u \in TCB : newEvent[u] # NULL <=> pc[u] = "create"
            /\ \A u, v \in TCB : newEvent[u] = newEvent[v] /\ newEvent[u] # NULL => u = v
            /\ \A u \in TCB : newEvent[u] \notin OSEventFreeList
            /\ \A d \in Event : OSEventType[d] = "UNUSED" <=> d \in OSEventFreeList \/ \E u \in TCB : newEvent[u] = d
            /\ OSEventFreeList \subseteq Event /\ NULL \notin Event
        BY PointerAssumption DEF EventsInv, StoreInv, BlocksInv, StoreTypes
      <3>2. \A u \in TCB : newEvent'[u] \notin OSEventFreeList'
        BY <1>2, <1>3, <1>6, <3>1
      <3>3. \A d \in Event : OSEventType'[d] = "UNUSED" <=> d \in OSEventFreeList' \/ \E u \in TCB : newEvent'[u] = d
        BY <1>1, <1>2, <1>3, <1>6, <3>1
      <3>. QED
        BY <1>6, <3>1, <3>2, <3>3 DEF EventsInv, StoreInv, BlocksInv
    <2>. QED
      BY <2>1, <2>2, <2>3 DEF StoreInv
  <1>10. CpuInv'
    BY <1>2, <1>5, CpuSame DEF EventsInv, IsMutex
  <1>. QED
    BY <1>7, <1>8, <1>9, <1>10 DEF EventsInv

LEMMA CreateKeeps ==
  ASSUME EventsInv, NEW t, Create(t), UNCHANGED <<mutexVars, history>>
  PROVE  EventsInv'
  <1>1. PICK none, zero : /\ none = <<>> /\ none \in Seq(Msg) /\ Len(none) <= QSize
                          /\ zero = 0 /\ zero \in Nat
    <2>1. <<>> \in Seq(Msg) /\ Len(<<>>) <= QSize /\ 0 \in Nat
      BY BoundAssumption
    <2>. QED
      BY <2>1
  <1>2. CASE OSSemCreate(t)
    <2>1. PICK cnt \in 0 .. MaxCnt : Fill(t, "SEM", cnt, none)
      BY <1>1, <1>2 DEF OSSemCreate
    <2>2. cnt \in Nat /\ "SEM" \in MultiTypes
      BY BoundAssumption DEF MultiTypes
    <2>3. Running(t) /\ pc[t] = "create" /\ CreateEnds(t) /\ UNCHANGED OSQFreeList
      BY <1>2 DEF OSSemCreate
    <2>. QED
      BY <1>1, <2>1, <2>2, <2>3, FillKeeps
  <1>3. CASE OSMboxCreate(t)
    <2>1. PICK contents \in {<<>>} \cup {<<m>> : m \in Msg} : Fill(t, "MBOX", zero, contents)
      BY <1>1, <1>3 DEF OSMboxCreate
    <2>2. contents \in Seq(Msg) /\ Len(contents) <= QSize /\ "MBOX" \in MultiTypes
      <3>1. CASE contents = <<>>
        BY <1>1, <3>1 DEF MultiTypes
      <3>2. CASE \E m \in Msg : contents = <<m>>
        <4>1. PICK m \in Msg : contents = <<m>>
          BY <3>2
        <4>2. <<m>> \in Seq(Msg) /\ Len(<<m>>) = 1
          OBVIOUS
        <4>. QED
          BY <4>1, <4>2, BoundAssumption DEF MultiTypes
      <3>. QED
        BY <3>1, <3>2
    <2>3. Running(t) /\ pc[t] = "create" /\ CreateEnds(t) /\ UNCHANGED OSQFreeList
      BY <1>3 DEF OSMboxCreate
    <2>. QED
      BY <1>1, <2>1, <2>2, <2>3, FillKeeps
  <1>4. CASE OSQCreate(t)
    <2>1. Running(t) /\ pc[t] = "create" /\ CreateEnds(t) /\ "Q" \in MultiTypes
      BY <1>4 DEF OSQCreate, MultiTypes
    <2>2. CASE OSQFreeList > 0 /\ OSQFreeList' = OSQFreeList - 1 /\ Fill(t, "Q", zero, none)
      BY <1>1, <2>1, <2>2, FillKeeps
    <2>3. CASE /\ OSQFreeList = 0 /\ OSEventFreeList' = OSEventFreeList \cup {newEvent[t]}
               /\ UNCHANGED <<OSEventType, OSEventCnt, msgs, OSQFreeList, OSEventTbl>>
      BY <2>1, <2>3, GiveBackKeeps
    <2>. QED
      BY <1>1, <1>4, <2>2, <2>3 DEF OSQCreate
  <1>. QED
    BY <1>2, <1>3, <1>4, TakeEventKeeps DEF Create

LEMMA EventDelKeeps ==
  ASSUME EventsInv, EventDel(Deletable), UNCHANGED <<pc, mutexVars, history>>
  PROVE  TasksInv' /\ OwnInv' /\ StoreInv' /\ OSRdyTbl \subseteq OSRdyTbl' /\ UNCHANGED prioVars
         /\ \A d \in Event : IsMutex(d)' <=> IsMutex(d)
  <1>1. PICK e \in Event : OSSemDel(e) \/ OSMboxDel(e) \/ OSQDel(e)
    BY MutexAssumption DEF EventDel
  <1>2. /\ Wake(e, Waiters(e), NULL, "OK") /\ OSEventType' = [OSEventType EXCEPT ![e] = "UNUSED"]
        /\ OSEventCnt' = [OSEventCnt EXCEPT ![e] = 0] /\ msgs' = [msgs EXCEPT ![e] = <<>>]
        /\ OSEventFreeList' = OSEventFreeList \cup {e} /\ UNCHANGED <<prioVars, newEvent>>
        /\ OSEventType[e] \in MultiTypes
        /\ OSQFreeList' = IF OSEventType[e] = "Q" THEN OSQFreeList + 1 ELSE OSQFreeList
    BY <1>1 DEF EventDel, OSSemDel, OSMboxDel, OSQDel, Delete, MultiTypes
  <1>3. /\ TasksInv /\ OwnInv /\ PriosInv /\ StoreInv /\ OSEventType \in [Event -> EventTypes]
        /\ OSEventTbl \in [Event -> SUBSET AnyPrio]
        /\ OSEventCnt \in [Event -> Nat] /\ msgs \in [Event -> Seq(Msg)]
    BY DEF EventsInv, OwnInv, TasksInv, TaskTypes, EventTypes, StoreInv, StoreTypes
  <1>4. /\ \A d \in Event : OSEventType'[d] = (IF d = e THEN "UNUSED" ELSE OSEventType[d])
        /\ \A d \in Event : OSEventCnt'[d] = (IF d = e THEN 0 ELSE OSEventCnt[d])
        /\ \A d \in Event : msgs'[d] = (IF d = e THEN <<>> ELSE msgs[d])
        /\ OSEventType' \in [Event -> EventTypes]
    BY <1>2, <1>3 DEF EventTypes
  <1>5. ~IsMutex(e) /\ \A d \in Event : IsMutex(d)' <=> IsMutex(d)
    BY <1>2, <1>4 DEF IsMutex, MultiTypes
  <1>6. Renamed /\ SameReady(OSRdyTbl) /\ WakeFrom(OSRdyTbl, e, Waiters(e), NULL, "OK")
    BY <1>2, <1>3, NotRenamed DEF prioVars, Wake
  <1>7. TasksInv'
    <2>1. PICK S, none, ok : S = Waiters(e) /\ none = NULL /\ ok = "OK"
      OBVIOUS
    <2>. QED
      BY <1>2, <1>3, <1>4, <1>5, <1>6, <2>1, WokenKeeps DEF IsMutex
  <1>8. OwnInv'
    BY <1>2, <1>3, <1>5, WakeKeepsOwners
  <1>9. /\ \A d \in Event : OSEventTbl'[d] \subseteq OSEventTbl[d]
        /\ OSRdyTbl \subseteq OSRdyTbl' /\ OS_EventTaskRdy(OSRdyTbl, e, Waiters(e), {OSEventType[e]}, "OK")
    BY <1>2 DEF Wake, WakeFrom, OS_EventTaskRdy
  <1>10. OSEventTbl'[e] = {}
    <2> SUFFICES ASSUME NEW p \in OSEventTbl'[e] PROVE FALSE
      OBVIOUS
    <2>1. PICK t \in TCB : p = OSTCBPrio'[t]
      BY <1>7 DEF TasksInv, OfTasks
    <2>2. e \in Lists(t)'
      BY <2>1 DEF Lists
    <2>3. /\ Waiters(e) = {u \in TCB : e \in Lists(u)}
          /\ \A u \in TCB : Lists(u)' = IF u \in Waiters(e) THEN {} ELSE Lists(u)
      <3>1. Waiters(e) = {u \in TCB : e \in Lists(u)}
        BY <1>3, WaitersAre DEF TasksInv
      <3>2. PICK S : S = Waiters(e)
        OBVIOUS
      <3>3. S \in SUBSET Waiters(e) /\ OS_EventTaskRdy(OSRdyTbl, e, S, {OSEventType[e]}, "OK")
        BY <1>9, <3>2
      <3>4. \A u \in TCB : Lists(u)' = IF u \in S THEN {} ELSE Lists(u)
        BY <1>3, <1>6, <3>3, WakeLists
      <3>. QED
        BY <3>1, <3>2, <3>4
    <2>. QED
      BY <2>1, <2>2, <2>3
  <1>11. StoreInv'
    <2>1. OSQFreeList' + Cardinality(Queues') = MaxQs /\ OSQFreeList' \in 0 .. MaxQs
      <3>1. /\ Cardinality(Queues) \in Nat /\ Cardinality(Queues') \in Nat
            /\ OSEventType[e] # "Q" => Cardinality(Queues') = Cardinality(Queues)
            /\ OSEventType[e] = "Q" => Cardinality(Queues) = Cardinality(Queues') + 1
        <4>1. PICK kind : kind = "UNUSED"
          OBVIOUS
        <4>2. \A d \in Event : OSEventType'[d] = IF d = e THEN kind ELSE OSEventType[d]
          BY <1>4, <4>1
        <4>3. /\ Cardinality(Queues) \in Nat /\ Cardinality(Queues') \in Nat
              /\ OSEventType[e] # "Q" /\ kind # "Q" => Cardinality(Queues') = Cardinality(Queues)
              /\ OSEventType[e] = "Q" /\ kind # "Q" => Cardinality(Queues) = Cardinality(Queues') + 1
          BY <4>2, QueuesChange
        <4>. QED
          BY <4>1, <4>3
      <3>2. OSQFreeList + Cardinality(Queues) = MaxQs /\ OSQFreeList \in Nat /\ MaxQs \in Nat
        BY <1>3, BoundAssumption DEF StoreInv, StoreTypes, BlocksInv, Queues
      <3>. QED
        BY <1>2, <3>1, <3>2
    <2>2. StoreTypes'
      <3>1. OSEventCnt' \in [Event -> Nat] /\ msgs' \in [Event -> Seq(Msg)]
        BY <1>2, <1>3
      <3>. QED
        BY <1>2, <1>3, <2>1, <3>1 DEF StoreInv, StoreTypes
    <2>3. ContentInv'
      <3>1. <<>> \in Seq(Msg) /\ Len(<<>>) <= QSize
        BY BoundAssumption
      <3>. QED
        BY <1>3, <1>4, <1>9, <1>10, <3>1 DEF StoreInv, ContentInv, HasOne
    <2>4. BlocksInv'
      <3>1. /\ \A u \in TCB : newEvent[u] # NULL <=> pc[u] = "create"
            /\ \A u, v \in TCB : newEvent[u] = newEvent[v] /\ newEvent[u] # NULL => u = v
            /\ \A u \in TCB : newEvent[u] \notin OSEventFreeList
            /\ \A d \in Event : OSEventType[d] = "UNUSED" <=> d \in OSEventFreeList \/ \E u \in TCB : newEvent[u] = d
        BY <1>3 DEF StoreInv, BlocksInv
      <3>2. \A u \in TCB : newEvent[u] # e
        BY <1>2, <3>1 DEF MultiTypes
      <3>. QED
        BY <1>2, <1>4, <2>1, <3>1, <3>2 DEF BlocksInv, Queues
    <2>. QED
      BY <2>2, <2>3, <2>4 DEF StoreInv
  <1>. QED
    BY <1>2, <1>5, <1>7, <1>8, <1>9, <1>11

-----------------------------------------------------------------------------
(* The calls of a task that do not wait for an event.                      *)
LEMMA CallKeeps ==
  ASSUME EventsInv, NEW t, Running(t), Signal \/ SignalOpt \/ EventDel(Deletable), NEW b \in BOOLEAN,
         ThenSched(t, b), UNCHANGED <<pc, mutexVars, history>>
  PROVE  EventsInv'
  <1>1. TasksInv' /\ OwnInv' /\ StoreInv' /\ OSRdyTbl \subseteq OSRdyTbl' /\ UNCHANGED prioVars
        /\ \A d \in Event : IsMutex(d)' <=> IsMutex(d)
    <2>1. CASE Signal \/ SignalOpt
      BY <2>1, SignalKeeps DEF Signal, SignalOpt, IsMutex
    <2>2. CASE EventDel(Deletable)
      BY <2>2, EventDelKeeps
    <2>. QED
      BY <2>1, <2>2
  <1>2. OSTCBPrio[t] \in OSRdyTbl'
    BY <1>1, RunningIsReady DEF EventsInv
  <1>3. CpuInv'
    BY <1>1, <1>2, CpuKeeps DEF EventsInv, prioVars, mutexVars
  <1>. QED
    BY <1>1, <1>3 DEF EventsInv

LEMMA DelaysKeep ==
  ASSUME EventsInv, ~AnyTime, NEW t, InTask(t),
         \/ /\ \E p \in Prio : Resume(p)
            /\ ThenSched(t, OSRdyTbl' # OSRdyTbl)
         \/ /\ \E p \in Prio : MaySuspend(p) /\ OSTaskSuspend(p)
            /\ ThenSched(t, Stat'[t] # Stat[t])
            /\ UNCHANGED forgotten
         \/ /\ \E ticks \in Ticks : OSTimeDly(t, ticks)
            /\ ThenSched(t, TRUE)
            /\ UNCHANGED forgotten,
         UNCHANGED <<pc, eventVars, OSTCBMsg, newEvent, mutexVars, history>>
  PROVE  EventsInv'
  <1>1. /\ t \in TCB \ {Idle} /\ OSTCBPrio[t] \in OSRdyTbl /\ Running(t) /\ pc[t] = "task"
        /\ "SUSPEND" \notin Stat[t] /\ TasksInv /\ OwnInv /\ PriosInv /\ StoreInv /\ CpuInv /\ TaskTypes /\ Distinct
    BY RunningIsReady DEF InTask, EventsInv, OwnInv, TasksInv, Runnable
  <1>2. UNCHANGED <<OSEventType, OSTCBMsg, newEvent, pip, owner>>
    BY DEF eventVars, mutexVars
  <1>3. SUFFICES ASSUME TasksInv', UNCHANGED <<prioVars, StatPend, waitVars>>,
                        NEW b \in BOOLEAN, ThenSched(t, b), ~b => OSTCBPrio[t] \in OSRdyTbl'
                 PROVE  EventsInv'
    <2>1. ASSUME NEW p \in Prio, MaySuspend(p), OSTaskSuspend(p), ThenSched(t, Stat'[t] # Stat[t]),
                 UNCHANGED forgotten
          PROVE  EventsInv'
      <3>1. PICK u \in TCB : u = OSTCBPrioTbl[p]
        BY <2>1 DEF OSTaskSuspend, HasTask
      <3>2. pc[u] # "mutex"
        BY <2>1, <3>1 DEF MaySuspend, OSTaskSuspend
      <3>3. TasksInv'
        BY <1>1, <1>2, <2>1, <3>1, <3>2, SuspendKeeps
      <3>4. /\ OSRdyTbl' = OSRdyTbl \ {OSTCBPrio[u]} /\ Stat' = [Stat EXCEPT ![u] = @ \cup {"SUSPEND"}]
            /\ UNCHANGED <<StatPend, prioVars, waitVars>>
        BY <2>1, <3>1 DEF OSTaskSuspend
      <3>5. Stat'[t] = Stat[t] => OSTCBPrio[t] \in OSRdyTbl'
        <4>1. u = t => Stat'[t] = Stat[t] \cup {"SUSPEND"}
          BY <1>1, <3>4 DEF TaskTypes
        <4>2. u # t => OSTCBPrio[u] # OSTCBPrio[t]
          BY <1>1 DEF Distinct
        <4>. QED
          BY <1>1, <3>4, <4>1, <4>2
      <3>. QED
        BY <1>3, <2>1, <3>3, <3>4, <3>5
    <2>2. ASSUME NEW p \in Prio, Resume(p), ThenSched(t, OSRdyTbl' # OSRdyTbl)
          PROVE  EventsInv'
      <3>1. TasksInv'
        BY <1>1, <1>2, <2>2, ResumeKeeps
      <3>2. UNCHANGED <<StatPend, prioVars, waitVars>> /\ OSRdyTbl \subseteq OSRdyTbl'
        BY <2>2 DEF Resume, OSTaskResume
      <3>. QED
        BY <1>1, <1>3, <2>2, <3>1, <3>2
    <2>3. ASSUME NEW ticks \in Ticks, OSTimeDly(t, ticks), ThenSched(t, TRUE), UNCHANGED forgotten
          PROVE  EventsInv'
      <3>1. TasksInv'
        BY <1>1, <1>2, <2>3, DelayKeeps
      <3>2. UNCHANGED <<StatPend, prioVars, waitVars>>
        BY <2>3 DEF OSTimeDly
      <3>. QED
        BY <1>3, <2>3, <3>1, <3>2
    <2>. QED
      BY <2>1, <2>2, <2>3
  <1>4. OwnInv'
    BY <1>1, <1>2, <1>3, QuietKeepsOwners DEF IsMutex
  <1>5. StoreInv'
    BY <1>1, <1>2, <1>3, StoreFrame DEF waitVars
  <1>6. CpuInv'
    BY <1>1, <1>2, <1>3, CpuKeeps DEF prioVars, IsMutex
  <1>. QED
    BY <1>3, <1>4, <1>5, <1>6 DEF EventsInv

LEMMA TaskCallKeeps ==
  ASSUME EventsInv, ~AnyTime, NEW t, TaskCall(t)
  PROVE  EventsInv'
  <1>1. InTask(t) /\ Running(t) /\ UNCHANGED <<pc, mutexVars, history>>
    BY DEF TaskCall, InTask
  <1>2. CASE (Signal \/ SignalOpt \/ EventDel(Deletable)) /\ ThenSched(t, OSEventTbl' # OSEventTbl)
    BY <1>1, <1>2, CallKeeps
  <1>3. CASE SignalOpt /\ ThenSched(t, FALSE)
    BY <1>1, <1>3, CallKeeps
  <1>. QED
    BY <1>1, <1>2, <1>3, DelaysKeep DEF TaskCall, localVars

LEMMA InterruptKeeps ==
  ASSUME EventsInv, Interrupt
  PROVE  EventsInv'
  <1>1. OSIntExit /\ UNCHANGED <<pc, mutexVars, history>>
    BY DEF Interrupt, OSIntExit
  <1>2. CASE Signal \/ SignalOpt
    <2>1. TasksInv' /\ OwnInv' /\ StoreInv' /\ UNCHANGED prioVars
      BY <1>1, <1>2, SignalKeeps DEF Signal, SignalOpt
    <2>2. CpuInv'
      BY <1>1, <2>1, IntExitKeepsCpu DEF EventsInv, OwnInv, prioVars
    <2>. QED
      BY <2>1, <2>2 DEF EventsInv
  <1>3. CASE OSTimeTick /\ UNCHANGED <<eventVars, localVars>>
    <2>1. UNCHANGED <<prioVars, waitVars, OSTCBPrio, OSEventType, OSTCBMsg, forgotten, newEvent>>
      BY <1>3 DEF OSTimeTick, TimersEnd, eventVars, localVars, prioVars
    <2>2. TasksInv'
      BY <1>1, <1>3, <2>1, TickKeeps DEF EventsInv
    <2>3. OwnInv'
      <3>1. ASSUME NEW u \in TCB, pc[u] = "mutex", Lists(u) = {} PROVE StatPend'[u] = StatPend[u]
        <4>1. Dly[u] = 0
          BY <3>1 DEF EventsInv, TasksInv, TaskInv, Consistent
        <4>. QED
          BY <1>3, <4>1 DEF OSTimeTick, TimersEnd
      <3>. QED
        BY <1>1, <2>1, <3>1, QuietKeepsOwners DEF EventsInv, IsMutex
    <2>4. StoreInv'
      BY <1>1, <1>3, <2>1, StoreFrame DEF EventsInv, waitVars
    <2>5. CpuInv'
      BY <1>1, <2>1, <2>2, <2>3, IntExitKeepsCpu DEF EventsInv, OwnInv
    <2>. QED
      BY <2>2, <2>3, <2>4, <2>5 DEF EventsInv
  <1>. QED
    BY <1>2, <1>3 DEF Interrupt

-----------------------------------------------------------------------------
(* A task takes what events have, or waits.                                *)
LEMMA OwnsNone ==
  ASSUME OwnInv, NEW t \in TCB, OwnsNothing(t)
  PROVE  \A e \in Event : owner[e] # t
  BY PointerAssumption DEF OwnInv, MutexInv, OwnsNothing

LEMMA AcceptKeeps ==
  ASSUME EventsInv, NEW t, Running(t), NEW E, \A e \in E : e \in Event /\ HasOne(e) /\ OSEventType[e] \in MultiTypes,
         TakeOne(E), UNCHANGED <<stateVars, waitVars, cpuVars, pc>>,
         UNCHANGED <<prioVars, OSEventType, OSEventFreeList, OSQFreeList, localVars>>,
         UNCHANGED <<mutexVars, history>>
  PROVE  EventsInv'
  <1>1. /\ UNCHANGED <<OSTCBPrio, OSTCBMsg, forgotten, newEvent, StatPend, OSRdyTbl, OSEventTbl, pip, owner>>
        /\ OSTCBPrio[t] \in OSRdyTbl
    BY RunningIsReady DEF prioVars, localVars, stateVars, waitVars, mutexVars, EventsInv
  <1>2. TasksInv'
    BY <1>1, SameTasks DEF EventsInv
  <1>3. OwnInv'
    BY <1>1, QuietKeepsOwners DEF EventsInv, IsMutex
  <1>4. StoreInv'
    <2>1. Contents
      BY DEF EventsInv, StoreInv, StoreTypes, Contents
    <2>2. Contents'
      BY <1>1, <2>1, TakeKeeps
    <2>3. BlocksInv'
      BY <1>1, SameBlocks DEF EventsInv, StoreInv
    <2>. QED
      BY <1>1, <2>2, <2>3 DEF EventsInv, StoreInv, StoreTypes, Contents
  <1>5. CpuInv'
    BY <1>1, CpuSame DEF EventsInv, IsMutex
  <1>. QED
    BY <1>2, <1>3, <1>4, <1>5 DEF EventsInv

(* The rest of the invariant, when a task that owns nothing has begun to   *)
(* wait for events of E, which have nothing.                               *)
LEMMA WaitKeepsRest ==
  ASSUME EventsInv, NEW t, InTask(t), OwnsNothing(t), NEW E \in SUBSET Event,
         \A e \in E : ~HasOne(e) /\ OSEventType[e] \in MultiTypes,
         NEW ready, NEW bits, NEW timeout, Block(ready, t, bits, timeout),
         EventPtr' = [EventPtr EXCEPT ![t] = EventPtr'[t]],
         EventMultiPtr' = [EventMultiPtr EXCEPT ![t] = EventMultiPtr'[t]],
         OSEventTbl' = [e \in Event |-> IF e \in E THEN OSEventTbl[e] \cup {OSTCBPrio[t]} ELSE OSEventTbl[e]],
         NEW at \in {"pend", "multi"}, pc' = [pc EXCEPT ![t] = at], ThenSched(t, TRUE), UNCHANGED Content,
         UNCHANGED <<prioVars, OSEventType, OSEventFreeList, OSQFreeList, localVars>>,
         UNCHANGED <<mutexVars, history>>
  PROVE  OwnInv' /\ StoreInv' /\ CpuInv'
  <1>1. /\ UNCHANGED <<OSTCBPrio, newEvent, pip, owner, eventVars>>
        /\ t \in TCB /\ pc[t] = "task" /\ Running(t)
    BY RunningIsReady DEF prioVars, localVars, mutexVars, EventsInv, InTask, eventVars, Content
  <1>2. /\ pc \in [TCB -> Places] /\ StatPend' = [StatPend EXCEPT ![t] = "OK"]
        /\ EventPtr \in [TCB -> Event \cup {NULL}] /\ EventMultiPtr \in [TCB -> SUBSET Event]
        /\ StatPend \in [TCB -> {"OK", "TO", "ABORT"}]
    BY DEF EventsInv, TasksInv, TaskTypes, Block
  <1>3. \A u \in TCB \ {t} : /\ pc'[u] = pc[u] /\ StatPend'[u] = StatPend[u] /\ EventPtr'[u] = EventPtr[u]
                             /\ EventMultiPtr'[u] = EventMultiPtr[u]
    BY <1>2
  <1>4. \A u \in TCB \ {t} : Lists(u)' = Lists(u)
    BY <1>1, ListsOfOthers DEF EventsInv
  <1>5. OwnInv'
    <2>1. \A e \in Event : owner[e] # t
      BY <1>1, OwnsNone DEF EventsInv
    <2>2. pc[t] # "mutex" /\ pc'[t] # "mutex"
      BY <1>1, <1>2
    <2>3. \A e \in Event : IsMutex(e) => OSEventTbl'[e] \subseteq OSEventTbl[e]
      BY DEF IsMutex, MultiTypes
    <2>. QED
      BY <1>1, <1>3, <1>4, <2>1, <2>2, <2>3, OthersKeepOwners DEF EventsInv, IsMutex
  <1>6. StoreInv'
    <2>1. \A u \in TCB : pc'[u] = "create" <=> pc[u] = "create"
      BY <1>1, <1>2
    <2>2. BlocksInv'
      BY <1>1, <2>1, SameBlocks DEF EventsInv, StoreInv
    <2>3. ContentInv'
      BY DEF EventsInv, StoreInv, ContentInv, Content, HasOne, MultiTypes
    <2>. QED
      BY <1>1, <2>2, <2>3 DEF EventsInv, StoreInv, StoreTypes, Content
  <1>7. CpuInv'
    BY <1>1, CpuKeeps DEF EventsInv, IsMutex
  <1>. QED
    BY <1>5, <1>6, <1>7

LEMMA PendKeeps ==
  ASSUME EventsInv, NEW t, NEW e \in Event, NEW timeout \in Nat, OSEventType[e] \in MultiTypes,
         OwnsNothing(t), Pend(t, e, timeout), UNCHANGED <<mutexVars, history>>
  PROVE  EventsInv'
  <1>1. /\ InTask(t) /\ Running(t) /\ pc[t] = "task" /\ t \in TCB \ {Idle} /\ OSTCBPrio[t] \in OSRdyTbl
        /\ UNCHANGED <<prioVars, OSEventType, OSEventFreeList, OSQFreeList, localVars, OSTCBMsg, forgotten, OSTCBPrio>>
    BY RunningIsReady DEF EventsInv, Pend, InTask, localVars, prioVars
  <1>2. CASE HasOne(e) /\ TakeOne({e}) /\ UNCHANGED <<stateVars, waitVars, cpuVars, pc>>
    <2>1. \A d \in {e} : d \in Event /\ HasOne(d) /\ OSEventType[d] \in MultiTypes
      BY <1>2
    <2>. QED
      BY <1>1, <1>2, <2>1, AcceptKeeps
  <1>3. CASE /\ ~HasOne(e)
             /\ Block(OSRdyTbl, t, {OSEventType[e]}, timeout)
             /\ OS_EventTaskWait(t, e)
             /\ pc' = [pc EXCEPT ![t] = "pend"]
             /\ ThenSched(t, TRUE)
             /\ UNCHANGED Content
    <2>1. /\ TasksInv /\ TaskTypes /\ Distinct /\ OfTasks /\ Renamed /\ SameReady(OSRdyTbl)
          /\ Consistent("task", Stat[t], StatPend[t], Dly[t], EventPtr[t], EventMultiPtr[t], Lists(t),
                        OSTCBMsg[t], OSEventType)
      BY <1>1, NotRenamed DEF EventsInv, TasksInv, TaskInv
    <2>2. /\ EventPtr' = [EventPtr EXCEPT ![t] = e] /\ UNCHANGED EventMultiPtr
          /\ OSEventTbl' = [OSEventTbl EXCEPT ![e] = @ \cup {OSTCBPrio[t]}]
      BY <1>3 DEF OS_EventTaskWait
    <2>3. Lists(t) = {}
      BY <2>1 DEF Consistent
    <2>4. \A d \in Event : OSEventTbl'[d] = IF d = e THEN OSEventTbl[d] \cup {OSTCBPrio[t]} ELSE OSEventTbl[d]
      BY <2>1, <2>2 DEF TaskTypes
    <2>5. \A u \in TCB : OSTCBPrio[u] = OSTCBPrio[t] <=> u = t
      BY <1>1, <2>1 DEF Distinct
    <2>6. ASSUME NEW u \in TCB PROVE Lists(u)' = IF u = t THEN {e} ELSE Lists(u)
      <3>1. \A d \in Event : OSTCBPrio[u] \in OSEventTbl'[d] <=> OSTCBPrio[u] \in OSEventTbl[d] \/ (u = t /\ d = e)
        BY <2>4, <2>5
      <3>. QED
        BY <1>1, <2>3, <3>1 DEF Lists
    <2>7. OSEventTbl' \in [Event -> SUBSET AnyPrio]
      BY <1>1, <2>1, <2>2 DEF TaskTypes
    <2>8. \A d \in Event : OSEventTbl'[d] \subseteq {OSTCBPrio'[u] : u \in TCB}
      BY <1>1, <2>1, <2>4 DEF OfTasks
    <2>9. TasksInv'
      BY <1>1, <1>3, <2>1, <2>2, <2>6, <2>7, <2>8, BlockKeeps
    <2>10. OwnInv' /\ StoreInv' /\ CpuInv'
      <3>1. EventPtr' = [EventPtr EXCEPT ![t] = EventPtr'[t]]
        BY <1>1, <2>1, <2>2 DEF TaskTypes
      <3>2. EventMultiPtr' = [EventMultiPtr EXCEPT ![t] = EventMultiPtr'[t]]
        BY <1>1, <2>1, <2>2 DEF TaskTypes
      <3>3. OSEventTbl' = [d \in Event |-> IF d \in {e} THEN OSEventTbl[d] \cup {OSTCBPrio[t]} ELSE OSEventTbl[d]]
        BY <2>4, <2>7
      <3>4. PICK E \in SUBSET Event : E = {e}
        OBVIOUS
      <3>5. \A d \in E : ~HasOne(d) /\ OSEventType[d] \in MultiTypes
        BY <1>3, <3>4
      <3>. QED
        BY <1>1, <1>3, <3>1, <3>2, <3>3, <3>4, <3>5, WaitKeepsRest
    <2>. QED
      BY <2>9, <2>10 DEF EventsInv
  <1>. QED
    BY <1>2, <1>3 DEF Pend

LEMMA PendMultiKeeps ==
  ASSUME EventsInv, NEW t, NEW E \in (SUBSET Event) \ {{}}, NEW timeout \in Nat,
         OwnsNothing(t), OSEventPendMulti(t, E, timeout), UNCHANGED <<mutexVars, history>>
  PROVE  EventsInv'
  <1> DEFINE R == {e \in E : HasOne(e)}
  <1>1. /\ InTask(t) /\ Running(t) /\ pc[t] = "task" /\ t \in TCB \ {Idle} /\ OSTCBPrio[t] \in OSRdyTbl
        /\ UNCHANGED <<prioVars, OSEventType, OSEventFreeList, OSQFreeList, localVars, OSTCBMsg, forgotten, OSTCBPrio>>
        /\ \A e \in E : e \in Event /\ OSEventType[e] \in MultiTypes
    BY RunningIsReady DEF EventsInv, OSEventPendMulti, InTask, localVars, prioVars
  <1>2. CASE TakeOne(R) /\ UNCHANGED <<stateVars, waitVars, cpuVars, pc>>
    <2>1. \A d \in R : d \in Event /\ HasOne(d) /\ OSEventType[d] \in MultiTypes
      BY <1>1
    <2> HIDE DEF R
    <2>. QED
      BY <1>1, <1>2, <2>1, AcceptKeeps
  <1>3. CASE /\ R = {}
             /\ Block(OSRdyTbl, t, {OSEventType[e] : e \in E} \cup {"MULTI"}, timeout)
             /\ OS_EventTaskWaitMulti(t, E)
             /\ pc' = [pc EXCEPT ![t] = "multi"]
             /\ ThenSched(t, TRUE)
             /\ UNCHANGED Content
    <2>1. TasksInv'
      BY <1>1, <1>3, BlockSeveralKeeps DEF EventsInv
    <2>2. TaskTypes
      BY DEF EventsInv, TasksInv
    <2>3. OwnInv' /\ StoreInv' /\ CpuInv'
      <3>1. EventPtr' = [EventPtr EXCEPT ![t] = EventPtr'[t]]
        BY <1>1, <1>3, <2>2 DEF TaskTypes, OS_EventTaskWaitMulti
      <3>2. EventMultiPtr' = [EventMultiPtr EXCEPT ![t] = EventMultiPtr'[t]]
        BY <1>1, <1>3, <2>2 DEF TaskTypes, OS_EventTaskWaitMulti
      <3>3. OSEventTbl' = [e \in Event |-> IF e \in E THEN OSEventTbl[e] \cup {OSTCBPrio[t]} ELSE OSEventTbl[e]]
        BY <1>3 DEF OS_EventTaskWaitMulti
      <3>4. PICK bits : Block(OSRdyTbl, t, bits, timeout)
        BY <1>3
      <3>5. \A e \in E : ~HasOne(e) /\ OSEventType[e] \in MultiTypes
        BY <1>1, <1>3
      <3>. QED
        BY <1>1, <1>3, <3>1, <3>2, <3>3, <3>4, <3>5, WaitKeepsRest
    <2>. QED
      BY <2>1, <2>3 DEF EventsInv
  <1>. QED
    BY <1>2, <1>3 DEF OSEventPendMulti

LEMMA WaitKeeps ==
  ASSUME EventsInv, ~AnyTime, NEW t, MayWait(t), Wait(t), UNCHANGED <<mutexVars, history>>
  PROVE  EventsInv'
  <1>1. OwnsNothing(t)
    BY DEF MayWait
  <1>2. PICK timeout \in Ticks \cup {0} :
          \/ \E e \in Event : OSSemPend(t, e, timeout) \/ OSMboxPend(t, e, timeout) \/ OSQPend(t, e, timeout)
          \/ \E E \in Several : OSEventPendMulti(t, E, timeout)
    BY DEF Wait
  <1>3. timeout \in Nat
    BY TicksAssumption
  <1>4. ASSUME NEW e \in Event, OSSemPend(t, e, timeout) \/ OSMboxPend(t, e, timeout) \/ OSQPend(t, e, timeout)
        PROVE  EventsInv'
    <2>1. OSEventType[e] \in MultiTypes /\ Pend(t, e, timeout)
      BY <1>4 DEF OSSemPend, OSMboxPend, OSQPend, MultiTypes
    <2>. QED
      BY <1>1, <1>3, <2>1, PendKeeps
  <1>. QED
    BY <1>1, <1>2, <1>3, <1>4, EventAssumption, PendMultiKeeps

-----------------------------------------------------------------------------
(* A task returns from its wait.                                           *)
LEMMA ReturnsRest ==
  ASSUME EventsInv, NEW t \in TCB, Running(t), pc[t] \in {"pend", "multi"},
         \A u \in TCB \ {t} : /\ StatPend'[u] = StatPend[u] /\ EventPtr'[u] = EventPtr[u]
                              /\ EventMultiPtr'[u] = EventMultiPtr[u] /\ Lists(u)' = Lists(u),
         \A e \in Event : OSEventTbl'[e] \subseteq OSEventTbl[e],
         pc' = [pc EXCEPT ![t] = "task"], UNCHANGED <<prioVars, OSRdyTbl, cpuVars, eventVars, newEvent>>,
         UNCHANGED <<mutexVars, history>>
  PROVE  OwnInv' /\ StoreInv' /\ CpuInv'
  <1>1. /\ UNCHANGED <<OSTCBPrio, pip, owner, OSEventType>> /\ pc \in [TCB -> Places] /\ OSTCBPrio[t] \in OSRdyTbl
    BY RunningIsReady DEF EventsInv, TasksInv, TaskTypes, prioVars, eventVars, mutexVars
  <1>2. \A u \in TCB : pc'[u] = IF u = t THEN "task" ELSE pc[u]
    BY <1>1
  <1>3. OwnInv'
    <2>1. \A e \in Event : owner[e] # t
      BY DEF EventsInv, OwnInv, OwnersInv
    <2>. QED
      BY <1>1, <1>2, <2>1, OthersKeepOwners DEF EventsInv, IsMutex
  <1>4. StoreInv'
    BY <1>2, StoreFrame DEF EventsInv
  <1>5. CpuInv'
    BY <1>1, CpuSame DEF EventsInv, IsMutex
  <1>. QED
    BY <1>3, <1>4, <1>5

LEMMA RemovedLists ==
  ASSUME TasksInv, NEW t \in TCB, NEW E, RemoveFrom(t, E), UNCHANGED OSTCBPrio
  PROVE  /\ \A u \in TCB \ {t} : Lists(u)' = Lists(u)
         /\ \A e \in Event : OSEventTbl'[e] \subseteq OSEventTbl[e]
  <1>1. \A e \in Event : OSEventTbl'[e] = IF e \in E THEN OSEventTbl[e] \ {OSTCBPrio[t]} ELSE OSEventTbl[e]
    BY DEF RemoveFrom
  <1>. QED
    BY <1>1, ListsOfOthers

LEMMA PendReturnKeeps ==
  ASSUME EventsInv, NEW t \in TCB \ {Idle}, PendReturn(t), UNCHANGED <<mutexVars, history>>
  PROVE  EventsInv'
  <1> DEFINE E == IF StatPend[t] = "TO" THEN {EventPtr[t]} ELSE {}
  <1>1. /\ Running(t) /\ pc[t] = "pend" /\ OSTCBPrio[t] \in OSRdyTbl /\ TasksInv /\ TaskTypes
        /\ Consistent(pc[t], Stat[t], StatPend[t], Dly[t], EventPtr[t], EventMultiPtr[t], Lists(t),
                      OSTCBMsg[t], OSEventType)
        /\ Runnable(Stat[t], StatPend[t], Dly[t], Lists(t))
    BY RunningIsReady DEF EventsInv, PendReturn, TasksInv, TaskInv
  <1>2. /\ RemoveFrom(t, E) /\ EventPtr' = [EventPtr EXCEPT ![t] = NULL]
        /\ EventMultiPtr' = [EventMultiPtr EXCEPT ![t] = {}] /\ Stat' = [Stat EXCEPT ![t] = {}]
        /\ StatPend' = [StatPend EXCEPT ![t] = "OK"] /\ UNCHANGED <<Dly, OSRdyTbl, prioVars, OSTCBPrio, OSEventType>>
        /\ UNCHANGED <<cpuVars, eventVars, newEvent, forgotten>>
        /\ OSTCBMsg' = [OSTCBMsg EXCEPT ![t] = NULL] /\ pc' = [pc EXCEPT ![t] = "task"]
    BY DEF PendReturn, PendEnds, eventVars, prioVars
  <1>3. Lists(t) \subseteq E
    BY <1>1 DEF Consistent, Runnable
  <1> HIDE DEF E
  <1>4. TasksInv'
    BY <1>1, <1>2, <1>3, ReturnKeeps
  <1>5. OwnInv' /\ StoreInv' /\ CpuInv'
    <2>1. \A u \in TCB \ {t} : /\ StatPend'[u] = StatPend[u] /\ EventPtr'[u] = EventPtr[u]
                               /\ EventMultiPtr'[u] = EventMultiPtr[u]
      BY <1>1, <1>2 DEF TaskTypes
    <2>2. /\ \A u \in TCB \ {t} : Lists(u)' = Lists(u)
          /\ \A e \in Event : OSEventTbl'[e] \subseteq OSEventTbl[e]
      BY <1>1, <1>2, RemovedLists
    <2>. QED
      BY <1>1, <1>2, <2>1, <2>2, ReturnsRest
  <1>. QED
    BY <1>4, <1>5 DEF EventsInv

LEMMA MultiReturnKeeps ==
  ASSUME EventsInv, NEW t \in TCB \ {Idle}, MultiReturn(t), UNCHANGED <<mutexVars, history>>
  PROVE  EventsInv'
  <1> DEFINE timedOut == StatPend[t] = "TO" \/ EventPtr[t] = NULL
             E == IF timedOut THEN EventMultiPtr[t] ELSE {}
             gone == ~timedOut /\ StatPend[t] = "OK" /\ OSEventType[EventPtr[t]] \notin MultiTypes
  <1>1. /\ Running(t) /\ pc[t] = "multi" /\ OSTCBPrio[t] \in OSRdyTbl /\ TasksInv /\ TaskTypes
        /\ Consistent(pc[t], Stat[t], StatPend[t], Dly[t], EventPtr[t], EventMultiPtr[t], Lists(t),
                      OSTCBMsg[t], OSEventType)
        /\ Runnable(Stat[t], StatPend[t], Dly[t], Lists(t))
    BY RunningIsReady DEF EventsInv, MultiReturn, TasksInv, TaskInv
  <1>2. /\ RemoveFrom(t, E)
        /\ UNCHANGED <<Dly, OSRdyTbl, prioVars, OSTCBPrio, OSEventType, cpuVars, eventVars, newEvent, forgotten>>
        /\ OSTCBMsg' = [OSTCBMsg EXCEPT ![t] = NULL] /\ pc' = [pc EXCEPT ![t] = "task"]
    BY DEF MultiReturn, eventVars, prioVars
  <1>3. Lists(t) \subseteq E /\ (~timedOut => Lists(t) = {})
    BY <1>1 DEF Consistent, Runnable
  <1>4. \/ gone /\ UNCHANGED <<Stat, StatPend, EventPtr, EventMultiPtr>>
        \/ /\ EventPtr' = [EventPtr EXCEPT ![t] = NULL] /\ EventMultiPtr' = [EventMultiPtr EXCEPT ![t] = {}]
           /\ Stat' = [Stat EXCEPT ![t] = {}] /\ StatPend' = [StatPend EXCEPT ![t] = "OK"]
    BY DEF MultiReturn
  <1>5. gone => ~timedOut /\ E = {}
    OBVIOUS
  <1> HIDE DEF E, gone, timedOut
  <1>6. TasksInv'
    <2>1. CASE gone /\ UNCHANGED <<Stat, StatPend, EventPtr, EventMultiPtr>>
      <3>1. OSEventTbl' = OSEventTbl
        BY <1>1, <1>2, <1>5, <2>1 DEF RemoveFrom, TaskTypes
      <3>2. UNCHANGED <<stateVars, waitVars>>
        BY <1>2, <2>1, <3>1 DEF stateVars, waitVars
      <3>. QED
        BY <1>1, <1>2, <1>3, <1>5, <2>1, <3>2, ReturnGoneKeeps
    <2>2. CASE /\ EventPtr' = [EventPtr EXCEPT ![t] = NULL] /\ EventMultiPtr' = [EventMultiPtr EXCEPT ![t] = {}]
               /\ Stat' = [Stat EXCEPT ![t] = {}] /\ StatPend' = [StatPend EXCEPT ![t] = "OK"]
      BY <1>1, <1>2, <1>3, <2>2, ReturnKeeps
    <2>. QED
      BY <1>4, <2>1, <2>2
  <1>7. OwnInv' /\ StoreInv' /\ CpuInv'
    <2>1. \A u \in TCB \ {t} : /\ StatPend'[u] = StatPend[u] /\ EventPtr'[u] = EventPtr[u]
                               /\ EventMultiPtr'[u] = EventMultiPtr[u]
      BY <1>1, <1>4 DEF TaskTypes
    <2>2. /\ \A u \in TCB \ {t} : Lists(u)' = Lists(u)
          /\ \A e \in Event : OSEventTbl'[e] \subseteq OSEventTbl[e]
      BY <1>1, <1>2, RemovedLists
    <2>. QED
      BY <1>1, <1>2, <2>1, <2>2, ReturnsRest
  <1>. QED
    BY <1>6, <1>7 DEF EventsInv

-----------------------------------------------------------------------------
(* Mutexes.                                                                *)
LEMMA MutexReturnKeeps ==
  ASSUME EventsInv, NEW t \in TCB \ {Idle}, MutexReturn(t)
  PROVE  EventsInv'
  <1> DEFINE E == IF StatPend[t] = "TO" THEN {EventPtr[t]} ELSE {}
  <1>1. /\ Running(t) /\ pc[t] = "mutex" /\ OSTCBPrio[t] \in OSRdyTbl /\ TasksInv /\ TaskTypes
        /\ Consistent(pc[t], Stat[t], StatPend[t], Dly[t], EventPtr[t], EventMultiPtr[t], Lists(t),
                      OSTCBMsg[t], OSEventType)
        /\ Runnable(Stat[t], StatPend[t], Dly[t], Lists(t))
    BY RunningIsReady DEF EventsInv, MutexReturn, TasksInv, TaskInv
  <1>2. /\ RemoveFrom(t, E) /\ EventPtr' = [EventPtr EXCEPT ![t] = NULL]
        /\ EventMultiPtr' = [EventMultiPtr EXCEPT ![t] = {}] /\ Stat' = [Stat EXCEPT ![t] = {}]
        /\ StatPend' = [StatPend EXCEPT ![t] = "OK"]
        /\ UNCHANGED <<Dly, OSRdyTbl, prioVars, OSTCBPrioTbl, OSTCBPrio, OSEventType, pip, ownerPrio, owner>>
        /\ UNCHANGED <<cpuVars, eventVars, newEvent, OSTCBMsg, forgotten>> /\ pc' = [pc EXCEPT ![t] = "task"]
    BY DEF MutexReturn, PendEnds, eventVars, prioVars, localVars, mutexVars
  <1>3. Lists(t) \subseteq E /\ EventPtr[t] \in Event /\ (Lists(t) = {} => StatPend[t] # "TO")
    BY <1>1 DEF Consistent, Runnable
  <1>4. OSTCBMsg' = [OSTCBMsg EXCEPT ![t] = NULL]
    <2>1. OSTCBMsg[t] = NULL
      BY <1>1 DEF Consistent
    <2>. QED
      BY <1>1, <1>2, <2>1 DEF TaskTypes
  <1> HIDE DEF E
  <1>5. TasksInv'
    BY <1>1, <1>2, <1>3, <1>4, ReturnKeeps
  <1>6. /\ \A u \in TCB \ {t} : /\ StatPend'[u] = StatPend[u] /\ EventPtr'[u] = EventPtr[u]
                                /\ EventMultiPtr'[u] = EventMultiPtr[u]
        /\ pc \in [TCB -> Places] /\ EventMultiPtr'[t] = {} /\ StatPend'[t] = "OK"
    BY <1>1, <1>2 DEF TaskTypes
  <1>7. /\ \A u \in TCB \ {t} : Lists(u)' = Lists(u)
        /\ \A e \in Event : OSEventTbl'[e] \subseteq OSEventTbl[e]
    BY <1>1, <1>2, RemovedLists
  <1>8. Lists(t)' = {}
    <2>1. \A d \in Event : OSEventTbl'[d] = IF d \in E THEN OSEventTbl[d] \ {OSTCBPrio[t]} ELSE OSEventTbl[d]
      BY <1>2 DEF RemoveFrom
    <2>. QED
      BY <1>2, <1>3, <2>1 DEF Lists
  <1>9. \A u \in TCB : pc'[u] = IF u = t THEN "task" ELSE pc[u]
    BY <1>2, <1>6
  <1>10. OwnInv'
    <2>1. OwnInv /\ MutexTypes /\ OwnersInv /\ \A e \in Event : IsMutex(e)' <=> IsMutex(e)
      BY <1>2 DEF EventsInv, OwnInv, IsMutex
    <2>2. \A e \in Event : owner[e] = t <=> StatPend[t] = "OK" /\ t \notin bereft /\ EventPtr[t] = e
      <3>1. CASE Lists(t) = {} /\ t \notin bereft
        <4>1. owner[EventPtr[t]] = t
          BY <1>1, <2>1, <3>1 DEF OwnersInv
        <4>2. \A e \in Event : owner[e] = t => StatPend[t] = "OK" /\ EventPtr[t] = e
          BY <1>1, <2>1 DEF OwnersInv
        <4>. QED
          BY <1>3, <3>1, <4>1, <4>2
      <3>2. CASE Lists(t) # {}
        <4>1. \A e \in Event : owner[e] # t
          BY <2>1, <3>2 DEF OwnersInv
        <4>2. StatPend[t] # "OK"
          BY <1>3, <3>2 DEF E
        <4>. QED
          BY <4>1, <4>2
      <3>3. CASE t \in bereft
        BY <2>1, <3>3 DEF OwnersInv
      <3>. QED
        BY <3>1, <3>2, <3>3
    <2>3. \A e \in Event : e \notin holds[t]
      BY <1>1, <2>1 DEF OwnersInv
    <2>4. \A u \in TCB : \A e \in Event : e \in holds'[u] <=> IF u = t THEN owner[e] = t ELSE e \in holds[u]
      BY <1>3, <2>1, <2>2, <2>3 DEF MutexReturn, MutexTypes
    <2>5. MutexTypes'
      <3>1. holds' \in [TCB -> SUBSET Event]
        BY <1>3, <2>1 DEF MutexReturn, MutexTypes
      <3>2. bereft' \subseteq TCB
        BY <2>1 DEF MutexReturn, MutexTypes
      <3>. QED
        BY <1>2, <2>1, <3>1, <3>2 DEF MutexTypes
    <2>6. PriosInv'
      BY <1>2, <2>1 DEF OwnInv, PriosInv, Owns
    <2>7. MutexInv'
      BY <1>2, <1>7, <2>1 DEF OwnInv, MutexInv
    <2>8. OwnersInv'
      <3>1. \A d, e \in Event : owner[d] = owner[e] /\ owner[d] # NULL => d = e
        BY <2>1 DEF OwnersInv
      <3>2. ASSUME NEW e \in Event, NEW u \in TCB, owner[e] = u
            PROVE  /\ u # Idle /\ EventMultiPtr'[u] = {} /\ Lists(u)' = {}
                   /\ \/ pc'[u] \in {"task", "create"}
                      \/ pc'[u] = "mutex" /\ EventPtr'[u] = e /\ StatPend'[u] = "OK"
        <4>1. CASE u = t
          BY <1>6, <1>8, <1>9, <4>1
        <4>2. CASE u # t
          BY <1>6, <1>7, <1>9, <2>1, <3>2, <4>2 DEF OwnersInv
        <4>. QED
          BY <4>1, <4>2
      <3>3. ASSUME NEW u \in TCB
            PROVE  /\ pc'[u] = "mutex" /\ Lists(u)' = {} /\ u \notin bereft' => owner[EventPtr'[u]] = u
                   /\ u \in bereft' => pc'[u] = "mutex" /\ Lists(u)' = {} /\ \A e \in Event : owner[e] # u
                   /\ \A e \in Event : e \in holds'[u] <=> owner[e] = u /\ pc'[u] # "mutex"
        <4> bereft' = bereft \ {t}
          BY DEF MutexReturn
        <4>1. CASE u = t
          BY <1>9, <2>4, <4>1
        <4>2. CASE u # t
          BY <1>6, <1>7, <1>9, <2>1, <2>4, <4>2 DEF OwnersInv
        <4>. QED
          BY <4>1, <4>2
      <3>4. owner' = owner
        BY <1>2
      <3>. QED
        BY <3>1, <3>2, <3>3, <3>4 DEF OwnersInv
    <2>. QED
      BY <2>5, <2>6, <2>7, <2>8 DEF OwnInv
  <1>11. StoreInv'
    BY <1>1, <1>2, <1>7, <1>9, StoreFrame DEF EventsInv
  <1>12. CpuInv'
    BY <1>1, <1>2, CpuSame DEF EventsInv, IsMutex
  <1>. QED
    BY <1>5, <1>10, <1>11, <1>12 DEF EventsInv

(* A task in its own code that may take a mutex.                           *)
LEMMA TakerIs ==
  ASSUME EventsInv, NEW t, InTask(t)
  PROVE  /\ t \in TCB \ {Idle} /\ Running(t) /\ OSTCBCur = t /\ ~sched[t] /\ pc[t] = "task" /\ Lists(t) = {}
         /\ OSTCBPrio[t] \in OSRdyTbl /\ "SUSPEND" \notin Stat[t] /\ OSTCBPrio[t] \in AnyPrio
         /\ newEvent[t] = NULL
         /\ OwnsNothing(t) => OSTCBPrio[t] = BasePrio[t] /\ \A e \in Event : owner[e] # t
  <1>1. /\ t \in TCB \ {Idle} /\ Running(t) /\ OSTCBCur = t /\ ~sched[t] /\ pc[t] = "task"
        /\ OSTCBPrio[t] \in OSRdyTbl /\ Runnable(Stat[t], StatPend[t], Dly[t], Lists(t))
    BY RunningIsReady DEF InTask, Running, EventsInv
  <1>2. Lists(t) = {} /\ OSTCBPrio[t] \in AnyPrio
    BY <1>1 DEF EventsInv, TasksInv, TaskInv, TaskTypes, Consistent
  <1>3. newEvent[t] = NULL
    BY <1>1 DEF EventsInv, StoreInv, BlocksInv
  <1>4. OwnsNothing(t) => OSTCBPrio[t] = BasePrio[t] /\ \A e \in Event : owner[e] # t
    BY <1>1, OwnsNone DEF EventsInv, OwnInv, PriosInv, Owns, OwnsNothing
  <1>. QED
    BY <1>1, <1>2, <1>3, <1>4 DEF Runnable

LEMMA TakeMutexKeeps ==
  ASSUME EventsInv, ~AnyTime, NEW t, NEW e \in Event, MayTake(t), TakeMutex(t, e)
  PROVE  EventsInv'
  <1>1. /\ t \in TCB \ {Idle} /\ Running(t) /\ OSTCBCur = t /\ pc[t] = "task" /\ Lists(t) = {}
        /\ OSTCBPrio[t] \in OSRdyTbl /\ OSTCBPrio[t] \in AnyPrio /\ OSTCBPrio[t] = BasePrio[t]
        /\ \A d \in Event : owner[d] # t
        /\ EventMultiPtr[t] = {}
    BY TakerIs DEF TakeMutex, MayTake
  <1>2. /\ IsMutex(e) /\ ownerPrio[e] = AVAILABLE /\ ownerPrio' = [ownerPrio EXCEPT ![e] = OSTCBPrio[t]]
        /\ owner' = [owner EXCEPT ![e] = t] /\ holds' = [holds EXCEPT ![t] = @ \cup {e}]
        /\ UNCHANGED <<coreVars, eventVars, localVars, pip, bereft>>
    BY DEF TakeMutex
  <1>3. /\ UNCHANGED <<OSTCBPrioTbl, OSTCBPrio, stateVars, waitVars, cpuVars, pc, OSTCBMsg, OSEventType, forgotten>>
        /\ UNCHANGED <<EventPtr, EventMultiPtr, OSEventTbl, StatPend, OSRdyTbl, eventVars, newEvent, pip>>
        /\ UNCHANGED <<OSTCBCur, OSPrioCur, sched, OSLockNesting>>
    BY <1>2 DEF coreVars, prioVars, stateVars, waitVars, cpuVars, eventVars, localVars
  <1>4. TasksInv'
    BY <1>3, SameTasks DEF EventsInv
  <1>5. StoreInv'
    BY <1>3, StoreFrame DEF EventsInv
  <1>6. OwnInv /\ MutexTypes /\ PriosInv /\ MutexInv /\ OwnersInv
    BY DEF EventsInv, OwnInv
  <1>7. owner[e] = NULL
    <2> SUFFICES ASSUME owner[e] # NULL PROVE FALSE
      OBVIOUS
    <2>1. owner[e] \in TCB /\ ownerPrio[e] = BasePrio[owner[e]]
      BY <1>2, <1>6 DEF MutexTypes, MutexInv
    <2>. QED
      BY <1>2, <2>1, PrioIsNat, BasePrioAssumption
  <1>8. /\ \A d \in Event : owner'[d] = (IF d = e THEN t ELSE owner[d])
        /\ \A d \in Event : ownerPrio'[d] = (IF d = e THEN OSTCBPrio[t] ELSE ownerPrio[d])
        /\ \A u \in TCB : holds'[u] = (IF u = t THEN holds[t] \cup {e} ELSE holds[u])
        /\ MutexTypes'
    BY <1>1, <1>2, <1>3, <1>6 DEF MutexTypes
  <1>9. /\ \A u \in TCB : Lists(u)' = Lists(u)
        /\ \A d \in Event : IsMutex(d)' <=> IsMutex(d)
        /\ NULL \notin TCB
    BY <1>3, PointerAssumption DEF Lists, IsMutex
  <1>10. PriosInv'
    <2> SUFFICES ASSUME NEW u \in TCB, OSTCBPrio[u] # BasePrio[u]
                 PROVE  \E d \in Event : Owns(u, d)' /\ OSTCBPrio[u] = pip[d]
      BY <1>3, <1>6 DEF PriosInv
    <2>1. PICK d \in Event : Owns(u, d) /\ OSTCBPrio[u] = pip[d]
      BY <1>6 DEF PriosInv
    <2>. QED
      BY <1>7, <1>8, <1>9, <2>1 DEF Owns
  <1>11. MutexInv'
    <2>1. OSEventTbl[e] = {} /\ OSTCBPrioTbl[pip[e]] = RESERVED
      BY <1>2, <1>6, <1>7 DEF MutexInv
    <2>2. RESERVED # NULL
      BY PointerAssumption
    <2>. QED
      BY <1>1, <1>2, <1>3, <1>6, <1>8, <1>9, <2>1, <2>2 DEF MutexInv
  <1>12. OwnersInv'
    <2>1. \A d, f \in Event : owner'[d] = owner'[f] /\ owner'[d] # NULL => d = f
      BY <1>1, <1>6, <1>8 DEF OwnersInv
    <2>2. ASSUME NEW d \in Event, NEW u \in TCB, owner'[d] = u
          PROVE  /\ u # Idle /\ EventMultiPtr[u] = {} /\ Lists(u) = {}
                 /\ \/ pc[u] \in {"task", "create"}
                    \/ pc[u] = "mutex" /\ EventPtr[u] = d /\ StatPend[u] = "OK"
      BY <1>1, <1>6, <1>8, <2>2 DEF OwnersInv
    <2>3. ASSUME NEW u \in TCB
          PROVE  /\ pc[u] = "mutex" /\ Lists(u) = {} /\ u \notin bereft => owner'[EventPtr[u]] = u
                 /\ u \in bereft => pc[u] = "mutex" /\ Lists(u) = {} /\ \A d \in Event : owner'[d] # u
                 /\ \A d \in Event : d \in holds'[u] <=> owner'[d] = u /\ pc[u] # "mutex"
      <3>1. /\ pc[u] = "mutex" => EventPtr[u] \in Event
            /\ pc[u] = "mutex" /\ Lists(u) = {} /\ u \notin bereft => owner[EventPtr[u]] = u
            /\ u \in bereft => pc[u] = "mutex" /\ Lists(u) = {} /\ \A d \in Event : owner[d] # u
            /\ \A d \in Event : d \in holds[u] <=> owner[d] = u /\ pc[u] # "mutex"
        BY <1>6 DEF OwnersInv, EventsInv, TasksInv, TaskInv, Consistent
      <3>. QED
        BY <1>1, <1>7, <1>8, <1>9, <3>1
    <2>. QED
      BY <1>2, <1>3, <1>9, <2>1, <2>2, <2>3 DEF OwnersInv
  <1>13. CpuInv'
    <2>1. Stale => Stale'
      BY <1>1, <1>3, <1>8, <1>9 DEF Stale
    <2>. QED
      BY <1>3, <2>1 DEF EventsInv, CpuInv
  <1>. QED
    BY <1>4, <1>5, <1>8, <1>10, <1>11, <1>12, <1>13 DEF EventsInv, OwnInv

LEMMA MutexCreateKeeps ==
  ASSUME EventsInv, NEW t, NEW p \in PIP, OSMutexCreate(t, p)
  PROVE  EventsInv'
  <1>1. /\ t \in TCB \ {Idle} /\ Running(t) /\ OSTCBCur = t /\ pc[t] = "task" /\ OSTCBPrio[t] \in OSRdyTbl
    BY TakerIs DEF OSMutexCreate
  <1>2. PICK e \in OSEventFreeList :
          /\ OSEventFreeList' = OSEventFreeList \ {e}
          /\ OSEventType' = [OSEventType EXCEPT ![e] = "MUTEX"]
          /\ pip' = [pip EXCEPT ![e] = p]
          /\ OSEventTbl' = [OSEventTbl EXCEPT ![e] = {}]
    BY DEF OSMutexCreate
  <1>3. /\ OSTCBPrioTbl[p] = NULL /\ OSTCBPrioTbl' = [OSTCBPrioTbl EXCEPT ![p] = RESERVED]
        /\ UNCHANGED <<OSTCBPrio, stateVars, EventPtr, EventMultiPtr, cpuVars, pc>>
        /\ UNCHANGED <<Content, OSEventCnt, msgs, OSQFreeList, localVars, OSTCBMsg, forgotten, newEvent, ownerPrio, owner,
                       holds, bereft>>
        /\ UNCHANGED <<StatPend, OSRdyTbl, OSTCBCur, OSPrioCur, sched, OSLockNesting>>
    BY DEF OSMutexCreate, stateVars, cpuVars, localVars, Content, history
  <1>4. /\ TasksInv /\ TaskTypes /\ OwnInv /\ MutexTypes /\ PriosInv /\ MutexInv /\ OwnersInv
        /\ StoreInv /\ StoreTypes /\ ContentInv /\ BlocksInv /\ CpuInv
    BY DEF EventsInv, TasksInv, OwnInv, StoreInv
  <1>5. /\ e \in Event /\ OSEventType[e] = "UNUSED" /\ OSEventTbl[e] = {} /\ owner[e] = NULL
        /\ ownerPrio[e] = AVAILABLE
    <2>1. e \in Event
      BY <1>4 DEF StoreTypes
    <2>2. OSEventType[e] = "UNUSED"
      BY <1>4, <2>1 DEF BlocksInv
    <2>. QED
      BY <1>4, <2>1, <2>2 DEF ContentInv, MutexInv, IsMutex
  <1>6. OSEventTbl' = OSEventTbl /\ UNCHANGED waitVars
    <2>1. OSEventTbl' = OSEventTbl
      BY <1>2, <1>4, <1>5 DEF TaskTypes
    <2>. QED
      BY <1>3, <2>1 DEF waitVars
  <1>7. /\ p \in Prio /\ p \in AnyPrio /\ \A u \in TCB : OSTCBPrio[u] # p /\ BasePrio[u] # p
        /\ NULL \notin TCB /\ RESERVED \notin TCB /\ RESERVED # NULL
    <2>1. NULL \notin TCB /\ RESERVED \notin TCB /\ RESERVED # NULL
      BY PointerAssumption
    <2>. QED
      BY <1>3, <1>4, <2>1, MutexAssumption DEF PriosInv, AnyPrio
  <1>8. /\ \A d \in Event : OSEventType'[d] = (IF d = e THEN "MUTEX" ELSE OSEventType[d])
        /\ \A d \in Event : pip'[d] = (IF d = e THEN p ELSE pip[d])
        /\ \A q \in AnyPrio : OSTCBPrioTbl'[q] = (IF q = p THEN RESERVED ELSE OSTCBPrioTbl[q])
        /\ OSEventType' \in [Event -> EventTypes] /\ MutexTypes'
    BY <1>2, <1>3, <1>4, <1>7 DEF MutexTypes, TaskTypes, EventTypes
  <1>9. /\ \A u \in TCB : Lists(u)' = Lists(u)
        /\ \A d \in Event : IsMutex(d)' <=> d = e \/ IsMutex(d)
        /\ ~IsMutex(e)
    BY <1>3, <1>5, <1>6, <1>8 DEF Lists, IsMutex
  <1>10. TasksInv'
    <2>1. pc' = [pc EXCEPT ![t] = "task"]
      BY <1>1, <1>3, <1>4 DEF TaskTypes
    <2>. QED
      BY <1>1, <1>3, <1>4, <1>5, <1>6, <1>8, <2>1, OwnCodeKeeps
  <1>11. PriosInv'
    <2> SUFFICES ASSUME NEW u \in TCB
                 PROVE  /\ OSTCBPrioTbl'[OSTCBPrio[u]] = u /\ OSTCBPrioTbl'[BasePrio[u]] = u
                        /\ OSTCBPrio[u] # BasePrio[u] =>
                             \E d \in Event : Owns(u, d)' /\ OSTCBPrio[u] = pip'[d]
      BY <1>3 DEF PriosInv
    <2>1. OSTCBPrio[u] \in AnyPrio /\ BasePrio[u] \in AnyPrio
      BY <1>4, BasePrioAssumption DEF TaskTypes
    <2>2. OSTCBPrioTbl'[OSTCBPrio[u]] = u /\ OSTCBPrioTbl'[BasePrio[u]] = u
      BY <1>4, <1>7, <1>8, <2>1 DEF PriosInv
    <2>3. ASSUME OSTCBPrio[u] # BasePrio[u]
          PROVE  \E d \in Event : Owns(u, d)' /\ OSTCBPrio[u] = pip'[d]
      <3>1. PICK d \in Event : Owns(u, d) /\ OSTCBPrio[u] = pip[d]
        BY <1>4, <2>3 DEF PriosInv
      <3>. QED
        BY <1>3, <1>8, <1>9, <3>1 DEF Owns
    <2>. QED
      BY <2>2, <2>3
  <1>12. MutexInv'
    <2>1. \A d \in Event : IsMutex(d) => pip[d] # p /\ pip[d] \in AnyPrio
      BY <1>3, <1>4, MutexAssumption DEF MutexInv, AnyPrio
    <2>. QED
      BY <1>3, <1>4, <1>5, <1>6, <1>7, <1>8, <1>9, <2>1 DEF MutexInv
  <1>13. OwnersInv'
    BY <1>3, <1>4, <1>6, <1>9 DEF OwnersInv
  <1>14. StoreInv'
    <2>1. StoreTypes'
      BY <1>2, <1>3, <1>4 DEF StoreTypes
    <2>2. ContentInv'
      BY <1>3, <1>4, <1>5, <1>6, <1>8 DEF ContentInv, HasOne
    <2>3. BlocksInv'
      <3>1. Cardinality(Queues') = Cardinality(Queues)
        <4>1. PICK kind : kind = "MUTEX"
          OBVIOUS
        <4>2. \A d \in Event : OSEventType'[d] = IF d = e THEN kind ELSE OSEventType[d]
          BY <1>8, <4>1
        <4>3. OSEventType[e] # "Q" /\ kind # "Q" => Cardinality(Queues') = Cardinality(Queues)
          BY <1>5, <4>2, QueuesChange
        <4>. QED
          BY <1>5, <4>1, <4>3
      <3>2. /\ \A u \in TCB : newEvent[u] # NULL <=> pc[u] = "create"
            /\ \A u, v \in TCB : newEvent[u] = newEvent[v] /\ newEvent[u] # NULL => u = v
            /\ \A u \in TCB : newEvent[u] \notin OSEventFreeList
            /\ \A d \in Event : OSEventType[d] = "UNUSED" <=> d \in OSEventFreeList \/ \E u \in TCB : newEvent[u] = d
            /\ OSQFreeList + Cardinality(Queues) = MaxQs
        BY <1>4 DEF BlocksInv, Queues
      <3>. QED
        BY <1>2, <1>3, <1>5, <1>8, <3>1, <3>2 DEF BlocksInv, Queues
    <2>. QED
      BY <2>1, <2>2, <2>3 DEF StoreInv
  <1>15. CpuInv'
    <2>1. Stale => Stale'
      BY <1>3, <1>5, <1>8, <1>9 DEF Stale
    <2>. QED
      BY <1>3, <1>4, <2>1 DEF CpuInv
  <1>. QED
    BY <1>8, <1>10, <1>11, <1>12, <1>13, <1>14, <1>15 DEF EventsInv, OwnInv

(* A task that is in no wait list gets a priority that nobody has.         *)
LEMMA RenamedIs ==
  ASSUME TasksInv, NEW o \in TCB, Lists(o) = {}, NEW q \in AnyPrio, \A u \in TCB : OSTCBPrio[u] # q,
         OSTCBPrio' = [OSTCBPrio EXCEPT ![o] = q], NEW ready,
         ready = IF OSTCBPrio[o] \in OSRdyTbl THEN (OSRdyTbl \ {OSTCBPrio[o]}) \cup {q} ELSE OSRdyTbl
  PROVE  /\ Renamed /\ SameReady(ready)
         /\ \A u \in TCB : OSTCBPrio'[u] = IF u = o THEN q ELSE OSTCBPrio[u]
  <1>1. /\ TaskTypes /\ Distinct /\ OfTasks /\ OSTCBPrio' \in [TCB -> AnyPrio]
        /\ \A u \in TCB : OSTCBPrio'[u] = IF u = o THEN q ELSE OSTCBPrio[u]
    BY DEF TasksInv, TaskTypes
  <1>2. Distinct'
    BY <1>1 DEF Distinct
  <1>3. \A d \in Event : q \notin OSEventTbl[d]
    BY <1>1 DEF OfTasks
  <1>4. q \notin OSRdyTbl
    BY <1>1 DEF OfTasks
  <1>5. Renamed
    BY <1>1, <1>2, <1>3 DEF Renamed
  <1>6. \A u \in TCB : OSTCBPrio'[u] \in ready <=> OSTCBPrio[u] \in OSRdyTbl
    BY <1>1, <1>4 DEF Distinct
  <1>7. ASSUME NEW p \in ready PROVE p \in {OSTCBPrio'[u] : u \in TCB}
    <2>1. CASE p = q /\ OSTCBPrio[o] \in OSRdyTbl
      BY <1>1, <2>1
    <2>2. CASE p \in OSRdyTbl
      <3>1. PICK u \in TCB : p = OSTCBPrio[u]
        BY <1>1, <2>2 DEF OfTasks
      <3>2. u = o => OSTCBPrio[o] \in OSRdyTbl /\ p # q
        BY <1>4, <2>2, <3>1
      <3>3. u # o
        BY <1>7, <3>1, <3>2
      <3>. QED
        BY <1>1, <3>1, <3>3
    <2>. QED
      BY <1>7, <2>1, <2>2
  <1>. QED
    BY <1>1, <1>5, <1>6, <1>7 DEF SameReady

(* The owner of a mutex: it has its own priority or the mutex's PIP, which *)
(* nobody else has.                                                        *)
LEMMA OwnersPrio ==
  ASSUME TasksInv, OwnInv, NEW e \in Event, IsMutex(e), NEW o \in TCB, owner[e] = o
  PROVE  /\ Lists(o) = {} /\ EventMultiPtr[o] = {} /\ pc[o] \in {"task", "create", "mutex"}
         /\ ownerPrio[e] = BasePrio[o] /\ BasePrio[o] \in AnyPrio /\ pip[e] \in AnyPrio /\ BasePrio[o] > pip[e]
         /\ OSTCBPrio[o] \in {BasePrio[o], pip[e]} /\ pip[e] \in PIP
         /\ \A u \in TCB : OSTCBPrio[u] = pip[e] => u = o
         /\ \A u \in TCB : OSTCBPrio[u] = BasePrio[o] => u = o
         /\ \A u \in TCB : BasePrio[u] # pip[e]
         /\ \A d \in Event : owner[d] = o => d = e
  <1>1. NULL \notin TCB /\ RESERVED \notin TCB
    BY PointerAssumption
  <1>2. /\ Lists(o) = {} /\ EventMultiPtr[o] = {} /\ pc[o] \in {"task", "create", "mutex"}
        /\ \A d \in Event : owner[d] = o => d = e
    BY <1>1, OwnerIs
  <1>3. /\ ownerPrio[e] = BasePrio[o] /\ pip[e] \in PIP /\ OSTCBPrioTbl[pip[e]] \in {RESERVED, o}
    BY <1>1 DEF OwnInv, MutexInv
  <1>4. BasePrio[o] \in AnyPrio /\ pip[e] \in AnyPrio /\ \A u \in TCB : BasePrio[u] > pip[e]
    BY <1>3, MutexAssumption, BasePrioAssumption DEF AnyPrio
  <1>5. OSTCBPrio[o] \in {BasePrio[o], pip[e]}
    BY <1>2 DEF OwnInv, PriosInv, Owns
  <1>6. \A u \in TCB : OSTCBPrioTbl[OSTCBPrio[u]] = u /\ OSTCBPrioTbl[BasePrio[u]] = u
    BY DEF OwnInv, PriosInv
  <1>7. \A u \in TCB : BasePrio[u] # pip[e]
    <2> TAKE u \in TCB
    <2>1. BasePrio[u] \in Nat /\ pip[e] \in Nat
      BY <1>4, BasePrioAssumption, PrioIsNat
    <2>. QED
      BY <1>4, <2>1
  <1>. QED
    BY <1>1, <1>2, <1>3, <1>4, <1>5, <1>6, <1>7

LEMMA WaitForMutexKeeps ==
  ASSUME EventsInv, ~AnyTime, NEW t, NEW e \in Event, NEW timeout \in Nat, MayTake(t),
         WaitForMutex(t, e, timeout)
  PROVE  EventsInv'
  <1>1. /\ t \in TCB \ {Idle} /\ Running(t) /\ OSTCBCur = t /\ ~sched[t] /\ pc[t] = "task" /\ Lists(t) = {}
        /\ OSTCBPrio[t] \in OSRdyTbl /\ OSTCBPrio[t] \in AnyPrio /\ OSTCBPrio[t] = BasePrio[t]
        /\ \A d \in Event : owner[d] # t
        /\ EventMultiPtr[t] = {}
    BY TakerIs DEF WaitForMutex, MayTake
  <1>2. /\ TasksInv /\ TaskTypes /\ Distinct /\ OfTasks /\ OwnInv /\ MutexTypes /\ PriosInv /\ MutexInv /\ OwnersInv
        /\ StoreInv /\ StoreTypes /\ ContentInv /\ BlocksInv /\ CpuInv
    BY DEF EventsInv, TasksInv, OwnInv, StoreInv
  <1>3. IsMutex(e) /\ ownerPrio[e] # AVAILABLE /\ NULL \notin TCB /\ RESERVED \notin TCB
    BY PointerAssumption DEF WaitForMutex
  <1>4. PICK o \in TCB \ {t} : owner[e] = o
    BY <1>1, <1>2, <1>3 DEF MutexInv, MutexTypes
  <1>5. /\ Lists(o) = {} /\ EventMultiPtr[o] = {} /\ pc[o] \in {"task", "create", "mutex"}
        /\ ownerPrio[e] = BasePrio[o] /\ BasePrio[o] \in AnyPrio /\ pip[e] \in AnyPrio /\ BasePrio[o] > pip[e]
        /\ OSTCBPrio[o] \in {BasePrio[o], pip[e]} /\ pip[e] \in PIP
        /\ \A u \in TCB : OSTCBPrio[u] = pip[e] => u = o
        /\ \A u \in TCB : BasePrio[u] # pip[e]
        /\ \A d \in Event : owner[d] = o => d = e
    BY <1>2, <1>3, <1>4, OwnersPrio
  <1>6. PICK p : p = OSTCBPrio[o]
    OBVIOUS
  <1>7. PICK raise \in BOOLEAN : raise = (p > pip[e] /\ BasePrio[o] > OSTCBPrio[t])
    OBVIOUS
  <1>8. PICK ready : ready = IF raise /\ p \in OSRdyTbl THEN (OSRdyTbl \ {p}) \cup {pip[e]} ELSE OSRdyTbl
    OBVIOUS
  <1>9. /\ Block(ready, t, {"MUTEX"}, timeout)
        /\ EventPtr' = [EventPtr EXCEPT ![t] = e]
        /\ OSEventTbl' = [d \in Event |->
             (IF raise /\ ~(p \in OSRdyTbl) /\ d = EventPtr[o] THEN (OSEventTbl[d] \ {p}) \cup {pip[e]}
                                                               ELSE OSEventTbl[d])
               \cup (IF d = e THEN {OSTCBPrio[t]} ELSE {})]
        /\ OSTCBPrio' = IF raise THEN [OSTCBPrio EXCEPT ![o] = pip[e]] ELSE OSTCBPrio
        /\ OSTCBPrioTbl' = IF raise THEN [OSTCBPrioTbl EXCEPT ![pip[e]] = o] ELSE OSTCBPrioTbl
        /\ pc' = [pc EXCEPT ![t] = "mutex"]
        /\ ThenSched(t, TRUE)
        /\ UNCHANGED <<EventMultiPtr, eventVars, localVars, mutexVars, history>>
    BY <1>4, <1>5, <1>6, <1>7, <1>8 DEF WaitForMutex
  <1>10. /\ UNCHANGED <<OSEventType, OSEventCnt, msgs, OSEventFreeList, OSQFreeList, newEvent, OSTCBMsg, forgotten>>
         /\ UNCHANGED <<EventMultiPtr, pip, ownerPrio, owner, holds, bereft, OSTCBCur, OSPrioCur, OSLockNesting>>
         /\ sched' = [sched EXCEPT ![t] = TRUE] /\ StatPend' = [StatPend EXCEPT ![t] = "OK"]
    BY <1>9 DEF eventVars, localVars, mutexVars, history, ThenSched, Block
  (* A raised owner is ready, or is no task that an event's list names.    *)
  <1>11. p \notin OSRdyTbl => EventPtr[o] = NULL
    <2>1. /\ Consistent(pc[o], Stat[o], StatPend[o], Dly[o], EventPtr[o], EventMultiPtr[o], Lists(o),
                        OSTCBMsg[o], OSEventType)
          /\ OSTCBPrio[o] \in OSRdyTbl <=>
               Runnable(Stat[o], StatPend[o], Dly[o], Lists(o)) /\ o \notin forgotten
          /\ o \in forgotten => EventMultiPtr[o] # {}
      BY <1>2 DEF TasksInv, TaskInv
    <2>. QED
      BY <1>5, <1>6, <2>1 DEF Consistent, Runnable
  <1>12. \A d \in Event : OSEventTbl'[d] = IF d = e THEN OSEventTbl[d] \cup {OSTCBPrio[t]} ELSE OSEventTbl[d]
    <2>1. NULL \notin Event
      BY PointerAssumption
    <2>. QED
      BY <1>9, <1>11, <2>1
  <1>13. raise => p = BasePrio[o] /\ \A u \in TCB : OSTCBPrio[u] # pip[e]
    <2>1. pip[e] \in Nat /\ p \in Nat
      BY <1>5, <1>6, PrioIsNat
    <2>2. ASSUME raise PROVE p # pip[e]
      <3>1. p > pip[e]
        BY <1>7, <2>2, Zenon
      <3>. QED
        BY <2>1, <3>1
    <2>. QED
      BY <1>5, <1>6, <2>2
  <1>14. ~raise /\ OSTCBPrio[t] < ownerPrio[e] => p = pip[e]
    <2>1. pip[e] \in Nat /\ OSTCBPrio[t] \in Nat /\ BasePrio[o] \in Nat
      BY <1>1, <1>5, PrioIsNat
    <2>. QED
      BY <1>5, <1>6, <1>7, <2>1
  <1>15. /\ Renamed /\ SameReady(ready)
         /\ \A u \in TCB : OSTCBPrio'[u] = IF raise /\ u = o THEN pip[e] ELSE OSTCBPrio[u]
    <2>1. CASE raise
      <3>1. PICK q \in AnyPrio : q = pip[e]
        BY <1>5
      <3>2. OSTCBPrio' = [OSTCBPrio EXCEPT ![o] = q] /\ \A u \in TCB : OSTCBPrio[u] # q
        BY <1>9, <1>13, <2>1, <3>1
      <3>3. ready = IF OSTCBPrio[o] \in OSRdyTbl THEN (OSRdyTbl \ {OSTCBPrio[o]}) \cup {q} ELSE OSRdyTbl
        BY <1>6, <1>8, <2>1, <3>1
      <3>4. /\ Renamed /\ SameReady(ready)
            /\ \A u \in TCB : OSTCBPrio'[u] = IF u = o THEN q ELSE OSTCBPrio[u]
        BY <1>2, <1>5, <3>2, <3>3, RenamedIs
      <3>. QED
        BY <2>1, <3>1, <3>4
    <2>2. CASE ~raise
      BY <1>2, <1>8, <1>9, <2>2, NotRenamed
    <2>. QED
      BY <2>1, <2>2
  <1>16. OSTCBPrio'[t] = OSTCBPrio[t] /\ \A u \in TCB : OSTCBPrio[u] = OSTCBPrio[t] <=> u = t
    BY <1>1, <1>2, <1>15 DEF Distinct
  <1>17. ASSUME NEW u \in TCB PROVE Lists(u)' = IF u = t THEN {e} ELSE Lists(u)
    <2>1. CASE u = o /\ raise
      <3>1. OSTCBPrio'[u] = pip[e] /\ pip[e] # OSTCBPrio[t] /\ \A d \in Event : pip[e] \notin OSEventTbl[d]
        BY <1>1, <1>2, <1>13, <1>15, <2>1 DEF OfTasks
      <3>. QED
        BY <1>5, <1>12, <2>1, <3>1 DEF Lists
    <2>2. CASE ~(u = o /\ raise)
      <3>1. OSTCBPrio'[u] = OSTCBPrio[u]
        BY <1>15, <2>2
      <3>2. \A d \in Event : OSTCBPrio'[u] \in OSEventTbl'[d] <=> OSTCBPrio[u] \in OSEventTbl[d] \/ (u = t /\ d = e)
        BY <1>12, <1>16, <3>1
      <3>. QED
        BY <1>1, <3>2 DEF Lists
    <2>. QED
      BY <2>1, <2>2
  <1>18. TasksInv'
    <2>1. PICK at \in {"pend", "mutex"} : at = "mutex"
      OBVIOUS
    <2>2. IF at = "mutex" THEN OSEventType[e] = "MUTEX" /\ EventMultiPtr[t] = {} ELSE OSEventType[e] \in MultiTypes
      BY <1>1, <1>3, <2>1 DEF IsMutex
    <2>3. Block(ready, t, {OSEventType[e]}, timeout) /\ pc' = [pc EXCEPT ![t] = at]
      BY <1>3, <1>9, <2>1 DEF IsMutex
    <2>4. OSEventTbl' \in [Event -> SUBSET AnyPrio]
      <3>1. \A d \in Event : OSEventTbl'[d] \subseteq AnyPrio
        BY <1>1, <1>2, <1>12 DEF TaskTypes
      <3>. QED
        BY <1>9, <3>1
    <2>5. ASSUME NEW d \in Event PROVE OSEventTbl'[d] \subseteq {OSTCBPrio'[u] : u \in TCB}
      <3>1. ASSUME NEW q \in OSEventTbl[d] PROVE q \in {OSTCBPrio'[u] : u \in TCB}
        BY <1>2, <1>15, ListsOfTasks
      <3>2. OSTCBPrio[t] \in {OSTCBPrio'[u] : u \in TCB}
        BY <1>1, <1>16
      <3>. QED
        BY <1>12, <3>1, <3>2
    <2>6. \A d \in Event : OSEventTbl'[d] \subseteq {OSTCBPrio'[u] : u \in TCB}
      BY <2>5
    <2>7. \A u \in TCB : Lists(u)' = IF u = t THEN {e} ELSE Lists(u)
      BY <1>17
    <2>8. UNCHANGED <<EventMultiPtr, OSTCBMsg, OSEventType, forgotten>> /\ EventPtr' = [EventPtr EXCEPT ![t] = e]
      BY <1>9, <1>10
    <2>9. OSTCBPrio'[t] = OSTCBPrio[t] /\ Renamed /\ SameReady(ready)
      BY <1>15, <1>16
    <2>. QED
      BY <1>1, <1>2, <2>2, <2>3, <2>4, <2>6, <2>7, <2>8, <2>9, BlockKeeps
  <1>19. /\ \A u \in TCB : pc'[u] = IF u = t THEN "mutex" ELSE pc[u]
         /\ \A u \in TCB : EventPtr'[u] = IF u = t THEN e ELSE EventPtr[u]
         /\ \A u \in TCB : StatPend'[u] = IF u = t THEN "OK" ELSE StatPend[u]
         /\ \A q \in AnyPrio : OSTCBPrioTbl'[q] = IF raise /\ q = pip[e] THEN o ELSE OSTCBPrioTbl[q]
         /\ OSTCBPrioTbl' \in [AnyPrio -> TCB \cup {NULL, RESERVED}]
         /\ \A d \in Event : IsMutex(d)' <=> IsMutex(d)
    BY <1>2, <1>5, <1>9, <1>10 DEF TaskTypes, MutexTypes, IsMutex
  <1>20. OwnInv'
    <2>1. MutexTypes'
      BY <1>2, <1>10, <1>19 DEF MutexTypes
    <2>2. PriosInv'
      <3> SUFFICES ASSUME NEW u \in TCB
                   PROVE  /\ OSTCBPrioTbl'[OSTCBPrio'[u]] = u /\ OSTCBPrioTbl'[BasePrio[u]] = u
                          /\ OSTCBPrio'[u] # BasePrio[u] =>
                               \E d \in Event : Owns(u, d)' /\ OSTCBPrio'[u] = pip'[d]
        BY DEF PriosInv
      <3>1. OSTCBPrio[u] \in AnyPrio /\ BasePrio[u] \in AnyPrio
        BY <1>2, BasePrioAssumption DEF TaskTypes
      <3>2. OSTCBPrioTbl'[BasePrio[u]] = u
        BY <1>2, <1>5, <1>19, <3>1 DEF PriosInv
      <3>3. OSTCBPrioTbl'[OSTCBPrio'[u]] = u
        BY <1>2, <1>5, <1>13, <1>15, <1>19, <3>1 DEF PriosInv
      <3>4. ASSUME OSTCBPrio'[u] # BasePrio[u]
            PROVE  \E d \in Event : Owns(u, d)' /\ OSTCBPrio'[u] = pip'[d]
        <4>1. CASE raise /\ u = o
          BY <1>3, <1>4, <1>10, <1>15, <1>19, <4>1 DEF Owns
        <4>2. CASE ~(raise /\ u = o)
          <5>1. PICK d \in Event : Owns(u, d) /\ OSTCBPrio[u] = pip[d]
            BY <1>2, <1>15, <3>4, <4>2 DEF PriosInv
          <5>. QED
            BY <1>10, <1>15, <1>19, <4>2, <5>1 DEF Owns
        <4>. QED
          BY <4>1, <4>2
      <3>. QED
        BY <3>2, <3>3, <3>4
    <2>3. MutexInv'
      <3> SUFFICES ASSUME NEW d \in Event, IsMutex(d)
                   PROVE  /\ owner[d] = NULL => OSEventTbl'[d] = {}
                          /\ OSTCBPrioTbl'[pip[d]] \in {RESERVED, owner[d]} \ {NULL}
                          /\ \A q \in OSEventTbl'[d] : q < ownerPrio[d] => OSTCBPrio'[owner[d]] = pip[d]
        BY <1>2, <1>10, <1>19 DEF MutexInv
      <3>1. owner[d] = NULL => OSEventTbl'[d] = {}
        BY <1>2, <1>3, <1>4, <1>12 DEF MutexInv
      <3>2. OSTCBPrioTbl'[pip[d]] \in {RESERVED, owner[d]} \ {NULL}
        <4>1. pip[d] \in AnyPrio /\ (pip[d] = pip[e] => d = e)
          BY <1>2, <1>3, MutexAssumption DEF MutexInv, AnyPrio
        <4>. QED
          BY <1>2, <1>3, <1>4, <1>19, <4>1 DEF MutexInv
      <3>3. ASSUME NEW q \in OSEventTbl'[d], q < ownerPrio[d] PROVE OSTCBPrio'[owner[d]] = pip[d]
        <4>1. CASE d = e
          <5>1. q \in OSEventTbl[e] => OSTCBPrio[o] = pip[e]
            BY <1>2, <1>3, <1>4, <3>3, <4>1 DEF MutexInv
          <5>2. q = OSTCBPrio[t] => raise \/ p = pip[e]
            BY <1>14, <3>3, <4>1
          <5>. QED
            BY <1>4, <1>6, <1>12, <1>15, <3>3, <4>1, <5>1, <5>2
        <4>2. CASE d # e
          <5>1. q \in OSEventTbl[d] /\ owner[d] # NULL
            BY <1>12, <3>1, <3>3, <4>2
          <5>2. owner[d] \in TCB /\ owner[d] # o
            BY <1>2, <1>5, <4>2, <5>1 DEF MutexTypes
          <5>. QED
            BY <1>2, <1>15, <3>3, <5>1, <5>2 DEF MutexInv
        <4>. QED
          BY <4>1, <4>2
      <3>. QED
        BY <3>1, <3>2, <3>3
    <2>4. OwnersInv'
      <3>1. \A d, f \in Event : owner[d] = owner[f] /\ owner[d] # NULL => d = f
        BY <1>2 DEF OwnersInv
      <3>2. ASSUME NEW d \in Event, NEW u \in TCB, owner[d] = u
            PROVE  /\ u # Idle /\ EventMultiPtr[u] = {} /\ Lists(u)' = {}
                   /\ \/ pc'[u] \in {"task", "create"}
                      \/ pc'[u] = "mutex" /\ EventPtr'[u] = d /\ StatPend'[u] = "OK"
        BY <1>1, <1>2, <1>17, <1>19, <3>2 DEF OwnersInv
      <3>3. ASSUME NEW u \in TCB
            PROVE  /\ pc'[u] = "mutex" /\ Lists(u)' = {} /\ u \notin bereft => owner[EventPtr'[u]] = u
                   /\ u \in bereft => pc'[u] = "mutex" /\ Lists(u)' = {} /\ \A d \in Event : owner[d] # u
                   /\ \A d \in Event : d \in holds[u] <=> owner[d] = u /\ pc'[u] # "mutex"
        <4>1. /\ pc[u] = "mutex" /\ Lists(u) = {} /\ u \notin bereft => owner[EventPtr[u]] = u
              /\ u \in bereft => pc[u] = "mutex" /\ Lists(u) = {} /\ \A d \in Event : owner[d] # u
              /\ \A d \in Event : d \in holds[u] <=> owner[d] = u /\ pc[u] # "mutex"
          BY <1>2 DEF OwnersInv
        <4>. QED
          BY <1>1, <1>17, <1>19, <4>1
      <3>. QED
        BY <1>10, <3>1, <3>2, <3>3 DEF OwnersInv
    <2>. QED
      BY <2>1, <2>2, <2>3, <2>4 DEF OwnInv
  <1>21. StoreInv'
    <2>1. BlocksInv'
      BY <1>1, <1>2, <1>10, <1>19, SameBlocks
    <2>2. ~HasOne(e) /\ OSEventType[e] # "UNUSED"
      <3>1. OSEventType[e] = "MUTEX"
        BY <1>3 DEF IsMutex
      <3>2. OSEventCnt[e] = 0 /\ msgs[e] = <<>>
        BY <1>2, <3>1 DEF ContentInv
      <3>. QED
        BY <3>1, <3>2 DEF HasOne
    <2>3. ContentInv'
      BY <1>2, <1>10, <1>12, <2>2 DEF ContentInv, HasOne
    <2>. QED
      BY <1>2, <1>10, <2>1, <2>3 DEF StoreInv, StoreTypes
  <1>22. CpuInv'
    <2>1. sched'[t] /\ sched' \in [TCB -> BOOLEAN]
      BY <1>1, <1>2, <1>10 DEF CpuInv
    <2>2. ASSUME Stale PROVE Stale'
      <3>1. OSPrioCur # pip[e]
        BY <1>1, <1>3, <1>4, <2>2 DEF Stale
      <3>. QED
        BY <1>1, <1>10, <1>15, <2>1, <2>2, <3>1 DEF Stale
    <2>. QED
      BY <1>1, <1>2, <1>10, <1>16, <2>1, <2>2 DEF CpuInv
  <1>. QED
    BY <1>18, <1>20, <1>21, <1>22 DEF EventsInv

(* A ready owner goes back to its own priority.                            *)
LEMMA BackToPrio ==
  ASSUME TasksInv, OwnInv, NEW e \in Event, IsMutex(e), NEW o \in TCB, owner[e] = o,
         OSTCBPrio[o] \in OSRdyTbl, OSTCBPrio' = PrioAfter(e)
  PROVE  /\ Renamed /\ SameReady(RdyAtPrio(e))
         /\ \A u \in TCB : OSTCBPrio'[u] = IF u = o THEN BasePrio[o] ELSE OSTCBPrio[u]
  <1>1. /\ Lists(o) = {} /\ ownerPrio[e] = BasePrio[o] /\ BasePrio[o] \in AnyPrio
        /\ OSTCBPrio[o] \in {BasePrio[o], pip[e]} /\ BasePrio[o] # pip[e]
        /\ \A u \in TCB : OSTCBPrio[u] = BasePrio[o] => u = o
    BY OwnersPrio
  <1>2. o # NULL
    BY PointerAssumption
  <1>3. CASE OSTCBPrio[o] = pip[e]
    <2>1. PICK q \in AnyPrio : q = BasePrio[o]
      BY <1>1
    <2>2. PICK ready : ready = RdyAtPrio(e)
      OBVIOUS
    <2>3. OSTCBPrio' = [OSTCBPrio EXCEPT ![o] = q]
      BY <1>1, <1>2, <1>3, <2>1 DEF PrioAfter, Raised
    <2>4. ready = IF OSTCBPrio[o] \in OSRdyTbl THEN (OSRdyTbl \ {OSTCBPrio[o]}) \cup {q} ELSE OSRdyTbl
      BY <1>1, <1>2, <1>3, <2>1, <2>2 DEF RdyAtPrio, Raised
    <2>5. \A u \in TCB : OSTCBPrio[u] # q
      BY <1>1, <1>3, <2>1
    <2>6. /\ Renamed /\ SameReady(ready)
          /\ \A u \in TCB : OSTCBPrio'[u] = IF u = o THEN q ELSE OSTCBPrio[u]
      BY <1>1, <2>3, <2>4, <2>5, RenamedIs
    <2>. QED
      BY <2>1, <2>2, <2>6
  <1>4. CASE OSTCBPrio[o] # pip[e]
    <2>1. UNCHANGED OSTCBPrio /\ RdyAtPrio(e) = OSRdyTbl
      BY <1>4 DEF PrioAfter, RdyAtPrio, Raised
    <2>2. Renamed /\ SameReady(RdyAtPrio(e))
      BY <2>1, NotRenamed
    <2>. QED
      BY <1>1, <1>4, <2>1, <2>2
  <1>. QED
    BY <1>3, <1>4

(* A task that waits for a mutex.                                          *)
LEMMA WaiterIs ==
  ASSUME TasksInv, OwnInv, NEW e \in Event, IsMutex(e), NEW w \in TCB, e \in Lists(w)
  PROVE  /\ pc[w] = "mutex" /\ EventPtr[w] = e /\ EventMultiPtr[w] = {} /\ w # Idle
         /\ OSTCBPrio[w] = BasePrio[w] /\ \A d \in Event : owner[d] # w
  <1>1. Consistent(pc[w], Stat[w], StatPend[w], Dly[w], EventPtr[w], EventMultiPtr[w], Lists(w),
                   OSTCBMsg[w], OSEventType)
    BY DEF TasksInv, TaskInv
  <1>2. pc[w] = "mutex" /\ EventPtr[w] = e /\ EventMultiPtr[w] = {}
    BY <1>1 DEF Consistent, IsMutex, MultiTypes
  <1>3. w # Idle
    BY <1>2 DEF TasksInv, IdleInv
  <1>4. \A d \in Event : owner[d] # w
    BY DEF OwnInv, OwnersInv
  <1>5. OSTCBPrio[w] = BasePrio[w]
    BY <1>4 DEF OwnInv, PriosInv, Owns
  <1>. QED
    BY <1>2, <1>3, <1>4, <1>5

LEMMA MutexPostKeeps ==
  ASSUME EventsInv, NEW t, NEW e \in Event, OSMutexPost(t, e)
  PROVE  EventsInv'
  <1>1. /\ t \in TCB \ {Idle} /\ Running(t) /\ OSTCBCur = t /\ ~sched[t] /\ pc[t] = "task" /\ Lists(t) = {}
        /\ OSTCBPrio[t] \in OSRdyTbl
    BY TakerIs DEF OSMutexPost
  <1>2. /\ TasksInv /\ TaskTypes /\ Distinct /\ OfTasks /\ OwnInv /\ MutexTypes /\ PriosInv /\ MutexInv /\ OwnersInv
        /\ StoreInv /\ CpuInv
    BY DEF EventsInv, TasksInv, OwnInv
  <1>3. /\ IsMutex(e) /\ owner[e] = t /\ NULL \notin TCB /\ RESERVED \notin TCB /\ RESERVED # NULL
        /\ OSTCBPrio' = PrioAfter(e)
        /\ OSTCBPrioTbl' = [OSTCBPrioTbl EXCEPT ![pip[e]] = RESERVED]
        /\ holds' = [holds EXCEPT ![t] = @ \ {e}]
        /\ UNCHANGED <<pc, eventVars, newEvent, pip, bereft, OSEventType>>
    BY PointerAssumption DEF OSMutexPost, eventVars
  <1>4. /\ ownerPrio[e] = BasePrio[t] /\ BasePrio[t] \in AnyPrio /\ pip[e] \in AnyPrio /\ pip[e] \in PIP
        /\ OSTCBPrio[t] \in {BasePrio[t], pip[e]}
        /\ \A u \in TCB : OSTCBPrio[u] = pip[e] => u = t
        /\ \A u \in TCB : BasePrio[u] # pip[e]
        /\ \A d \in Event : owner[d] = t => d = e
    BY <1>1, <1>2, <1>3, OwnersPrio
  <1>5. /\ Renamed /\ SameReady(RdyAtPrio(e))
        /\ \A u \in TCB : OSTCBPrio'[u] = IF u = t THEN BasePrio[t] ELSE OSTCBPrio[u]
    BY <1>1, <1>2, <1>3, BackToPrio
  (* Who gets the mutex.                                                   *)
  <1>6. PICK g \in TCB \cup {NULL}, gp \in AnyPrio \cup {AVAILABLE}, S \in SUBSET Waiters(e), b \in BOOLEAN :
          /\ WakeFrom(RdyAtPrio(e), e, S, NULL, "OK")
          /\ ThenSched(t, b)
          /\ ownerPrio' = [ownerPrio EXCEPT ![e] = gp]
          /\ owner' = [owner EXCEPT ![e] = g]
          /\ g = NULL => OSEventTbl[e] = {} /\ gp = AVAILABLE /\ S = {} /\ ~b
          /\ g # NULL => /\ S = {g} /\ e \in Lists(g) /\ gp = OSTCBPrio[g] /\ b
                         /\ \A p \in OSEventTbl[e] : ~(p < gp)
    <2>1. WakeFrom(RdyAtPrio(e), e, FirstWaiter(e), NULL, "OK") /\ FirstWaiter(e) \in SUBSET Waiters(e)
      BY DEF OSMutexPost, FirstWaiter
    <2>2. CASE OSEventTbl[e] = {}
      <3>1. FirstWaiter(e) = {}
        BY <2>2 DEF FirstWaiter, Waiters
      <3>2. /\ ownerPrio' = [ownerPrio EXCEPT ![e] = AVAILABLE]
            /\ owner' = [owner EXCEPT ![e] = NULL]
            /\ ThenSched(t, FALSE)
        BY <2>2 DEF OSMutexPost
      <3>. QED
        BY <2>1, <2>2, <3>1, <3>2
    <2>3. CASE OSEventTbl[e] # {}
      <3>1. PICK w : w = OSTCBPrioTbl[MostUrgent(OSEventTbl[e])]
        OBVIOUS
      <3>2. /\ w \in TCB /\ e \in Lists(w) /\ OSTCBPrio[w] = MostUrgent(OSEventTbl[e])
            /\ FirstWaiter(e) = {w}
            /\ \A p \in OSEventTbl[e] : p # OSTCBPrio[w] => OSTCBPrio[w] < p
        BY <1>2, <2>3, <3>1, FirstWaiterIs
      <3>3. /\ ownerPrio' = [ownerPrio EXCEPT ![e] = OSTCBPrio[w]]
            /\ owner' = [owner EXCEPT ![e] = w]
            /\ ThenSched(t, TRUE)
        BY <2>3, <3>1, <3>2 DEF OSMutexPost
      <3>4. \A p \in OSEventTbl[e] : ~(p < OSTCBPrio[w])
        <4> TAKE p \in OSEventTbl[e]
        <4>1. p \in Nat /\ OSTCBPrio[w] \in Nat
          BY <1>2, <3>2, PrioIsNat DEF TaskTypes
        <4>. QED
          BY <3>2, <4>1
      <3>5. w # NULL /\ OSTCBPrio[w] \in AnyPrio
        BY <1>2, <1>3, <3>2 DEF TaskTypes
      <3>. QED
        BY <2>1, <3>2, <3>3, <3>4, <3>5
    <2>. QED
      BY <2>2, <2>3
  <1>7. /\ S \subseteq TCB
        /\ \A u \in TCB : Lists(u)' = IF u \in S THEN {} ELSE Lists(u)
        /\ \A u \in TCB : u \in S <=> u = g
    <2>1. OS_EventTaskRdy(RdyAtPrio(e), e, S, {OSEventType[e]}, "OK")
      BY <1>6 DEF WakeFrom
    <2>2. PICK ready, ok : ready = RdyAtPrio(e) /\ ok = "OK"
      OBVIOUS
    <2>3. OS_EventTaskRdy(ready, e, S, {OSEventType[e]}, ok)
      BY <2>1, <2>2
    <2>4. /\ S \subseteq TCB
          /\ \A u \in TCB : Lists(u)' = IF u \in S THEN {} ELSE Lists(u)
      BY <1>2, <1>5, <2>3, WakeLists
    <2>. QED
      BY <1>3, <1>6, <2>4
  <1>8. g # NULL => /\ pc[g] = "mutex" /\ EventPtr[g] = e /\ EventMultiPtr[g] = {} /\ g # Idle
                    /\ OSTCBPrio[g] = BasePrio[g] /\ \A d \in Event : owner[d] # g
    BY <1>2, <1>3, <1>6, WaiterIs
  <1>9. /\ \A u \in TCB : StatPend'[u] = IF u = g THEN "OK" ELSE StatPend[u]
        /\ \A u \in TCB : EventPtr'[u] = EventPtr[u]
        /\ EventMultiPtr' = EventMultiPtr
        /\ \A d \in Event : OSEventTbl'[d] \subseteq OSEventTbl[d]
        /\ RdyAtPrio(e) \subseteq OSRdyTbl'
    <2>1. OS_EventTaskRdy(RdyAtPrio(e), e, S, {OSEventType[e]}, "OK")
      BY <1>6 DEF WakeFrom
    <2>2. \A u \in S : EventMultiPtr[u] = {}
      BY <1>3, <1>6, <1>7, <1>8
    <2>. QED
      BY <1>7, <2>1, <2>2 DEF OS_EventTaskRdy
  <1>10. TasksInv'
    <2>1. PICK m \in Msg \cup {NULL} : m = NULL
      OBVIOUS
    <2>2. PICK s \in {"OK", "ABORT"} : s = "OK"
      OBVIOUS
    <2>3. PICK ready : ready = RdyAtPrio(e)
      OBVIOUS
    <2>4. WakeFrom(ready, e, S, m, s) /\ SameReady(ready)
      BY <1>5, <1>6, <2>1, <2>2, <2>3
    <2>5. /\ m # NULL => s = "OK" /\ OSEventType[e] # "MUTEX"
          /\ OSEventType[e] = "MUTEX" => s = "OK"
      BY <2>1, <2>2
    <2>6. OSEventType' \in [Event -> EventTypes]
          /\ \A d \in Event : OSEventType'[d] = OSEventType[d] \/ (d = e /\ S = Waiters(e))
      BY <1>2, <1>3 DEF TaskTypes, EventTypes
    <2>. QED
      BY <1>2, <1>3, <1>5, <1>6, <2>4, <2>5, <2>6, WokenKeeps
  <1>11. /\ \A d \in Event : owner'[d] = IF d = e THEN g ELSE owner[d]
         /\ \A d \in Event : ownerPrio'[d] = IF d = e THEN gp ELSE ownerPrio[d]
         /\ \A u \in TCB : holds'[u] = IF u = t THEN holds[t] \ {e} ELSE holds[u]
         /\ \A q \in AnyPrio : OSTCBPrioTbl'[q] = IF q = pip[e] THEN RESERVED ELSE OSTCBPrioTbl[q]
         /\ \A d \in Event : IsMutex(d)' <=> IsMutex(d)
         /\ MutexTypes'
    BY <1>1, <1>2, <1>3, <1>4, <1>6 DEF MutexTypes, IsMutex
  <1>12. PriosInv'
    <2> SUFFICES ASSUME NEW u \in TCB
                 PROVE  /\ OSTCBPrioTbl'[OSTCBPrio'[u]] = u /\ OSTCBPrioTbl'[BasePrio[u]] = u
                        /\ OSTCBPrio'[u] # BasePrio[u] =>
                             \E d \in Event : Owns(u, d)' /\ OSTCBPrio'[u] = pip'[d]
      BY DEF PriosInv
    <2>1. OSTCBPrio[u] \in AnyPrio /\ BasePrio[u] \in AnyPrio
      BY <1>2, BasePrioAssumption DEF TaskTypes
    <2>2. OSTCBPrioTbl'[BasePrio[u]] = u
      BY <1>2, <1>4, <1>11, <2>1 DEF PriosInv
    <2>3. OSTCBPrioTbl'[OSTCBPrio'[u]] = u
      <3>1. CASE u = t
        BY <1>5, <2>2, <3>1
      <3>2. CASE u # t
        BY <1>2, <1>4, <1>5, <1>11, <2>1, <3>2 DEF PriosInv
      <3>. QED
        BY <3>1, <3>2
    <2>4. ASSUME OSTCBPrio'[u] # BasePrio[u]
          PROVE  \E d \in Event : Owns(u, d)' /\ OSTCBPrio'[u] = pip'[d]
      <3>1. u # t /\ OSTCBPrio'[u] = OSTCBPrio[u]
        BY <1>5, <2>4
      <3>2. PICK d \in Event : Owns(u, d) /\ OSTCBPrio[u] = pip[d]
        BY <1>2, <2>4, <3>1 DEF PriosInv
      <3>3. d # e
        BY <1>3, <3>1, <3>2 DEF Owns
      <3>. QED
        BY <1>3, <1>11, <3>1, <3>2, <3>3 DEF Owns
    <2>. QED
      BY <2>2, <2>3, <2>4
  <1>13. MutexInv'
    <2>1. ASSUME NEW d \in Event, IsMutex(d)
          PROVE  /\ pip'[d] \in PIP
                 /\ owner'[d] # NULL => ownerPrio'[d] = BasePrio[owner'[d]]
                 /\ owner'[d] = NULL => ownerPrio'[d] = AVAILABLE /\ OSEventTbl'[d] = {}
                 /\ OSTCBPrioTbl'[pip'[d]] \in {RESERVED, owner'[d]} \ {NULL}
                 /\ \A p \in OSEventTbl'[d] : p < ownerPrio'[d] => OSTCBPrio'[owner'[d]] = pip'[d]
      <3>1. CASE d = e
        <4>1. /\ pip'[d] \in PIP
              /\ OSTCBPrioTbl'[pip'[d]] \in {RESERVED, owner'[d]} \ {NULL}
          BY <1>3, <1>4, <1>11, <3>1
        <4>2. owner'[d] # NULL => ownerPrio'[d] = BasePrio[owner'[d]]
          BY <1>6, <1>8, <1>11, <3>1
        <4>3. owner'[d] = NULL => ownerPrio'[d] = AVAILABLE /\ OSEventTbl'[d] = {}
          BY <1>6, <1>9, <1>11, <3>1
        <4>4. \A p \in OSEventTbl'[d] : ~(p < ownerPrio'[d])
          BY <1>6, <1>9, <1>11, <3>1
        <4>. QED
          BY <4>1, <4>2, <4>3, <4>4
      <3>2. CASE d # e
        <4>1. /\ pip[d] \in PIP /\ pip[d] # pip[e] /\ pip[d] \in AnyPrio
              /\ owner[d] # NULL => ownerPrio[d] = BasePrio[owner[d]]
              /\ owner[d] = NULL => ownerPrio[d] = AVAILABLE /\ OSEventTbl[d] = {}
              /\ OSTCBPrioTbl[pip[d]] \in {RESERVED, owner[d]} \ {NULL}
              /\ \A p \in OSEventTbl[d] : p < ownerPrio[d] => OSTCBPrio[owner[d]] = pip[d]
          BY <1>2, <1>3, <2>1, <3>2, MutexAssumption DEF MutexInv, AnyPrio
        <4>2. owner'[d] = owner[d] /\ ownerPrio'[d] = ownerPrio[d] /\ owner[d] # t /\ pip'[d] = pip[d]
              /\ OSEventTbl'[d] \subseteq OSEventTbl[d]
          BY <1>3, <1>4, <1>9, <1>11, <3>2
        <4>3. OSEventTbl[d] # {} => OSTCBPrio'[owner[d]] = OSTCBPrio[owner[d]]
          <5>1. OSEventTbl[d] # {} => owner[d] \in TCB
            BY <1>2, <4>1 DEF MutexTypes
          <5>. QED
            BY <1>5, <4>2, <5>1
        <4>4. OSTCBPrioTbl'[pip[d]] = OSTCBPrioTbl[pip[d]]
          BY <1>11, <4>1
        <4>. QED
          BY <4>1, <4>2, <4>3, <4>4
      <3>. QED
        BY <3>1, <3>2
    <2>2. ASSUME NEW d \in Event, ~IsMutex(d) PROVE owner'[d] = NULL /\ ownerPrio'[d] = AVAILABLE
      BY <1>2, <1>3, <1>11, <2>2 DEF MutexInv
    <2>3. \A d, f \in Event : IsMutex(d) /\ IsMutex(f) /\ pip'[d] = pip'[f] => d = f
      BY <1>2, <1>3 DEF MutexInv
    <2>. QED
      BY <1>11, <2>1, <2>2, <2>3 DEF MutexInv
  <1>14. OwnersInv'
    <2>1. \A d, f \in Event : owner'[d] = owner'[f] /\ owner'[d] # NULL => d = f
      BY <1>2, <1>8, <1>11 DEF OwnersInv
    <2>2. ASSUME NEW d \in Event, NEW u \in TCB, owner'[d] = u
          PROVE  /\ u # Idle /\ EventMultiPtr'[u] = {} /\ Lists(u)' = {}
                 /\ \/ pc'[u] \in {"task", "create"}
                    \/ pc'[u] = "mutex" /\ EventPtr'[u] = d /\ StatPend'[u] = "OK"
      <3>1. CASE d = e
        BY <1>3, <1>7, <1>8, <1>9, <1>11, <2>2, <3>1
      <3>2. CASE d # e
        <4>1. owner[d] = u
          BY <1>11, <2>2, <3>2
        <4>2. u # g
          BY <1>3, <1>8, <4>1
        <4>. QED
          <5>1. /\ u # Idle /\ EventMultiPtr[u] = {} /\ Lists(u) = {}
                /\ \/ pc[u] \in {"task", "create"}
                   \/ pc[u] = "mutex" /\ EventPtr[u] = d /\ StatPend[u] = "OK"
            BY <1>2, <4>1 DEF OwnersInv
          <5>2. pc' = pc
            BY <1>3
          <5>. QED
            BY <1>7, <1>9, <4>2, <5>1, <5>2
      <3>. QED
        BY <3>1, <3>2
    <2>3. ASSUME NEW u \in TCB
          PROVE  /\ pc'[u] = "mutex" /\ Lists(u)' = {} /\ u \notin bereft => owner'[EventPtr'[u]] = u
                 /\ u \in bereft => pc'[u] = "mutex" /\ Lists(u)' = {} /\ \A d \in Event : owner'[d] # u
                 /\ \A d \in Event : d \in holds'[u] <=> owner'[d] = u /\ pc'[u] # "mutex"
      <3>1. /\ pc[u] = "mutex" => EventPtr[u] \in Event
            /\ pc[u] = "mutex" /\ Lists(u) = {} /\ u \notin bereft => owner[EventPtr[u]] = u
            /\ u \in bereft => pc[u] = "mutex" /\ Lists(u) = {} /\ \A d \in Event : owner[d] # u
            /\ \A d \in Event : d \in holds[u] <=> owner[d] = u /\ pc[u] # "mutex"
        BY <1>2 DEF OwnersInv, TasksInv, TaskInv, Consistent
      <3>2. pc'[u] = "mutex" /\ Lists(u)' = {} /\ u \notin bereft => owner'[EventPtr'[u]] = u
        <4>1. CASE u = g
          BY <1>3, <1>8, <1>9, <1>11, <4>1
        <4>2. CASE u # g
          BY <1>1, <1>3, <1>7, <1>9, <1>11, <3>1, <4>2
        <4>. QED
          BY <4>1, <4>2
      <3>3. ASSUME NEW d \in Event PROVE d \in holds'[u] <=> owner'[d] = u /\ pc'[u] # "mutex"
        <4>1. CASE d = e
          <5>1. d \notin holds'[u]
            BY <1>3, <1>11, <3>1, <4>1
          <5>2. owner'[d] = u => pc'[u] = "mutex"
            BY <1>3, <1>8, <1>11, <4>1
          <5>. QED
            BY <5>1, <5>2
        <4>2. CASE d # e
          BY <1>3, <1>11, <3>1, <4>2
        <4>. QED
          BY <4>1, <4>2
      <3>4. u \in bereft => pc'[u] = "mutex" /\ Lists(u)' = {} /\ \A d \in Event : owner'[d] # u
        <4>1. g # NULL => e \in Lists(g)
          BY <1>6
        <4>2. u \in bereft => u # g
          BY <1>3, <3>1, <4>1
        <4>. QED
          BY <1>3, <1>7, <1>11, <3>1, <4>2
      <3>. QED
        BY <3>2, <3>3, <3>4
    <2>. QED
      BY <1>3, <2>1, <2>2, <2>3 DEF OwnersInv
  <1>15. StoreInv'
    BY <1>2, <1>3, <1>9, StoreFrame
  <1>16. CpuInv'
    <2>1. /\ OSTCBCur' = t /\ OSPrioCur' = OSPrioCur /\ OSLockNesting' = 0 /\ sched' \in [TCB -> BOOLEAN]
          /\ OSPrioCur \in AnyPrio /\ (sched'[t] <=> b)
      BY <1>1, <1>2, <1>6 DEF CpuInv, ThenSched
    <2>2. OSTCBPrio'[t] \in OSRdyTbl'
      BY <1>1, <1>5, <1>9 DEF SameReady
    <2>3. \A d \in Event : IsMutex(d) /\ pip[d] = pip[e] => d = e
      BY <1>2, <1>3 DEF MutexInv
    <2>4. CASE OSTCBPrio[t] = OSPrioCur
      <3>1. CASE OSTCBPrio[t] = BasePrio[t]
        BY <1>1, <1>5, <2>1, <2>2, <2>4, <3>1 DEF CpuInv
      <3>2. CASE OSTCBPrio[t] = pip[e]
        <4>1. \A u \in TCB : OSTCBPrio'[u] # OSPrioCur
          BY <1>4, <1>5, <2>4, <3>2
        <4>2. Stale'
          BY <1>3, <1>4, <1>6, <1>11, <2>1, <2>3, <2>4, <3>2, <4>1 DEF Stale
        <4>. QED
          BY <1>1, <2>1, <2>2, <4>2 DEF CpuInv
      <3>. QED
        BY <1>4, <3>1, <3>2
    <2>5. CASE Stale
      <3>1. OSPrioCur # BasePrio[t]
        <4>1. OSPrioCur \in Nat /\ BasePrio[t] > OSPrioCur
          BY <1>1, <2>1, <2>5, MutexAssumption, PrioIsNat DEF Stale
        <4>2. BasePrio[t] \in Nat
          BY <1>4, PrioIsNat
        <4>. QED
          BY <4>1, <4>2
      <3>2. \A u \in TCB : OSTCBPrio'[u] # OSPrioCur
        BY <1>5, <2>5, <3>1 DEF Stale
      <3>3. Stale'
        BY <1>1, <1>3, <1>6, <1>11, <2>1, <2>5, <3>2 DEF Stale
      <3>. QED
        BY <1>1, <2>1, <2>2, <3>3 DEF CpuInv
    <2>. QED
      BY <1>1, <1>2, <2>4, <2>5 DEF CpuInv
  <1>. QED
    BY <1>10, <1>11, <1>12, <1>13, <1>14, <1>15, <1>16 DEF EventsInv, OwnInv

(* A mutex is deleted: its waiters are readied, and its owner has its own  *)
(* priority again.                                                         *)
LEMMA MutexDelTasks ==
  ASSUME EventsInv, ~AnyTime, NEW t, NEW e \in Event, NEW opt \in {"NO_PEND", "ALWAYS"},
         MayDelete(e, opt), OSMutexDel(t, e, opt)
  PROVE  /\ TasksInv'
         /\ \A u \in TCB : OSTCBPrio'[u] = IF u = owner[e] THEN BasePrio[u] ELSE OSTCBPrio[u]
         /\ \A u \in TCB : /\ Lists(u)' = IF e \in Lists(u) THEN {} ELSE Lists(u)
                           /\ e \notin Lists(u) => StatPend'[u] = StatPend[u]
                           /\ EventPtr'[u] = EventPtr[u] /\ EventMultiPtr'[u] = EventMultiPtr[u]
         /\ OSEventTbl'[e] = {} /\ \A d \in Event : OSEventTbl'[d] \subseteq OSEventTbl[d]
         /\ OSTCBPrio'[t] \in OSRdyTbl'
  <1>1. /\ t \in TCB \ {Idle} /\ pc[t] = "task" /\ OSTCBPrio[t] \in OSRdyTbl
    BY TakerIs DEF OSMutexDel
  <1>2. /\ TasksInv /\ TaskTypes /\ Distinct /\ OfTasks /\ OwnInv /\ MutexTypes /\ PriosInv
    BY DEF EventsInv, TasksInv, OwnInv
  <1>3. /\ IsMutex(e) /\ UNCHANGED pc /\ OSEventType' = [OSEventType EXCEPT ![e] = "UNUSED"]
        /\ NULL \notin TCB
    BY PointerAssumption DEF OSMutexDel
  <1>4. \A u \in TCB : e \in Lists(u) => EventPtr[u] = e /\ EventMultiPtr[u] = {}
    BY <1>2, <1>3, WaiterIs
  <1>5. Waiters(e) = {u \in TCB : e \in Lists(u)}
    BY <1>2, WaitersAre
  <1>6. /\ OSEventType' \in [Event -> EventTypes]
        /\ \A d \in Event : OSEventType'[d] = IF d = e THEN "UNUSED" ELSE OSEventType[d]
    BY <1>2, <1>3 DEF TaskTypes, EventTypes
  <1>7. CASE opt = "NO_PEND"
    <2>1. UNCHANGED <<OSTCBPrio, stateVars, waitVars, OSTCBMsg, forgotten>> /\ OSEventTbl[e] = {}
      BY <1>7 DEF OSMutexDel
    <2>2. PICK at \in {"task", "create"} : at = "task"
      OBVIOUS
    <2>3. pc' = [pc EXCEPT ![t] = at]
      BY <1>1, <1>2, <1>3, <2>2 DEF TaskTypes
    <2>4. TasksInv'
      BY <1>1, <1>2, <1>6, <2>1, <2>3, OwnCodeKeeps
    <2>5. \A u \in TCB : u = owner[e] => OSTCBPrio[u] = BasePrio[u]
      <3>1. \A u \in TCB : u = owner[e] => OSTCBPrio[u] \in {BasePrio[u], pip[e]}
        BY <1>2, <1>3, OwnersPrio
      <3>. QED
        BY <1>3, <1>7, <3>1 DEF MayDelete
    <2>6. UNCHANGED <<OSTCBPrio, StatPend, OSRdyTbl, EventPtr, EventMultiPtr, OSEventTbl>>
      BY <2>1 DEF stateVars, waitVars
    <2>7. \A u \in TCB : e \notin Lists(u) /\ Lists(u)' = Lists(u)
      BY <2>1, <2>6 DEF Lists
    <2>. QED
      BY <1>1, <2>1, <2>4, <2>5, <2>6, <2>7
  <1>8. CASE opt = "ALWAYS"
    <2>1. WakeFrom(RdyAtPrio(e), e, Waiters(e), NULL, "OK") /\ OSTCBPrio' = PrioAfter(e)
      BY <1>8 DEF OSMutexDel
    <2>2. /\ Renamed /\ SameReady(RdyAtPrio(e))
          /\ \A u \in TCB : OSTCBPrio'[u] = IF u = owner[e] THEN BasePrio[u] ELSE OSTCBPrio[u]
      <3>1. CASE owner[e] = NULL
        <4>1. UNCHANGED OSTCBPrio /\ RdyAtPrio(e) = OSRdyTbl
          BY <2>1, <3>1 DEF PrioAfter, RdyAtPrio, Raised
        <4>2. Renamed /\ SameReady(RdyAtPrio(e))
          BY <1>2, <4>1, NotRenamed
        <4>. QED
          BY <1>3, <3>1, <4>1, <4>2
      <3>2. CASE owner[e] # NULL
        <4>1. PICK o \in TCB : owner[e] = o
          BY <1>2, <3>2 DEF MutexTypes
        <4>2. OSTCBPrio[o] \in OSRdyTbl
          BY <1>8, <3>2, <4>1 DEF MayDelete
        <4>3. /\ Renamed /\ SameReady(RdyAtPrio(e))
              /\ \A u \in TCB : OSTCBPrio'[u] = IF u = o THEN BasePrio[o] ELSE OSTCBPrio[u]
          BY <1>2, <1>3, <2>1, <4>1, <4>2, BackToPrio
        <4>. QED
          BY <4>1, <4>3
      <3>. QED
        BY <3>1, <3>2
    <2>3. PICK ready : ready = RdyAtPrio(e)
      OBVIOUS
    <2>4. PICK m \in Msg \cup {NULL} : m = NULL
      OBVIOUS
    <2>5. PICK s \in {"OK", "ABORT"} : s = "OK"
      OBVIOUS
    <2>6. PICK S \in SUBSET Waiters(e) : S = Waiters(e)
      OBVIOUS
    <2>7. WakeFrom(ready, e, S, m, s) /\ SameReady(ready)
      BY <2>1, <2>2, <2>3, <2>4, <2>5, <2>6
    <2>8. TasksInv'
      <3>1. /\ m # NULL => s = "OK" /\ OSEventType[e] # "MUTEX"
            /\ OSEventType[e] = "MUTEX" => s = "OK"
        BY <2>4, <2>5
      <3>2. \A d \in Event : OSEventType'[d] = OSEventType[d] \/ (d = e /\ S = Waiters(e))
        BY <1>6, <2>6
      <3>. QED
        BY <1>2, <1>3, <1>6, <2>2, <2>7, <3>1, <3>2, WokenKeeps
    <2>9. OS_EventTaskRdy(ready, e, S, {OSEventType[e]}, s)
      BY <2>7 DEF WakeFrom
    <2>10. \A u \in TCB : Lists(u)' = IF e \in Lists(u) THEN {} ELSE Lists(u)
      <3>1. \A u \in TCB : Lists(u)' = IF u \in S THEN {} ELSE Lists(u)
        BY <1>2, <2>2, <2>9, WakeLists
      <3>. QED
        BY <1>5, <2>6, <3>1
    <2>11. /\ \A u \in TCB : /\ e \notin Lists(u) => StatPend'[u] = StatPend[u]
                             /\ EventPtr'[u] = EventPtr[u] /\ EventMultiPtr'[u] = EventMultiPtr[u]
           /\ \A d \in Event : OSEventTbl'[d] \subseteq OSEventTbl[d]
           /\ ready \subseteq OSRdyTbl'
      <3>1. \A u \in S : u \in TCB /\ e \in Lists(u) /\ EventPtr[u] = e /\ EventMultiPtr[u] = {}
        BY <1>4, <1>5
      <3>. QED
        BY <1>2, <2>9, <3>1 DEF OS_EventTaskRdy, TaskTypes
    <2>12. OSEventTbl'[e] = {}
      <3>1. \A u \in TCB : e \notin Lists(u)'
        BY <2>10
      <3>2. OSEventTbl'[e] \subseteq {OSTCBPrio'[u] : u \in TCB}
        BY <2>8 DEF TasksInv, OfTasks
      <3>. QED
        BY <3>1, <3>2 DEF Lists
    <2>13. OSTCBPrio'[t] \in OSRdyTbl'
      BY <1>1, <2>7, <2>11 DEF SameReady
    <2>. QED
      BY <2>2, <2>8, <2>10, <2>11, <2>12, <2>13
  <1>. QED
    BY <1>7, <1>8

LEMMA MutexDelKeeps ==
  ASSUME EventsInv, ~AnyTime, NEW t, NEW e \in Event, NEW opt \in {"NO_PEND", "ALWAYS"},
         MayDelete(e, opt), OSMutexDel(t, e, opt)
  PROVE  EventsInv'
  <1>1. /\ t \in TCB \ {Idle} /\ Running(t) /\ OSTCBCur = t /\ ~sched[t] /\ pc[t] = "task" /\ Lists(t) = {}
        /\ OSTCBPrio[t] \in OSRdyTbl
    BY TakerIs DEF OSMutexDel
  <1>2. /\ TasksInv /\ TaskTypes /\ Distinct /\ OfTasks /\ OwnInv /\ MutexTypes /\ PriosInv /\ MutexInv /\ OwnersInv
        /\ StoreInv /\ StoreTypes /\ ContentInv /\ BlocksInv /\ CpuInv
    BY DEF EventsInv, TasksInv, OwnInv, StoreInv
  <1>3. /\ TasksInv'
        /\ \A u \in TCB : OSTCBPrio'[u] = IF u = owner[e] THEN BasePrio[u] ELSE OSTCBPrio[u]
        /\ \A u \in TCB : /\ Lists(u)' = IF e \in Lists(u) THEN {} ELSE Lists(u)
                          /\ e \notin Lists(u) => StatPend'[u] = StatPend[u]
                          /\ EventPtr'[u] = EventPtr[u] /\ EventMultiPtr'[u] = EventMultiPtr[u]
        /\ OSEventTbl'[e] = {} /\ \A d \in Event : OSEventTbl'[d] \subseteq OSEventTbl[d]
        /\ OSTCBPrio'[t] \in OSRdyTbl'
    BY MutexDelTasks
  <1>b. PICK b \in BOOLEAN : b = (OSEventTbl[e] # {})
    OBVIOUS
  <1>4. /\ IsMutex(e) /\ NULL \notin TCB \cup Event /\ RESERVED \notin TCB
        /\ OSTCBPrioTbl' = [OSTCBPrioTbl EXCEPT ![pip[e]] = NULL]
        /\ OSEventType' = [OSEventType EXCEPT ![e] = "UNUSED"]
        /\ OSEventFreeList' = OSEventFreeList \cup {e}
        /\ ownerPrio' = [ownerPrio EXCEPT ![e] = AVAILABLE]
        /\ owner' = [owner EXCEPT ![e] = NULL]
        /\ pip' = [pip EXCEPT ![e] = 0]
        /\ holds' = [u \in TCB |-> holds[u] \ {e}]
        /\ bereft' = bereft \cup {u \in TCB : pc[u] = "mutex" /\ EventPtr[u] = e}
        /\ ThenSched(t, b)
        /\ UNCHANGED <<pc, OSEventCnt, msgs, OSQFreeList, newEvent>>
    BY <1>b, PointerAssumption DEF OSMutexDel, Content
  <1>5. /\ pip[e] \in AnyPrio /\ pip[e] \in PIP /\ pip[e] \in Nat
        /\ \A u \in TCB : OSTCBPrio[u] = pip[e] => u = owner[e]
        /\ \A u \in TCB : BasePrio[u] # pip[e]
        /\ \A u \in TCB : u = owner[e] => OSTCBPrio[u] \in {BasePrio[u], pip[e]}
        /\ \A d \in Event : owner[d] # NULL /\ owner[d] = owner[e] => d = e
    <2>1. /\ pip[e] \in PIP /\ OSTCBPrioTbl[pip[e]] \in {RESERVED, owner[e]}
      BY <1>2, <1>4 DEF MutexInv
    <2>2. pip[e] \in AnyPrio /\ pip[e] \in Nat /\ \A u \in TCB : BasePrio[u] > pip[e]
      BY <2>1, MutexAssumption, PrioIsNat DEF AnyPrio
    <2>3. ASSUME NEW u \in TCB PROVE BasePrio[u] # pip[e]
      <3>1. BasePrio[u] \in Nat
        BY BasePrioAssumption, PrioIsNat
      <3>. QED
        BY <2>2, <3>1
    <2>4. \A u \in TCB : OSTCBPrio[u] = pip[e] => u = owner[e]
      BY <1>2, <1>4, <2>1 DEF PriosInv
    <2>5. \A u \in TCB : u = owner[e] => OSTCBPrio[u] \in {BasePrio[u], pip[e]}
      BY <1>2, <1>4, OwnersPrio
    <2>6. \A d \in Event : owner[d] # NULL /\ owner[d] = owner[e] => d = e
      BY <1>2 DEF OwnersInv
    <2>. QED
      BY <2>1, <2>2, <2>3, <2>4, <2>5, <2>6
  <1>6. /\ \A d \in Event : owner'[d] = IF d = e THEN NULL ELSE owner[d]
        /\ \A d \in Event : ownerPrio'[d] = IF d = e THEN AVAILABLE ELSE ownerPrio[d]
        /\ \A d \in Event : pip'[d] = IF d = e THEN 0 ELSE pip[d]
        /\ \A d \in Event : OSEventType'[d] = IF d = e THEN "UNUSED" ELSE OSEventType[d]
        /\ \A u \in TCB : holds'[u] = holds[u] \ {e}
        /\ \A q \in AnyPrio : OSTCBPrioTbl'[q] = IF q = pip[e] THEN NULL ELSE OSTCBPrioTbl[q]
        /\ \A d \in Event : IsMutex(d)' <=> IsMutex(d) /\ d # e
        /\ MutexTypes'
    <2>1. \A d \in Event : OSEventType'[d] = IF d = e THEN "UNUSED" ELSE OSEventType[d]
      BY <1>2, <1>4 DEF TaskTypes
    <2>. QED
      BY <1>2, <1>4, <1>5, <2>1 DEF MutexTypes, IsMutex
  <1>7. PriosInv'
    <2> SUFFICES ASSUME NEW u \in TCB
                 PROVE  /\ OSTCBPrioTbl'[OSTCBPrio'[u]] = u /\ OSTCBPrioTbl'[BasePrio[u]] = u
                        /\ OSTCBPrio'[u] # BasePrio[u] =>
                             \E d \in Event : Owns(u, d)' /\ OSTCBPrio'[u] = pip'[d]
      BY DEF PriosInv
    <2>1. OSTCBPrio[u] \in AnyPrio /\ BasePrio[u] \in AnyPrio
      BY <1>2, BasePrioAssumption DEF TaskTypes
    <2>2. OSTCBPrioTbl'[BasePrio[u]] = u
      BY <1>2, <1>5, <1>6, <2>1 DEF PriosInv
    <2>3. OSTCBPrioTbl'[OSTCBPrio'[u]] = u
      <3>1. CASE u = owner[e]
        BY <1>3, <2>2, <3>1
      <3>2. CASE u # owner[e]
        BY <1>2, <1>3, <1>5, <1>6, <2>1, <3>2 DEF PriosInv
      <3>. QED
        BY <3>1, <3>2
    <2>4. ASSUME OSTCBPrio'[u] # BasePrio[u]
          PROVE  \E d \in Event : Owns(u, d)' /\ OSTCBPrio'[u] = pip'[d]
      <3>1. u # owner[e] /\ OSTCBPrio'[u] = OSTCBPrio[u]
        BY <1>3, <2>4
      <3>2. PICK d \in Event : Owns(u, d) /\ OSTCBPrio[u] = pip[d]
        BY <1>2, <2>4, <3>1 DEF PriosInv
      <3>3. d # e
        BY <3>1, <3>2 DEF Owns
      <3>. QED
        BY <1>6, <3>1, <3>2, <3>3 DEF Owns
    <2>. QED
      BY <2>2, <2>3, <2>4
  <1>8. MutexInv'
    <2>1. ASSUME NEW d \in Event, IsMutex(d), d # e
          PROVE  /\ pip'[d] \in PIP
                 /\ owner'[d] # NULL => ownerPrio'[d] = BasePrio[owner'[d]]
                 /\ owner'[d] = NULL => ownerPrio'[d] = AVAILABLE /\ OSEventTbl'[d] = {}
                 /\ OSTCBPrioTbl'[pip'[d]] \in {RESERVED, owner'[d]} \ {NULL}
                 /\ \A p \in OSEventTbl'[d] : p < ownerPrio'[d] => OSTCBPrio'[owner'[d]] = pip'[d]
      <3>1. /\ pip[d] \in PIP /\ pip[d] # pip[e] /\ pip[d] \in AnyPrio
            /\ owner[d] # NULL => ownerPrio[d] = BasePrio[owner[d]]
            /\ owner[d] = NULL => ownerPrio[d] = AVAILABLE /\ OSEventTbl[d] = {}
            /\ OSTCBPrioTbl[pip[d]] \in {RESERVED, owner[d]} \ {NULL}
            /\ \A p \in OSEventTbl[d] : p < ownerPrio[d] => OSTCBPrio[owner[d]] = pip[d]
        BY <1>2, <1>4, <2>1, MutexAssumption DEF MutexInv, AnyPrio
      <3>2. /\ owner'[d] = owner[d] /\ ownerPrio'[d] = ownerPrio[d] /\ pip'[d] = pip[d]
            /\ OSEventTbl'[d] \subseteq OSEventTbl[d]
        BY <1>3, <1>6, <2>1
      <3>3. OSEventTbl[d] # {} => OSTCBPrio'[owner[d]] = OSTCBPrio[owner[d]]
        <4>1. OSEventTbl[d] # {} => owner[d] \in TCB /\ owner[d] # owner[e]
          BY <1>2, <1>5, <2>1, <3>1 DEF MutexTypes
        <4>. QED
          BY <1>3, <4>1
      <3>4. OSTCBPrioTbl'[pip[d]] = OSTCBPrioTbl[pip[d]]
        BY <1>6, <3>1
      <3>. QED
        BY <3>1, <3>2, <3>3, <3>4
    <2>2. ASSUME NEW d \in Event, ~IsMutex(d) \/ d = e PROVE owner'[d] = NULL /\ ownerPrio'[d] = AVAILABLE
      BY <1>2, <1>6, <2>2 DEF MutexInv
    <2>3. \A d, f \in Event : IsMutex(d)' /\ IsMutex(f)' /\ pip'[d] = pip'[f] => d = f
      BY <1>2, <1>6 DEF MutexInv
    <2>. QED
      BY <1>6, <2>1, <2>2, <2>3 DEF MutexInv
  <1>9. OwnersInv'
    <2>1. \A d, f \in Event : owner'[d] = owner'[f] /\ owner'[d] # NULL => d = f
      BY <1>2, <1>6 DEF OwnersInv
    <2>2. ASSUME NEW d \in Event, NEW u \in TCB, owner'[d] = u
          PROVE  /\ u # Idle /\ EventMultiPtr'[u] = {} /\ Lists(u)' = {}
                 /\ \/ pc'[u] \in {"task", "create"}
                    \/ pc'[u] = "mutex" /\ EventPtr'[u] = d /\ StatPend'[u] = "OK"
      <3>1. owner[d] = u
        BY <1>4, <1>6, <2>2
      <3>2. /\ u # Idle /\ EventMultiPtr[u] = {} /\ Lists(u) = {}
            /\ \/ pc[u] \in {"task", "create"}
               \/ pc[u] = "mutex" /\ EventPtr[u] = d /\ StatPend[u] = "OK"
        BY <1>2, <3>1 DEF OwnersInv
      <3>3. pc' = pc
        BY <1>4
      <3>4. Lists(u)' = {} /\ StatPend'[u] = StatPend[u]
        BY <1>3, <3>2
      <3>. QED
        BY <1>3, <3>2, <3>3, <3>4
    <2>3. ASSUME NEW u \in TCB
          PROVE  /\ pc'[u] = "mutex" /\ Lists(u)' = {} /\ u \notin bereft' => owner'[EventPtr'[u]] = u
                 /\ u \in bereft' => pc'[u] = "mutex" /\ Lists(u)' = {} /\ \A d \in Event : owner'[d] # u
                 /\ \A d \in Event : d \in holds'[u] <=> owner'[d] = u /\ pc'[u] # "mutex"
      <3>1. /\ pc[u] = "mutex" => EventPtr[u] \in Event /\ Lists(u) \subseteq {EventPtr[u]}
            /\ pc[u] = "mutex" /\ Lists(u) = {} /\ u \notin bereft => owner[EventPtr[u]] = u
            /\ u \in bereft => pc[u] = "mutex" /\ Lists(u) = {} /\ \A d \in Event : owner[d] # u
            /\ \A d \in Event : d \in holds[u] <=> owner[d] = u /\ pc[u] # "mutex"
        BY <1>2 DEF OwnersInv, TasksInv, TaskInv, Consistent
      <3>2. /\ u \in bereft' <=> u \in bereft \/ (pc[u] = "mutex" /\ EventPtr[u] = e)
            /\ pc'[u] = pc[u] /\ EventPtr'[u] = EventPtr[u] /\ holds'[u] = holds[u] \ {e}
            /\ Lists(u)' = IF e \in Lists(u) THEN {} ELSE Lists(u)
        BY <1>3, <1>4, <1>6
      <3>3. ASSUME pc[u] = "mutex", Lists(u)' = {}, u \notin bereft'
            PROVE  owner'[EventPtr[u]] = u
        <4>1. EventPtr[u] # e /\ u \notin bereft /\ EventPtr[u] \in Event
          BY <3>1, <3>2, <3>3
        <4>2. Lists(u) = {}
          BY <3>1, <3>2, <3>3, <4>1
        <4>. QED
          BY <1>6, <3>1, <3>3, <4>1, <4>2
      <3>4. ASSUME pc[u] = "mutex", EventPtr[u] = e
            PROVE  Lists(u)' = {} /\ \A d \in Event : owner'[d] # u
        <4>1. Lists(u)' = {}
          BY <3>1, <3>2, <3>4
        <4>2. ASSUME NEW d \in Event, owner'[d] = u PROVE FALSE
          <5>1. d # e /\ owner[d] = u
            BY <1>4, <1>6, <4>2
          <5>2. pc[u] \in {"task", "create"} \/ EventPtr[u] = d
            BY <1>2, <5>1 DEF OwnersInv
          <5>. QED
            BY <3>4, <5>1, <5>2
        <4>. QED
          BY <4>1, <4>2
      <3>5. ASSUME u \in bereft
            PROVE  pc[u] = "mutex" /\ Lists(u)' = {} /\ \A d \in Event : owner'[d] # u
        BY <1>4, <1>6, <3>1, <3>2, <3>5
      <3>6. \A d \in Event : d \in holds'[u] <=> owner'[d] = u /\ pc[u] # "mutex"
        BY <1>4, <1>6, <3>1, <3>2
      <3>. QED
        BY <3>2, <3>3, <3>4, <3>5, <3>6
    <2>. QED
      BY <2>1, <2>2, <2>3 DEF OwnersInv
  <1>10. StoreInv'
    <2>1. OSEventType[e] = "MUTEX"
      BY <1>4 DEF IsMutex
    <2>2. ContentInv'
      BY <1>2, <1>3, <1>4, <1>6, <2>1 DEF ContentInv, HasOne
    <2>3. BlocksInv'
      <3>1. Cardinality(Queues') = Cardinality(Queues)
        <4>1. PICK kind : kind = "UNUSED"
          OBVIOUS
        <4>2. \A d \in Event : OSEventType'[d] = IF d = e THEN kind ELSE OSEventType[d]
          BY <1>6, <4>1
        <4>3. OSEventType[e] # "Q" /\ kind # "Q" => Cardinality(Queues') = Cardinality(Queues)
          BY <4>2, QueuesChange
        <4>. QED
          BY <2>1, <4>1, <4>3
      <3>2. /\ \A u \in TCB : newEvent[u] # NULL <=> pc[u] = "create"
            /\ \A u, v \in TCB : newEvent[u] = newEvent[v] /\ newEvent[u] # NULL => u = v
            /\ \A u \in TCB : newEvent[u] \notin OSEventFreeList
            /\ \A d \in Event : OSEventType[d] = "UNUSED" <=> d \in OSEventFreeList \/ \E u \in TCB : newEvent[u] = d
            /\ OSQFreeList + Cardinality(Queues) = MaxQs
        BY <1>2 DEF BlocksInv, Queues
      <3>3. \A u \in TCB : newEvent[u] # e
        BY <2>1, <3>2
      <3>. QED
        BY <1>4, <1>6, <3>1, <3>2, <3>3 DEF BlocksInv, Queues
    <2>. QED
      BY <1>2, <1>4, <2>2, <2>3 DEF StoreInv, StoreTypes
  <1>11. CpuInv'
    <2>1. /\ OSTCBCur' = t /\ OSPrioCur' = OSPrioCur /\ OSLockNesting' = 0 /\ sched' \in [TCB -> BOOLEAN]
          /\ OSPrioCur \in AnyPrio
      BY <1>1, <1>2, <1>4 DEF CpuInv, ThenSched
    <2>2. \A d \in Event : IsMutex(d) /\ pip[d] = pip[e] => d = e
      BY <1>2, <1>4 DEF MutexInv
    <2>3. CASE OSTCBPrio[t] = OSPrioCur
      <3>1. CASE OSTCBPrio'[t] = OSTCBPrio[t]
        BY <1>1, <1>3, <2>1, <2>3, <3>1 DEF CpuInv
      <3>2. CASE OSTCBPrio'[t] # OSTCBPrio[t]
        <4>1. t = owner[e] /\ OSTCBPrio[t] = pip[e]
          BY <1>1, <1>3, <1>5, <3>2
        <4>2. \A u \in TCB : OSTCBPrio'[u] # OSPrioCur
          BY <1>3, <1>5, <2>3, <4>1
        <4>3. Stale'
          BY <1>5, <1>6, <2>1, <2>2, <2>3, <4>1, <4>2 DEF Stale
        <4>. QED
          BY <1>1, <1>3, <2>1, <4>3 DEF CpuInv
      <3>. QED
        BY <3>1, <3>2
    <2>4. CASE Stale
      <3>1. \A u \in TCB : OSPrioCur # BasePrio[u]
        <4> TAKE u \in TCB
        <4>1. OSPrioCur \in Nat /\ BasePrio[u] > OSPrioCur /\ BasePrio[u] \in Nat
          BY <2>1, <2>4, MutexAssumption, BasePrioAssumption, PrioIsNat DEF Stale
        <4>. QED
          BY <4>1
      <3>2. \A u \in TCB : OSTCBPrio'[u] # OSPrioCur
        BY <1>3, <2>4, <3>1 DEF Stale
      <3>3. Stale'
        BY <1>1, <1>6, <2>1, <2>4, <3>2 DEF Stale
      <3>. QED
        BY <1>1, <1>3, <2>1, <3>3 DEF CpuInv
    <2>. QED
      BY <1>1, <1>2, <2>3, <2>4 DEF CpuInv
  <1>. QED
    BY <1>3, <1>6, <1>7, <1>8, <1>9, <1>10, <1>11 DEF EventsInv, OwnInv

LEMMA MutexCallKeeps ==
  ASSUME EventsInv, ~AnyTime, NEW t \in TCB \ {Idle}, MutexCall(t)
  PROVE  EventsInv'
  <1>1. ASSUME NEW e \in Event, NEW timeout \in Ticks \cup {0}, MayTake(t), OSMutexPend(t, e, timeout)
        PROVE  EventsInv'
    <2>1. timeout \in Nat
      BY TicksAssumption
    <2>2. CASE TakeMutex(t, e)
      BY <1>1, <2>2, TakeMutexKeeps
    <2>3. CASE WaitForMutex(t, e, timeout)
      BY <1>1, <2>1, <2>3, WaitForMutexKeeps
    <2>. QED
      BY <1>1, <2>2, <2>3 DEF OSMutexPend
  <1>2. ASSUME NEW e \in Event, MayTake(t), OSMutexAccept(t, e)
        PROVE  EventsInv'
    BY <1>2, TakeMutexKeeps DEF OSMutexAccept
  <1>3. ASSUME NEW e \in Deletable, NEW opt \in {"NO_PEND", "ALWAYS"}, MayDelete(e, opt), OSMutexDel(t, e, opt)
        PROVE  EventsInv'
    <2>1. e \in Event
      BY MutexAssumption
    <2>. QED
      BY <1>3, <2>1, MutexDelKeeps
  <1>4. CASE \E p \in PIP : OSMutexCreate(t, p)
    BY <1>4, MutexCreateKeeps
  <1>5. CASE \E e \in Event : OSMutexPost(t, e)
    BY <1>5, MutexPostKeeps
  <1>6. CASE MutexReturn(t)
    BY <1>6, MutexReturnKeeps
  <1>. QED
    BY <1>1, <1>2, <1>3, <1>4, <1>5, <1>6 DEF MutexCall

LEMMA IdleKeeps ==
  ASSUME EventsInv, UNCHANGED vars
  PROVE  EventsInv'
  <1>1. UNCHANGED <<coreVars, eventVars, localVars, mutexVars, history>>
    BY DEF vars
  <1>2. /\ UNCHANGED <<OSTCBPrioTbl, OSTCBPrio, stateVars, waitVars, pc, OSTCBMsg, OSEventType, forgotten>>
        /\ UNCHANGED <<prioVars, eventVars, newEvent, OSTCBCur, OSPrioCur, OSLockNesting, sched>>
        /\ UNCHANGED <<OSEventTbl, StatPend, OSRdyTbl, mutexVars, history, pip, owner>>
    BY <1>1 DEF coreVars, prioVars, stateVars, waitVars, cpuVars, eventVars, localVars, mutexVars
  <1>3. TasksInv'
    BY <1>2, SameTasks DEF EventsInv
  <1>4. OwnInv'
    BY <1>2, QuietKeepsOwners DEF EventsInv, IsMutex
  <1>5. StoreInv'
    BY <1>2, StoreFrame DEF EventsInv
  <1>6. CpuInv'
    <2>1. Stale => Stale'
      BY <1>2 DEF Stale, IsMutex
    <2>. QED
      BY <1>2, <2>1 DEF EventsInv, CpuInv
  <1>. QED
    BY <1>3, <1>4, <1>5, <1>6 DEF EventsInv

-----------------------------------------------------------------------------
(* The invariant is inductive.                                             *)
LEMMA NextKeeps ==
  ASSUME EventsInv, ~AnyTime, [Next]_vars
  PROVE  EventsInv'
  <1>1. ASSUME NEW t \in TCB \ {Idle}, Create(t), UNCHANGED <<mutexVars, history>> PROVE EventsInv'
    BY <1>1, CreateKeeps
  <1>2. ASSUME NEW t \in TCB \ {Idle}, MayWait(t), Wait(t), UNCHANGED <<mutexVars, history>> PROVE EventsInv'
    BY <1>2, WaitKeeps
  <1>3. ASSUME NEW t \in TCB \ {Idle}, Return(t), UNCHANGED <<mutexVars, history>> PROVE EventsInv'
    BY <1>3, PendReturnKeeps, MultiReturnKeeps DEF Return
  <1>4. ASSUME NEW t \in TCB \ {Idle}, TaskCall(t) PROVE EventsInv'
    BY <1>4, TaskCallKeeps
  <1>5. ASSUME NEW t \in TCB \ {Idle}, MutexCall(t) PROVE EventsInv'
    BY <1>5, MutexCallKeeps
  <1>6. ASSUME NEW t \in TCB, OS_Sched(t), UNCHANGED <<eventVars, localVars, mutexVars, history>> PROVE EventsInv'
    BY <1>6, SchedKeeps
  <1>7. CASE Interrupt
    BY <1>7, InterruptKeeps
  <1>8. CASE OS_TaskIdle \/ UNCHANGED vars
    BY <1>8, IdleKeeps DEF OS_TaskIdle
  <1>. QED
    BY <1>1, <1>2, <1>3, <1>4, <1>5, <1>6, <1>7, <1>8 DEF Next

LEMMA InitKeeps == Init => EventsInv
  <1> SUFFICES ASSUME Init PROVE EventsInv
    OBVIOUS
  <1>1. PICK types \in Kinds :
          /\ EventsInit(types)
          /\ pip \in {f \in [Event -> PIP \cup {0}] :
               /\ \A e \in Event : f[e] = 0 <=> types[e] # "MUTEX"
               /\ \A d, e \in Event : f[d] = f[e] /\ f[d] # 0 => d = e}
    BY DEF Init
  <1>2. /\ types \in [Event -> EventTypes] /\ Cardinality({e \in Event : types[e] = "Q"}) <= MaxQs
    BY KindsAssumption DEF EventTypes
  <1>3. /\ pip \in [Event -> PIP \cup {0}]
        /\ \A e \in Event : pip[e] = 0 <=> types[e] # "MUTEX"
        /\ \A d, e \in Event : pip[d] = pip[e] /\ pip[d] # 0 => d = e
    BY <1>1
  <1>4. PICK reserved : reserved = {pip[e] : e \in Event} \ {0}
    OBVIOUS
  <1>5. CoreInit(TCB, BasePrio, reserved)
    BY <1>4 DEF Init
  <1>6. /\ OSEventType = types /\ OSEventCnt = [e \in Event |-> 0] /\ msgs = [e \in Event |-> <<>>]
        /\ OSEventFreeList = {e \in Event : types[e] = "UNUSED"}
        /\ OSQFreeList = MaxQs - Cardinality({e \in Event : types[e] = "Q"})
        /\ OSTCBMsg = [t \in TCB |-> NULL] /\ newEvent = [t \in TCB |-> NULL] /\ forgotten = {}
    BY <1>1 DEF EventsInit, OS_QInit
  <1>7. /\ OSTCBPrio = BasePrio /\ Stat = [t \in TCB |-> {}] /\ StatPend = [t \in TCB |-> "OK"]
        /\ Dly = [t \in TCB |-> 0] /\ OSRdyTbl = {BasePrio[t] : t \in TCB}
        /\ EventPtr = [t \in TCB |-> NULL] /\ EventMultiPtr = [t \in TCB |-> {}]
        /\ OSEventTbl = [e \in Event |-> {}] /\ OSLockNesting = 0 /\ sched = [t \in TCB |-> FALSE]
        /\ OSPrioCur = MostUrgent(OSRdyTbl) /\ OSTCBCur = OSTCBPrioTbl[OSPrioCur]
    BY <1>5 DEF CoreInit
  <1>8. /\ pc = [t \in TCB |-> "task"] /\ ownerPrio = [e \in Event |-> AVAILABLE]
        /\ owner = [e \in Event |-> NULL] /\ holds = [t \in TCB |-> {}] /\ bereft = {}
    BY DEF Init
  <1>9. /\ BasePrio \in [TCB -> AnyPrio] /\ \A t, u \in TCB : BasePrio[t] = BasePrio[u] => t = u
    BY BasePrioAssumption
  <1>10. TasksInv
    <2>1. TaskTypes
      BY <1>2, <1>6, <1>7, <1>8, <1>9 DEF TaskTypes, EventTypes, Places
    <2>2. Distinct /\ OfTasks /\ IdleInv
      BY <1>7, <1>8, <1>9, IdleAssumption DEF Distinct, OfTasks, IdleInv
    <2>3. ASSUME NEW t \in TCB PROVE TaskInv(t)
      <3>1. Lists(t) = {}
        BY <1>7 DEF Lists
      <3>2. /\ pc[t] = "task" /\ Stat[t] = {} /\ StatPend[t] = "OK" /\ Dly[t] = 0 /\ EventPtr[t] = NULL
            /\ EventMultiPtr[t] = {} /\ OSTCBMsg[t] = NULL /\ OSTCBPrio[t] \in OSRdyTbl
            /\ t \notin forgotten
        BY <1>6, <1>7, <1>8
      <3>3. Consistent(pc[t], Stat[t], StatPend[t], Dly[t], EventPtr[t], EventMultiPtr[t], Lists(t),
                       OSTCBMsg[t], OSEventType)
        BY <3>1, <3>2 DEF Consistent
      <3>4. Runnable(Stat[t], StatPend[t], Dly[t], Lists(t))
        BY <3>1, <3>2 DEF Runnable
      <3>. QED
        BY <3>2, <3>3, <3>4 DEF TaskInv
    <2>. QED
      BY <2>1, <2>2, <2>3 DEF TasksInv
  <1>11. \A p \in AnyPrio :
           OSTCBPrioTbl[p] = IF \E t \in TCB : BasePrio[t] = p
                               THEN CHOOSE t \in TCB : BasePrio[t] = p
                               ELSE IF p \in reserved THEN RESERVED ELSE NULL
    BY <1>5 DEF CoreInit
  <1>12. \A t \in TCB : OSTCBPrioTbl[BasePrio[t]] = t
    <2> TAKE t \in TCB
    <2>1. PICK p \in AnyPrio : p = BasePrio[t]
      BY <1>9
    <2>2. OSTCBPrioTbl[p] = CHOOSE u \in TCB : BasePrio[u] = p
      BY <1>11, <2>1
    <2>3. OSTCBPrioTbl[p] \in TCB /\ BasePrio[OSTCBPrioTbl[p]] = p
      BY <2>1, <2>2
    <2>. QED
      BY <1>9, <2>1, <2>3
  <1>13. \A p \in AnyPrio : (\A t \in TCB : BasePrio[t] # p) =>
           OSTCBPrioTbl[p] = IF p \in reserved THEN RESERVED ELSE NULL
    BY <1>11
  <1>14. OSTCBPrioTbl \in [AnyPrio -> TCB \cup {NULL, RESERVED}]
    <2>1. OSTCBPrioTbl = [p \in AnyPrio |-> OSTCBPrioTbl[p]]
      BY <1>5 DEF CoreInit
    <2>2. \A p \in AnyPrio : OSTCBPrioTbl[p] \in TCB \cup {NULL, RESERVED}
      BY <1>12, <1>13
    <2>. QED
      BY <2>1, <2>2
  <1>15. OwnInv
    <2>1. MutexTypes
      BY <1>3, <1>8, <1>14, MutexAssumption DEF MutexTypes
    <2>2. PriosInv
      BY <1>7, <1>12 DEF PriosInv
    <2>3. MutexInv
      <3>1. ASSUME NEW e \in Event, IsMutex(e)
            PROVE  pip[e] \in PIP /\ pip[e] # 0 /\ OSTCBPrioTbl[pip[e]] = RESERVED
        <4>1. pip[e] # 0 /\ pip[e] \in PIP
          BY <1>3, <1>6, <3>1 DEF IsMutex
        <4>2. pip[e] \in AnyPrio /\ pip[e] \in Nat /\ \A t \in TCB : BasePrio[t] > pip[e]
          BY <4>1, MutexAssumption, PrioIsNat DEF AnyPrio
        <4>3. \A t \in TCB : BasePrio[t] # pip[e]
          <5> TAKE t \in TCB
          <5>1. BasePrio[t] \in Nat
            BY <1>9, PrioIsNat
          <5>. QED
            BY <4>2, <5>1
        <4>4. pip[e] \in reserved
          BY <1>4, <4>1
        <4>. QED
          BY <1>13, <4>1, <4>2, <4>3, <4>4
      <3>2. RESERVED # NULL
        BY PointerAssumption
      <3>3. \A e \in Event : owner[e] = NULL /\ ownerPrio[e] = AVAILABLE /\ OSEventTbl[e] = {}
        BY <1>7, <1>8
      <3>4. \A d, e \in Event : IsMutex(d) /\ IsMutex(e) /\ pip[d] = pip[e] => d = e
        BY <1>3, <3>1
      <3>. QED
        BY <3>1, <3>2, <3>3, <3>4 DEF MutexInv
    <2>4. OwnersInv
      <3>1. NULL \notin TCB
        BY PointerAssumption
      <3>2. \A e \in Event : owner[e] = NULL
        BY <1>8
      <3>3. \A t \in TCB : pc[t] = "task" /\ holds[t] = {} /\ t \notin bereft
        BY <1>8
      <3>. QED
        BY <3>1, <3>2, <3>3 DEF OwnersInv
    <2>. QED
      BY <2>1, <2>2, <2>3, <2>4 DEF OwnInv
  <1>16. StoreInv
    <2>1. Queues = {e \in Event : types[e] = "Q"} /\ Cardinality(Queues) \in Nat
      <3>1. Queues = {e \in Event : types[e] = "Q"}
        BY <1>6 DEF Queues
      <3>2. IsFiniteSet(Queues)
        BY EventAssumption, FS_Subset DEF Queues
      <3>. QED
        BY <3>1, <3>2, FS_CardinalityType
    <2>2. OSQFreeList = MaxQs - Cardinality(Queues) /\ OSQFreeList \in 0 .. MaxQs
      BY <1>2, <1>6, <2>1, BoundAssumption
    <2>3. StoreTypes
      BY <1>6, <2>2 DEF StoreTypes
    <2>4. ContentInv
      BY <1>6, <1>7, BoundAssumption DEF ContentInv, HasOne
    <2>5. BlocksInv
      <3>1. OSQFreeList + Cardinality(Queues) = MaxQs
        BY <2>1, <2>2, BoundAssumption
      <3>2. NULL \notin Event /\ \A t \in TCB : newEvent[t] = NULL /\ pc[t] = "task"
        BY <1>6, <1>8, PointerAssumption
      <3>3. OSEventType = types /\ OSEventFreeList = {e \in Event : types[e] = "UNUSED"}
        BY <1>6
      <3>. QED
        BY <3>1, <3>2, <3>3 DEF BlocksInv, Queues
    <2>. QED
      BY <2>3, <2>4, <2>5 DEF StoreInv
  <1>17. CpuInv
    <2>1. OSPrioCur \in OSRdyTbl
      BY <1>7, <1>10, SomebodyIsReady
    <2>2. PICK t \in TCB : OSPrioCur = BasePrio[t]
      BY <1>7, <2>1
    <2>3. OSTCBCur = t
      BY <1>7, <1>12, <2>2
    <2>. QED
      BY <1>7, <1>9, <2>1, <2>2, <2>3 DEF CpuInv
  <1>. QED
    BY <1>10, <1>15, <1>16, <1>17 DEF EventsInv

(* The invariant of semaphores, mailboxes, queues and mutexes (os_sem.c,   *)
(* os_mbox.c, os_q.c, os_mutex.c), for tasks that keep to MayWait,         *)
(* MayTake, MaySuspend and MayDelete.                                      *)
THEOREM EventsInductive == ~AnyTime => (Spec => []EventsInv)
  <1> SUFFICES ASSUME ~AnyTime PROVE Spec => []EventsInv
    OBVIOUS
  <1>1. Init => EventsInv
    BY InitKeeps
  <1>2. EventsInv /\ [Next]_vars => EventsInv'
    BY NextKeeps
  <1>. QED
    BY <1>1, <1>2, PTL DEF Spec

-----------------------------------------------------------------------------
(* What the invariant says of the tables that a user sees.                 *)
LEMMA WhoWaits ==
  ASSUME TasksInv, NEW t \in TCB, NEW e \in Event
  PROVE  /\ e \in Lists(t) => WaitsFor(t, e)
         /\ ~LeftOver(t) /\ WaitsFor(t, e) => e \in Lists(t)
  <1>1. /\ Consistent(pc[t], Stat[t], StatPend[t], Dly[t], EventPtr[t], EventMultiPtr[t], Lists(t),
                      OSTCBMsg[t], OSEventType)
        /\ pc[t] \in Places
    BY DEF TasksInv, TaskInv, TaskTypes
  <1>2. ASSUME e \in Lists(t) PROVE WaitsFor(t, e)
    <2>1. pc[t] \in {"pend", "mutex", "multi"}
      BY <1>1, <1>2 DEF Consistent, Places
    <2>2. CASE pc[t] \in {"pend", "mutex"}
      <3>1. EventPtr[t] = e
        BY <1>1, <1>2, <2>2 DEF Consistent
      <3>2. OSEventType[e] \in PEND_ANY
        BY <1>1, <1>2 DEF Consistent, MultiTypes, PEND_ANY
      <3>3. StatPend[t] # "TO" => OSEventType[e] \in Stat[t]
        BY <1>1, <1>2 DEF Consistent
      <3>. QED
        BY <2>2, <3>1, <3>2, <3>3 DEF WaitsFor
    <2>3. CASE pc[t] = "multi"
      BY <1>1, <1>2, <2>3 DEF Consistent, WaitsFor
    <2>. QED
      BY <2>1, <2>2, <2>3
  <1>3. ASSUME ~LeftOver(t), WaitsFor(t, e) PROVE e \in Lists(t)
    <2>1. CASE pc[t] \in {"pend", "mutex"}
      <3>1. EventPtr[t] = e /\ (Stat[t] \cap PEND_ANY # {} \/ StatPend[t] = "TO") /\ EventMultiPtr[t] = {}
        BY <1>3, <2>1 DEF WaitsFor, LeftOver
      <3>2. Lists(t) # {}
        BY <1>1, <2>1, <3>1 DEF Consistent, PEND_ANY
      <3>. QED
        BY <1>1, <2>1, <3>1, <3>2 DEF Consistent
    <2>2. CASE pc[t] = "multi"
      BY <1>1, <1>3, <2>2 DEF Consistent, WaitsFor
    <2>. QED
      BY <1>3, <2>1, <2>2 DEF WaitsFor
  <1>. QED
    BY <1>2, <1>3

LEMMA TablesAre == EventsInv => TablesExact
  <1> SUFFICES ASSUME EventsInv PROVE TablesExact
    OBVIOUS
  <1>1. /\ TasksInv /\ TaskTypes /\ OfTasks /\ MutexTypes /\ StoreTypes /\ ContentInv /\ BlocksInv /\ CpuInv
    BY DEF EventsInv, TasksInv, OwnInv, StoreInv
  <1>2. TypeOK
    <2>1. CoreTypeOK({"task", "create", "pend", "multi", "mutex"})
      BY <1>1 DEF TaskTypes, MutexTypes, CpuInv, CoreTypeOK, Places
    <2>2. EventsTypeOK(MultiTypes \cup {"MUTEX"})
      BY <1>1 DEF TaskTypes, StoreTypes, ContentInv, EventsTypeOK
    <2>. QED
      BY <1>1, <2>1, <2>2 DEF TypeOK, MutexTypes
  <1>3. WaitListExact
    <2> SUFFICES ASSUME NEW e \in Event
                 PROVE  /\ \A t \in TCB : LeftOver(t) \/ (WaitsFor(t, e) <=> OSTCBPrio[t] \in OSEventTbl[e])
                        /\ OSEventTbl[e] \subseteq {OSTCBPrio[t] : t \in {u \in TCB : WaitsFor(u, e)}}
                        /\ OSEventTbl[e] # {} => OSEventType[e] # "UNUSED"
      BY DEF WaitListExact
    <2>1. \A t \in TCB : /\ e \in Lists(t) => WaitsFor(t, e)
                         /\ ~LeftOver(t) /\ WaitsFor(t, e) => e \in Lists(t)
      BY <1>1, WhoWaits
    <2>2. \A t \in TCB : e \in Lists(t) <=> OSTCBPrio[t] \in OSEventTbl[e]
      BY DEF Lists
    <2>3. OSEventTbl[e] \subseteq {OSTCBPrio[t] : t \in TCB}
      BY <1>1 DEF OfTasks
    <2>4. OSEventTbl[e] # {} => OSEventType[e] # "UNUSED"
      BY <1>1 DEF ContentInv
    <2>. QED
      BY <2>1, <2>2, <2>3, <2>4
  <1>4. NothingLeaks
    <2>1. \A t \in TCB : newEvent[t] # NULL <=> pc[t] = "create"
      BY <1>1 DEF BlocksInv
    <2>2. \A e \in Event : e # NULL
      BY PointerAssumption
    <2>3. \A e \in Event : e \in Taken <=> \E t \in TCB : newEvent[t] = e
      BY <2>1, <2>2 DEF Taken
    <2>4. OSEventFreeList \cap Taken = {}
      BY <1>1 DEF BlocksInv, Taken
    <2>5. \A e \in Event : OSEventType[e] = "UNUSED" <=> e \in OSEventFreeList \cup Taken
      BY <1>1, <2>3 DEF BlocksInv
    <2>. QED
      BY <1>1, <2>4, <2>5 DEF BlocksInv, NothingLeaks, Taken
  <1>5. ReadyExact
    <2> SUFFICES ASSUME NEW t \in TCB
                 PROVE  /\ LeftOver(t) \/ (OSTCBPrio[t] \in OSRdyTbl <=> ~Held(t) /\ t \notin forgotten)
                        /\ t \in forgotten => EventMultiPtr[t] # {}
                        /\ OSTCBMsg[t] # NULL /\ pc[t] \in {"pend", "multi"} => StatPend[t] = "OK"
      BY DEF ReadyExact
    <2>1. /\ Consistent(pc[t], Stat[t], StatPend[t], Dly[t], EventPtr[t], EventMultiPtr[t], Lists(t),
                        OSTCBMsg[t], OSEventType)
          /\ OSTCBPrio[t] \in OSRdyTbl <=>
               Runnable(Stat[t], StatPend[t], Dly[t], Lists(t)) /\ t \notin forgotten
          /\ t \in forgotten => EventMultiPtr[t] # {}
          /\ Dly[t] \in Nat
      BY <1>1 DEF TasksInv, TaskInv, TaskTypes
    <2>2. OSTCBMsg[t] # NULL => StatPend[t] = "OK"
      BY <2>1 DEF Consistent
    <2>3. ASSUME ~LeftOver(t) PROVE OSTCBPrio[t] \in OSRdyTbl <=> ~Held(t) /\ t \notin forgotten
      <3>1. Lists(t) # {} <=> \E e \in Event : WaitsFor(t, e)
        <4>1. \A e \in Event : WaitsFor(t, e) <=> e \in Lists(t)
          BY <1>1, <2>3, WhoWaits
        <4>2. Lists(t) \subseteq Event
          BY DEF Lists
        <4>. QED
          BY <4>1, <4>2
      <3>2. Held(t) <=> "SUSPEND" \in Stat[t] \/ Dly[t] > 0 \/ (StatPend[t] # "TO" /\ Lists(t) # {})
        BY <3>1 DEF Held
      <3>3. Dly[t] > 0 <=> Dly[t] # 0
        BY <2>1
      <3>. QED
        BY <2>1, <3>2, <3>3 DEF Runnable
    <2>. QED
      BY <2>1, <2>2, <2>3
  <1>. QED
    BY <1>2, <1>3, <1>4, <1>5 DEF TablesExact

LEMMA NobodyIsStranded == EventsInv => NobodyStranded
  <1> SUFFICES ASSUME EventsInv, NEW e \in Event
               PROVE  /\ OSEventType[e] = "SEM" => OSEventTbl[e] = {} \/ OSEventCnt[e] = 0
                      /\ OSEventTbl[e] = {} \/ FirstMsg(e) = NULL
                      /\ OSEventTbl[e] = {} \/ Len(msgs[e]) = 0
                      /\ Len(msgs[e]) = 0 <=> FirstMsg(e) = NULL
                      /\ IsMutex(e) => /\ OSEventTbl[e] = {} \/ ownerPrio[e] # AVAILABLE
                                       /\ ownerPrio[e] = AVAILABLE <=> owner[e] = NULL
    BY DEF NobodyStranded, OSSemQuery, OSMboxQuery, OSQQuery, OSMutexQuery
  <1>1. /\ msgs[e] \in Seq(Msg) /\ OSEventCnt[e] \in Nat /\ (HasOne(e) => OSEventTbl[e] = {})
        /\ NULL \notin Msg
    BY MsgAssumption DEF EventsInv, StoreInv, StoreTypes, ContentInv
  <1>2. OSEventTbl[e] # {} => OSEventCnt[e] = 0 /\ msgs[e] = <<>>
    BY <1>1 DEF HasOne
  <1>3. msgs[e] # <<>> => Head(msgs[e]) \in Msg /\ Len(msgs[e]) # 0
    BY <1>1
  <1>4. Len(msgs[e]) = 0 <=> FirstMsg(e) = NULL
    BY <1>1, <1>3 DEF FirstMsg
  <1>5. ASSUME IsMutex(e) PROVE /\ OSEventTbl[e] = {} \/ ownerPrio[e] # AVAILABLE
                                /\ ownerPrio[e] = AVAILABLE <=> owner[e] = NULL
    <2>1. /\ owner[e] # NULL => ownerPrio[e] = BasePrio[owner[e]] /\ owner[e] \in TCB
          /\ owner[e] = NULL => ownerPrio[e] = AVAILABLE /\ OSEventTbl[e] = {}
      BY <1>5 DEF EventsInv, OwnInv, MutexInv, MutexTypes
    <2>2. \A t \in TCB : BasePrio[t] # AVAILABLE
      BY BasePrioAssumption, PrioIsNat
    <2>. QED
      BY <2>1, <2>2
  <1>6. OSEventTbl[e] = {} \/ FirstMsg(e) = NULL
    BY <1>2 DEF FirstMsg
  <1>7. OSEventTbl[e] = {} \/ Len(msgs[e]) = 0
    BY <1>2
  <1>. QED
    BY <1>2, <1>4, <1>5, <1>6, <1>7

LEMMA MutexesAre == EventsInv => MutexExact
  <1> SUFFICES ASSUME EventsInv PROVE OwnerExact /\ InheritsExact
    BY DEF MutexExact
  <1>1. /\ TasksInv /\ TaskTypes /\ Distinct /\ OfTasks /\ MutexTypes /\ PriosInv /\ MutexInv /\ OwnersInv
        /\ NULL \notin TCB
    BY PointerAssumption DEF EventsInv, TasksInv, OwnInv
  <1>2. OwnerExact
    <2> SUFFICES ASSUME NEW e \in Event, IsMutex(e), NEW t \in TCB
                 PROVE  /\ t \notin bereft =>
                             (e \in holds[t] \/ (pc[t] = "mutex" /\ EventPtr[t] = e /\ ~WaitsFor(t, e))
                                <=> owner[e] = t)
                        /\ owner[e] = t => t \notin bereft
      <3>1. \A e \in Event : owner[e] \in TCB \cup {NULL}
        BY <1>1 DEF MutexTypes
      <3>. QED
        BY <1>1, <3>1 DEF OwnerExact
    <2>1. /\ pc[t] = "mutex" /\ Lists(t) = {} /\ t \notin bereft => owner[EventPtr[t]] = t
          /\ owner[e] = t => t \notin bereft
          /\ e \in holds[t] <=> owner[e] = t /\ pc[t] # "mutex"
          /\ owner[e] = t => Lists(t) = {} /\ EventMultiPtr[t] = {} /\ (pc[t] = "mutex" => EventPtr[t] = e)
      BY <1>1 DEF OwnersInv
    <2>2. ASSUME pc[t] = "mutex", EventPtr[t] = e, ~WaitsFor(t, e), t \notin bereft PROVE owner[e] = t
      <3>1. e \notin Lists(t)
        BY <1>1, <2>2, WhoWaits
      <3>2. Lists(t) \subseteq {e}
        BY <1>1, <2>2 DEF TasksInv, TaskInv, Consistent
      <3>3. Lists(t) = {}
        BY <3>1, <3>2
      <3>. QED
        BY <2>1, <2>2, <3>3
    <2>3. ASSUME owner[e] = t, pc[t] = "mutex" PROVE EventPtr[t] = e /\ ~WaitsFor(t, e)
      <3>1. ~LeftOver(t) /\ e \notin Lists(t)
        BY <2>1, <2>3 DEF LeftOver
      <3>. QED
        BY <1>1, <2>1, <2>3, <3>1, WhoWaits
    <2>. QED
      BY <2>1, <2>2, <2>3
  <1>3. InheritsExact
    <2>1. ASSUME NEW e \in Event, IsMutex(e), NEW t \in Waiters(e), OSTCBPrio[t] < ownerPrio[e]
          PROVE  OSTCBPrio[owner[e]] = pip[e]
      <3>1. e \in Lists(t)
        BY <1>1, WaitersAre
      <3>. QED
        BY <1>1, <2>1, <3>1 DEF MutexInv, Lists
    <2>2. \A e \in Event : IsMutex(e) =>
            /\ OSTCBPrioTbl[pip[e]] \in {RESERVED, owner[e]}
            /\ owner[e] # NULL => ownerPrio[e] = BasePrio[owner[e]]
      BY <1>1 DEF MutexInv
    <2>. QED
      BY <1>1, <2>1, <2>2 DEF InheritsExact, PriosInv, Owns
  <1>. QED
    BY <1>2, <1>3

(* The wait list of an event holds exactly the tasks that wait for it, no  *)
(* control block leaks, a task is ready exactly when nothing holds it and  *)
(* OSTaskResume has not forgotten it, which happens only to a task whose   *)
(* wait for several events has ended; and a message handed to a task stays *)
(* there for it (OSEventPendMulti and OSTaskResume, os_core.c and          *)
(* os_task.c), for tasks that keep to MayWait, MayTake, MaySuspend and     *)
(* MayDelete.                                                              *)
THEOREM TablesExactHolds == ~AnyTime => (Spec => []TablesExact)
  BY EventsInductive, TablesAre, PTL

(* No query tells of a task that waits for an event with something to give *)
(* (os_sem.c, os_mbox.c, os_q.c and os_mutex.c), under the same premise.   *)
THEOREM NobodyStrandedHolds == ~AnyTime => (Spec => []NobodyStranded)
  BY EventsInductive, NobodyIsStranded, PTL

(* A mutex has one owner, the task that its calls have given it to, never  *)
(* one that has yet to return from the wait for a mutex that was deleted   *)
(* under it, whatever its control block is by then; and a task has another *)
(* priority than its own only while it owns a mutex whose PIP that is      *)
(* (os_mutex.c), under the same premise.                                   *)
THEOREM MutexExactHolds == ~AnyTime => (Spec => []MutexExact)
  BY EventsInductive, MutexesAre, PTL
=============================================================================
