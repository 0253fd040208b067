-------------------------- MODULE UcosTasksProofs --------------------------
(***************************************************************************)
(* Proofs about the task services, for any number of control blocks,       *)
(* priorities, events and delays.                                          *)
(*                                                                         *)
(* The invariant TasksInv has two halves.  Tables says that priorities and *)
(* control blocks point at each other, that what is between two critical   *)
(* sections (a reserved priority, a control block taken) is in one task's  *)
(* hands or was lost with it, and that the ready list and the wait lists   *)
(* follow the tasks' status, but for the entries known to be stale.  Cpu   *)
(* says which task may have the processor: with the scheduler unlocked and *)
(* no call of OS_Sched due the most urgent ready one, under the priority   *)
(* that it has now.                                                        *)
(***************************************************************************)
EXTENDS UcosTasks, WellFoundedInduction, TLAPS

Creating(t) == pc[t] \in {"reserved", "link", "undo"}

(* Priorities and control blocks point at each other.                      *)
PriosExact ==
  /\ OSTCBPrio[Idle] = IdlePrio
  /\ \A p \in AnyPrio : OSTCBPrioTbl[p] \in TCB =>
       OSTCBPrio[OSTCBPrioTbl[p]] = p /\ pc[OSTCBPrioTbl[p]] # "free"
  /\ \A t \in TCB : pc[t] # "free" => OSTCBPrioTbl[OSTCBPrio[t]] = t

(* A control block without a task is in the free list, in the hands of one *)
(* OS_TCBInit or lost; OSTaskDel has in hand the task that it deletes.     *)
BlocksExact ==
  /\ \A t \in TCB : newTCB[t] # NULL <=> pc[t] \in {"link", "del"}
  /\ \A t \in TCB : pc[t] = "link" =>
       pc[newTCB[t]] = "free" /\ newTCB[t] \notin OSTCBFreeList \cup orphans.blocks
  /\ \A t, u \in TCB : pc[t] = "link" /\ pc[u] = "link" /\ newTCB[t] = newTCB[u] => t = u
  /\ \A u \in TCB : pc[u] = "free" <=>
       \/ u \in OSTCBFreeList \cup orphans.blocks
       \/ \E t \in TCB : pc[t] = "link" /\ newTCB[t] = u
  /\ OSTCBFreeList \cap orphans.blocks = {}
  /\ \A t \in TCB : pc[t] = "del" =>
       newTCB[t] # Idle /\ pc[newTCB[t]] # "free" /\ newPrio[t] = OSTCBPrio[newTCB[t]]

(* A reserved priority belongs to one creation or is lost.                 *)
ReservedExact ==
  /\ \A t \in TCB : Creating(t) =>
       OSTCBPrioTbl[newPrio[t]] = RESERVED /\ newPrio[t] \notin orphans.prios
  /\ \A t, u \in TCB : Creating(t) /\ Creating(u) /\ newPrio[t] = newPrio[u] => t = u
  /\ \A p \in AnyPrio : OSTCBPrioTbl[p] = RESERVED <=>
       p \in orphans.prios \/ \E t \in TCB : Creating(t) /\ newPrio[t] = p

(* What a task waits for shows in its status.                              *)
StatusExact ==
  /\ pc[Idle] = "task" /\ Dly[Idle] = 0 /\ Stat[Idle] = {}
  /\ \A t \in TCB :
       /\ EventMultiPtr[t] = {} /\ Stat[t] \subseteq {"SEM", "SUSPEND"}
       /\ pc[t] = "pend" => EventPtr[t] \in Event
       /\ pc[t] \notin {"pend", "free"} => EventPtr[t] = NULL
       /\ "SEM" \in Stat[t] => pc[t] = "pend"
       /\ StatPend[t] # "ABORT"
       /\ StatPend[t] = "TO" => pc[t] = "pend" /\ "SEM" \notin Stat[t]
       /\ pc[t] = "pend" /\ Dly[t] > 0 => "SEM" \in Stat[t]
       /\ pc[t] = "free" \/ BeingDeleted(t) => Stat[t] = {} /\ Dly[t] = 0 /\ StatPend[t] = "OK"

(* The ready list follows the status.                                      *)
ReadyFollows ==
  /\ \A t \in TCB : pc[t] # "free" /\ ~BeingDeleted(t) =>
       (OSTCBPrio[t] \in OSRdyTbl <=> Stat[t] = {} /\ Dly[t] = 0)
  /\ \A p \in OSRdyTbl : OSTCBPrioTbl[p] \in TCB /\ ~BeingDeleted(OSTCBPrioTbl[p])

(* The wait lists follow the status, but for the stale entries.            *)
WaitersFollow ==
  \A e \in Event, p \in AnyPrio :
    p \in OSEventTbl[e] <=>
      \/ <<e, p>> \in stale
      \/ OSTCBPrioTbl[p] \in TCB /\ WaitsFor(OSTCBPrioTbl[p], e)

TablesTypeOK ==
  /\ OSTCBPrioTbl \in [AnyPrio -> TCB \cup {NULL, RESERVED}]
  /\ OSTCBPrio \in [TCB -> AnyPrio]
  /\ Stat \in [TCB -> SUBSET (PEND_ANY \cup {"MULTI", "SUSPEND"})]
  /\ StatPend \in [TCB -> {"OK", "TO", "ABORT"}]
  /\ Dly \in [TCB -> Nat]
  /\ OSRdyTbl \subseteq AnyPrio
  /\ EventPtr \in [TCB -> Event \cup {NULL}]
  /\ EventMultiPtr \in [TCB -> SUBSET Event]
  /\ OSEventTbl \in [Event -> SUBSET AnyPrio]
  /\ pc \in [TCB -> Locations]
  /\ OSTCBFreeList \subseteq TCB \ {Idle}
  /\ newPrio \in [TCB -> AnyPrio]
  /\ newTCB \in [TCB -> TCB \cup {NULL}]
  /\ stale \subseteq Event \X AnyPrio
  /\ orphans \in [prios : SUBSET AnyPrio, blocks : SUBSET TCB]

Tables ==
  /\ TablesTypeOK /\ PriosExact /\ BlocksExact /\ ReservedExact
  /\ StatusExact /\ ReadyFollows /\ WaitersFollow

(* The processor.  The running task may have left OSPrioCur, and nobody    *)
(* else has taken it.                                                      *)
CpuTypeOK ==
  /\ OSTCBCur \in TCB /\ OSPrioCur \in AnyPrio /\ OSLockNesting \in Nat
  /\ sched \in [TCB -> BOOLEAN]
  /\ DelReq \in [TCB -> BOOLEAN] /\ cnt \in [Event -> Nat]

Cpu ==
  /\ CpuTypeOK
  /\ OSTCBPrioTbl[OSPrioCur] \in {OSTCBCur, NULL}
  /\ OSLockNesting = 0 /\ ~sched[OSTCBCur] => OSPrioCur = MostUrgent(OSRdyTbl)
  /\ OSLockNesting > 0 => pc[OSTCBCur] # "pend"
  /\ ~sched[Idle]
  /\ \A t \in TCB : pc[t] = "del" => OSTCBCur = t /\ ~sched[t] /\ OSLockNesting > 0

TasksInv == Tables /\ Cpu

blockVars == <<prioVars, pc, OSTCBFreeList, newPrio, newTCB, orphans>>
tableVars == <<blockVars, stateVars, waitVars, stale>>

-----------------------------------------------------------------------------
(* Sets of tasks and of priorities.                                        *)

LEMMA PrioIsNat == AnyPrio \subseteq Nat /\ IdlePrio \in AnyPrio
  BY PrioAssumption DEF AnyPrio

LEMMA Least ==
  ASSUME NEW S, S \subseteq Nat, S # {}
  PROVE  \E p \in S : \A q \in S : p <= q
  <1> DEFINE R == {ss \in Nat \X Nat : ss[1] < ss[2]}
  <1>1. IsWellFoundedOn(R, Nat)
    BY NatLessThanWellFounded DEF OpToRel
  <1>2. \E x \in S : \A y \in S : ~(<<y, x>> \in R)
    BY <1>1, WFMin
  <1>3. PICK x \in S : \A y \in S : ~(<<y, x>> \in R)
    BY <1>2
  <1>4. \A y \in S : ~(y < x)
    BY <1>3
  <1>. QED
    BY <1>4, x \in Nat

LEMMA MostUrgentIsIn ==
  ASSUME NEW S, S \subseteq AnyPrio, S # {}
  PROVE  MostUrgent(S) \in S
  <1>1. \E p \in S : \A q \in S : p <= q
    BY Least, PrioIsNat
  <1>. QED
    BY <1>1 DEF MostUrgent

(* Two tasks have two priorities.                                          *)
LEMMA PrioImage ==
  ASSUME TablesTypeOK, PriosExact, NEW S \in SUBSET {u \in TCB : pc[u] # "free"},
         NEW t \in TCB, pc[t] # "free"
  PROVE  OSTCBPrio[t] \in {OSTCBPrio[u] : u \in S} <=> t \in S
  BY DEF TablesTypeOK, PriosExact

LEMMA IdleReady == Tables => IdlePrio \in OSRdyTbl
  <1> SUFFICES ASSUME Tables PROVE IdlePrio \in OSRdyTbl
    OBVIOUS
  <1>1. ~BeingDeleted(Idle)
    BY DEF BeingDeleted, Tables, BlocksExact
  <1>. QED
    BY <1>1, IdleAssumption DEF Tables, TablesTypeOK, StatusExact, ReadyFollows, PriosExact

(* The most urgent ready priority is a task's.                             *)
LEMMA MostUrgentIsATasks ==
  ASSUME Tables
  PROVE  /\ MostUrgent(OSRdyTbl) \in OSRdyTbl
         /\ OSTCBPrioTbl[MostUrgent(OSRdyTbl)] \in TCB
         /\ OSTCBPrio[OSTCBPrioTbl[MostUrgent(OSRdyTbl)]] = MostUrgent(OSRdyTbl)
  <1>1. MostUrgent(OSRdyTbl) \in OSRdyTbl
    BY IdleReady, MostUrgentIsIn DEF Tables, TablesTypeOK
  <1>. QED
    BY <1>1 DEF Tables, ReadyFollows, PriosExact, TablesTypeOK

(* A task that runs with the scheduler unlocked is held by nothing.        *)
LEMMA RunningFree ==
  ASSUME TasksInv, NEW t \in TCB, Running(t), OSLockNesting = 0
  PROVE  /\ OSTCBPrioTbl[OSPrioCur] = t /\ OSTCBPrio[t] = OSPrioCur
         /\ OSTCBPrio[t] \in OSRdyTbl /\ Stat[t] = {} /\ Dly[t] = 0
         /\ pc[t] \notin {"free", "del"}
  <1>1. /\ OSTCBPrioTbl[OSPrioCur] = t /\ OSPrioCur \in OSRdyTbl /\ OSPrioCur \in AnyPrio
        /\ \A u \in TCB : pc[u] # "del"
    BY MostUrgentIsATasks, PointerAssumption DEF TasksInv, Cpu, CpuTypeOK, Running
  <1>2. OSTCBPrio[t] = OSPrioCur /\ pc[t] \notin {"free", "del"} /\ ~BeingDeleted(t)
    BY <1>1 DEF TasksInv, Tables, PriosExact, BeingDeleted
  <1>. QED
    BY <1>1, <1>2 DEF TasksInv, Tables, ReadyFollows

(* A task that deletes another keeps the processor.                        *)
LEMMA NobodyDeletes ==
  ASSUME TasksInv, NEW t \in TCB, OSTCBCur = t, pc[t] # "del"
  PROVE  \A u \in TCB : pc[u] # "del" /\ ~BeingDeleted(u)
  BY DEF TasksInv, Cpu, BeingDeleted

-----------------------------------------------------------------------------
(* Services that leave the priorities and the control blocks alone.        *)

LEMMA BlocksFrame ==
  PriosExact /\ BlocksExact /\ ReservedExact /\ UNCHANGED blockVars
    => PriosExact' /\ BlocksExact' /\ ReservedExact' /\ \A t : BeingDeleted(t)' <=> BeingDeleted(t)
  BY DEF PriosExact, BlocksExact, ReservedExact, Creating, blockVars, prioVars, BeingDeleted

LEMMA TablesFrame == Tables /\ UNCHANGED tableVars => Tables'
  <1> SUFFICES ASSUME Tables, UNCHANGED tableVars PROVE Tables'
    OBVIOUS
  <1>1. PriosExact' /\ BlocksExact' /\ ReservedExact' /\ \A t : BeingDeleted(t)' <=> BeingDeleted(t)
    BY BlocksFrame DEF Tables, tableVars
  <1>2. TablesTypeOK'
    BY DEF Tables, tableVars, blockVars, prioVars, stateVars, waitVars, TablesTypeOK
  <1>3. StatusExact'
    BY <1>1 DEF Tables, tableVars, blockVars, stateVars, waitVars, StatusExact
  <1>4. ReadyFollows'
    BY <1>1 DEF Tables, tableVars, blockVars, prioVars, stateVars, ReadyFollows
  <1>5. WaitersFollow'
    BY DEF Tables, tableVars, blockVars, prioVars, stateVars, waitVars, WaitersFollow, WaitsFor
  <1>. QED
    BY <1>1, <1>2, <1>3, <1>4, <1>5 DEF Tables

(* What stays stale, and what becomes so.                                  *)
LEMMA StaleIs ==
  ASSUME TablesTypeOK, OSEventTbl' \in [Event -> SUBSET AnyPrio],
         NEW new \in SUBSET (Event \X AnyPrio), Stale(new)
  PROVE  /\ stale' \subseteq Event \X AnyPrio
         /\ \A e \in Event, p \in AnyPrio :
              <<e, p>> \in stale' <=>
                (<<e, p>> \in stale \/ <<e, p>> \in new) /\ p \in OSEventTbl'[e]
  BY DEF TablesTypeOK, Stale

LEMMA TimersEndKeeps ==
  ASSUME Tables, NEW S \in SUBSET TCB, \A t \in S : Dly[t] > 0,
         TimersEnd(S), Dly' \in [TCB -> Nat], \A t \in S : Dly'[t] = 0,
         \A t \in TCB \ S : Dly'[t] = 0 <=> Dly[t] = 0,
         UNCHANGED <<blockVars, stale>>
  PROVE  Tables'
  <1> DEFINE W == {u \in S : "SUSPEND" \notin Stat[u]}
  <1> USE DEF Tables, blockVars, prioVars, waitVars
  <1>1. \A t \in S : pc[t] # "free" /\ ~BeingDeleted(t) /\ t # Idle
    BY DEF StatusExact, TablesTypeOK
  <1>2. \A t \in TCB : pc[t] # "free" => (OSTCBPrio[t] \in {OSTCBPrio[u] : u \in W} <=> t \in W)
    BY <1>1, PrioImage
  <1>3. /\ StatPend' = [t \in TCB |->
             IF t \notin S THEN StatPend[t] ELSE IF Stat[t] \cap PEND_ANY # {} THEN "TO" ELSE "OK"]
        /\ Stat' = [t \in TCB |-> IF t \in S THEN Stat[t] \ PEND_ANY ELSE Stat[t]]
        /\ OSRdyTbl' = OSRdyTbl \cup {OSTCBPrio[u] : u \in W}
        /\ UNCHANGED waitVars
    BY DEF TimersEnd
  <1>4. \A t \in TCB : (Stat[t] \cap PEND_ANY # {} <=> "SEM" \in Stat[t])
                       /\ Stat[t] \ PEND_ANY = Stat[t] \ {"SEM"}
    BY DEF StatusExact, TablesTypeOK, PEND_ANY
  <1>5. PriosExact' /\ BlocksExact' /\ ReservedExact' /\ \A t : BeingDeleted(t)' <=> BeingDeleted(t)
    BY BlocksFrame
  <1>6. TablesTypeOK'
    BY <1>3 DEF TablesTypeOK
  <1>7. StatusExact'
    <2>1. (pc[Idle] = "task" /\ Dly[Idle] = 0 /\ Stat[Idle] = {})'
      BY <1>1, <1>3, IdleAssumption DEF StatusExact
    <2>2. ASSUME NEW t \in TCB, t \notin S
          PROVE  UNCHANGED <<Stat[t], StatPend[t], EventPtr[t], EventMultiPtr[t], pc[t]>>
      BY <1>3, <2>2
    <2>3. ASSUME NEW t \in TCB, t \in S
          PROVE  /\ Stat'[t] = Stat[t] \ {"SEM"} /\ Dly'[t] = 0
                 /\ StatPend'[t] = IF "SEM" \in Stat[t] THEN "TO" ELSE "OK"
                 /\ UNCHANGED <<EventPtr[t], EventMultiPtr[t], pc[t]>>
      BY <1>3, <1>4, <2>3
    <2>4. ASSUME NEW t \in TCB
          PROVE  (/\ EventMultiPtr[t] = {} /\ Stat[t] \subseteq {"SEM", "SUSPEND"}
                  /\ pc[t] = "pend" => EventPtr[t] \in Event
                  /\ pc[t] \notin {"pend", "free"} => EventPtr[t] = NULL
                  /\ "SEM" \in Stat[t] => pc[t] = "pend"
                  /\ StatPend[t] # "ABORT"
                  /\ StatPend[t] = "TO" => pc[t] = "pend" /\ "SEM" \notin Stat[t]
                  /\ pc[t] = "pend" /\ Dly[t] > 0 => "SEM" \in Stat[t]
                  /\ pc[t] = "free" \/ BeingDeleted(t) =>
                       Stat[t] = {} /\ Dly[t] = 0 /\ StatPend[t] = "OK")'
      <3>1. CASE t \notin S
        <4>1. Dly[t] \in Nat /\ Dly'[t] \in Nat /\ (Dly'[t] = 0 <=> Dly[t] = 0)
          BY <3>1 DEF TablesTypeOK
        <4>. QED
          BY <1>5, <2>2, <3>1, <4>1 DEF StatusExact
      <3>2. CASE t \in S
        BY <1>1, <1>5, <2>3, <3>2 DEF StatusExact
      <3>. QED
        BY <3>1, <3>2
    <2>. QED
      BY <2>1, <2>4 DEF StatusExact
  <1>8. ReadyFollows'
    <2>1. ASSUME NEW t \in S
          PROVE  t \in W <=> Stat'[t] = {}
      <3>1. Stat'[t] = Stat[t] \ {"SEM"} /\ Stat[t] \subseteq {"SEM", "SUSPEND"}
        BY <1>3, <1>4 DEF StatusExact
      <3>. QED
        BY <3>1
    <2>2. \A t \in S : Dly[t] # 0 /\ OSTCBPrio[t] \notin OSRdyTbl
      BY <1>1 DEF ReadyFollows
    <2>3. ASSUME NEW t \in TCB, pc[t] # "free", ~BeingDeleted(t)
          PROVE  OSTCBPrio[t] \in OSRdyTbl' <=> Stat'[t] = {} /\ Dly'[t] = 0
      <3>1. CASE t \in S
        BY <1>2, <1>3, <2>1, <2>2, <2>3, <3>1
      <3>2. CASE t \notin S
        BY <1>2, <1>3, <2>3, <3>2 DEF ReadyFollows
      <3>. QED
        BY <3>1, <3>2
    <2>4. \A p \in OSRdyTbl' : OSTCBPrioTbl[p] \in TCB /\ ~BeingDeleted(OSTCBPrioTbl[p])
      BY <1>1, <1>3 DEF ReadyFollows, PriosExact
    <2>. QED
      BY <1>5, <2>3, <2>4 DEF ReadyFollows
  <1>9. WaitersFollow'
    <2>1. ASSUME NEW e \in Event, NEW t \in TCB
          PROVE  WaitsFor(t, e)' <=> WaitsFor(t, e)
      <3>1. t \in S /\ pc[t] = "pend" => "SEM" \in Stat[t]
        BY DEF StatusExact
      <3>. QED
        BY <1>3, <1>4, <3>1 DEF WaitsFor
    <2>. QED
      BY <1>3, <2>1 DEF WaitersFollow
  <1>. QED
    BY <1>5, <1>6, <1>7, <1>8, <1>9

LEMMA TickKeeps ==
  ASSUME Tables, OSTimeTick, UNCHANGED <<blockVars, stale>>
  PROVE  Tables'
  <1> DEFINE S == {t \in TCB : Dly[t] = 1}
  <1>1. /\ Dly' = [t \in TCB |-> IF Dly[t] > 0 THEN Dly[t] - 1 ELSE 0]
        /\ TimersEnd(S)
    BY DEF OSTimeTick
  <1>2. \A t \in TCB : Dly[t] \in Nat
    BY DEF Tables, TablesTypeOK
  <1>3. /\ S \in SUBSET TCB /\ \A t \in S : Dly[t] > 0 /\ Dly'[t] = 0
        /\ Dly' \in [TCB -> Nat]
        /\ \A t \in TCB \ S : Dly'[t] = 0 <=> Dly[t] = 0
    BY <1>1, <1>2
  <1> HIDE DEF S
  <1>. QED
    BY <1>1, <1>3, TimersEndKeeps

LEMMA DlyResumeKeeps ==
  ASSUME Tables, NEW p \in Prio, OSTimeDlyResume(p), UNCHANGED <<blockVars, stale>>
  PROVE  Tables'
  <1> DEFINE S == {OSTCBPrioTbl[p]}
  <1>1. /\ Dly' = [Dly EXCEPT ![OSTCBPrioTbl[p]] = 0] /\ TimersEnd(S)
        /\ OSTCBPrioTbl[p] \in TCB /\ Dly[OSTCBPrioTbl[p]] > 0
    BY DEF OSTimeDlyResume, HasTask
  <1>2. Dly \in [TCB -> Nat]
    BY DEF Tables, TablesTypeOK
  <1>3. /\ S \in SUBSET TCB /\ \A t \in S : Dly[t] > 0 /\ Dly'[t] = 0
        /\ Dly' \in [TCB -> Nat]
        /\ \A t \in TCB \ S : Dly'[t] = 0 <=> Dly[t] = 0
    BY <1>1, <1>2
  <1> HIDE DEF S
  <1>. QED
    BY <1>1, <1>3, TimersEndKeeps

(* OSTaskSuspend, OSTaskResume and OSTimeDly change one task's status and  *)
(* its bit in the ready list.                                              *)
LEMMA OneStatusKeeps ==
  ASSUME Tables, NEW t \in TCB \ {Idle}, pc[t] # "free", ~BeingDeleted(t),
         NEW stat, stat \subseteq Stat[t] \cup {"SUSPEND"}, "SEM" \in Stat[t] => "SEM" \in stat,
         NEW dly \in Nat, pc[t] = "pend" => dly = Dly[t],
         Stat' = [Stat EXCEPT ![t] = stat], Dly' = [Dly EXCEPT ![t] = dly],
         OSRdyTbl' = IF stat = {} /\ dly = 0 THEN OSRdyTbl \cup {OSTCBPrio[t]}
                                            ELSE OSRdyTbl \ {OSTCBPrio[t]},
         UNCHANGED <<blockVars, waitVars, StatPend, stale>>
  PROVE  Tables'
  <1> USE DEF Tables, blockVars, prioVars, waitVars
  <1>1. PriosExact' /\ BlocksExact' /\ ReservedExact' /\ \A u : BeingDeleted(u)' <=> BeingDeleted(u)
    BY BlocksFrame
  <1>2. TablesTypeOK'
    BY DEF TablesTypeOK, PEND_ANY, StatusExact
  <1>3. StatusExact'
    BY <1>1 DEF StatusExact, TablesTypeOK
  <1>4. ReadyFollows'
    <2>1. \A u \in TCB : u # t /\ pc[u] # "free" =>
            (OSTCBPrio[u] \in OSRdyTbl' <=> OSTCBPrio[u] \in OSRdyTbl)
      BY DEF PriosExact, TablesTypeOK
    <2>2. OSTCBPrio[t] \in OSRdyTbl' <=> stat = {} /\ dly = 0
      OBVIOUS
    <2>3. Stat'[t] = stat /\ Dly'[t] = dly
          /\ \A u \in TCB : u # t => Stat'[u] = Stat[u] /\ Dly'[u] = Dly[u]
      BY DEF TablesTypeOK
    <2>4. \A p \in OSRdyTbl' : OSTCBPrioTbl[p] \in TCB /\ ~BeingDeleted(OSTCBPrioTbl[p])
      BY DEF ReadyFollows, PriosExact
    <2>. QED
      BY <1>1, <2>1, <2>2, <2>3, <2>4 DEF ReadyFollows
  <1>5. WaitersFollow'
    <2>1. ASSUME NEW e \in Event, NEW u \in TCB
          PROVE  WaitsFor(u, e)' <=> WaitsFor(u, e)
      BY DEF WaitsFor, TablesTypeOK
    <2>. QED
      BY <2>1 DEF WaitersFollow
  <1>. QED
    BY <1>1, <1>2, <1>3, <1>4, <1>5

(* The task at a priority is a task, and is not being deleted.             *)
LEMMA HasTaskIs ==
  ASSUME Tables, \A u \in TCB : pc[u] # "del", NEW p \in Prio, HasTask(p)
  PROVE  /\ OSTCBPrioTbl[p] \in TCB \ {Idle} /\ OSTCBPrio[OSTCBPrioTbl[p]] = p
         /\ pc[OSTCBPrioTbl[p]] # "free" /\ ~BeingDeleted(OSTCBPrioTbl[p])
  BY DEF Tables, PriosExact, HasTask, AnyPrio, BeingDeleted

LEMMA SuspendKeeps ==
  ASSUME Tables, \A u \in TCB : pc[u] # "del", NEW p \in Prio, OSTaskSuspend(p),
         UNCHANGED <<blockVars, stale>>
  PROVE  Tables'
  <1> DEFINE t == OSTCBPrioTbl[p]
             s == Stat[t] \cup {"SUSPEND"}
  <1>1. t \in TCB \ {Idle} /\ pc[t] # "free" /\ ~BeingDeleted(t)
    BY HasTaskIs DEF OSTaskSuspend
  <1>2. /\ Stat' = [Stat EXCEPT ![t] = s] /\ Dly' = [Dly EXCEPT ![t] = Dly[t]] /\ Dly[t] \in Nat
        /\ OSRdyTbl' = OSRdyTbl \ {OSTCBPrio[t]} /\ UNCHANGED <<StatPend, waitVars>>
    BY <1>1 DEF OSTaskSuspend, Tables, TablesTypeOK
  <1>3. s # {} /\ s \subseteq Stat[t] \cup {"SUSPEND"} /\ ("SEM" \in Stat[t] => "SEM" \in s)
    OBVIOUS
  <1> HIDE DEF t, s
  <1>. QED
    BY <1>1, <1>2, <1>3, OneStatusKeeps

LEMMA ResumeKeeps ==
  ASSUME Tables, \A u \in TCB : pc[u] # "del", NEW p \in Prio, OSTaskResume(p),
         UNCHANGED <<blockVars, stale>>
  PROVE  Tables'
  <1> DEFINE t == OSTCBPrioTbl[p]
             s == Stat[t] \ {"SUSPEND"}
  <1>1. t \in TCB \ {Idle} /\ pc[t] # "free" /\ ~BeingDeleted(t) /\ "SUSPEND" \in Stat[t]
    BY HasTaskIs DEF OSTaskResume
  <1>2. OSTCBPrio[t] \notin OSRdyTbl
    BY <1>1 DEF Tables, ReadyFollows
  <1>3. /\ Stat' = [Stat EXCEPT ![t] = s] /\ Dly' = [Dly EXCEPT ![t] = Dly[t]] /\ Dly[t] \in Nat
        /\ OSRdyTbl' = IF Stat[t] = {"SUSPEND"} /\ Dly[t] = 0
                          THEN OSRdyTbl \cup {OSTCBPrio[t]} ELSE OSRdyTbl
        /\ UNCHANGED <<StatPend, waitVars>>
    BY <1>1 DEF OSTaskResume, Tables, TablesTypeOK
  <1>4. Stat[t] = {"SUSPEND"} <=> s = {}
    BY <1>1
  <1>5. OSRdyTbl' = IF s = {} /\ Dly[t] = 0 THEN OSRdyTbl \cup {OSTCBPrio[t]}
                                            ELSE OSRdyTbl \ {OSTCBPrio[t]}
    BY <1>2, <1>3, <1>4
  <1>6. s \subseteq Stat[t] \cup {"SUSPEND"} /\ ("SEM" \in Stat[t] => "SEM" \in s)
    OBVIOUS
  <1> HIDE DEF t, s
  <1>. QED
    BY <1>1, <1>3, <1>5, <1>6, OneStatusKeeps

LEMMA DelayKeeps ==
  ASSUME TasksInv, NEW t \in TCB, InTask(t), NEW ticks \in Ticks, OSTimeDly(t, ticks),
         UNCHANGED <<blockVars, stale>>
  PROVE  Tables'
  <1>1. t \in TCB \ {Idle} /\ pc[t] = "task" /\ ticks \in Nat /\ ticks # 0 /\ OSTCBCur = t
    BY TicksAssumption DEF InTask, Running
  <1>2. ~BeingDeleted(t)
    BY <1>1, NobodyDeletes
  <1>3. /\ Stat' = [Stat EXCEPT ![t] = Stat[t]] /\ Dly' = [Dly EXCEPT ![t] = ticks]
        /\ OSRdyTbl' = OSRdyTbl \ {OSTCBPrio[t]} /\ UNCHANGED <<StatPend, waitVars>>
    BY <1>1 DEF OSTimeDly, TasksInv, Tables, TablesTypeOK
  <1>. QED
    BY <1>1, <1>2, <1>3, OneStatusKeeps DEF TasksInv

-----------------------------------------------------------------------------
(* The semaphores.                                                         *)

(* OSSemPost wakes u, which waits for e, or for which e's list has a stale *)
(* entry.                                                                  *)
LEMMA WakeKeeps ==
  ASSUME Tables, NEW e \in Event, NEW u \in TCB, pc[u] # "free", ~BeingDeleted(u),
         OS_EventTaskRdy(OSRdyTbl, e, {u}, {"SEM"}, "OK"),
         Stale({<<d, OSTCBPrio[u]>> : d \in {f \in Event \ {e} : WaitsFor(u, f)}}),
         UNCHANGED blockVars
  PROVE  Tables'
  <1> DEFINE new == {<<d, OSTCBPrio[u]>> : d \in {f \in Event \ {e} : WaitsFor(u, f)}}
  <1> USE DEF Tables, blockVars, prioVars, waitVars
  <1>1. /\ Dly' = [t \in TCB |-> IF t = u THEN 0 ELSE Dly[t]]
        /\ Stat' = [t \in TCB |-> IF t = u THEN Stat[t] \ {"SEM"} ELSE Stat[t]]
        /\ StatPend' = [t \in TCB |-> IF t = u THEN "OK" ELSE StatPend[t]]
        /\ UNCHANGED EventMultiPtr
    BY DEF OS_EventTaskRdy
  <1>2. OSRdyTbl' = IF "SUSPEND" \in Stat[u] THEN OSRdyTbl ELSE OSRdyTbl \cup {OSTCBPrio[u]}
    BY DEF OS_EventTaskRdy
  <1>3. EventPtr' = EventPtr
    BY DEF OS_EventTaskRdy, StatusExact, TablesTypeOK
  <1>4. OSEventTbl' = [d \in Event |-> IF d = e THEN OSEventTbl[e] \ {OSTCBPrio[u]}
                                               ELSE OSEventTbl[d]]
    <2>1. \A d \in Event : {v \in {u} : d = e \/ d \in EventMultiPtr[v]} = IF d = e THEN {u} ELSE {}
      BY DEF StatusExact
    <2>. QED
      BY <2>1 DEF OS_EventTaskRdy, TablesTypeOK
  <1>5. PriosExact' /\ BlocksExact' /\ ReservedExact' /\ \A t : BeingDeleted(t)' <=> BeingDeleted(t)
    BY BlocksFrame
  <1>6. OSEventTbl' \in [Event -> SUBSET AnyPrio]
    BY <1>4 DEF TablesTypeOK
  <1>7. /\ new \in SUBSET (Event \X AnyPrio)
        /\ \A d \in Event, p \in AnyPrio :
             <<d, p>> \in new <=> d # e /\ WaitsFor(u, d) /\ p = OSTCBPrio[u]
    BY DEF TablesTypeOK
  <1>8. /\ stale' \subseteq Event \X AnyPrio
        /\ \A d \in Event, p \in AnyPrio :
             <<d, p>> \in stale' <=>
               (<<d, p>> \in stale \/ <<d, p>> \in new) /\ p \in OSEventTbl'[d]
    BY <1>6, <1>7, StaleIs
  <1> HIDE DEF new
  <1>9. TablesTypeOK'
    BY <1>1, <1>2, <1>3, <1>6, <1>8 DEF TablesTypeOK
  <1>10. StatusExact'
    BY <1>1, <1>3, <1>5, IdleAssumption DEF StatusExact, TablesTypeOK
  <1>11. ReadyFollows'
    <2>1. \A t \in TCB : t # u /\ pc[t] # "free" =>
            (OSTCBPrio[t] \in OSRdyTbl' <=> OSTCBPrio[t] \in OSRdyTbl)
      BY <1>2 DEF PriosExact
    <2>2. Stat[u] \subseteq {"SEM", "SUSPEND"} /\ Stat'[u] = Stat[u] \ {"SEM"} /\ Dly'[u] = 0
      BY <1>1 DEF StatusExact
    <2>3. OSTCBPrio[u] \in OSRdyTbl => Stat[u] = {}
      BY DEF ReadyFollows
    <2>4. OSTCBPrio[u] \in OSRdyTbl' <=> Stat'[u] = {} /\ Dly'[u] = 0
      BY <1>2, <2>2, <2>3
    <2>5. \A t \in TCB : t # u => Stat'[t] = Stat[t] /\ Dly'[t] = Dly[t]
      BY <1>1
    <2>6. \A p \in OSRdyTbl' : OSTCBPrioTbl[p] \in TCB /\ ~BeingDeleted(OSTCBPrioTbl[p])
      BY <1>2 DEF ReadyFollows, PriosExact
    <2>. QED
      BY <1>5, <2>1, <2>4, <2>5, <2>6 DEF ReadyFollows
  <1>12. WaitersFollow'
    <2>1. \A d \in Event : \A t \in TCB : WaitsFor(t, d)' <=> WaitsFor(t, d) /\ t # u
      BY <1>1, <1>3 DEF WaitsFor
    <2>2. OSTCBPrio[u] \in AnyPrio /\ OSTCBPrioTbl[OSTCBPrio[u]] = u
          /\ \A p \in AnyPrio : OSTCBPrioTbl[p] = u => p = OSTCBPrio[u]
      BY DEF PriosExact, TablesTypeOK
    <2>3. ASSUME NEW d \in Event, NEW p \in AnyPrio
          PROVE  p \in OSEventTbl'[d] <=>
                   \/ <<d, p>> \in stale'
                   \/ OSTCBPrioTbl'[p] \in TCB /\ WaitsFor(OSTCBPrioTbl[p], d)'
      <3>1. p \in OSEventTbl[d] <=>
              <<d, p>> \in stale \/ (OSTCBPrioTbl[p] \in TCB /\ WaitsFor(OSTCBPrioTbl[p], d))
        BY DEF WaitersFollow
      <3>2. CASE p = OSTCBPrio[u]
        BY <1>4, <1>7, <1>8, <2>1, <2>2, <3>1, <3>2
      <3>3. CASE p # OSTCBPrio[u]
        <4>1. p \in OSEventTbl'[d] <=> p \in OSEventTbl[d]
          BY <1>4, <3>3
        <4>. QED
          BY <1>7, <1>8, <2>1, <2>2, <3>1, <3>3, <4>1
      <3>. QED
        BY <3>2, <3>3
    <2>. QED
      BY <2>3 DEF WaitersFollow
  <1>. QED
    BY <1>5, <1>9, <1>10, <1>11, <1>12

LEMMA PostKeeps ==
  ASSUME Tables, NEW e \in Event, OSSemPost(e), UNCHANGED <<pc, OSTCBFreeList, newPrio, newTCB>>
  PROVE  Tables'
  <1> DEFINE p == MostUrgent(OSEventTbl[e])
             u == OSTCBPrioTbl[p]
  <1>1. CASE /\ OSEventTbl[e] # {} /\ u \in TCB /\ ~BeingDeleted(u)
             /\ OS_EventTaskRdy(OSRdyTbl, e, {u}, {"SEM"}, "OK")
             /\ Stale({<<d, p>> : d \in {f \in Event \ {e} : WaitsFor(u, f)}})
    <2>1. p \in AnyPrio
      BY <1>1, MostUrgentIsIn DEF Tables, TablesTypeOK
    <2>2. OSTCBPrio[u] = p /\ pc[u] # "free"
      BY <1>1, <2>1 DEF Tables, PriosExact
    <2>3. UNCHANGED blockVars
      BY DEF OSSemPost, blockVars
    <2> HIDE DEF p, u
    <2>. QED
      BY <1>1, <2>2, <2>3, WakeKeeps
  <1>2. CASE UNCHANGED <<stateVars, waitVars, stale>>
    BY <1>2, TablesFrame DEF OSSemPost, tableVars, blockVars
  <1>. QED
    BY <1>1, <1>2 DEF OSSemPost

(* What a task does next is no matter to those who do not wait.            *)
LEMMA NotInvolved ==
  ASSUME WaitersFollow, UNCHANGED <<OSEventTbl, stale>>,
         \A p \in AnyPrio, e \in Event :
           (OSTCBPrioTbl'[p] \in TCB /\ WaitsFor(OSTCBPrioTbl[p], e)') <=>
             (OSTCBPrioTbl[p] \in TCB /\ WaitsFor(OSTCBPrioTbl[p], e))
  PROVE  WaitersFollow'
  BY DEF WaitersFollow

LEMMA SemPendKeeps ==
  ASSUME TasksInv, NEW t \in TCB, NEW e \in Event, NEW timeout \in Ticks \cup {0},
         OSSemPend(t, e, timeout)
  PROVE  Tables'
  <1> USE DEF prioVars, waitVars, taskVars, history
  <1>1. CASE UNCHANGED <<stateVars, waitVars, cpuVars, pc>>
    BY <1>1, TablesFrame DEF OSSemPend, TasksInv, tableVars, blockVars
  <1>2. CASE pc' = [pc EXCEPT ![t] = "pend"] /\ Block(OSRdyTbl, t, {"SEM"}, timeout)
             /\ OS_EventTaskWait(t, e)
    <2> USE DEF Tables, TasksInv
    <2>1. /\ t \in TCB \ {Idle} /\ pc[t] = "task" /\ Stat[t] = {} /\ timeout \in Nat
          /\ OSTCBPrio[t] \in OSRdyTbl /\ OSTCBPrioTbl[OSTCBPrio[t]] = t
          /\ \A u \in TCB : pc[u] # "del"
      <3>1. InTask(t) /\ OSLockNesting = 0
        BY DEF OSSemPend
      <3>2. Running(t) /\ pc[t] = "task" /\ t # Idle /\ OSTCBCur = t
        BY <3>1 DEF InTask, Running
      <3>3. Stat[t] = {} /\ OSTCBPrio[t] \in OSRdyTbl /\ OSTCBPrioTbl[OSTCBPrio[t]] = t
        BY <3>1, <3>2, RunningFree
      <3>4. timeout \in Nat
        BY TicksAssumption
      <3>. QED
        BY <3>2, <3>3, <3>4, NobodyDeletes
    <2>2. /\ Stat' = [Stat EXCEPT ![t] = {"SEM"}]
          /\ StatPend' = [StatPend EXCEPT ![t] = "OK"]
          /\ Dly' = [Dly EXCEPT ![t] = timeout]
          /\ OSRdyTbl' = OSRdyTbl \ {OSTCBPrio[t]}
          /\ EventPtr' = [EventPtr EXCEPT ![t] = e]
          /\ OSEventTbl' = [OSEventTbl EXCEPT ![e] = @ \cup {OSTCBPrio[t]}]
          /\ pc' = [pc EXCEPT ![t] = "pend"]
          /\ UNCHANGED <<EventMultiPtr, OSTCBPrioTbl, OSTCBPrio, OSTCBFreeList, newPrio, newTCB,
                         stale, orphans>>
      BY <1>2, <2>1 DEF Block, OS_EventTaskWait, OSSemPend, TablesTypeOK
    <2>3. TablesTypeOK'
      BY <2>1, <2>2 DEF TablesTypeOK, PEND_ANY, Locations
    <2>4. PriosExact'
      BY <2>1, <2>2 DEF PriosExact, TablesTypeOK
    <2>5. BlocksExact'
      BY <2>1, <2>2 DEF BlocksExact, TablesTypeOK
    <2>6. ReservedExact'
      BY <2>1, <2>2 DEF ReservedExact, Creating, TablesTypeOK
    <2>7. \A u \in TCB : ~BeingDeleted(u) /\ ~BeingDeleted(u)'
      BY <2>1, <2>2 DEF BeingDeleted, TablesTypeOK
    <2>8. StatusExact'
      BY <2>1, <2>2, <2>7 DEF StatusExact, TablesTypeOK
    <2>9. ReadyFollows'
      <3>1. \A u \in TCB : u # t /\ pc[u] # "free" => OSTCBPrio[u] # OSTCBPrio[t]
        BY <2>1 DEF PriosExact
      <3>. QED
        BY <2>1, <2>2, <2>7, <3>1 DEF ReadyFollows, TablesTypeOK
    <2>10. WaitersFollow'
      <3>1. \A p \in AnyPrio : OSTCBPrioTbl[p] = t <=> p = OSTCBPrio[t]
        BY <2>1 DEF PriosExact, TablesTypeOK
      <3>2. \A d \in Event : \A u \in TCB : u # t => (WaitsFor(u, d)' <=> WaitsFor(u, d))
        BY <2>2 DEF WaitsFor, TablesTypeOK
      <3>3. \A d \in Event : (WaitsFor(t, d)' <=> d = e) /\ ~WaitsFor(t, d)
        BY <2>1, <2>2 DEF WaitsFor, TablesTypeOK
      <3>4. \A d \in Event : OSEventTbl'[d] = IF d = e THEN OSEventTbl[d] \cup {OSTCBPrio[t]}
                                                     ELSE OSEventTbl[d]
        BY <2>2 DEF TablesTypeOK
      <3>5. ASSUME NEW d \in Event, NEW p \in AnyPrio
            PROVE  p \in OSEventTbl'[d] <=>
                     \/ <<d, p>> \in stale'
                     \/ OSTCBPrioTbl'[p] \in TCB /\ WaitsFor(OSTCBPrioTbl[p], d)'
        <4>1. p \in OSEventTbl[d] <=>
                <<d, p>> \in stale \/ (OSTCBPrioTbl[p] \in TCB /\ WaitsFor(OSTCBPrioTbl[p], d))
          BY DEF WaitersFollow
        <4>2. OSTCBPrioTbl' = OSTCBPrioTbl /\ stale' = stale
          BY <2>2
        <4>3. CASE p = OSTCBPrio[t]
          BY <3>1, <3>3, <3>4, <4>1, <4>2, <4>3
        <4>4. CASE p # OSTCBPrio[t]
          <5>1. p \in OSEventTbl'[d] <=> p \in OSEventTbl[d]
            BY <3>4, <4>4
          <5>. QED
            BY <3>1, <3>2, <4>1, <4>2, <4>4, <5>1
        <4>. QED
          BY <4>3, <4>4
      <3>. QED
        BY <3>5 DEF WaitersFollow
    <2>. QED
      BY <2>3, <2>4, <2>5, <2>6, <2>8, <2>9, <2>10
  <1>. QED
    BY <1>1, <1>2 DEF OSSemPend

LEMMA PendReturnKeeps ==
  ASSUME TasksInv, NEW t \in TCB, OSSemPendReturn(t)
  PROVE  Tables'
  <1> USE DEF Tables, TasksInv, prioVars, waitVars, taskVars
  <1>1. OSLockNesting = 0
    BY DEF OSSemPendReturn, Running, Cpu, CpuTypeOK
  <1>2. /\ pc[t] = "pend" /\ Stat[t] = {} /\ Dly[t] = 0 /\ OSTCBPrio[t] \in OSRdyTbl /\ t # Idle
        /\ EventPtr[t] \in Event /\ EventMultiPtr[t] = {} /\ OSTCBPrioTbl[OSTCBPrio[t]] = t
        /\ \A u \in TCB : pc[u] # "del"
    BY <1>1, RunningFree, NobodyDeletes DEF OSSemPendReturn, StatusExact, Running
  <1>3. /\ EventPtr' = [EventPtr EXCEPT ![t] = NULL]
        /\ StatPend' = [StatPend EXCEPT ![t] = "OK"]
        /\ pc' = [pc EXCEPT ![t] = "task"]
        /\ UNCHANGED <<Stat, EventMultiPtr, Dly, OSRdyTbl, OSTCBPrioTbl, OSTCBPrio, OSTCBFreeList,
                       newPrio, newTCB, orphans>>
    BY <1>2 DEF OSSemPendReturn, PendEnds, TablesTypeOK
  <1>4. OSEventTbl' = [d \in Event |->
          IF StatPend[t] = "TO" /\ d = EventPtr[t] THEN OSEventTbl[d] \ {OSTCBPrio[t]}
                                                   ELSE OSEventTbl[d]]
    BY DEF OSSemPendReturn, PendEnds, RemoveFrom
  <1>5. OSEventTbl' \in [Event -> SUBSET AnyPrio]
    BY <1>4 DEF TablesTypeOK
  <1>6. /\ stale' \subseteq Event \X AnyPrio
        /\ \A d \in Event, p \in AnyPrio :
             <<d, p>> \in stale' <=> <<d, p>> \in stale /\ p \in OSEventTbl'[d]
    BY <1>5, StaleIs DEF OSSemPendReturn
  <1>7. TablesTypeOK'
    BY <1>3, <1>5, <1>6 DEF TablesTypeOK, Locations
  <1>8. PriosExact'
    BY <1>2, <1>3 DEF PriosExact, TablesTypeOK
  <1>9. BlocksExact'
    BY <1>2, <1>3 DEF BlocksExact, TablesTypeOK
  <1>10. ReservedExact'
    BY <1>2, <1>3 DEF ReservedExact, Creating, TablesTypeOK
  <1>11. \A u \in TCB : ~BeingDeleted(u) /\ ~BeingDeleted(u)'
    BY <1>2, <1>3 DEF BeingDeleted, TablesTypeOK
  <1>12. StatusExact'
    BY <1>2, <1>3, <1>11 DEF StatusExact, TablesTypeOK
  <1>13. ReadyFollows'
    BY <1>2, <1>3, <1>11 DEF ReadyFollows, TablesTypeOK
  <1>14. WaitersFollow'
    <2>1. \A p \in AnyPrio : OSTCBPrioTbl[p] = t <=> p = OSTCBPrio[t]
      BY <1>2 DEF PriosExact, TablesTypeOK
    <2>2. \A d \in Event : \A u \in TCB : u # t => (WaitsFor(u, d)' <=> WaitsFor(u, d))
      BY <1>3 DEF WaitsFor, TablesTypeOK
    <2>3. \A d \in Event : ~WaitsFor(t, d)' /\
            (WaitsFor(t, d) <=> d = EventPtr[t] /\ StatPend[t] = "TO")
      BY <1>2, <1>3 DEF WaitsFor, TablesTypeOK
    <2>4. ASSUME NEW d \in Event, NEW p \in AnyPrio
          PROVE  p \in OSEventTbl'[d] <=>
                   \/ <<d, p>> \in stale'
                   \/ OSTCBPrioTbl'[p] \in TCB /\ WaitsFor(OSTCBPrioTbl[p], d)'
      <3>1. p \in OSEventTbl[d] <=>
              <<d, p>> \in stale \/ (OSTCBPrioTbl[p] \in TCB /\ WaitsFor(OSTCBPrioTbl[p], d))
        BY DEF WaitersFollow
      <3>2. OSTCBPrioTbl' = OSTCBPrioTbl
        BY <1>3
      <3>3. CASE p = OSTCBPrio[t]
        BY <1>4, <1>6, <2>1, <2>3, <3>1, <3>2, <3>3
      <3>4. CASE p # OSTCBPrio[t]
        BY <1>4, <1>6, <2>1, <2>2, <3>1, <3>2, <3>4
      <3>. QED
        BY <3>3, <3>4
    <2>. QED
      BY <2>4 DEF WaitersFollow
  <1>. QED
    BY <1>7, <1>8, <1>9, <1>10, <1>12, <1>13, <1>14

-----------------------------------------------------------------------------
(* Creating and deleting tasks.                                            *)

LEMMA ReserveKeeps ==
  ASSUME TasksInv, NEW t \in TCB, NEW p \in Prio, ReservePrio(t, p)
  PROVE  Tables'
  <1> USE DEF Tables, TasksInv, prioVars, waitVars, stateVars, history
  <1>1. /\ p \in AnyPrio /\ OSTCBPrioTbl[p] = NULL /\ pc[t] = "task" /\ t # Idle
        /\ OSTCBPrioTbl' = [OSTCBPrioTbl EXCEPT ![p] = RESERVED]
        /\ newPrio' = [newPrio EXCEPT ![t] = p]
        /\ pc' = [pc EXCEPT ![t] = "reserved"]
        /\ UNCHANGED <<OSTCBPrio, stateVars, waitVars, OSTCBFreeList, newTCB, stale, orphans>>
        /\ \A u \in TCB : pc[u] # "del"
    BY NobodyDeletes DEF ReservePrio, InTask, Running, AnyPrio
  <1>2. TablesTypeOK'
    BY <1>1 DEF TablesTypeOK, Locations
  <1>3. PriosExact'
    BY <1>1, PointerAssumption DEF PriosExact, TablesTypeOK
  <1>4. BlocksExact'
    BY <1>1 DEF BlocksExact, TablesTypeOK
  <1>5. ReservedExact'
    BY <1>1, PointerAssumption DEF ReservedExact, Creating, TablesTypeOK
  <1>6. \A u \in TCB : ~BeingDeleted(u) /\ ~BeingDeleted(u)'
    BY <1>1 DEF BeingDeleted, TablesTypeOK
  <1>7. StatusExact'
    BY <1>1, <1>6 DEF StatusExact, TablesTypeOK
  <1>8. ReadyFollows'
    BY <1>1, <1>6, PointerAssumption DEF ReadyFollows, TablesTypeOK
  <1>9. WaitersFollow'
    BY <1>1, PointerAssumption, NotInvolved DEF WaitsFor, TablesTypeOK
  <1>. QED
    BY <1>2, <1>3, <1>4, <1>5, <1>7, <1>8, <1>9

LEMMA TakeKeeps ==
  ASSUME TasksInv, NEW t \in TCB, TCBInitTake(t)
  PROVE  Tables'
  <1> USE DEF Tables, TasksInv, prioVars, waitVars, stateVars, history
  <1>1. /\ pc[t] = "reserved" /\ t # Idle
        /\ UNCHANGED <<prioVars, stateVars, waitVars, newPrio, stale, orphans>>
        /\ \A u \in TCB : pc[u] # "del"
    BY NobodyDeletes DEF TCBInitTake, StatusExact, Running
  <1>2. CASE pc' = [pc EXCEPT ![t] = "undo"] /\ UNCHANGED <<OSTCBFreeList, newTCB>>
    <2>1. TablesTypeOK'
      BY <1>1, <1>2 DEF TablesTypeOK, Locations
    <2>2. PriosExact'
      BY <1>1, <1>2 DEF PriosExact, TablesTypeOK
    <2>3. BlocksExact'
      BY <1>1, <1>2 DEF BlocksExact, TablesTypeOK
    <2>4. ReservedExact'
      BY <1>1, <1>2 DEF ReservedExact, Creating, TablesTypeOK
    <2>5. \A u \in TCB : ~BeingDeleted(u) /\ ~BeingDeleted(u)'
      BY <1>1, <1>2 DEF BeingDeleted, TablesTypeOK
    <2>6. StatusExact'
      BY <1>1, <1>2, <2>5 DEF StatusExact, TablesTypeOK
    <2>7. ReadyFollows'
      BY <1>1, <1>2, <2>5 DEF ReadyFollows, TablesTypeOK
    <2>8. WaitersFollow'
      BY <1>1, <1>2, NotInvolved DEF WaitsFor, TablesTypeOK
    <2>. QED
      BY <2>1, <2>2, <2>3, <2>4, <2>6, <2>7, <2>8
  <1>3. CASE \E u \in OSTCBFreeList :
               /\ OSTCBFreeList' = OSTCBFreeList \ {u}
               /\ newTCB' = [newTCB EXCEPT ![t] = u]
               /\ pc' = [pc EXCEPT ![t] = "link"]
    <2>1. PICK u \in OSTCBFreeList :
               /\ OSTCBFreeList' = OSTCBFreeList \ {u}
               /\ newTCB' = [newTCB EXCEPT ![t] = u]
               /\ pc' = [pc EXCEPT ![t] = "link"]
      BY <1>3
    <2>2. /\ u \in TCB /\ pc[u] = "free" /\ u # t /\ u \notin orphans.blocks
          /\ \A v \in TCB : pc[v] = "link" => newTCB[v] # u
      BY <1>1 DEF BlocksExact, TablesTypeOK
    <2>3. TablesTypeOK'
      BY <1>1, <2>1, <2>2 DEF TablesTypeOK, Locations
    <2>4. PriosExact'
      BY <1>1, <2>1 DEF PriosExact, TablesTypeOK
    <2>5. BlocksExact'
      BY <1>1, <2>1, <2>2, PointerAssumption DEF BlocksExact, TablesTypeOK
    <2>6. ReservedExact'
      BY <1>1, <2>1 DEF ReservedExact, Creating, TablesTypeOK
    <2>7. \A v \in TCB : ~BeingDeleted(v) /\ ~BeingDeleted(v)'
      BY <1>1, <2>1 DEF BeingDeleted, TablesTypeOK
    <2>8. StatusExact'
      BY <1>1, <2>1, <2>7 DEF StatusExact, TablesTypeOK
    <2>9. ReadyFollows'
      BY <1>1, <2>1, <2>7 DEF ReadyFollows, TablesTypeOK
    <2>10. WaitersFollow'
      BY <1>1, <2>1, NotInvolved DEF WaitsFor, TablesTypeOK
    <2>. QED
      BY <2>3, <2>4, <2>5, <2>6, <2>8, <2>9, <2>10
  <1>. QED
    BY <1>2, <1>3 DEF TCBInitTake

LEMMA LinkKeeps ==
  ASSUME TasksInv, NEW t \in TCB, TCBInitLink(t)
  PROVE  Tables'
  <1>a. PICK u : u = newTCB[t]
    OBVIOUS
  <1>b. PICK p : p = newPrio[t]
    OBVIOUS
  <1> USE DEF Tables, TasksInv, prioVars, waitVars, stateVars, history
  <1>1. /\ pc[t] = "link" /\ t # Idle /\ u \in TCB /\ pc[u] = "free" /\ u # t /\ u # Idle
        /\ u \notin OSTCBFreeList /\ u \notin orphans.blocks
        /\ \A v \in TCB : pc[v] = "link" /\ newTCB[v] = u => v = t
        /\ \A v \in TCB : pc[v] # "del"
    BY <1>a, NobodyDeletes DEF TCBInitLink, BlocksExact, StatusExact, TablesTypeOK, Running
  <1>2. /\ p \in AnyPrio /\ OSTCBPrioTbl[p] = RESERVED /\ p \notin orphans.prios
        /\ \A v \in TCB : Creating(v) /\ newPrio[v] = p => v = t
    BY <1>1, <1>b DEF ReservedExact, Creating, TablesTypeOK
  <1>3. /\ OSTCBPrioTbl' = [OSTCBPrioTbl EXCEPT ![p] = u]
        /\ OSTCBPrio' = [OSTCBPrio EXCEPT ![u] = p]
        /\ Stat' = [Stat EXCEPT ![u] = {}]
        /\ StatPend' = [StatPend EXCEPT ![u] = "OK"]
        /\ Dly' = [Dly EXCEPT ![u] = 0]
        /\ EventPtr' = [EventPtr EXCEPT ![u] = NULL]
        /\ EventMultiPtr' = [EventMultiPtr EXCEPT ![u] = {}]
        /\ OSRdyTbl' = OSRdyTbl \cup {p}
        /\ newTCB' = [newTCB EXCEPT ![t] = NULL]
        /\ newPrio' = [newPrio EXCEPT ![t] = IdlePrio]
        /\ pc' = [pc EXCEPT ![t] = "task", ![u] = "task"]
        /\ UNCHANGED <<OSEventTbl, OSTCBFreeList, stale, orphans>>
    BY <1>a, <1>b DEF TCBInitLink
  <1>4. TablesTypeOK'
    BY <1>1, <1>2, <1>3, PrioIsNat DEF TablesTypeOK, Locations
  <1>5. \A v \in TCB : pc[v] # "free" => OSTCBPrio[v] # p
    BY <1>2, PointerAssumption DEF PriosExact
  <1>6. PriosExact'
    BY <1>1, <1>2, <1>3, <1>5, PointerAssumption DEF PriosExact, TablesTypeOK
  <1>7. BlocksExact'
    <2>1. \A v \in TCB : newTCB'[v] = (IF v = t THEN NULL ELSE newTCB[v])
            /\ pc'[v] = IF v \in {t, u} THEN "task" ELSE pc[v]
      BY <1>1, <1>3 DEF TablesTypeOK
    <2>2. \A w \in TCB : pc'[w] = "free" <=>
            \/ w \in OSTCBFreeList' \cup orphans'.blocks
            \/ \E v \in TCB : pc'[v] = "link" /\ newTCB'[v] = w
      <3>1. \A v \in TCB : pc'[v] = "link" <=> pc[v] = "link" /\ v # t
        BY <1>1, <2>1
      <3>2. \A w \in TCB : (\E v \in TCB : pc[v] = "link" /\ newTCB[v] = w) <=>
              (w = u \/ \E v \in TCB : pc'[v] = "link" /\ newTCB'[v] = w)
        BY <1>1, <1>a, <2>1, <3>1
      <3>3. \A w \in TCB : pc'[w] = "free" <=> pc[w] = "free" /\ w # u
        BY <1>1, <2>1
      <3>4. \A v \in TCB : pc'[v] = "link" => newTCB'[v] # u
        BY <1>1, <2>1, <3>1
      <3>5. \A w \in TCB : pc[w] = "free" <=>
              \/ w \in OSTCBFreeList \cup orphans.blocks
              \/ \E v \in TCB : pc[v] = "link" /\ newTCB[v] = w
        BY DEF BlocksExact
      <3>6. OSTCBFreeList' = OSTCBFreeList /\ orphans'.blocks = orphans.blocks
        BY <1>3
      <3>7. ASSUME NEW w \in TCB, w # u
            PROVE  pc'[w] = "free" <=>
                     \/ w \in OSTCBFreeList' \cup orphans'.blocks
                     \/ \E v \in TCB : pc'[v] = "link" /\ newTCB'[v] = w
        BY <3>2, <3>3, <3>5, <3>6, <3>7
      <3>8. /\ pc'[u] # "free" /\ u \notin OSTCBFreeList' \cup orphans'.blocks
            /\ ~\E v \in TCB : pc'[v] = "link" /\ newTCB'[v] = u
        BY <1>1, <3>3, <3>4, <3>6
      <3>. QED
        BY <3>7, <3>8
    <2>. QED
      BY <1>1, <1>3, <2>1, <2>2 DEF BlocksExact, TablesTypeOK
  <1>8. ReservedExact'
    BY <1>1, <1>2, <1>3, PointerAssumption, SMTT(30) DEF ReservedExact, Creating, TablesTypeOK
  <1>9. \A v \in TCB : ~BeingDeleted(v) /\ ~BeingDeleted(v)'
    BY <1>1, <1>3 DEF BeingDeleted, TablesTypeOK
  <1>10. StatusExact'
    <2>1. /\ Stat'[u] = {} /\ StatPend'[u] = "OK" /\ Dly'[u] = 0 /\ EventPtr'[u] = NULL
          /\ EventMultiPtr'[u] = {} /\ pc'[u] = "task" /\ pc'[t] = "task"
      BY <1>1, <1>3 DEF TablesTypeOK
    <2>2. \A v \in TCB : v # u =>
            /\ UNCHANGED <<Stat[v], StatPend[v], Dly[v], EventPtr[v], EventMultiPtr[v]>>
            /\ v # t => pc'[v] = pc[v]
      BY <1>1, <1>3 DEF TablesTypeOK
    <2>3. StatPend[t] # "TO" /\ "SEM" \notin Stat[t] /\ EventPtr[t] = NULL
      BY <1>1 DEF StatusExact
    <2>. QED
      BY <1>1, <1>9, IdleAssumption, <2>1, <2>2, <2>3 DEF StatusExact
  <1>11. ReadyFollows'
    BY <1>1, <1>2, <1>3, <1>5, <1>9 DEF ReadyFollows, TablesTypeOK
  <1>12. WaitersFollow'
    <2>1. ASSUME NEW e \in Event, NEW v \in TCB, v # u
          PROVE  WaitsFor(v, e)' <=> WaitsFor(v, e)
      BY <1>1, <1>3, <2>1 DEF WaitsFor, TablesTypeOK
    <2>2. \A e \in Event : ~WaitsFor(u, e)'
      BY <1>1, <1>3 DEF WaitsFor, TablesTypeOK
    <2>3. \A q \in AnyPrio : OSTCBPrioTbl[q] # u
      BY <1>1 DEF PriosExact
    <2>4. \A q \in AnyPrio : OSTCBPrioTbl'[q] = IF q = p THEN u ELSE OSTCBPrioTbl[q]
      BY <1>2, <1>3 DEF TablesTypeOK
    <2>5. ASSUME NEW q \in AnyPrio, NEW e \in Event
          PROVE  (OSTCBPrioTbl'[q] \in TCB /\ WaitsFor(OSTCBPrioTbl[q], e)') <=>
                   (OSTCBPrioTbl[q] \in TCB /\ WaitsFor(OSTCBPrioTbl[q], e))
      <3>1. CASE q = p
        <4>1. OSTCBPrioTbl'[q] = u /\ OSTCBPrioTbl[q] \notin TCB
          BY <1>2, <2>4, <3>1, PointerAssumption
        <4>. QED
          BY <2>2, <4>1
      <3>2. CASE q # p
        <4>1. OSTCBPrioTbl'[q] = OSTCBPrioTbl[q]
          BY <2>4, <3>2
        <4>. QED
          BY <2>1, <2>3, <4>1
      <3>. QED
        BY <3>1, <3>2
    <2>. QED
      BY <1>3, <2>5, NotInvolved
  <1>. QED
    BY <1>4, <1>6, <1>7, <1>8, <1>10, <1>11, <1>12

LEMMA UndoKeeps ==
  ASSUME TasksInv, NEW t \in TCB, CreateUndo(t)
  PROVE  Tables'
  <1> USE DEF Tables, TasksInv, prioVars, waitVars, stateVars, history
  <1>1. /\ pc[t] = "undo" /\ t # Idle /\ newPrio[t] \in AnyPrio
        /\ OSTCBPrioTbl[newPrio[t]] = RESERVED /\ newPrio[t] \notin orphans.prios
        /\ \A v \in TCB : Creating(v) /\ newPrio[v] = newPrio[t] => v = t
        /\ \A v \in TCB : pc[v] # "del"
    BY NobodyDeletes DEF CreateUndo, StatusExact, ReservedExact, Creating, TablesTypeOK, Running
  <1>2. /\ OSTCBPrioTbl' = [OSTCBPrioTbl EXCEPT ![newPrio[t]] = NULL]
        /\ newPrio' = [newPrio EXCEPT ![t] = IdlePrio]
        /\ pc' = [pc EXCEPT ![t] = "task"]
        /\ UNCHANGED <<OSTCBPrio, stateVars, waitVars, OSTCBFreeList, newTCB, stale, orphans>>
    BY DEF CreateUndo
  <1>3. TablesTypeOK'
    BY <1>1, <1>2, PrioIsNat DEF TablesTypeOK, Locations
  <1>4. PriosExact'
    BY <1>1, <1>2, PointerAssumption DEF PriosExact, TablesTypeOK
  <1>5. BlocksExact'
    BY <1>1, <1>2 DEF BlocksExact, TablesTypeOK
  <1>6. ReservedExact'
    BY <1>1, <1>2, PointerAssumption DEF ReservedExact, Creating, TablesTypeOK
  <1>7. \A u \in TCB : ~BeingDeleted(u) /\ ~BeingDeleted(u)'
    BY <1>1, <1>2 DEF BeingDeleted, TablesTypeOK
  <1>8. StatusExact'
    BY <1>1, <1>2, <1>7 DEF StatusExact, TablesTypeOK
  <1>9. ReadyFollows'
    BY <1>1, <1>2, <1>7, PointerAssumption DEF ReadyFollows, TablesTypeOK
  <1>10. WaitersFollow'
    BY <1>1, <1>2, PointerAssumption, NotInvolved DEF WaitsFor, TablesTypeOK
  <1>. QED
    BY <1>3, <1>4, <1>5, <1>6, <1>8, <1>9, <1>10

(* The deleted task leaves the list of the event it is in; entries of it   *)
(* elsewhere are stale already.                                            *)
LEMMA DisableKeeps ==
  ASSUME TasksInv, NEW t \in TCB, NEW p \in Prio, OSTaskDelDisable(t, p)
  PROVE  Tables'
  <1>a. PICK u : u = OSTCBPrioTbl[p]
    OBVIOUS
  <1> USE DEF Tables, TasksInv, prioVars, waitVars, stateVars
  <1>1. /\ pc[t] = "task" /\ t # Idle /\ EventPtr[t] = NULL /\ newTCB[t] = NULL
        /\ \A v \in TCB : pc[v] # "del" /\ ~BeingDeleted(v)
    BY NobodyDeletes DEF OSTaskDelDisable, InTask, Running, StatusExact, BlocksExact
  <1>2. /\ u \in TCB \ {Idle} /\ OSTCBPrio[u] = p /\ p \in AnyPrio /\ pc[u] # "free"
        /\ EventMultiPtr[u] = {}
    BY <1>a, <1>1, HasTaskIs DEF OSTaskDelDisable, StatusExact, AnyPrio
  <1>3. /\ OSRdyTbl' = OSRdyTbl \ {p}
        /\ Dly' = [Dly EXCEPT ![u] = 0]
        /\ Stat' = [Stat EXCEPT ![u] = {}]
        /\ StatPend' = [StatPend EXCEPT ![u] = "OK"]
        /\ newPrio' = [newPrio EXCEPT ![t] = p]
        /\ newTCB' = [newTCB EXCEPT ![t] = u]
        /\ pc' = [pc EXCEPT ![t] = "del"]
        /\ UNCHANGED <<prioVars, EventPtr, EventMultiPtr, OSTCBFreeList, orphans>>
    BY <1>a, <1>2 DEF OSTaskDelDisable
  <1>4. OSEventTbl' = [d \in Event |-> IF d = EventPtr[u] THEN OSEventTbl[d] \ {p}
                                                         ELSE OSEventTbl[d]]
    BY <1>a, <1>2 DEF OSTaskDelDisable, RemoveFrom
  <1>5. OSEventTbl' \in [Event -> SUBSET AnyPrio]
    BY <1>4 DEF TablesTypeOK
  <1>6. /\ stale' \subseteq Event \X AnyPrio
        /\ \A d \in Event, q \in AnyPrio :
             <<d, q>> \in stale' <=> <<d, q>> \in stale /\ q \in OSEventTbl'[d]
    BY <1>5, StaleIs DEF OSTaskDelDisable
  <1>7. \A q \in AnyPrio : OSTCBPrioTbl[q] = u <=> q = p
    BY <1>a, <1>2 DEF PriosExact, TablesTypeOK
  <1>8. \A v \in TCB : BeingDeleted(v)' <=> v = u
    BY <1>1, <1>3 DEF BeingDeleted, TablesTypeOK
  <1>9. TablesTypeOK'
    BY <1>2, <1>3, <1>5, <1>6 DEF TablesTypeOK, Locations
  <1>10. PriosExact'
    BY <1>1, <1>3 DEF PriosExact, TablesTypeOK
  <1>11. BlocksExact'
    BY <1>1, <1>2, <1>3, PointerAssumption DEF BlocksExact, TablesTypeOK
  <1>12. ReservedExact'
    BY <1>1, <1>3 DEF ReservedExact, Creating, TablesTypeOK
  <1>13. StatusExact'
    BY <1>1, <1>2, <1>3, <1>8 DEF StatusExact, TablesTypeOK
  <1>14. ReadyFollows'
    <2>1. \A v \in TCB : v # u /\ pc'[v] # "free" =>
            (OSTCBPrio[v] \in OSRdyTbl' <=> Stat'[v] = {} /\ Dly'[v] = 0)
      BY <1>1, <1>2, <1>3 DEF ReadyFollows, PriosExact, TablesTypeOK
    <2>2. \A q \in OSRdyTbl' : OSTCBPrioTbl[q] \in TCB /\ OSTCBPrioTbl[q] # u
      BY <1>3, <1>7 DEF ReadyFollows, TablesTypeOK
    <2>. QED
      BY <1>3, <1>8, <2>1, <2>2 DEF ReadyFollows
  <1>15. WaitersFollow'
    <2>1. \A d \in Event : \A v \in TCB : v # u => (WaitsFor(v, d)' <=> WaitsFor(v, d))
      BY <1>1, <1>2, <1>3 DEF WaitsFor, TablesTypeOK
    <2>2. \A d \in Event : ~WaitsFor(u, d)' /\ (WaitsFor(u, d) => d = EventPtr[u])
      BY <1>2, <1>3 DEF WaitsFor, TablesTypeOK
    <2>3. ASSUME NEW d \in Event, NEW q \in AnyPrio
          PROVE  q \in OSEventTbl'[d] <=>
                   \/ <<d, q>> \in stale'
                   \/ OSTCBPrioTbl'[q] \in TCB /\ WaitsFor(OSTCBPrioTbl[q], d)'
      <3>1. q \in OSEventTbl[d] <=>
              <<d, q>> \in stale \/ (OSTCBPrioTbl[q] \in TCB /\ WaitsFor(OSTCBPrioTbl[q], d))
        BY DEF WaitersFollow
      <3>2. OSTCBPrioTbl' = OSTCBPrioTbl
        BY <1>3
      <3>3. CASE q = p
        BY <1>4, <1>6, <1>7, <2>2, <3>1, <3>2, <3>3
      <3>4. CASE q # p
        <4>1. q \in OSEventTbl'[d] <=> q \in OSEventTbl[d]
          BY <1>4, <3>4
        <4>. QED
          BY <1>6, <1>7, <2>1, <3>1, <3>2, <3>4, <4>1
      <3>. QED
        BY <3>3, <3>4
    <2>. QED
      BY <2>3 DEF WaitersFollow
  <1>. QED
    BY <1>9, <1>10, <1>11, <1>12, <1>13, <1>14, <1>15

(* The control block goes to the free list, what its task had in hand is   *)
(* lost.                                                                   *)
LEMMA UnlinkKeeps ==
  ASSUME TasksInv, NEW t \in TCB \ {Idle}, OSTaskDelUnlink(t)
  PROVE  Tables'
  <1>a. PICK u : u = newTCB[t]
    OBVIOUS
  <1>b. PICK p : p = newPrio[t]
    OBVIOUS
  <1> USE DEF Tables, TasksInv, prioVars, waitVars, stateVars
  <1>1. pc[t] = "del" /\ \A v \in TCB : v # t => pc[v] # "del"
    BY DEF OSTaskDelUnlink, Cpu
  <1>2. /\ u \in TCB /\ u # Idle /\ pc[u] # "free" /\ p = OSTCBPrio[u] /\ p \in AnyPrio
        /\ u \notin OSTCBFreeList \cup orphans.blocks
        /\ OSTCBPrioTbl[p] = u
        /\ \A q \in AnyPrio : OSTCBPrioTbl[q] = u => q = p
    BY <1>a, <1>b, <1>1, PointerAssumption DEF BlocksExact, PriosExact, TablesTypeOK
  <1>3. \A v \in TCB : BeingDeleted(v) <=> v = u
    BY <1>a, <1>1 DEF BeingDeleted
  <1>4. p \notin OSRdyTbl /\ Stat[u] = {} /\ Dly[u] = 0 /\ StatPend[u] = "OK"
    BY <1>2, <1>3 DEF ReadyFollows, StatusExact
  <1>5. /\ OSTCBPrioTbl' = [OSTCBPrioTbl EXCEPT ![p] = NULL]
        /\ OSTCBFreeList' = OSTCBFreeList \cup {u}
        /\ newPrio' = [newPrio EXCEPT ![t] = IdlePrio, ![u] = IdlePrio]
        /\ newTCB' = [newTCB EXCEPT ![t] = NULL, ![u] = NULL]
        /\ pc' = [pc EXCEPT ![t] = "task", ![u] = "free"]
        /\ UNCHANGED <<OSTCBPrio, stateVars, waitVars, stale>>
    BY <1>a, <1>b DEF OSTaskDelUnlink
  <1>6. /\ orphans' \in [prios : SUBSET AnyPrio, blocks : SUBSET TCB]
        /\ orphans'.prios = orphans.prios \cup (IF Creating(u) THEN {newPrio[u]} ELSE {})
        /\ orphans'.blocks = orphans.blocks \cup (IF pc[u] = "link" THEN {newTCB[u]} ELSE {})
    <2>1. {newPrio[c] : c \in {u} \cap Creators} = IF Creating(u) THEN {newPrio[u]} ELSE {}
      BY <1>2 DEF Creators, Creating
    <2>2. {newTCB[c] : c \in {u} \cap Linkers} = IF pc[u] = "link" THEN {newTCB[u]} ELSE {}
      BY <1>2 DEF Linkers
    <2>3. orphans' = [prios  |-> orphans.prios \cup (IF Creating(u) THEN {newPrio[u]} ELSE {}),
                      blocks |-> orphans.blocks \cup (IF pc[u] = "link" THEN {newTCB[u]} ELSE {})]
      BY <1>a, <2>1, <2>2 DEF OSTaskDelUnlink
    <2>4. pc[u] = "link" => newTCB[u] \in TCB
      BY <1>2 DEF BlocksExact, TablesTypeOK
    <2>5. newPrio[u] \in AnyPrio
      BY <1>2 DEF TablesTypeOK
    <2>. QED
      BY <2>3, <2>4, <2>5 DEF TablesTypeOK
  <1>7. /\ \A v \in TCB : /\ newTCB'[v] = (IF v \in {t, u} THEN NULL ELSE newTCB[v])
                          /\ newPrio'[v] = (IF v \in {t, u} THEN IdlePrio ELSE newPrio[v])
                          /\ pc'[v] = (IF v = u THEN "free" ELSE IF v = t THEN "task" ELSE pc[v])
        /\ \A q \in AnyPrio : OSTCBPrioTbl'[q] = IF q = p THEN NULL ELSE OSTCBPrioTbl[q]
    BY <1>2, <1>5 DEF TablesTypeOK
  <1>8. TablesTypeOK'
    BY <1>2, <1>5, <1>6, PrioIsNat DEF TablesTypeOK, Locations
  <1>9. PriosExact'
    BY <1>1, <1>2, <1>5, <1>7, IdleAssumption, PointerAssumption DEF PriosExact, TablesTypeOK
  <1>10. BlocksExact'
    <2>1. \A v \in TCB : pc'[v] # "del" /\ (pc'[v] = "link" <=> pc[v] = "link" /\ v # u)
      BY <1>1, <1>7
    <2>2. \A v \in TCB : newTCB'[v] # NULL <=> pc'[v] \in {"link", "del"}
      BY <1>1, <1>7, <2>1 DEF BlocksExact
    <2>3. ASSUME NEW v \in TCB, pc'[v] = "link"
          PROVE  /\ newTCB'[v] = newTCB[v] /\ newTCB[v] \in TCB
                 /\ pc'[newTCB[v]] = "free" /\ newTCB[v] # u
                 /\ newTCB[v] \notin OSTCBFreeList' \cup orphans'.blocks
      <3>1. pc[v] = "link" /\ v # u /\ v # t
        BY <1>1, <2>1, <2>3
      <3>2. /\ newTCB[v] \in TCB /\ pc[newTCB[v]] = "free"
            /\ newTCB[v] \notin OSTCBFreeList \cup orphans.blocks
        BY <3>1 DEF BlocksExact, TablesTypeOK
      <3>3. pc[u] = "link" => newTCB[u] # newTCB[v]
        BY <1>2, <3>1 DEF BlocksExact
      <3>. QED
        BY <1>1, <1>2, <1>5, <1>6, <1>7, <3>1, <3>2, <3>3
    <2>4. \A v, w \in TCB : pc'[v] = "link" /\ pc'[w] = "link" /\ newTCB'[v] = newTCB'[w] => v = w
      BY <2>1, <2>3 DEF BlocksExact
    <2>5. ASSUME NEW w \in TCB
          PROVE  pc'[w] = "free" <=>
                   \/ w \in OSTCBFreeList' \cup orphans'.blocks
                   \/ \E v \in TCB : pc'[v] = "link" /\ newTCB'[v] = w
      <3>1. pc'[w] = "free" <=> w = u \/ pc[w] = "free"
        BY <1>1, <1>7
      <3>2. pc[w] = "free" <=>
              \/ w \in OSTCBFreeList \cup orphans.blocks
              \/ \E v \in TCB : pc[v] = "link" /\ newTCB[v] = w
        BY DEF BlocksExact
      <3>3. (\E v \in TCB : pc[v] = "link" /\ newTCB[v] = w) <=>
              \/ pc[u] = "link" /\ newTCB[u] = w
              \/ \E v \in TCB : pc'[v] = "link" /\ newTCB'[v] = w
        BY <1>2, <2>1, <2>3
      <3>4. w \in OSTCBFreeList' \cup orphans'.blocks <=>
              w \in OSTCBFreeList \cup orphans.blocks \/ w = u \/ (pc[u] = "link" /\ newTCB[u] = w)
        BY <1>5, <1>6
      <3>. QED
        BY <3>1, <3>2, <3>3, <3>4
    <2>6. OSTCBFreeList' \cap orphans'.blocks = {}
      <3>1. OSTCBFreeList \cap orphans.blocks = {}
        BY DEF BlocksExact
      <3>2. pc[u] = "link" => newTCB[u] \notin OSTCBFreeList /\ newTCB[u] # u
        BY <1>2 DEF BlocksExact
      <3>. QED
        BY <1>2, <1>5, <1>6, <3>1, <3>2
    <2>. QED
      BY <2>1, <2>2, <2>3, <2>4, <2>5, <2>6 DEF BlocksExact
  <1>11. ReservedExact'
    <2>1. \A v \in TCB : Creating(v)' <=> Creating(v) /\ v # u
      BY <1>1, <1>7 DEF Creating
    <2>2. \A v \in TCB : Creating(v) => v # t
      BY <1>1 DEF Creating
    <2>3. \A v \in TCB : Creating(v)' => newPrio'[v] = newPrio[v]
      BY <1>7, <2>1, <2>2
    <2>4. \A q \in AnyPrio : OSTCBPrioTbl'[q] = RESERVED <=> OSTCBPrioTbl[q] = RESERVED
      BY <1>2, <1>7, PointerAssumption
    <2>5. \A v \in TCB : newPrio[v] \in AnyPrio
      BY DEF TablesTypeOK
    <2>6. ASSUME NEW v \in TCB, Creating(v)'
          PROVE  OSTCBPrioTbl'[newPrio'[v]] = RESERVED /\ newPrio'[v] \notin orphans'.prios
      <3>1. Creating(v) /\ v # u /\ newPrio'[v] = newPrio[v]
        BY <2>1, <2>3, <2>6
      <3>2. OSTCBPrioTbl[newPrio[v]] = RESERVED /\ newPrio[v] \notin orphans.prios
        BY <3>1 DEF ReservedExact
      <3>3. Creating(u) => newPrio[u] # newPrio[v]
        BY <1>2, <3>1 DEF ReservedExact
      <3>. QED
        BY <1>6, <2>4, <2>5, <3>1, <3>2, <3>3
    <2>7. \A v, w \in TCB : Creating(v)' /\ Creating(w)' /\ newPrio'[v] = newPrio'[w] => v = w
      BY <2>1, <2>3 DEF ReservedExact
    <2>8. ASSUME NEW q \in AnyPrio
          PROVE  OSTCBPrioTbl'[q] = RESERVED <=>
                   q \in orphans'.prios \/ \E v \in TCB : Creating(v)' /\ newPrio'[v] = q
      <3>1. OSTCBPrioTbl[q] = RESERVED <=>
              q \in orphans.prios \/ \E v \in TCB : Creating(v) /\ newPrio[v] = q
        BY DEF ReservedExact
      <3>2. (\E v \in TCB : Creating(v) /\ newPrio[v] = q) <=>
              \/ Creating(u) /\ newPrio[u] = q
              \/ \E v \in TCB : Creating(v)' /\ newPrio'[v] = q
        BY <1>2, <2>1, <2>3
      <3>3. q \in orphans'.prios <=> q \in orphans.prios \/ (Creating(u) /\ newPrio[u] = q)
        BY <1>6
      <3>. QED
        BY <2>4, <3>1, <3>2, <3>3
    <2>. QED
      BY <2>6, <2>7, <2>8 DEF ReservedExact
  <1>12. \A v \in TCB : ~BeingDeleted(v)'
    BY <1>1, <1>7 DEF BeingDeleted
  <1>13. StatusExact'
    <2>1. UNCHANGED <<Stat, StatPend, Dly, EventPtr, EventMultiPtr>>
      BY <1>5
    <2>. QED
      BY <1>1, <1>2, <1>4, <1>7, <1>12, <2>1, IdleAssumption DEF StatusExact
  <1>14. ReadyFollows'
    <2>1. UNCHANGED <<Stat, Dly, OSRdyTbl, OSTCBPrio>>
      BY <1>5
    <2>2. \A v \in TCB : pc'[v] # "free" => pc[v] # "free" /\ v # u
      BY <1>1, <1>7
    <2>3. \A q \in OSRdyTbl : OSTCBPrioTbl'[q] = OSTCBPrioTbl[q]
      BY <1>4, <1>7 DEF TablesTypeOK
    <2>4. \A q \in OSRdyTbl' : OSTCBPrioTbl'[q] \in TCB
      BY <2>1, <2>3 DEF ReadyFollows
    <2>5. \A v \in TCB : pc'[v] # "free" => (OSTCBPrio'[v] \in OSRdyTbl' <=> Stat'[v] = {} /\ Dly'[v] = 0)
      BY <1>3, <2>1, <2>2 DEF ReadyFollows
    <2>. QED
      BY <1>12, <2>4, <2>5 DEF ReadyFollows
  <1>15. WaitersFollow'
    <2>1. ASSUME NEW d \in Event, NEW v \in TCB, v # u
          PROVE  WaitsFor(v, d)' <=> WaitsFor(v, d)
      <3>1. UNCHANGED <<Stat, StatPend, EventPtr>>
        BY <1>5
      <3>2. pc'[v] = "pend" <=> pc[v] = "pend"
        BY <1>1, <1>7, <2>1
      <3>. QED
        BY <3>1, <3>2 DEF WaitsFor
    <2>2. \A d \in Event : ~WaitsFor(u, d)
      BY <1>4 DEF WaitsFor
    <2>3. ASSUME NEW q \in AnyPrio, NEW d \in Event
          PROVE  (OSTCBPrioTbl'[q] \in TCB /\ WaitsFor(OSTCBPrioTbl[q], d)') <=>
                   (OSTCBPrioTbl[q] \in TCB /\ WaitsFor(OSTCBPrioTbl[q], d))
      <3>1. CASE q = p
        BY <1>2, <1>7, <2>2, <3>1, PointerAssumption
      <3>2. CASE q # p
        <4>1. OSTCBPrioTbl'[q] = OSTCBPrioTbl[q] /\ OSTCBPrioTbl[q] # u
          BY <1>2, <1>7, <3>2
        <4>. QED
          BY <2>1, <4>1
      <3>. QED
        BY <3>1, <3>2
    <2>. QED
      BY <1>5, <2>3, NotInvolved
  <1>. QED
    BY <1>8, <1>9, <1>10, <1>11, <1>13, <1>14, <1>15

(* A move of a task takes its bits along, and puts a stale one into the    *)
(* list of an event that it no longer waits for.                           *)
LEMMA MoveKeeps ==
  ASSUME TasksInv, \A v \in TCB : pc[v] # "del", NEW p \in Prio, NEW q \in Prio,
         OSTaskChangePrio(p, q), UNCHANGED <<pc, OSTCBFreeList, newPrio, newTCB, orphans>>
  PROVE  Tables'
  <1>a. PICK t : t = OSTCBPrioTbl[p]
    OBVIOUS
  <1> DEFINE new == {<<e, q>> : e \in {d \in Event \cap ({EventPtr[t]} \cup EventMultiPtr[t]) :
                                         ~WaitsFor(t, d)}}
  <1> USE DEF Tables, TasksInv
  <1>1. /\ p \in AnyPrio /\ q \in AnyPrio /\ p # q /\ OSTCBPrioTbl[q] = NULL
        /\ t \in TCB \ {Idle} /\ OSTCBPrio[t] = p /\ pc[t] # "free"
        /\ EventMultiPtr[t] = {}
    BY <1>a, HasTaskIs, PointerAssumption DEF OSTaskChangePrio, HasTask, AnyPrio, StatusExact
  <1>2. /\ OSTCBPrioTbl' = [OSTCBPrioTbl EXCEPT ![p] = NULL, ![q] = t]
        /\ OSTCBPrio' = [OSTCBPrio EXCEPT ![t] = q]
        /\ OSRdyTbl' = IF p \in OSRdyTbl THEN (OSRdyTbl \ {p}) \cup {q} ELSE OSRdyTbl
        /\ OSEventTbl' = [e \in Event |->
             IF e \in {EventPtr[t]} \cup EventMultiPtr[t] THEN (OSEventTbl[e] \ {p}) \cup {q}
                                                         ELSE OSEventTbl[e]]
        /\ Stale(new)
        /\ UNCHANGED <<Stat, StatPend, Dly, EventPtr, EventMultiPtr>>
    BY <1>a DEF OSTaskChangePrio
  <1>3. \A e \in Event : OSEventTbl'[e] =
          IF e = EventPtr[t] THEN (OSEventTbl[e] \ {p}) \cup {q} ELSE OSEventTbl[e]
    BY <1>1, <1>2
  <1>4. OSEventTbl' \in [Event -> SUBSET AnyPrio]
    BY <1>1, <1>2 DEF TablesTypeOK
  <1>5. /\ new \in SUBSET (Event \X AnyPrio)
        /\ \A e \in Event, r \in AnyPrio :
             <<e, r>> \in new <=> r = q /\ e = EventPtr[t] /\ ~WaitsFor(t, e)
    BY <1>1
  <1>6. /\ stale' \subseteq Event \X AnyPrio
        /\ \A e \in Event, r \in AnyPrio :
             <<e, r>> \in stale' <=>
               (<<e, r>> \in stale \/ <<e, r>> \in new) /\ r \in OSEventTbl'[e]
    BY <1>2, <1>4, <1>5, StaleIs
  <1> HIDE DEF new
  <1>7. /\ \A u \in TCB : u # t => OSTCBPrio'[u] = OSTCBPrio[u] /\ (pc[u] # "free" => OSTCBPrio[u] # p)
        /\ \A u \in TCB : pc[u] # "free" => OSTCBPrio[u] # q
        /\ OSTCBPrio'[t] = q /\ q \notin OSRdyTbl
    BY <1>a, <1>1, <1>2, PointerAssumption DEF PriosExact, ReadyFollows, TablesTypeOK
  <1>8. \A r \in AnyPrio : OSTCBPrioTbl'[r] = IF r = q THEN t ELSE IF r = p THEN NULL
                                                            ELSE OSTCBPrioTbl[r]
    BY <1>1, <1>2 DEF TablesTypeOK
  <1>9. TablesTypeOK'
    BY <1>1, <1>2, <1>4, <1>6 DEF TablesTypeOK
  <1>10. PriosExact'
    BY <1>1, <1>2, <1>7, PointerAssumption DEF PriosExact, TablesTypeOK
  <1>11. BlocksExact'
    BY DEF BlocksExact
  <1>12. ReservedExact'
    BY <1>a, <1>1, <1>2, PointerAssumption DEF ReservedExact, Creating, TablesTypeOK
  <1>13. \A u : BeingDeleted(u)' <=> BeingDeleted(u)
    BY DEF BeingDeleted
  <1>14. StatusExact'
    BY <1>2, <1>13 DEF StatusExact
  <1>15. \A u \in TCB : ~BeingDeleted(u)'
    BY DEF BeingDeleted
  <1>16. ReadyFollows'
    BY <1>1, <1>2, <1>7, <1>13, <1>15, PointerAssumption DEF ReadyFollows, TablesTypeOK
  <1>17. WaitersFollow'
    <2>1. \A e \in Event : \A u \in TCB : WaitsFor(u, e)' <=> WaitsFor(u, e)
      BY <1>2 DEF WaitsFor
    <2>2. \A e \in Event : WaitsFor(t, e) => e = EventPtr[t]
      BY DEF WaitsFor
    <2>3. ASSUME NEW e \in Event, NEW r \in AnyPrio
          PROVE  r \in OSEventTbl'[e] <=>
                   \/ <<e, r>> \in stale'
                   \/ OSTCBPrioTbl'[r] \in TCB /\ WaitsFor(OSTCBPrioTbl[r], e)'
      <3>1. r \in OSEventTbl[e] <=>
              <<e, r>> \in stale \/ (OSTCBPrioTbl[r] \in TCB /\ WaitsFor(OSTCBPrioTbl[r], e))
        BY DEF WaitersFollow
      <3>2. CASE r = q
        <4>1. OSTCBPrioTbl'[r] = t /\ OSTCBPrioTbl[r] \notin TCB
          BY <1>1, <1>8, <3>2, PointerAssumption
        <4>2. WaitsFor(OSTCBPrioTbl[r], e)' <=> WaitsFor(t, e)
          BY <1>1, <2>1, <4>1
        <4>3. r \in OSEventTbl'[e] <=> e = EventPtr[t] \/ r \in OSEventTbl[e]
          BY <1>1, <1>3, <3>2
        <4>4. <<e, r>> \in stale' <=>
                (<<e, r>> \in stale \/ (e = EventPtr[t] /\ ~WaitsFor(t, e))) /\ r \in OSEventTbl'[e]
          BY <1>5, <1>6, <3>2
        <4>5. WaitsFor(t, e) => e = EventPtr[t]
          BY <2>2
        <4>6. OSTCBPrioTbl'[r] \in TCB
          BY <1>1, <4>1
        <4>. QED
          BY <3>1, <4>1, <4>2, <4>3, <4>4, <4>5, <4>6
      <3>3. CASE r = p
        <4>1. OSTCBPrioTbl'[r] \notin TCB /\ OSTCBPrioTbl[r] = t
          BY <1>a, <1>1, <1>8, <3>3, PointerAssumption
        <4>2. r \in OSEventTbl'[e] <=> e # EventPtr[t] /\ r \in OSEventTbl[e]
          BY <1>1, <1>3, <3>3
        <4>3. <<e, r>> \in stale' <=> <<e, r>> \in stale /\ r \in OSEventTbl'[e]
          BY <1>1, <1>5, <1>6, <3>3
        <4>4. WaitsFor(t, e) => e = EventPtr[t]
          BY <2>2
        <4>. QED
          BY <3>1, <4>1, <4>2, <4>3, <4>4
      <3>4. CASE r # q /\ r # p
        <4>1. OSTCBPrioTbl'[r] = OSTCBPrioTbl[r] /\ (r \in OSEventTbl'[e] <=> r \in OSEventTbl[e])
          BY <1>3, <1>8, <3>4
        <4>. QED
          BY <1>5, <1>6, <2>1, <3>1, <3>4, <4>1
      <3>. QED
        BY <3>2, <3>3, <3>4
    <2>. QED
      BY <2>3 DEF WaitersFollow
  <1>. QED
    BY <1>9, <1>10, <1>11, <1>12, <1>14, <1>16, <1>17

-----------------------------------------------------------------------------
(* The processor.                                                          *)

LEMMA MostUrgentStays ==
  ASSUME NEW S \in SUBSET AnyPrio, NEW R \in SUBSET S, MostUrgent(S) \in R
  PROVE  MostUrgent(R) = MostUrgent(S)
  <1>1. PICK p \in S : \A q \in S : p <= q
    BY Least, PrioIsNat
  <1>2. MostUrgent(S) \in S /\ \A q \in S : MostUrgent(S) <= q
    BY <1>1 DEF MostUrgent
  <1>3. \A q \in R : MostUrgent(S) <= q
    BY <1>2
  <1>4. MostUrgent(R) \in R /\ \A q \in R : MostUrgent(R) <= q
    BY <1>3 DEF MostUrgent
  <1>5. MostUrgent(S) \in Nat /\ MostUrgent(R) \in Nat
    BY <1>2, <1>4, PrioIsNat
  <1>. QED
    BY <1>2, <1>3, <1>4, <1>5

(* What a service called by a task leaves to OS_Sched.                     *)
LEMMA ThenSchedKeeps ==
  ASSUME TasksInv, NEW t \in TCB \ {Idle}, Running(t), NEW b \in BOOLEAN, ThenSched(t, b),
         DelReq' \in [TCB -> BOOLEAN], cnt' \in [Event -> Nat],
         \A u \in TCB : pc'[u] # "del", OSLockNesting > 0 => pc'[t] # "pend",
         OSTCBPrioTbl'[OSPrioCur] \in {t, NULL},
         ~b /\ OSLockNesting = 0 => OSRdyTbl' \subseteq OSRdyTbl /\ OSPrioCur \in OSRdyTbl'
  PROVE  Cpu'
  <1> USE DEF TasksInv, Cpu, CpuTypeOK
  <1>1. /\ sched' = [sched EXCEPT ![t] = b] /\ OSTCBCur = t /\ ~sched[t]
        /\ UNCHANGED <<OSTCBCur, OSPrioCur, OSLockNesting>>
    BY DEF ThenSched, Running
  <1>2. ~b /\ OSLockNesting = 0 => OSPrioCur = MostUrgent(OSRdyTbl')
    BY <1>1, MostUrgentStays DEF Tables, TablesTypeOK
  <1>3. sched'[t] = b /\ sched' \in [TCB -> BOOLEAN] /\ sched'[Idle] = sched[Idle]
    BY <1>1, IdleAssumption, ZenonT(30)
  <1>. QED
    BY <1>1, <1>2, <1>3

LEMMA IntExitKeeps ==
  ASSUME Cpu, Tables', UNCHANGED <<prioVars, taskVars>>, OSIntExit, cnt' \in [Event -> Nat]
  PROVE  Cpu'
  <1> USE DEF Cpu, CpuTypeOK, prioVars, taskVars
  <1>1. UNCHANGED <<OSLockNesting, sched, pc>>
    BY DEF OSIntExit
  <1>2. CASE OSLockNesting = 0
    <2>1. (/\ MostUrgent(OSRdyTbl) \in OSRdyTbl
           /\ OSTCBPrioTbl[MostUrgent(OSRdyTbl)] \in TCB
           /\ OSTCBPrio[OSTCBPrioTbl[MostUrgent(OSRdyTbl)]] = MostUrgent(OSRdyTbl))'
      BY MostUrgentIsATasks, PTL
    <2>2. MostUrgent(OSRdyTbl') \in AnyPrio
      BY <2>1 DEF Tables, TablesTypeOK
    <2>3. OS_SchedNew(OSRdyTbl', OSTCBPrioTbl')
      BY <1>2 DEF OSIntExit
    <2>4. /\ OSPrioCur' = MostUrgent(OSRdyTbl') /\ OSTCBCur' = OSTCBPrioTbl'[MostUrgent(OSRdyTbl')]
      BY <2>1, <2>3, PointerAssumption DEF OS_SchedNew
    <2>. QED
      BY <1>1, <1>2, <2>1, <2>2, <2>4
  <1>3. CASE OSLockNesting # 0
    BY <1>1, <1>3 DEF OSIntExit
  <1>. QED
    BY <1>2, <1>3

LEMMA SchedKeeps ==
  ASSUME TasksInv, NEW t \in TCB, OS_Sched(t), UNCHANGED <<taskVars, cnt>>
  PROVE  Cpu'
  <1> USE DEF TasksInv, Cpu, CpuTypeOK, prioVars, stateVars, taskVars
  <1>1. /\ OSTCBCur = t /\ sched[t] /\ sched' = [sched EXCEPT ![t] = FALSE]
        /\ UNCHANGED <<OSTCBPrioTbl, OSTCBPrio, OSRdyTbl, OSLockNesting, pc>>
    BY DEF OS_Sched
  <1>2. sched' \in [TCB -> BOOLEAN] /\ \A u \in TCB : sched'[u] => sched[u]
    BY <1>1, ZenonT(30)
  <1>3. \A u \in TCB : pc[u] # "del"
    BY <1>1
  <1>4. CASE OSLockNesting = 0
    <2>1. OS_SchedNew(OSRdyTbl, OSTCBPrioTbl)
      BY <1>4 DEF OS_Sched
    <2>2. MostUrgent(OSRdyTbl) \in AnyPrio
      BY MostUrgentIsATasks DEF Tables, TablesTypeOK
    <2>3. OSPrioCur' = MostUrgent(OSRdyTbl) /\ OSTCBCur' = OSTCBPrioTbl[MostUrgent(OSRdyTbl)]
      BY <2>1, MostUrgentIsATasks, PointerAssumption DEF OS_SchedNew
    <2>. QED
      BY <1>1, <1>2, <1>3, <1>4, <2>2, <2>3, MostUrgentIsATasks, IdleAssumption
  <1>5. CASE OSLockNesting # 0
    BY <1>1, <1>2, <1>3, <1>5, IdleAssumption DEF OS_Sched
  <1>. QED
    BY <1>4, <1>5

(* A step of the running task in which the scheduler has no part.          *)
LEMMA CpuFrame ==
  ASSUME TasksInv, NEW t \in TCB, Running(t), UNCHANGED <<cpuVars, OSRdyTbl>>,
         OSTCBPrioTbl'[OSPrioCur] = OSTCBPrioTbl[OSPrioCur],
         DelReq' \in [TCB -> BOOLEAN], cnt' \in [Event -> Nat],
         \A u \in TCB : pc'[u] # "del", pc'[t] = "pend" => pc[t] = "pend"
  PROVE  Cpu'
  BY DEF TasksInv, Cpu, CpuTypeOK, cpuVars, Running

-----------------------------------------------------------------------------
(* The steps.                                                              *)

LEMMA InTaskIs ==
  ASSUME TasksInv, NEW t \in TCB, InTask(t)
  PROVE  /\ t # Idle /\ Running(t) /\ pc[t] = "task" /\ OSTCBCur = t /\ ~sched[t]
         /\ \A u \in TCB : pc[u] # "del"
         /\ OSTCBPrioTbl[OSPrioCur] \in {t, NULL} /\ OSPrioCur \in AnyPrio
         /\ OSLockNesting = 0 => /\ OSPrioCur \in OSRdyTbl /\ Stat[t] = {}
                                 /\ OSTCBPrio[t] = OSPrioCur /\ OSTCBPrioTbl[OSPrioCur] = t
  <1>1. t # Idle /\ Running(t) /\ pc[t] = "task" /\ OSTCBCur = t /\ ~sched[t]
    BY DEF InTask, Running
  <1>2. OSTCBPrioTbl[OSPrioCur] \in {t, NULL} /\ OSPrioCur \in AnyPrio
    BY <1>1 DEF TasksInv, Cpu, CpuTypeOK
  <1>3. OSLockNesting = 0 => /\ OSPrioCur \in OSRdyTbl /\ Stat[t] = {}
                             /\ OSTCBPrio[t] = OSPrioCur /\ OSTCBPrioTbl[OSPrioCur] = t
    BY <1>1, RunningFree
  <1>. QED
    BY <1>1, <1>2, <1>3, NobodyDeletes

LEMMA SuspendCall ==
  ASSUME TasksInv, NEW t \in TCB, InTask(t), NEW p \in Prio, OSTaskSuspend(p),
         ThenSched(t, Stat'[t] # Stat[t]), UNCHANGED <<pc, taskVars, cnt, history>>
  PROVE  TasksInv'
  <1> DEFINE b == Stat'[t] # Stat[t]
             v == OSTCBPrioTbl[p]
  <1> USE InTaskIs
  <1>1. Tables'
    BY SuspendKeeps DEF TasksInv, blockVars, taskVars, history, OSTaskSuspend
  <1>2. /\ v \in TCB /\ OSRdyTbl' = OSRdyTbl \ {OSTCBPrio[v]} /\ OSTCBPrio[v] = p
        /\ Stat' = [Stat EXCEPT ![v] = @ \cup {"SUSPEND"}] /\ UNCHANGED prioVars
    BY HasTaskIs DEF OSTaskSuspend, TasksInv
  <1>3. ~b /\ OSLockNesting = 0 => OSRdyTbl' \subseteq OSRdyTbl /\ OSPrioCur \in OSRdyTbl'
    <2>1. v = t /\ OSLockNesting = 0 => b
      BY <1>2 DEF TasksInv, Tables, TablesTypeOK
    <2>2. v # t /\ OSLockNesting = 0 => p # OSPrioCur
      OBVIOUS
    <2>. QED
      BY <1>2, <2>1, <2>2
  <1>4. b \in BOOLEAN /\ ThenSched(t, b)
    OBVIOUS
  <1>5. OSTCBPrioTbl'[OSPrioCur] \in {t, NULL} /\ \A u \in TCB : pc'[u] # "del"
    BY <1>2 DEF prioVars
  <1>6. DelReq' \in [TCB -> BOOLEAN] /\ cnt' \in [Event -> Nat] /\ pc'[t] # "pend"
    BY DEF taskVars, TasksInv, Cpu, CpuTypeOK
  <1> HIDE DEF b, v
  <1>7. Cpu'
    BY <1>3, <1>4, <1>5, <1>6, ThenSchedKeeps
  <1>. QED
    BY <1>1, <1>7 DEF TasksInv

LEMMA ResumeCall ==
  ASSUME TasksInv, NEW t \in TCB, InTask(t), NEW p \in Prio, OSTaskResume(p) \/ OSTimeDlyResume(p),
         ThenSched(t, BecameReady), UNCHANGED <<pc, taskVars, cnt, history>>
  PROVE  TasksInv'
  <1> USE InTaskIs
  <1>1. UNCHANGED prioVars /\ OSRdyTbl \subseteq OSRdyTbl'
    BY DEF OSTaskResume, OSTimeDlyResume, TimersEnd
  <1>2. Tables'
    BY <1>1, ResumeKeeps, DlyResumeKeeps DEF TasksInv, blockVars, taskVars, history
  <1>3. /\ ~BecameReady /\ OSLockNesting = 0 =>
             OSRdyTbl' \subseteq OSRdyTbl /\ OSPrioCur \in OSRdyTbl'
        /\ BecameReady \in BOOLEAN
    BY <1>1 DEF BecameReady
  <1>4. OSTCBPrioTbl'[OSPrioCur] \in {t, NULL} /\ \A u \in TCB : pc'[u] # "del"
    BY <1>1 DEF prioVars
  <1>5. DelReq' \in [TCB -> BOOLEAN] /\ cnt' \in [Event -> Nat] /\ pc'[t] # "pend"
    BY DEF taskVars, TasksInv, Cpu, CpuTypeOK
  <1>6. Cpu'
    BY <1>3, <1>4, <1>5, ThenSchedKeeps
  <1>. QED
    BY <1>2, <1>6 DEF TasksInv

LEMMA MoveCall ==
  ASSUME TasksInv, NEW t \in TCB, InTask(t), NEW p \in Prio, NEW q \in Prio,
         OSTaskChangePrio(p, q), ThenSched(t, TRUE), UNCHANGED <<pc, taskVars, cnt, orphans>>
  PROVE  TasksInv'
  <1> USE InTaskIs
  <1>1. Tables'
    BY MoveKeeps DEF taskVars
  <1>2. OSTCBPrioTbl'[OSPrioCur] \in {t, NULL}
    <2>1. /\ OSTCBPrioTbl' = [OSTCBPrioTbl EXCEPT ![p] = NULL, ![q] = OSTCBPrioTbl[p]]
          /\ q # OSPrioCur
      BY DEF OSTaskChangePrio
    <2>. QED
      BY <2>1 DEF TasksInv, Tables, TablesTypeOK
  <1>3. \A u \in TCB : pc'[u] # "del"
    OBVIOUS
  <1>4. DelReq' \in [TCB -> BOOLEAN] /\ cnt' \in [Event -> Nat] /\ pc'[t] # "pend"
    BY DEF taskVars, TasksInv, Cpu, CpuTypeOK
  <1>5. Cpu'
    BY <1>2, <1>3, <1>4, ThenSchedKeeps
  <1>. QED
    BY <1>1, <1>5 DEF TasksInv

LEMMA DelayCall ==
  ASSUME TasksInv, NEW t \in TCB, InTask(t), NEW ticks \in Ticks, OSTimeDly(t, ticks),
         ThenSched(t, TRUE), UNCHANGED <<pc, taskVars, cnt, history>>
  PROVE  TasksInv'
  <1> USE InTaskIs
  <1>1. Tables'
    BY DelayKeeps DEF TasksInv, blockVars, taskVars, history, OSTimeDly
  <1>2. OSTCBPrioTbl'[OSPrioCur] \in {t, NULL} /\ \A u \in TCB : pc'[u] # "del"
    BY DEF OSTimeDly, prioVars
  <1>3. DelReq' \in [TCB -> BOOLEAN] /\ cnt' \in [Event -> Nat] /\ pc'[t] # "pend"
    BY DEF taskVars, TasksInv, Cpu, CpuTypeOK
  <1>4. Cpu'
    BY <1>2, <1>3, ThenSchedKeeps
  <1>. QED
    BY <1>1, <1>4 DEF TasksInv

LEMMA PostCounts ==
  ASSUME cnt \in [Event -> Nat], NEW e \in Event, OSSemPost(e)
  PROVE  cnt' \in [Event -> Nat] /\ (cnt' # cnt => UNCHANGED <<stateVars, waitVars>>)
         /\ UNCHANGED prioVars
  BY DEF OSSemPost

LEMMA PostCall ==
  ASSUME TasksInv, NEW t \in TCB, InTask(t), NEW e \in Event, OSSemPost(e),
         ThenSched(t, cnt' = cnt), UNCHANGED <<pc, taskVars>>
  PROVE  TasksInv'
  <1> USE InTaskIs
  <1>1. Tables'
    BY PostKeeps DEF TasksInv, taskVars
  <1>2. cnt \in [Event -> Nat]
    BY DEF TasksInv, Cpu, CpuTypeOK
  <1>3. UNCHANGED prioVars /\ cnt' \in [Event -> Nat] /\ (cnt' # cnt => UNCHANGED OSRdyTbl)
    BY <1>2, PostCounts DEF stateVars
  <1>4. OSTCBPrioTbl'[OSPrioCur] \in {t, NULL} /\ \A u \in TCB : pc'[u] # "del"
    BY <1>3 DEF prioVars
  <1>5. DelReq' \in [TCB -> BOOLEAN] /\ pc'[t] # "pend"
    BY DEF taskVars, TasksInv, Cpu, CpuTypeOK
  <1>6. Cpu'
    BY <1>3, <1>4, <1>5, ThenSchedKeeps
  <1>. QED
    BY <1>1, <1>6 DEF TasksInv

LEMMA TaskCallKeeps ==
  ASSUME TasksInv, NEW t \in TCB, TaskCall(t)
  PROVE  TasksInv'
  <1>1. InTask(t) /\ UNCHANGED <<pc, taskVars>>
    BY DEF TaskCall
  <1>2. CASE /\ \E p \in Prio : OSTaskSuspend(p)
             /\ ThenSched(t, Stat'[t] # Stat[t]) /\ UNCHANGED <<cnt, history>>
    BY <1>1, <1>2, SuspendCall
  <1>3. CASE /\ \E p \in Prio : OSTaskResume(p) \/ OSTimeDlyResume(p)
             /\ ThenSched(t, BecameReady) /\ UNCHANGED <<cnt, history>>
    BY <1>1, <1>3, ResumeCall
  <1>4. CASE /\ \E p, q \in Prio : OSTaskChangePrio(p, q)
             /\ ThenSched(t, TRUE) /\ UNCHANGED <<cnt, orphans>>
    BY <1>1, <1>4, MoveCall
  <1>5. CASE /\ \E ticks \in Ticks : OSTimeDly(t, ticks)
             /\ ThenSched(t, TRUE) /\ UNCHANGED <<cnt, history>>
    BY <1>1, <1>5, DelayCall
  <1>6. CASE (\E e \in Event : OSSemPost(e)) /\ ThenSched(t, cnt' = cnt)
    BY <1>1, <1>6, PostCall
  <1>. QED
    BY <1>2, <1>3, <1>4, <1>5, <1>6 DEF TaskCall

LEMMA InterruptKeeps ==
  ASSUME TasksInv, Interrupt
  PROVE  TasksInv'
  <1>1. OSIntExit /\ UNCHANGED <<pc, taskVars>>
    BY DEF Interrupt, OSIntExit
  <1>2. cnt \in [Event -> Nat]
    BY DEF TasksInv, Cpu, CpuTypeOK
  <1>3. CASE OSTimeTick /\ UNCHANGED <<cnt, history>>
    <2>1. UNCHANGED prioVars
      BY <1>3 DEF OSTimeTick, TimersEnd
    <2>2. Tables'
      BY <1>1, <1>3, <2>1, TickKeeps DEF TasksInv, blockVars, taskVars, history
    <2>. QED
      BY <1>1, <1>2, <1>3, <2>1, <2>2, IntExitKeeps DEF TasksInv
  <1>4. CASE \E e \in Event : OSSemPost(e)
    <2>1. Tables' /\ UNCHANGED prioVars /\ cnt' \in [Event -> Nat]
      BY <1>1, <1>2, <1>4, PostKeeps, PostCounts DEF TasksInv, taskVars
    <2>. QED
      BY <1>1, <2>1, IntExitKeeps DEF TasksInv
  <1>. QED
    BY <1>3, <1>4 DEF Interrupt

LEMMA SemPendCall ==
  ASSUME TasksInv, NEW t \in TCB, NEW e \in Event, NEW timeout \in Ticks \cup {0},
         OSSemPend(t, e, timeout)
  PROVE  TasksInv'
  <1> USE InTaskIs
  <1>1. Tables'
    BY SemPendKeeps
  <1>2. InTask(t) /\ UNCHANGED <<prioVars, taskVars>> /\ OSLockNesting = 0
    BY DEF OSSemPend
  <1>3. OSTCBPrioTbl'[OSPrioCur] = OSTCBPrioTbl[OSPrioCur] /\ DelReq' \in [TCB -> BOOLEAN]
    BY <1>2 DEF prioVars, taskVars, TasksInv, Cpu, CpuTypeOK
  <1>4. CASE /\ cnt[e] > 0 /\ cnt' = [cnt EXCEPT ![e] = @ - 1]
             /\ UNCHANGED <<stateVars, waitVars, cpuVars, pc>>
    <2>1. cnt' \in [Event -> Nat]
      BY <1>4 DEF TasksInv, Cpu, CpuTypeOK
    <2>. QED
      BY <1>1, <1>2, <1>3, <1>4, <2>1, CpuFrame DEF TasksInv, stateVars
  <1>5. CASE pc' = [pc EXCEPT ![t] = "pend"] /\ ThenSched(t, TRUE) /\ UNCHANGED cnt
    <2>1. cnt' \in [Event -> Nat]
      BY <1>5 DEF TasksInv, Cpu, CpuTypeOK
    <2>2. \A u \in TCB : pc'[u] # "del"
      BY <1>2, <1>5 DEF TasksInv, Tables, TablesTypeOK
    <2>3. t \in TCB \ {Idle} /\ Running(t) /\ ~(OSLockNesting > 0) /\ ThenSched(t, TRUE)
      <3>1. t # Idle /\ Running(t)
        BY <1>2, InTaskIs
      <3>2. ~(OSLockNesting > 0)
        BY <1>2
      <3>3. ThenSched(t, TRUE)
        BY <1>5
      <3>. QED
        BY <3>1, <3>2, <3>3
    <2>4. OSTCBPrioTbl'[OSPrioCur] \in {t, NULL}
      BY <1>2, <1>3
    <2>5. Cpu'
      BY <1>3, <2>1, <2>2, <2>3, <2>4, ThenSchedKeeps
    <2>. QED
      BY <1>1, <2>5 DEF TasksInv
  <1>. QED
    BY <1>4, <1>5 DEF OSSemPend

(* A running task that deletes no other is alone in that.                  *)
LEMMA RunningIs ==
  ASSUME TasksInv, NEW t \in TCB, Running(t)
  PROVE  /\ OSTCBCur = t /\ ~sched[t] /\ OSTCBPrioTbl[OSPrioCur] \in {t, NULL}
         /\ OSPrioCur \in AnyPrio
         /\ pc[t] # "del" => \A u \in TCB : pc[u] # "del"
  BY NobodyDeletes DEF TasksInv, Cpu, CpuTypeOK, Running

LEMMA PendReturnStep ==
  ASSUME TasksInv, NEW t \in TCB, OSSemPendReturn(t)
  PROVE  TasksInv'
  <1>1. Running(t) /\ pc[t] = "pend" /\ pc' = [pc EXCEPT ![t] = "task"]
        /\ UNCHANGED <<OSRdyTbl, prioVars, cpuVars, taskVars, cnt>>
    BY DEF OSSemPendReturn, PendEnds
  <1>2. \A u \in TCB : pc'[u] # "del"
    BY <1>1, RunningIs DEF TasksInv, Tables, TablesTypeOK
  <1>3. Cpu'
    BY <1>1, <1>2, CpuFrame DEF prioVars, taskVars, TasksInv, Cpu, CpuTypeOK
  <1>. QED
    BY <1>3, PendReturnKeeps DEF TasksInv

LEMMA ReserveStep ==
  ASSUME TasksInv, NEW t \in TCB, NEW p \in Prio, ReservePrio(t, p)
  PROVE  TasksInv'
  <1>1. /\ Running(t) /\ pc[t] = "task" /\ pc' = [pc EXCEPT ![t] = "reserved"]
        /\ p # OSPrioCur /\ OSTCBPrioTbl' = [OSTCBPrioTbl EXCEPT ![p] = RESERVED]
        /\ UNCHANGED <<OSRdyTbl, cpuVars, DelReq, cnt>>
    BY DEF ReservePrio, InTask, stateVars
  <1>2. \A u \in TCB : pc'[u] # "del"
    BY <1>1, RunningIs DEF TasksInv, Tables, TablesTypeOK
  <1>3. OSTCBPrioTbl'[OSPrioCur] = OSTCBPrioTbl[OSPrioCur]
    BY <1>1, RunningIs DEF TasksInv, Tables, TablesTypeOK
  <1>4. pc'[t] # "pend" /\ DelReq' \in [TCB -> BOOLEAN] /\ cnt' \in [Event -> Nat]
    BY <1>1 DEF TasksInv, Cpu, CpuTypeOK, Tables, TablesTypeOK
  <1>5. Cpu'
    BY <1>1, <1>2, <1>3, <1>4, CpuFrame
  <1>. QED
    BY <1>5, ReserveKeeps DEF TasksInv

LEMMA TakeStep ==
  ASSUME TasksInv, NEW t \in TCB, TCBInitTake(t)
  PROVE  TasksInv'
  <1>1. /\ Running(t) /\ pc[t] = "reserved"
        /\ pc' = [pc EXCEPT ![t] = "link"] \/ pc' = [pc EXCEPT ![t] = "undo"]
        /\ UNCHANGED <<OSTCBPrioTbl, OSRdyTbl, cpuVars, DelReq, cnt>>
    BY DEF TCBInitTake, stateVars, prioVars
  <1>2. \A u \in TCB : pc'[u] # "del"
    BY <1>1, RunningIs DEF TasksInv, Tables, TablesTypeOK
  <1>3. pc'[t] # "pend" /\ DelReq' \in [TCB -> BOOLEAN] /\ cnt' \in [Event -> Nat]
    BY <1>1 DEF TasksInv, Cpu, CpuTypeOK, Tables, TablesTypeOK
  <1>4. Cpu'
    BY <1>1, <1>2, <1>3, CpuFrame
  <1>. QED
    BY <1>4, TakeKeeps DEF TasksInv

LEMMA UndoStep ==
  ASSUME TasksInv, NEW t \in TCB, CreateUndo(t)
  PROVE  TasksInv'
  <1>1. /\ Running(t) /\ pc[t] = "undo" /\ pc' = [pc EXCEPT ![t] = "task"]
        /\ OSTCBPrioTbl' = [OSTCBPrioTbl EXCEPT ![newPrio[t]] = NULL]
        /\ UNCHANGED <<OSRdyTbl, cpuVars, DelReq, cnt>>
    BY DEF CreateUndo, stateVars
  <1>2. \A u \in TCB : pc'[u] # "del"
    BY <1>1, RunningIs DEF TasksInv, Tables, TablesTypeOK
  <1>3. OSTCBPrioTbl[newPrio[t]] = RESERVED
    BY <1>1 DEF TasksInv, Tables, ReservedExact, Creating
  <1>4. OSTCBPrioTbl'[OSPrioCur] = OSTCBPrioTbl[OSPrioCur]
    BY <1>1, <1>3, RunningIs, PointerAssumption DEF TasksInv, Tables, TablesTypeOK
  <1>5. pc'[t] # "pend" /\ DelReq' \in [TCB -> BOOLEAN] /\ cnt' \in [Event -> Nat]
    BY <1>1 DEF TasksInv, Cpu, CpuTypeOK, Tables, TablesTypeOK
  <1>6. Cpu'
    BY <1>1, <1>2, <1>4, <1>5, CpuFrame
  <1>. QED
    BY <1>6, UndoKeeps DEF TasksInv

LEMMA LinkStep ==
  ASSUME TasksInv, NEW t \in TCB, TCBInitLink(t)
  PROVE  TasksInv'
  <1> DEFINE u == newTCB[t]
             p == newPrio[t]
  <1>1. /\ Running(t) /\ pc[t] = "link"
        /\ OSTCBPrioTbl' = [OSTCBPrioTbl EXCEPT ![p] = u]
        /\ DelReq' = [DelReq EXCEPT ![u] = FALSE]
        /\ pc' = [pc EXCEPT ![t] = "task", ![u] = "task"]
        /\ sched' = [sched EXCEPT ![t] = TRUE, ![u] = FALSE]
        /\ UNCHANGED <<OSTCBCur, OSPrioCur, OSLockNesting, cnt>>
    BY DEF TCBInitLink
  <1>2. u \in TCB /\ pc[u] = "free" /\ u # t /\ t # Idle
    BY <1>1 DEF TasksInv, Tables, BlocksExact, StatusExact, TablesTypeOK
  <1>3. p \in AnyPrio /\ OSTCBPrioTbl[p] = RESERVED
    BY <1>1 DEF TasksInv, Tables, ReservedExact, Creating, TablesTypeOK
  <1> HIDE DEF u, p
  <1>4. \A v \in TCB : pc'[v] # "del"
    BY <1>1, <1>2, RunningIs DEF TasksInv, Tables, TablesTypeOK
  <1>5. OSTCBPrioTbl'[OSPrioCur] \in {t, NULL}
    BY <1>1, <1>3, RunningIs, PointerAssumption DEF TasksInv, Tables, TablesTypeOK
  <1>6. pc'[t] # "pend"
    BY <1>1, <1>2 DEF TasksInv, Tables, TablesTypeOK
  <1>7. sched' \in [TCB -> BOOLEAN] /\ sched'[t] /\ (sched'[Idle] => sched[Idle])
    <2>1. sched \in [TCB -> BOOLEAN] /\ Idle \in TCB
      BY IdleAssumption DEF TasksInv, Cpu, CpuTypeOK
    <2>2. sched' \in [TCB -> BOOLEAN]
      BY <1>1, <2>1, ZenonT(30)
    <2>3. sched'[t] /\ (sched'[Idle] => sched[Idle])
      BY <1>1, <1>2, <2>1, ZenonT(30)
    <2>. QED
      BY <2>2, <2>3
  <1>8. DelReq' \in [TCB -> BOOLEAN]
    BY <1>1 DEF TasksInv, Cpu, CpuTypeOK
  <1>9. Cpu'
    BY <1>1, <1>4, <1>5, <1>6, <1>7, <1>8, RunningIs DEF TasksInv, Cpu, CpuTypeOK
  <1>. QED
    BY <1>9, LinkKeeps DEF TasksInv

LEMMA DisableStep ==
  ASSUME TasksInv, NEW t \in TCB, NEW p \in Prio, OSTaskDelDisable(t, p)
  PROVE  TasksInv'
  <1>1. /\ InTask(t) /\ OSLockNesting' = OSLockNesting + 1
        /\ pc' = [pc EXCEPT ![t] = "del"]
        /\ UNCHANGED <<prioVars, OSTCBCur, OSPrioCur, sched, DelReq, cnt>>
    BY DEF OSTaskDelDisable
  <1>2. pc'[t] = "del" /\ \A u \in TCB : u # t => pc'[u] # "del"
    BY <1>1, InTaskIs DEF TasksInv, Tables, TablesTypeOK
  <1>3. OSLockNesting' \in Nat /\ OSLockNesting' > 0
    BY <1>1 DEF TasksInv, Cpu, CpuTypeOK
  <1>4. Cpu'
    BY <1>1, <1>2, <1>3, InTaskIs DEF TasksInv, Cpu, CpuTypeOK, prioVars
  <1>. QED
    BY <1>4, DisableKeeps DEF TasksInv

LEMMA UnlinkStep ==
  ASSUME TasksInv, NEW t \in TCB \ {Idle}, OSTaskDelUnlink(t)
  PROVE  TasksInv'
  <1>a. PICK u : u = newTCB[t]
    OBVIOUS
  <1>1. /\ Running(t) /\ pc[t] = "del" /\ OSTCBCur = t /\ OSPrioCur \in AnyPrio
        /\ OSTCBPrioTbl[OSPrioCur] \in {t, NULL}
        /\ OSLockNesting \in Nat /\ OSLockNesting > 0
        /\ \A v \in TCB : v # t => pc[v] # "del"
    BY RunningIs DEF OSTaskDelUnlink, TasksInv, Cpu, CpuTypeOK
  <1>2. u \in TCB
    BY <1>a, <1>1 DEF TasksInv, Tables, BlocksExact, TablesTypeOK
  <1>3. /\ OSLockNesting' = OSLockNesting - 1
        /\ OSTCBPrioTbl' = [OSTCBPrioTbl EXCEPT ![newPrio[t]] = NULL]
        /\ pc' = [pc EXCEPT ![t] = "task", ![u] = "free"]
        /\ sched' = [sched EXCEPT ![t] = TRUE]
        /\ UNCHANGED <<OSTCBCur, OSPrioCur, DelReq, cnt>>
    BY <1>a DEF OSTaskDelUnlink
  <1>4. OSTCBPrioTbl'[OSPrioCur] \in {t, NULL}
    BY <1>1, <1>3 DEF TasksInv, Tables, TablesTypeOK
  <1>5. pc'[t] # "pend" /\ \A v \in TCB : pc'[v] # "del"
    BY <1>1, <1>2, <1>3 DEF TasksInv, Tables, TablesTypeOK
  <1>6. sched' \in [TCB -> BOOLEAN] /\ sched'[t] /\ ~sched'[Idle]
    <2>1. sched \in [TCB -> BOOLEAN] /\ Idle \in TCB /\ ~sched[Idle]
      BY IdleAssumption DEF TasksInv, Cpu, CpuTypeOK
    <2>. QED
      BY <1>3, <2>1, ZenonT(30)
  <1>7. OSLockNesting' \in Nat
    BY <1>1, <1>3
  <1>8. Cpu'
    BY <1>1, <1>3, <1>4, <1>5, <1>6, <1>7 DEF TasksInv, Cpu, CpuTypeOK
  <1>. QED
    BY <1>8, UnlinkKeeps DEF TasksInv

LEMMA DelReqStep ==
  ASSUME TasksInv, NEW t \in TCB, NEW p \in Prio, OSTaskDelReq(t, p)
  PROVE  TasksInv'
  <1>1. InTask(t) /\ UNCHANGED <<coreVars, OSTCBFreeList, newPrio, newTCB, cnt, history>>
        /\ DelReq' = [DelReq EXCEPT ![OSTCBPrioTbl[p]] = TRUE]
    BY DEF OSTaskDelReq
  <1>2. Tables'
    BY <1>1, TablesFrame DEF TasksInv, coreVars, tableVars, blockVars, history
  <1>3. DelReq \in [TCB -> BOOLEAN]
    BY DEF TasksInv, Cpu, CpuTypeOK
  <1>4. DelReq' \in [TCB -> BOOLEAN]
    BY <1>1, <1>3, ZenonT(30)
  <1>5. Cpu'
    BY <1>1, <1>4 DEF TasksInv, Cpu, CpuTypeOK, coreVars, prioVars, stateVars, cpuVars
  <1>. QED
    BY <1>2, <1>5 DEF TasksInv

LEMMA LockStep ==
  ASSUME TasksInv, NEW t \in TCB, InTask(t), OSSchedLock(t), UNCHANGED <<taskVars, cnt, history>>
  PROVE  TasksInv'
  <1>1. UNCHANGED <<prioVars, stateVars, waitVars, OSTCBCur, OSPrioCur, sched, pc>>
        /\ OSLockNesting' = OSLockNesting + 1
    BY DEF OSSchedLock
  <1>2. Tables'
    BY <1>1, TablesFrame DEF TasksInv, tableVars, blockVars, taskVars, history
  <1>3. OSLockNesting' \in Nat /\ OSLockNesting' > 0
    BY <1>1 DEF TasksInv, Cpu, CpuTypeOK
  <1>4. Cpu'
    BY <1>1, <1>3, InTaskIs DEF TasksInv, Cpu, CpuTypeOK, prioVars, stateVars, taskVars
  <1>. QED
    BY <1>2, <1>4 DEF TasksInv

LEMMA UnlockStep ==
  ASSUME TasksInv, NEW t \in TCB, InTask(t) \/ WasDeleted(t), OSSchedUnlock(t),
         UNCHANGED <<taskVars, cnt, history>>
  PROVE  TasksInv'
  <1> DEFINE b == OSLockNesting = 1
  <1>1. UNCHANGED <<prioVars, stateVars, waitVars, OSTCBCur, OSPrioCur, pc>>
        /\ OSLockNesting > 0 /\ OSLockNesting' = OSLockNesting - 1
        /\ sched' = [sched EXCEPT ![t] = b]
    BY DEF OSSchedUnlock
  <1>2. Tables'
    BY <1>1, TablesFrame DEF TasksInv, tableVars, blockVars, taskVars, history
  <1>3. OSLockNesting' \in Nat /\ (OSLockNesting' = 0 <=> b)
    BY <1>1 DEF TasksInv, Cpu, CpuTypeOK
  <1>4. b \in BOOLEAN
    OBVIOUS
  <1> HIDE DEF b
  <1>5. /\ t # Idle /\ pc[t] \in {"task", "free"} /\ OSTCBCur = t
        /\ \A u \in TCB : pc[u] # "del"
    <2>1. Running(t) /\ pc[t] \in {"task", "free"}
      BY DEF InTask, WasDeleted
    <2>2. t # Idle
      BY DEF InTask, WasDeleted, TasksInv, Tables, StatusExact
    <2>. QED
      BY <2>1, <2>2, RunningIs
  <1>6. sched' \in [TCB -> BOOLEAN] /\ (sched'[t] <=> b) /\ ~sched'[Idle]
    <2>1. sched \in [TCB -> BOOLEAN] /\ Idle \in TCB /\ ~sched[Idle] /\ t # Idle
      BY <1>5, IdleAssumption DEF TasksInv, Cpu, CpuTypeOK
    <2>. QED
      BY <1>1, <1>4, <2>1, ZenonT(30)
  <1>7. Cpu'
    BY <1>1, <1>3, <1>5, <1>6 DEF TasksInv, Cpu, CpuTypeOK, prioVars, stateVars, taskVars
  <1>. QED
    BY <1>2, <1>7 DEF TasksInv

LEMMA SchedStep ==
  ASSUME TasksInv, NEW t \in TCB, OS_Sched(t), UNCHANGED <<taskVars, cnt, history>>
  PROVE  TasksInv'
  <1>1. Tables'
    BY TablesFrame DEF TasksInv, OS_Sched, tableVars, blockVars, taskVars, history
  <1>. QED
    BY <1>1, SchedKeeps DEF TasksInv

LEMMA StutterStep == TasksInv /\ UNCHANGED vars => TasksInv'
  <1>1. TasksInv /\ UNCHANGED vars => Tables'
    BY TablesFrame DEF TasksInv, vars, coreVars, tableVars, blockVars, taskVars, history
  <1>2. TasksInv /\ UNCHANGED vars => Cpu'
    BY DEF TasksInv, Cpu, CpuTypeOK, vars, coreVars, prioVars, stateVars, cpuVars, taskVars
  <1>. QED
    BY <1>1, <1>2 DEF TasksInv

LEMMA NextKeeps ==
  ASSUME TasksInv, [Next]_vars
  PROVE  TasksInv'
  <1>1. ASSUME NEW t \in TCB \ {Idle},
               \E p \in Prio : OSTaskCreate(t, p) \/ OSTaskCreateExt(t, p) \/ OSTaskDelReq(t, p)
        PROVE  TasksInv'
    BY <1>1, ReserveStep, DelReqStep DEF OSTaskCreate, OSTaskCreateExt
  <1>2. ASSUME NEW t \in TCB \ {Idle}, TCBInitTake(t) \/ TCBInitLink(t) \/ CreateUndo(t)
        PROVE  TasksInv'
    BY <1>2, TakeStep, LinkStep, UndoStep
  <1>3. ASSUME NEW t \in TCB \ {Idle}, (\E p \in Prio : OSTaskDelDisable(t, p)) \/ OSTaskDelUnlink(t)
        PROVE  TasksInv'
    BY <1>3, DisableStep, UnlinkStep
  <1>4. ASSUME NEW t \in TCB \ {Idle},
               \/ \E e \in Event, timeout \in Ticks \cup {0} : OSSemPend(t, e, timeout)
               \/ OSSemPendReturn(t)
        PROVE  TasksInv'
    BY <1>4, SemPendCall, PendReturnStep
  <1>5. ASSUME NEW t \in TCB \ {Idle}, TaskCall(t)
        PROVE  TasksInv'
    BY <1>5, TaskCallKeeps
  <1>6. ASSUME NEW t \in TCB \ {Idle}, UNCHANGED <<taskVars, cnt, history>>,
               \/ InTask(t) /\ OSSchedLock(t)
               \/ (InTask(t) \/ WasDeleted(t)) /\ OSSchedUnlock(t)
               \/ OS_Sched(t)
        PROVE  TasksInv'
    BY <1>6, LockStep, UnlockStep, SchedStep
  <1>7. CASE Interrupt
    BY <1>7, InterruptKeeps
  <1>8. CASE OS_TaskIdle \/ UNCHANGED vars
    BY <1>8, StutterStep DEF OS_TaskIdle
  <1>. QED
    BY <1>1, <1>2, <1>3, <1>4, <1>5, <1>6, <1>7, <1>8 DEF Next

-----------------------------------------------------------------------------
(* The start.                                                              *)

LEMMA InitTables == Init => Tables /\ OSRdyTbl # {} /\ OSRdyTbl \subseteq AnyPrio
  <1> SUFFICES ASSUME Init PROVE Tables /\ OSRdyTbl # {} /\ OSRdyTbl \subseteq AnyPrio
    OBVIOUS
  <1> DEFINE started == First \cup {Idle}
  <1>1. /\ OSTCBPrioTbl = [p \in AnyPrio |-> IF \E t \in started : FirstPrio[t] = p
                              THEN CHOOSE t \in started : FirstPrio[t] = p ELSE NULL]
        /\ OSTCBPrio = FirstPrio
        /\ Stat = [t \in TCB |-> {}] /\ StatPend = [t \in TCB |-> "OK"] /\ Dly = [t \in TCB |-> 0]
        /\ OSRdyTbl = {FirstPrio[t] : t \in started}
        /\ EventPtr = [t \in TCB |-> NULL] /\ EventMultiPtr = [t \in TCB |-> {}]
        /\ OSEventTbl = [e \in Event |-> {}]
        /\ pc = [t \in TCB |-> IF t \in started THEN "task" ELSE "free"]
        /\ OSTCBFreeList = TCB \ started
        /\ newPrio = [t \in TCB |-> IdlePrio] /\ newTCB = [t \in TCB |-> NULL]
        /\ stale = {} /\ orphans = [prios |-> {}, blocks |-> {}]
    BY DEF Init, CoreInit
  <1>2. /\ started \subseteq TCB /\ Idle \in started /\ FirstPrio \in [TCB -> AnyPrio]
        /\ FirstPrio[Idle] = IdlePrio
        /\ \A t, u \in started : FirstPrio[t] = FirstPrio[u] => t = u
    BY FirstAssumption, IdleAssumption
  <1> HIDE DEF started
  <1>3. \A t \in started : OSTCBPrioTbl[FirstPrio[t]] = t
    BY <1>1, <1>2
  <1>4. \A p \in AnyPrio : OSTCBPrioTbl[p] = NULL \/
          (OSTCBPrioTbl[p] \in started /\ FirstPrio[OSTCBPrioTbl[p]] = p)
    BY <1>1
  <1>5. TablesTypeOK
    BY <1>1, <1>2, <1>4, PrioIsNat DEF TablesTypeOK, Locations
  <1>6. PriosExact
    BY <1>1, <1>2, <1>3, <1>4, PointerAssumption DEF PriosExact
  <1>7. BlocksExact
    BY <1>1, <1>2 DEF BlocksExact
  <1>8. ReservedExact
    BY <1>1, <1>2, <1>4, PointerAssumption DEF ReservedExact, Creating
  <1>9. \A t \in TCB : ~BeingDeleted(t)
    BY <1>1 DEF BeingDeleted
  <1>10. StatusExact
    BY <1>1, <1>2, <1>9 DEF StatusExact
  <1>11. ReadyFollows
    BY <1>1, <1>2, <1>3, <1>9 DEF ReadyFollows
  <1>12. WaitersFollow
    BY <1>1 DEF WaitersFollow, WaitsFor
  <1>. QED
    BY <1>1, <1>2, <1>5, <1>6, <1>7, <1>8, <1>10, <1>11, <1>12 DEF Tables

LEMMA InitKeeps == Init => TasksInv
  <1> SUFFICES ASSUME Init PROVE TasksInv
    OBVIOUS
  <1>1. Tables
    BY InitTables
  <1>2. /\ OSPrioCur = MostUrgent(OSRdyTbl) /\ OSTCBCur = OSTCBPrioTbl[OSPrioCur]
        /\ OSLockNesting = 0 /\ sched = [t \in TCB |-> FALSE]
        /\ DelReq = [t \in TCB |-> FALSE] /\ cnt = [e \in Event |-> 0]
        /\ pc = [t \in TCB |-> IF t \in First \cup {Idle} THEN "task" ELSE "free"]
    BY DEF Init, CoreInit
  <1>3. MostUrgent(OSRdyTbl) \in AnyPrio
    BY <1>1, MostUrgentIsATasks DEF Tables, TablesTypeOK
  <1>. QED
    BY <1>1, <1>2, <1>3, MostUrgentIsATasks, IdleAssumption DEF TasksInv, Cpu, CpuTypeOK

-----------------------------------------------------------------------------
(* THEOREMS                                                                *)

(* The tables and the processor agree in every behaviour of the services   *)
(* (OS_TCBInit, OSTaskDel, OSTaskSuspend, OSTaskResume, OSTaskChangePrio,  *)
(* OSTimeDly, OSTimeTick, the semaphores).                                 *)
THEOREM TasksInvHolds == Spec => []TasksInv
  <1>1. TasksInv /\ [Next]_vars => TasksInv'
    BY NextKeeps
  <1>. QED
    BY <1>1, InitKeeps, PTL DEF Spec

(* OSTCBCur and OSPrioCur: with the scheduler unlocked and no call of      *)
(* OS_Sched due, the processor is the most urgent ready task's.            *)
THEOREM RunsMostUrgentHolds == Spec => []RunsMostUrgent
  <1>1. TasksInv => RunsMostUrgent
    BY DEF TasksInv, Cpu, RunsMostUrgent
  <1>. QED
    BY <1>1, TasksInvHolds, PTL

LEMMA InvImpliesReadyExact == TasksInv => ReadyExact
  <1> SUFFICES ASSUME TasksInv, NEW p \in AnyPrio, OSTCBPrioTbl[p] \in TCB
               PROVE  /\ OSTCBPrio[OSTCBPrioTbl[p]] = p
                      /\ BeingDeleted(OSTCBPrioTbl[p]) \/
                           (p \in OSRdyTbl <=> Stat[OSTCBPrioTbl[p]] = {} /\ Dly[OSTCBPrioTbl[p]] = 0)
    BY DEF ReadyExact, OSTaskQuery
  <1>. QED
    BY DEF TasksInv, Tables, PriosExact, ReadyFollows

LEMMA InvImpliesWaitListExact == TasksInv => WaitListExact
  <1> SUFFICES ASSUME TasksInv, NEW e \in Event
               PROVE  OSEventTbl[e] = {OSTCBPrio[t] : t \in {u \in Tasks : WaitsFor(u, e)}}
                                        \cup {p \in AnyPrio : <<e, p>> \in stale}
    BY DEF WaitListExact
  <1>1. \A p \in AnyPrio : p \in OSEventTbl[e] <=>
          <<e, p>> \in stale \/ (OSTCBPrioTbl[p] \in TCB /\ WaitsFor(OSTCBPrioTbl[p], e))
    BY DEF TasksInv, Tables, WaitersFollow
  <1>2. \A p \in AnyPrio :
          (OSTCBPrioTbl[p] \in TCB /\ WaitsFor(OSTCBPrioTbl[p], e)) <=>
             \E t \in Tasks : WaitsFor(t, e) /\ OSTCBPrio[t] = p
    BY DEF Tasks, TasksInv, Tables, PriosExact
  <1>3. OSEventTbl[e] \subseteq AnyPrio /\ \A t \in Tasks : OSTCBPrio[t] \in AnyPrio
    BY DEF Tasks, TasksInv, Tables, TablesTypeOK
  <1>. QED
    BY <1>1, <1>2, <1>3

LEMMA InvImpliesNothingLeaks == TasksInv => NothingLeaks
  <1> SUFFICES ASSUME TasksInv PROVE NothingLeaks
    OBVIOUS
  <1> DEFINE linked == {t \in TCB : \E p \in AnyPrio : OSTCBPrioTbl[p] = t}
             taken  == {newTCB[t] : t \in Linkers} \cup orphans.blocks
  <1> USE DEF TasksInv, Tables, Tasks
  <1>1. linked = Tasks
    BY DEF PriosExact, TablesTypeOK
  <1>2. \A u \in TCB : u \in taken <=>
          u \in orphans.blocks \/ \E t \in TCB : pc[t] = "link" /\ newTCB[t] = u
    BY DEF Linkers
  <1>3. taken \subseteq TCB
    BY DEF Linkers, BlocksExact, TablesTypeOK
  <1> HIDE DEF linked, taken
  <1>4. /\ TCB = OSTCBFreeList \cup linked \cup taken
        /\ OSTCBFreeList \cap (linked \cup taken) = {}
        /\ linked \cap taken = {}
    BY <1>1, <1>2, <1>3 DEF BlocksExact, TablesTypeOK
  <1>5. \A t \in Tasks : OSTCBPrioTbl[OSTCBPrio[t]] = t
    BY DEF PriosExact
  <1>6. {p \in AnyPrio : OSTCBPrioTbl[p] = RESERVED} = {newPrio[t] : t \in Creators} \cup orphans.prios
    BY DEF ReservedExact, Creators, Creating, TablesTypeOK
  <1>7. /\ \A t \in TCB : pc[t] = "del" => OSTCBCur = t
        /\ \A t, u \in Creators : newPrio[t] = newPrio[u] => t = u
    BY DEF Cpu, ReservedExact, Creators, Creating
  <1>. QED
    BY <1>1, <1>4, <1>5, <1>6, <1>7 DEF NothingLeaks, linked, taken

(* No control block or priority leaks but with a task deleted inside       *)
(* OSTaskCreateExt, the ready list holds the tasks that nothing holds, a   *)
(* wait list those who wait and the stale entries that OSTaskChangePrio    *)
(* makes (OSTaskCreateExt, OSTaskDel, OS_EventTaskRdy, OSTimeTick).        *)
THEOREM TablesExactHolds == Spec => []TablesExact
  <1>1. TasksInv => TypeOK
    BY DEF TasksInv, Tables, TablesTypeOK, Cpu, CpuTypeOK, TypeOK, CoreTypeOK
  <1>2. TasksInv => TablesExact
    BY <1>1, InvImpliesReadyExact, InvImpliesWaitListExact, InvImpliesNothingLeaks DEF TablesExact
  <1>. QED
    BY <1>2, TasksInvHolds, PTL
=============================================================================
