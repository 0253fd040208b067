-------------------------- MODULE UcosQueueProofs --------------------------
(***************************************************************************)
(* Proofs about the kernel queue for every set of tasks, every set of      *)
(* messages, every queue size, timeout and delay.                          *)
(***************************************************************************)
EXTENDS UcosQueue, SequenceTheorems, TLAPS

USE TaskAssumption, SizeAssumption, NullAssumption, TimeoutAssumption,
    DelayAssumption

(* Every critical section keeps the types.                                 *)
LEMMA TypeStep == TypeOK /\ [Next]_vars => TypeOK'
<1> SUFFICES ASSUME TypeOK, [Next]_vars PROVE TypeOK'
  OBVIOUS
<1>1. ASSUME NEW t \in Task, OSQPendTake(t) PROVE TypeOK'
  BY <1>1 DEF OSQPendTake, TypeOK, Index, Advance, tcbVars
<1>2. ASSUME NEW t \in Task, OSQPendBlock(t) PROVE TypeOK'
  BY <1>2 DEF OSQPendBlock, OS_EventTaskWait, TypeOK, queueVars
<1>3. ASSUME NEW t \in Task, OSQPendReturn(t) PROVE TypeOK'
  BY <1>3 DEF OSQPendReturn, TypeOK, queueVars
<1>4. ASSUME NEW m \in Message, OSQPostToWaiter(m) PROVE TypeOK'
  BY <1>4 DEF OSQPostToWaiter, OS_EventTaskRdy, TypeOK, queueVars
<1>5. ASSUME NEW m \in Message, OSQPostToQueue(m) PROVE TypeOK'
  BY <1>5 DEF OSQPostToQueue, TypeOK, Index, Advance, tcbVars
<1>6. CASE OSQPostFull
  BY <1>6 DEF OSQPostFull, TypeOK, queueVars, tcbVars
<1>7. CASE OSTimeTick
  <2>1. Dly' \in [Task -> Nat]
    BY <1>7 DEF OSTimeTick, TypeOK
  <2>2. /\ StatPend' \in [Task -> {"OK", "TO"}]
        /\ Stat' \in [Task -> {"RDY", "Q"}]
        /\ OSRdyTbl' \subseteq Task
    BY <1>7 DEF OSTimeTick, TypeOK
  <2> QED
    BY <1>7, <2>1, <2>2 DEF OSTimeTick, TypeOK, queueVars, Index
<1>8. ASSUME NEW t \in Task, NEW ticks \in DelayTicks, OSTimeDly(t, ticks)
      PROVE TypeOK'
  BY <1>8 DEF OSTimeDly, TypeOK, queueVars
<1>9. ASSUME NEW t \in Task, OSTimeDlyReturn(t) PROVE TypeOK'
  BY <1>9 DEF OSTimeDlyReturn, TypeOK, queueVars
<1>10. CASE UNCHANGED vars
  BY <1>10 DEF vars, queueVars, tcbVars, TypeOK
<1> QED
  BY <1>1, <1>2, <1>3, <1>4, <1>5, <1>6, <1>7, <1>8, <1>9, <1>10 DEF Next

(* The variables keep their types: no index of the ring leaves it, and the *)
(* number of entries never exceeds OSQSize (os_q.c, OSQPend and OSQPost).  *)
THEOREM TypeCorrect == Spec => []TypeOK
<1>1. Init => TypeOK
  BY DEF Init, TypeOK, Index
<1> QED
  BY <1>1, TypeStep, PTL DEF Spec

-----------------------------------------------------------------------------
(* The inductive invariant behind the kernel's safety properties: where a  *)
(* task stands in the kernel decides every field of its control block, its *)
(* place in the ready list and its place in the wait list.                 *)

InTask(t) ==
  pc[t] = "task" =>
    /\ t \in OSRdyTbl
    /\ t \notin OSEventTbl
    /\ Dly[t] = 0
    /\ Stat[t] = "RDY"
    /\ StatPend[t] = "OK"
    /\ Msg[t] = NULL

InDelay(t) ==
  pc[t] = "delay" =>
    /\ t \in OSRdyTbl <=> Dly[t] = 0
    /\ t \notin OSEventTbl
    /\ Stat[t] = "RDY"
    /\ StatPend[t] = "OK"
    /\ Msg[t] = NULL

InPend(t) ==
  pc[t] = "pend" =>
    /\ t \in OSRdyTbl <=> Stat[t] = "RDY"
    /\ t \in OSRdyTbl => Dly[t] = 0
    /\ t \notin OSRdyTbl => (Dly[t] > 0 <=> Timeout[t] > 0)
    /\ StatPend[t] = "TO" => t \in OSRdyTbl
    /\ t \in OSEventTbl <=> (t \notin OSRdyTbl \/ StatPend[t] = "TO")
    /\ t \in OSEventTbl => Msg[t] = NULL
    /\ t \notin OSEventTbl => Msg[t] \in inFlight

TaskInv == \A t \in Task : InTask(t) /\ InDelay(t) /\ InPend(t)

RingInv ==
  OSQIn = IF OSQOut + OSQEntries < Size
            THEN OSQOut + OSQEntries
            ELSE OSQOut + OSQEntries - Size

StoredInFlight ==
  \A k \in 0 .. OSQEntries - 1 : ring[Slot(k)] \in inFlight

StoredOnce ==
  \A j, k \in 0 .. OSQEntries - 1 : ring[Slot(j)] = ring[Slot(k)] => j = k

HeldOnce ==
  \A t, u \in Task :
    HasMessage(t) /\ HasMessage(u) /\ Msg[t] = Msg[u] => t = u

StoredNotHeld ==
  \A k \in 0 .. OSQEntries - 1, t \in Task :
    HasMessage(t) => ring[Slot(k)] # Msg[t]

NothingLost ==
  \A m \in inFlight :
    \/ \E k \in 0 .. OSQEntries - 1 : ring[Slot(k)] = m
    \/ \E t \in Task : HasMessage(t) /\ Msg[t] = m

IInv ==
  /\ TypeOK
  /\ NoStrandedMessage
  /\ TaskInv
  /\ RingInv
  /\ StoredInFlight
  /\ StoredOnce
  /\ HeldOnce
  /\ StoredNotHeld
  /\ NothingLost

-----------------------------------------------------------------------------
(* Arithmetic of the ring.                                                 *)

(* Slots stay in the ring and different offsets name different slots.      *)
LEMMA SlotFacts ==
  ASSUME TypeOK
  PROVE  /\ \A k \in 0 .. Size - 1 : Slot(k) \in Index
         /\ \A j, k \in 0 .. Size - 1 : Slot(j) = Slot(k) => j = k
BY DEF TypeOK, Slot, Index

(* Extracting a message renumbers the rest by one.                         *)
LEMMA SlotAfterTake ==
  ASSUME TypeOK, OSQOut' = Advance(OSQOut)
  PROVE  \A k \in 0 .. Size - 2 : Slot(k)' = Slot(k + 1)
BY DEF TypeOK, Slot, Index, Advance

(* The next insertion goes to the slot after the last one stored.          *)
LEMMA SlotOfNext ==
  ASSUME TypeOK, RingInv, OSQEntries < Size
  PROVE  OSQIn = Slot(OSQEntries)
BY DEF TypeOK, RingInv, Slot, Index

(* What TaskInv says of the tasks that hold a message.                     *)
LEMMA Holders ==
  ASSUME TypeOK, TaskInv, NEW t \in Task
  PROVE  /\ HasMessage(t) <=> (pc[t] = "pend" /\ t \notin OSEventTbl)
         /\ HasMessage(t) => Msg[t] \in inFlight
BY DEF TypeOK, TaskInv, InPend, HasMessage

-----------------------------------------------------------------------------
(* One lemma per part of the invariant: every critical section keeps it.   *)

LEMMA TaskInvStep ==
  ASSUME IInv, [Next]_vars
  PROVE  TaskInv'
<1>0. TypeOK /\ TaskInv /\ TypeOK'
  BY TypeStep DEF IInv
<1>1. ASSUME NEW t \in Task, OSQPendTake(t) PROVE TaskInv'
  <2> SUFFICES ASSUME NEW u \in Task PROVE (InTask(u) /\ InDelay(u) /\ InPend(u))'
    BY DEF TaskInv
  <2>1. /\ 0 \in 0 .. OSQEntries - 1
        /\ Slot(0) = OSQOut
    BY <1>0, <1>1 DEF OSQPendTake, TypeOK, Slot, Index
  <2>2. HasMessage(u) => Msg[u] # ring[OSQOut]
    BY <2>1 DEF IInv, StoredNotHeld
  <2>3. HasMessage(u) <=> (pc[u] = "pend" /\ u \notin OSEventTbl)
    BY <1>0, Holders
  <2> QED
    BY <1>0, <1>1, <2>2, <2>3
    DEF OSQPendTake, tcbVars, TaskInv, InTask, InDelay, InPend
<1>2. ASSUME NEW t \in Task, OSQPendBlock(t) PROVE TaskInv'
  BY <1>0, <1>2
  DEF OSQPendBlock, OS_EventTaskWait, queueVars, TypeOK, TaskInv, InTask, InDelay, InPend
<1>3. ASSUME NEW t \in Task, OSQPendReturn(t) PROVE TaskInv'
  <2> SUFFICES ASSUME NEW u \in Task PROVE (InTask(u) /\ InDelay(u) /\ InPend(u))'
    BY DEF TaskInv
  <2>1. t \in OSRdyTbl
    BY <1>3 DEF OSQPendReturn, Runs, MostUrgent
  <2>2. CASE u = t
    BY <1>0, <1>3, <2>1, <2>2
    DEF OSQPendReturn, queueVars, TypeOK, TaskInv, InTask, InDelay, InPend
  <2>3. CASE u # t
    <3>1. HasMessage(u) /\ HasMessage(t) => Msg[u] # Msg[t]
      BY <2>3 DEF IInv, HeldOnce
    <3>2. /\ HasMessage(u) <=> (pc[u] = "pend" /\ u \notin OSEventTbl)
          /\ StatPend[t] = "OK" => HasMessage(t)
      BY <1>0, <1>3, <2>1, Holders DEF HasMessage, OSQPendReturn
    <3> QED
      BY <1>0, <1>3, <2>3, <3>1, <3>2
      DEF OSQPendReturn, queueVars, TypeOK, TaskInv, InTask, InDelay, InPend
  <2> QED
    BY <2>2, <2>3
<1>4. ASSUME NEW m \in Message, OSQPostToWaiter(m) PROVE TaskInv'
  <2>1. PICK t \in OSEventTbl : OS_EventTaskRdy(t, m)
    BY <1>4 DEF OSQPostToWaiter
  <2>2. t \in Task /\ pc[t] = "pend"
    BY <1>0, <2>1 DEF TypeOK, TaskInv, InTask, InDelay
  <2> SUFFICES ASSUME NEW u \in Task PROVE (InTask(u) /\ InDelay(u) /\ InPend(u))'
    BY DEF TaskInv
  <2>3. CASE u = t
    BY <1>0, <1>4, <2>1, <2>2, <2>3
    DEF OSQPostToWaiter, OS_EventTaskRdy, TypeOK, InTask, InDelay, InPend
  <2>4. CASE u # t
    BY <1>0, <1>4, <2>1, <2>4
    DEF OSQPostToWaiter, OS_EventTaskRdy, TypeOK, TaskInv, InTask, InDelay, InPend
  <2> QED
    BY <2>3, <2>4
<1>5. ASSUME NEW m \in Message, OSQPostToQueue(m) PROVE TaskInv'
  BY <1>0, <1>5
  DEF OSQPostToQueue, tcbVars, TypeOK, TaskInv, InTask, InDelay, InPend
<1>6. CASE OSQPostFull
  BY <1>0, <1>6
  DEF OSQPostFull, tcbVars, TypeOK, TaskInv, InTask, InDelay, InPend
<1>7. CASE OSTimeTick
  <2> SUFFICES ASSUME NEW u \in Task PROVE (InTask(u) /\ InDelay(u) /\ InPend(u))'
    BY DEF TaskInv
  <2>1. CASE Dly[u] = 1
    <3>1. /\ Dly'[u] = 0
          /\ StatPend'[u] = IF Stat[u] = "Q" THEN "TO" ELSE "OK"
          /\ Stat'[u] = "RDY"
          /\ u \in OSRdyTbl'
      BY <1>7, <2>1 DEF OSTimeTick
    <3> QED
      BY <1>0, <1>7, <2>1, <3>1
      DEF OSTimeTick, TypeOK, TaskInv, InTask, InDelay, InPend
  <2>2. CASE Dly[u] # 1
    <3>1. /\ Dly'[u] = IF Dly[u] > 0 THEN Dly[u] - 1 ELSE 0
          /\ StatPend'[u] = StatPend[u]
          /\ Stat'[u] = Stat[u]
          /\ u \in OSRdyTbl' <=> u \in OSRdyTbl
      BY <1>7, <2>2 DEF OSTimeTick
    <3>2. Dly[u] \in Nat
      BY <1>0 DEF TypeOK
    <3> QED
      BY <1>0, <1>7, <2>2, <3>1, <3>2
      DEF OSTimeTick, TaskInv, InTask, InDelay, InPend
  <2> QED
    BY <2>1, <2>2
<1>8. ASSUME NEW t \in Task, NEW ticks \in DelayTicks, OSTimeDly(t, ticks)
      PROVE TaskInv'
  BY <1>0, <1>8
  DEF OSTimeDly, queueVars, TypeOK, TaskInv, InTask, InDelay, InPend
<1>9. ASSUME NEW t \in Task, OSTimeDlyReturn(t) PROVE TaskInv'
  BY <1>0, <1>9
  DEF OSTimeDlyReturn, queueVars, Runs, MostUrgent, TypeOK, TaskInv, InTask,
      InDelay, InPend
<1>10. CASE UNCHANGED vars
  BY <1>0, <1>10
  DEF vars, tcbVars, TaskInv, InTask, InDelay, InPend
<1> QED
  BY <1>1, <1>2, <1>3, <1>4, <1>5, <1>6, <1>7, <1>8, <1>9, <1>10 DEF Next

LEMMA NoStrandedStep ==
  ASSUME IInv, [Next]_vars
  PROVE  NoStrandedMessage'
<1> USE DEF NoStrandedMessage
<1>0. TypeOK /\ NoStrandedMessage
  BY DEF IInv
<1>1. ASSUME NEW t \in Task, OSQPendTake(t) PROVE NoStrandedMessage'
  BY <1>0, <1>1 DEF OSQPendTake, tcbVars
<1>2. ASSUME NEW t \in Task, OSQPendBlock(t) PROVE NoStrandedMessage'
  BY <1>0, <1>2 DEF OSQPendBlock, OS_EventTaskWait, queueVars
<1>3. ASSUME NEW t \in Task, OSQPendReturn(t) PROVE NoStrandedMessage'
  BY <1>0, <1>3 DEF OSQPendReturn, queueVars
<1>4. ASSUME NEW m \in Message, OSQPostToWaiter(m) PROVE NoStrandedMessage'
  BY <1>0, <1>4 DEF OSQPostToWaiter, OS_EventTaskRdy, queueVars
<1>5. ASSUME NEW m \in Message, OSQPostToQueue(m) PROVE NoStrandedMessage'
  BY <1>0, <1>5 DEF OSQPostToQueue, tcbVars
<1>6. CASE OSQPostFull
  BY <1>0, <1>6 DEF OSQPostFull, tcbVars, queueVars
<1>7. CASE OSTimeTick
  BY <1>0, <1>7 DEF OSTimeTick, queueVars
<1>8. ASSUME NEW t \in Task, NEW ticks \in DelayTicks, OSTimeDly(t, ticks)
      PROVE NoStrandedMessage'
  BY <1>0, <1>8 DEF OSTimeDly, queueVars
<1>9. ASSUME NEW t \in Task, OSTimeDlyReturn(t) PROVE NoStrandedMessage'
  BY <1>0, <1>9 DEF OSTimeDlyReturn, queueVars
<1>10. CASE UNCHANGED vars
  BY <1>0, <1>10 DEF vars, queueVars, tcbVars
<1> QED
  BY <1>1, <1>2, <1>3, <1>4, <1>5, <1>6, <1>7, <1>8, <1>9, <1>10 DEF Next

(* The part of the invariant that is about messages.                       *)
StoreInv ==
  /\ RingInv
  /\ StoredInFlight
  /\ StoredOnce
  /\ HeldOnce
  /\ StoredNotHeld
  /\ NothingLost

(* A step that touches neither the ring nor a handed message keeps it.     *)
LEMMA StoreInvFrame ==
  ASSUME IInv, UNCHANGED <<queueVars, inFlight, Msg>>,
         \A t \in Task : HasMessage(t)' <=> HasMessage(t)
  PROVE  StoreInv'
<1>1. \A k : Slot(k)' = Slot(k)
  BY DEF Slot, queueVars
<1>2. RingInv'
  BY DEF IInv, RingInv, queueVars
<1>3. StoredInFlight' /\ StoredOnce'
  BY <1>1 DEF IInv, StoredInFlight, StoredOnce, queueVars
<1>4. HeldOnce' /\ StoredNotHeld'
  BY <1>1 DEF IInv, HeldOnce, StoredNotHeld, queueVars
<1>5. NothingLost'
  BY <1>1 DEF IInv, NothingLost, queueVars
<1> QED
  BY <1>2, <1>3, <1>4, <1>5 DEF StoreInv

LEMMA TakeStep ==
  ASSUME IInv, NEW t \in Task, OSQPendTake(t)
  PROVE  StoreInv'
<1> USE DEF IInv
<1>1. /\ OSQEntries \in 1 .. Size
      /\ Size \in Nat
      /\ OSQEntries' = OSQEntries - 1
      /\ OSQEntries' \in Nat
      /\ ring' = ring
      /\ inFlight' = inFlight \ {ring[OSQOut]}
      /\ Msg' = Msg
  BY DEF OSQPendTake, TypeOK, tcbVars
<1>2. \A k \in 0 .. Size - 2 : Slot(k)' = Slot(k + 1)
  BY SlotAfterTake DEF OSQPendTake
<1>3. Slot(0) = OSQOut
  BY DEF TypeOK, Slot, Index
<1>4. \A u \in Task : HasMessage(u)' <=> HasMessage(u)
  BY DEF OSQPendTake, tcbVars, HasMessage
<1>5. RingInv'
  BY DEF RingInv, OSQPendTake, Advance, TypeOK, Index
<1>6. \A k \in 0 .. OSQEntries' - 1 :
         /\ k + 1 \in 1 .. OSQEntries - 1
         /\ Slot(k)' = Slot(k + 1)
  BY <1>1, <1>2
<1>7. StoredInFlight'
  <2> SUFFICES ASSUME NEW k \in 0 .. OSQEntries' - 1
               PROVE  ring'[Slot(k)'] \in inFlight'
    BY DEF StoredInFlight
  <2>1. ring[Slot(k + 1)] \in inFlight /\ ring[Slot(k + 1)] # ring[Slot(0)]
    BY <1>1, <1>6 DEF StoredInFlight, StoredOnce
  <2> QED
    BY <1>1, <1>3, <1>6, <2>1
<1>8. StoredOnce'
  <2> SUFFICES ASSUME NEW j \in 0 .. OSQEntries' - 1, NEW k \in 0 .. OSQEntries' - 1,
                      ring'[Slot(j)'] = ring'[Slot(k)']
               PROVE  j = k
    BY DEF StoredOnce
  <2>1. j + 1 = k + 1
    BY <1>1, <1>6 DEF StoredOnce
  <2> QED
    BY <2>1
<1>9. HeldOnce'
  BY <1>1, <1>4 DEF HeldOnce
<1>10. StoredNotHeld'
  <2> SUFFICES ASSUME NEW k \in 0 .. OSQEntries' - 1, NEW u \in Task, HasMessage(u)'
               PROVE  ring'[Slot(k)'] # Msg'[u]
    BY DEF StoredNotHeld
  <2> QED
    BY <1>1, <1>4, <1>6 DEF StoredNotHeld
<1>11. NothingLost'
  <2> SUFFICES ASSUME NEW m \in inFlight'
               PROVE  \/ \E k \in 0 .. OSQEntries' - 1 : ring'[Slot(k)'] = m
                      \/ \E u \in Task : HasMessage(u)' /\ Msg'[u] = m
    BY DEF NothingLost
  <2>1. CASE \E k \in 0 .. OSQEntries - 1 : ring[Slot(k)] = m
    <3>1. PICK k \in 0 .. OSQEntries - 1 : ring[Slot(k)] = m
      BY <2>1
    <3>2. k # 0
      BY <1>1, <1>3, <3>1
    <3>3. /\ k - 1 \in 0 .. OSQEntries' - 1
          /\ Slot(k - 1)' = Slot(k - 1 + 1)
          /\ k - 1 + 1 = k
      BY <1>1, <1>6, <3>2
    <3> QED
      BY <1>1, <3>1, <3>3
  <2>2. CASE \E u \in Task : HasMessage(u) /\ Msg[u] = m
    BY <1>1, <1>4, <2>2
  <2> QED
    BY <1>1, <2>1, <2>2 DEF NothingLost
<1> QED
  BY <1>5, <1>7, <1>8, <1>9, <1>10, <1>11 DEF StoreInv

LEMMA ReturnStep ==
  ASSUME IInv, NEW t \in Task, OSQPendReturn(t)
  PROVE  StoreInv'
<1> USE DEF IInv
<1>1. /\ UNCHANGED queueVars
      /\ Msg' = [Msg EXCEPT ![t] = NULL]
      /\ t \in OSRdyTbl
  BY DEF OSQPendReturn, Runs, MostUrgent
<1>2. /\ ~HasMessage(t)'
      /\ \A u \in Task : u # t => (HasMessage(u)' <=> HasMessage(u)) /\ Msg'[u] = Msg[u]
  BY DEF OSQPendReturn, HasMessage, TypeOK
<1>3. \A k : Slot(k)' = Slot(k)
  BY <1>1 DEF Slot, queueVars
<1>4. RingInv'
  BY <1>1 DEF RingInv, queueVars
<1>5. HeldOnce' /\ StoredNotHeld'
  BY <1>1, <1>2, <1>3 DEF HeldOnce, StoredNotHeld, queueVars
<1>6. StoredOnce'
  BY <1>1, <1>3 DEF StoredOnce, queueVars
<1>7. CASE StatPend[t] = "OK"
  <2>1. HasMessage(t) /\ inFlight' = inFlight \ {Msg[t]}
    BY <1>1, <1>7 DEF HasMessage, OSQPendReturn
  <2>2. StoredInFlight'
    BY <1>1, <1>3, <2>1 DEF StoredInFlight, StoredNotHeld, queueVars
  <2>3. NothingLost'
    BY <1>1, <1>2, <1>3, <2>1 DEF NothingLost, queueVars
  <2> QED
    BY <1>4, <1>5, <1>6, <2>2, <2>3 DEF StoreInv
<1>8. CASE StatPend[t] = "TO"
  <2>1. ~HasMessage(t) /\ inFlight' = inFlight
    BY <1>8 DEF HasMessage, OSQPendReturn
  <2>2. StoredInFlight' /\ NothingLost'
    BY <1>1, <1>2, <1>3, <2>1 DEF StoredInFlight, NothingLost, queueVars
  <2> QED
    BY <1>4, <1>5, <1>6, <2>2 DEF StoreInv
<1> QED
  BY <1>7, <1>8 DEF OSQPendReturn

LEMMA PostToWaiterStep ==
  ASSUME IInv, NEW m \in Message, OSQPostToWaiter(m)
  PROVE  StoreInv'
<1> USE DEF IInv
<1>1. PICK t \in OSEventTbl : OS_EventTaskRdy(t, m)
  BY DEF OSQPostToWaiter
<1>2. /\ t \in Task
      /\ pc[t] = "pend"
      /\ ~HasMessage(t)
      /\ OSQEntries = 0
  BY Holders DEF TypeOK, TaskInv, InTask, InDelay, NoStrandedMessage
<1>3. /\ UNCHANGED queueVars
      /\ inFlight' = inFlight \cup {m}
      /\ m \notin inFlight
  BY DEF OSQPostToWaiter
<1>4. /\ HasMessage(t)' /\ Msg'[t] = m
      /\ \A u \in Task : u # t => (HasMessage(u)' <=> HasMessage(u)) /\ Msg'[u] = Msg[u]
  BY <1>1, <1>2 DEF OSQPostToWaiter, OS_EventTaskRdy, HasMessage, TypeOK
<1>5. RingInv'
  BY <1>3 DEF RingInv, queueVars
<1>6. StoredInFlight' /\ StoredOnce' /\ StoredNotHeld'
  BY <1>2, <1>3 DEF StoredInFlight, StoredOnce, StoredNotHeld, queueVars
<1>7. HeldOnce'
  BY <1>3, <1>4, Holders DEF HeldOnce
<1>8. NothingLost'
  <2>1. \A n \in inFlight : \E u \in Task : HasMessage(u) /\ Msg[u] = n
    BY <1>2 DEF NothingLost
  <2> QED
    BY <1>2, <1>3, <1>4, <2>1 DEF NothingLost
<1> QED
  BY <1>5, <1>6, <1>7, <1>8 DEF StoreInv

LEMMA PostToQueueStep ==
  ASSUME IInv, NEW m \in Message, OSQPostToQueue(m)
  PROVE  StoreInv'
<1> USE DEF IInv
<1>1. /\ OSQEntries \in 0 .. Size - 1
      /\ Size \in Nat
      /\ OSQEntries' = OSQEntries + 1
      /\ OSQOut' = OSQOut
      /\ ring' = [ring EXCEPT ![OSQIn] = m]
      /\ inFlight' = inFlight \cup {m}
      /\ m \notin inFlight
      /\ Msg' = Msg
  BY DEF OSQPostToQueue, TypeOK, tcbVars
<1>2. OSQIn = Slot(OSQEntries)
  BY <1>1, SlotOfNext
<1>3. \A k : Slot(k)' = Slot(k)
  BY <1>1 DEF Slot
<1>4. \A k \in 0 .. OSQEntries - 1 : ring'[Slot(k)'] = ring[Slot(k)]
  <2> SUFFICES ASSUME NEW k \in 0 .. OSQEntries - 1
               PROVE  ring'[Slot(k)'] = ring[Slot(k)]
    OBVIOUS
  <2>1. Slot(k) # Slot(OSQEntries) /\ Slot(k) \in Index
    BY <1>1, SlotFacts
  <2> QED
    BY <1>1, <1>2, <1>3, <2>1 DEF TypeOK
<1>5. PICK last \in Nat : last = OSQEntries
  BY <1>1
<1>6. /\ ring'[Slot(last)'] = m
      /\ \A k : k \in 0 .. OSQEntries' - 1 <=> (k \in 0 .. OSQEntries - 1 \/ k = last)
  BY <1>1, <1>2, <1>3, <1>5 DEF TypeOK
<1>7. \A u \in Task : HasMessage(u)' <=> HasMessage(u)
  BY DEF OSQPostToQueue, tcbVars, HasMessage
<1>8. RingInv'
  BY DEF RingInv, OSQPostToQueue, Advance, TypeOK, Index
<1>9. StoredInFlight'
  BY <1>1, <1>4, <1>5, <1>6 DEF StoredInFlight
<1>10. StoredOnce'
  BY <1>1, <1>4, <1>5, <1>6 DEF StoredOnce, StoredInFlight
<1>11. HeldOnce'
  BY <1>1, <1>7 DEF HeldOnce
<1>12. StoredNotHeld'
  BY <1>1, <1>4, <1>5, <1>6, <1>7, Holders DEF StoredNotHeld
<1>13. NothingLost'
  <2> SUFFICES ASSUME NEW n \in inFlight'
               PROVE  \/ \E k \in 0 .. OSQEntries' - 1 : ring'[Slot(k)'] = n
                      \/ \E u \in Task : HasMessage(u)' /\ Msg'[u] = n
    BY DEF NothingLost
  <2>1. CASE n = m
    BY <1>5, <1>6, <2>1
  <2>2. CASE \E k \in 0 .. OSQEntries - 1 : ring[Slot(k)] = n
    BY <1>4, <1>6, <2>2
  <2>3. CASE \E u \in Task : HasMessage(u) /\ Msg[u] = n
    BY <1>1, <1>7, <2>3
  <2> QED
    BY <1>1, <2>1, <2>2, <2>3 DEF NothingLost
<1> QED
  BY <1>8, <1>9, <1>10, <1>11, <1>12, <1>13 DEF StoreInv

LEMMA StoreInvStep ==
  ASSUME IInv, [Next]_vars
  PROVE  StoreInv'
<1>0. TypeOK /\ TaskInv
  BY DEF IInv
<1>1. ASSUME NEW t \in Task, OSQPendTake(t) PROVE StoreInv'
  BY <1>1, TakeStep
<1>2. ASSUME NEW t \in Task, OSQPendBlock(t) PROVE StoreInv'
  <2>1. \A u \in Task : HasMessage(u)' <=> HasMessage(u)
    BY <1>0, <1>2 DEF OSQPendBlock, OS_EventTaskWait, HasMessage, TypeOK
  <2> QED
    BY <1>2, <2>1, StoreInvFrame DEF OSQPendBlock, OS_EventTaskWait
<1>3. ASSUME NEW t \in Task, OSQPendReturn(t) PROVE StoreInv'
  BY <1>3, ReturnStep
<1>4. ASSUME NEW m \in Message, OSQPostToWaiter(m) PROVE StoreInv'
  BY <1>4, PostToWaiterStep
<1>5. ASSUME NEW m \in Message, OSQPostToQueue(m) PROVE StoreInv'
  BY <1>5, PostToQueueStep
<1>6. CASE OSQPostFull
  BY <1>6, StoreInvFrame DEF OSQPostFull, tcbVars, HasMessage
<1>7. CASE OSTimeTick
  <2>1. ASSUME NEW u \in Task PROVE HasMessage(u)' <=> HasMessage(u)
    <3>1. CASE Dly[u] = 1
      <4>1. ~HasMessage(u)
        BY <1>0, <3>1 DEF TaskInv, InPend, HasMessage
      <4>2. pc[u] = "pend" => Stat[u] = "Q"
        BY <1>0, <3>1 DEF TypeOK, TaskInv, InPend
      <4>3. pc' = pc /\ StatPend'[u] = IF Stat[u] = "Q" THEN "TO" ELSE "OK"
        BY <1>7, <3>1 DEF OSTimeTick
      <4> QED
        BY <4>1, <4>2, <4>3 DEF HasMessage
    <3>2. CASE Dly[u] # 1
      BY <1>7, <3>2 DEF OSTimeTick, HasMessage
    <3> QED
      BY <3>1, <3>2
  <2> QED
    BY <1>7, <2>1, StoreInvFrame DEF OSTimeTick
<1>8. ASSUME NEW t \in Task, NEW ticks \in DelayTicks, OSTimeDly(t, ticks)
      PROVE StoreInv'
  <2>1. \A u \in Task : HasMessage(u)' <=> HasMessage(u)
    BY <1>0, <1>8 DEF OSTimeDly, HasMessage, TypeOK
  <2> QED
    BY <1>8, <2>1, StoreInvFrame DEF OSTimeDly
<1>9. ASSUME NEW t \in Task, OSTimeDlyReturn(t) PROVE StoreInv'
  <2>1. \A u \in Task : HasMessage(u)' <=> HasMessage(u)
    BY <1>0, <1>9 DEF OSTimeDlyReturn, HasMessage, TypeOK
  <2> QED
    BY <1>9, <2>1, StoreInvFrame DEF OSTimeDlyReturn
<1>10. CASE UNCHANGED vars
  BY <1>10, StoreInvFrame DEF vars, tcbVars, HasMessage
<1> QED
  BY <1>1, <1>2, <1>3, <1>4, <1>5, <1>6, <1>7, <1>8, <1>9, <1>10 DEF Next

(* The invariant is inductive.                                             *)
THEOREM Inductive == Spec => []IInv
<1>1. Init => IInv
  <2> SUFFICES ASSUME Init PROVE IInv
    OBVIOUS
  <2>1. TypeOK /\ NoStrandedMessage
    BY DEF Init, TypeOK, Index, NoStrandedMessage
  <2>2. TaskInv
    BY DEF Init, TaskInv, InTask, InDelay, InPend
  <2>3. RingInv /\ StoredInFlight /\ StoredOnce /\ NothingLost
    BY DEF Init, RingInv, StoredInFlight, StoredOnce, NothingLost
  <2>4. HeldOnce /\ StoredNotHeld
    BY DEF Init, HeldOnce, StoredNotHeld, HasMessage
  <2> QED
    BY <2>1, <2>2, <2>3, <2>4 DEF IInv
<1>2. IInv /\ [Next]_vars => IInv'
  <2> SUFFICES ASSUME IInv, [Next]_vars PROVE IInv'
    OBVIOUS
  <2>1. TypeOK'
    BY TypeStep DEF IInv
  <2> QED
    BY <2>1, TaskInvStep, NoStrandedStep, StoreInvStep DEF IInv, StoreInv
<1> QED
  BY <1>1, <1>2, PTL DEF Spec

-----------------------------------------------------------------------------
(* The safety properties of UcosQueue follow from the invariant.           *)

(* No message stays in the ring while a task waits (OSQPost looks at the   *)
(* wait list before the ring, os_q.c:589).                                 *)
THEOREM NoStrandedMessageHolds == Spec => []NoStrandedMessage
BY Inductive, PTL DEF IInv

(* A ready task has no running timer (OS_EventTaskRdy, os_core.c:1020).    *)
THEOREM NoStaleTimerHolds == Spec => []NoStaleTimer
<1>1. IInv => NoStaleTimer
  BY DEF IInv, TypeOK, TaskInv, InTask, InDelay, InPend, NoStaleTimer
<1> QED
  BY <1>1, Inductive, PTL

(* The wait list holds exactly the tasks that still lack a message.        *)
THEOREM WaitListExactHolds == Spec => []WaitListExact
<1>1. IInv => WaitListExact
  <2> SUFFICES ASSUME IInv PROVE WaitListExact
    OBVIOUS
  <2>1. \A t \in Task : t \in OSEventTbl <=> pc[t] = "pend" /\ ~HasMessage(t)
    BY Holders DEF IInv, TypeOK, TaskInv, InTask, InDelay
  <2> QED
    BY <2>1 DEF IInv, TypeOK, WaitListExact
<1> QED
  BY <1>1, Inductive, PTL

(* No task blocks without something that can wake it.                      *)
THEOREM BlockedCanWakeHolds == Spec => []BlockedCanWake
<1>1. IInv => BlockedCanWake
  <2> SUFFICES ASSUME IInv, NEW t \in Task, t \notin OSRdyTbl
               PROVE  Dly[t] > 0 \/ (t \in OSEventTbl /\ Timeout[t] = 0)
    BY DEF BlockedCanWake
  <2>1. Dly[t] \in Nat /\ Timeout[t] \in Nat /\ pc[t] \in {"task", "pend", "delay"}
    BY DEF IInv, TypeOK
  <2> QED
    BY <2>1 DEF IInv, TaskInv, InTask, InDelay, InPend
<1> QED
  BY <1>1, Inductive, PTL

(* Of a post and a timeout that race exactly one ends the wait.            *)
THEOREM WaitersConsistentHolds == Spec => []WaitersConsistent
BY TypeCorrect, WaitListExactHolds, NoStaleTimerHolds, BlockedCanWakeHolds, PTL
   DEF WaitersConsistent

(* No accepted message is lost or duplicated, whatever the interleaving of *)
(* posts, ticks and pends.                                                 *)
THEOREM ExactlyOnceHolds == Spec => []ExactlyOnce
<1>1. IInv => ExactlyOnce
  <2> SUFFICES ASSUME IInv, NEW m \in Message
      PROVE LET slots   == {k \in 1 .. OSQEntries : Contents[k] = m}
                holders == {t \in Task : HasMessage(t) /\ Msg[t] = m}
            IN  IF m \in inFlight
                  THEN \/ \E k \in slots : slots = {k} /\ holders = {}
                       \/ \E t \in holders : holders = {t} /\ slots = {}
                  ELSE slots = {} /\ holders = {}
    BY DEF ExactlyOnce
  <2> DEFINE slots   == {k \in 1 .. OSQEntries : Contents[k] = m}
             holders == {t \in Task : HasMessage(t) /\ Msg[t] = m}
  <2>1. \A k \in 1 .. OSQEntries : Contents[k] = ring[Slot(k - 1)]
                                 /\ k - 1 \in 0 .. OSQEntries - 1
    BY DEF Contents, IInv, TypeOK
  <2>2. CASE m \notin inFlight
    <3>1. slots = {}
      BY <2>1, <2>2 DEF IInv, StoredInFlight
    <3>2. holders = {}
      BY <2>2, Holders DEF IInv
    <3> QED
      BY <2>2, <3>1, <3>2
  <2>3. CASE \E k \in 0 .. OSQEntries - 1 : ring[Slot(k)] = m
    <3>1. PICK k \in 0 .. OSQEntries - 1 : ring[Slot(k)] = m
      BY <2>3
    <3>2. m \in inFlight /\ holders = {}
      BY <3>1 DEF IInv, StoredInFlight, StoredNotHeld
    <3>3. k + 1 \in 1 .. OSQEntries /\ k + 1 - 1 = k
      BY DEF IInv, TypeOK
    <3>4. k + 1 \in slots
      BY <2>1, <3>1, <3>3
    <3>5. ASSUME NEW j \in slots PROVE j = k + 1
      <4>1. j \in 1 .. OSQEntries /\ ring[Slot(j - 1)] = m /\ j - 1 \in 0 .. OSQEntries - 1
        BY <2>1
      <4>2. j - 1 = k
        BY <3>1, <4>1 DEF IInv, StoredOnce
      <4> QED
        BY <4>1, <4>2, <3>3
    <3>6. slots = {k + 1}
      BY <3>4, <3>5
    <3> QED
      BY <3>2, <3>4, <3>6
  <2>4. CASE /\ m \in inFlight
             /\ ~ \E k \in 0 .. OSQEntries - 1 : ring[Slot(k)] = m
    <3>1. PICK t \in Task : HasMessage(t) /\ Msg[t] = m
      BY <2>4 DEF IInv, NothingLost
    <3>2. slots = {}
      BY <2>1, <2>4
    <3>3. holders = {t}
      BY <3>1 DEF IInv, HeldOnce
    <3> QED
      BY <2>4, <3>2, <3>3
  <2> QED
    BY <2>2, <2>3, <2>4
<1> QED
  BY <1>1, Inductive, PTL

-----------------------------------------------------------------------------
(* The kernel queue implements MsgQueue.                                   *)

(* The stored messages form a sequence.                                    *)
LEMMA ContentsSeq ==
  ASSUME IInv
  PROVE  /\ Contents \in Seq(Message)
         /\ Len(Contents) = OSQEntries
         /\ OSQEntries \in Nat
         /\ \A k \in 1 .. OSQEntries : Contents[k] = ring[Slot(k - 1)]
<1>1. OSQEntries \in Nat
  BY DEF IInv, TypeOK
<1>2. \A k \in 1 .. OSQEntries : ring[Slot(k - 1)] \in Message
  BY <1>1 DEF IInv, TypeOK, StoredInFlight
<1>3. Contents \in [1 .. OSQEntries -> Message]
  BY <1>2 DEF Contents
<1> QED
  BY <1>1, <1>3 DEF Contents

(* The queue that a step leaving the ring alone leaves behind.             *)
LEMMA ContentsFrame ==
  ASSUME UNCHANGED queueVars
  PROVE  Contents' = Contents
BY DEF Contents, Slot, queueVars

LEMMA ContentsTake ==
  ASSUME IInv, IInv', NEW t \in Task, OSQPendTake(t)
  PROVE  /\ Contents # << >>
         /\ Head(Contents) = ring[OSQOut]
         /\ Contents' = Tail(Contents)
<1>1. /\ OSQEntries \in 1 .. Size
      /\ Size \in Nat
      /\ OSQEntries' = OSQEntries - 1
      /\ ring' = ring
  BY DEF OSQPendTake, IInv, TypeOK
<1>2. Slot(0) = OSQOut
  BY DEF IInv, TypeOK, Slot, Index
<1>3. \A k \in 0 .. Size - 2 : Slot(k)' = Slot(k + 1)
  BY SlotAfterTake DEF OSQPendTake, IInv
<1>4. Contents # << >> /\ Head(Contents) = ring[OSQOut]
  BY <1>1, <1>2, ContentsSeq
<1>5. Contents' = [k \in 1 .. OSQEntries - 1 |-> ring[Slot(k)]]
  <2>1. \A k \in 1 .. OSQEntries - 1 : ring'[Slot(k - 1)'] = ring[Slot(k)]
    BY <1>1, <1>3
  <2> QED
    BY <1>1, <2>1 DEF Contents
<1>6. Tail(Contents) = [k \in 1 .. OSQEntries - 1 |-> ring[Slot(k)]]
  <2>1. Tail(Contents) = [k \in 1 .. OSQEntries - 1 |-> Contents[k + 1]]
    <3>1. /\ Tail(Contents) \in Seq(Message)
          /\ Len(Tail(Contents)) = OSQEntries - 1
          /\ \A k \in 1 .. OSQEntries - 1 : Tail(Contents)[k] = Contents[k + 1]
      BY <1>4, ContentsSeq, HeadTailProperties
    <3>2. Tail(Contents) \in [1 .. OSQEntries - 1 -> Message]
      BY <3>1, LenProperties
    <3> QED
      BY <3>1, <3>2
  <2>2. \A k \in 1 .. OSQEntries - 1 : Contents[k + 1] = ring[Slot(k)]
    BY <1>1, ContentsSeq
  <2> QED
    BY <2>1, <2>2
<1> QED
  BY <1>4, <1>5, <1>6

LEMMA ContentsPost ==
  ASSUME IInv, IInv', NEW m \in Message, OSQPostToQueue(m)
  PROVE  Contents' = Append(Contents, m)
<1>1. /\ OSQEntries \in 0 .. Size - 1
      /\ OSQEntries \in Nat
      /\ Size \in Nat
      /\ OSQEntries' = OSQEntries + 1
      /\ OSQOut' = OSQOut
      /\ ring' = [ring EXCEPT ![OSQIn] = m]
  BY DEF OSQPostToQueue, IInv, TypeOK
<1>2. OSQIn = Slot(OSQEntries)
  BY <1>1, SlotOfNext DEF IInv
<1>3. \A k : Slot(k)' = Slot(k)
  BY <1>1 DEF Slot
<1>4. \A k \in 1 .. OSQEntries : ring'[Slot(k - 1)'] = Contents[k]
  <2> SUFFICES ASSUME NEW k \in 1 .. OSQEntries
               PROVE  ring'[Slot(k - 1)'] = Contents[k]
    OBVIOUS
  <2>1. Slot(k - 1) # Slot(OSQEntries) /\ Slot(k - 1) \in Index
    BY <1>1, SlotFacts DEF IInv
  <2> QED
    BY <1>1, <1>2, <1>3, <2>1, ContentsSeq DEF IInv, TypeOK
<1>5. PICK n \in Nat : n = OSQEntries
  BY <1>1
<1>6. ring'[Slot(n)'] = m /\ n + 1 - 1 = n
  BY <1>1, <1>2, <1>3, <1>5 DEF IInv, TypeOK
<1>7. Contents' = [k \in 1 .. n + 1 |-> IF k = n + 1 THEN m ELSE Contents[k]]
  <2>1. \A k \in 1 .. n + 1 :
          ring'[Slot(k - 1)'] = IF k = n + 1 THEN m ELSE Contents[k]
    BY <1>4, <1>5, <1>6
  <2>2. Contents' = [k \in 1 .. n + 1 |-> ring'[Slot(k - 1)']]
    BY <1>1, <1>5 DEF Contents
  <2> QED
    BY <2>1, <2>2
<1>8. Append(Contents, m) = [k \in 1 .. n + 1 |-> IF k = n + 1 THEN m ELSE Contents[k]]
  <2>1. /\ Append(Contents, m) \in Seq(Message)
        /\ Len(Append(Contents, m)) = n + 1
        /\ Append(Contents, m)[n + 1] = m
        /\ \A k \in 1 .. n : Append(Contents, m)[k] = Contents[k]
    BY <1>5, ContentsSeq, AppendProperties
  <2>2. Append(Contents, m) \in [1 .. n + 1 -> Message]
    BY <2>1, LenProperties
  <2>3. \A k \in 1 .. n + 1 : k = n + 1 \/ k \in 1 .. n
    BY <1>5
  <2> QED
    BY <2>1, <2>2, <2>3
<1> QED
  BY <1>7, <1>8

(* Each status in terms of the control block.                              *)
LEMMA StatusFacts ==
  ASSUME IInv, NEW t \in Task
  PROVE  /\ Status[t] = "outside" <=> pc[t] # "pend"
         /\ Status[t] = "waiting" <=> (pc[t] = "pend" /\ t \notin OSRdyTbl)
         /\ Status[t] = "expired" <=> (pc[t] = "pend" /\ t \in OSRdyTbl /\ StatPend[t] = "TO")
         /\ Status[t] = "given" <=> HasMessage(t)
         /\ Status[t] \in {"outside", "waiting", "expired", "given"}
         /\ Promise!Waiting(t) <=> t \in OSEventTbl
<1>1. /\ StatPend[t] \in {"OK", "TO"}
      /\ pc[t] \in {"task", "pend", "delay"}
  BY DEF IInv, TypeOK
<1>2. Status[t] = IF pc[t] # "pend" THEN "outside"
                  ELSE IF t \notin OSRdyTbl THEN "waiting"
                  ELSE IF StatPend[t] = "TO" THEN "expired" ELSE "given"
  BY DEF Status
<1>3. /\ Status[t] = "outside" <=> pc[t] # "pend"
      /\ Status[t] = "waiting" <=> (pc[t] = "pend" /\ t \notin OSRdyTbl)
      /\ Status[t] = "expired" <=> (pc[t] = "pend" /\ t \in OSRdyTbl /\ StatPend[t] = "TO")
      /\ Status[t] = "given" <=> HasMessage(t)
      /\ Status[t] \in {"outside", "waiting", "expired", "given"}
  BY <1>1, <1>2 DEF HasMessage
<1>4. t \in OSEventTbl <=> pc[t] = "pend" /\ (t \notin OSRdyTbl \/ StatPend[t] = "TO")
  BY <1>1 DEF IInv, TaskInv, InTask, InDelay, InPend
<1>5. Promise!Waiting(t) <=> Status[t] \in {"waiting", "expired"}
  BY DEF Promise!Waiting
<1> QED
  BY <1>3, <1>4, <1>5

(* An EXCEPT on Status from what happens to each task.                     *)
LEMMA StatusUpdate ==
  ASSUME NEW t \in Task, NEW s, Status'[t] = s,
         \A u \in Task : u # t => Status'[u] = Status[u]
  PROVE  Status' = [Status EXCEPT ![t] = s]
BY DEF Status

LEMMA StatusFrame ==
  ASSUME \A u \in Task : Status'[u] = Status[u]
  PROVE  Status' = Status
BY DEF Status

(* Every step of the kernel is a step of MsgQueue or changes nothing there.*)
LEMMA PromiseStep ==
  ASSUME IInv, IInv', [Next]_vars
  PROVE  [Promise!Next]_Promise!vars
<1> USE DEF Promise!vars
<1>0. TypeOK /\ TypeOK' /\ TaskInv /\ TaskInv'
  BY DEF IInv
<1>1. ASSUME NEW t \in Task, OSQPendTake(t) PROVE Promise!Next
  <2>1. Status' = Status
    BY <1>1 DEF OSQPendTake, tcbVars, Status
  <2>2. Status[t] = "outside"
    BY <1>1, StatusFacts DEF OSQPendTake
  <2>3. Promise!Take(t)
    BY <1>1, <2>1, <2>2, ContentsTake DEF OSQPendTake, tcbVars, Promise!Take
  <2> QED
    BY <2>3 DEF Promise!Next
<1>2. ASSUME NEW t \in Task, OSQPendBlock(t) PROVE Promise!Next
  <2>1. Status'[t] = "waiting" /\ \A u \in Task : u # t => Status'[u] = Status[u]
    BY <1>0, <1>2 DEF OSQPendBlock, OS_EventTaskWait, TypeOK, Status
  <2>2. Status[t] = "outside" /\ Contents = << >>
    BY <1>2, StatusFacts, ContentsSeq DEF OSQPendBlock, OS_EventTaskWait
  <2>3. Promise!Block(t)
    BY <1>2, <2>1, <2>2, StatusUpdate, ContentsFrame DEF OSQPendBlock, OS_EventTaskWait, Promise!Block
  <2> QED
    BY <2>3 DEF Promise!Next
<1>3. ASSUME NEW t \in Task, OSQPendReturn(t) PROVE Promise!Next
  <2>0. t \in OSRdyTbl /\ pc[t] = "pend"
    BY <1>3 DEF OSQPendReturn, Runs, MostUrgent
  <2>1. Status'[t] = "outside" /\ \A u \in Task : u # t => Status'[u] = Status[u]
    BY <1>0, <1>3 DEF OSQPendReturn, TypeOK, Status
  <2>2. Contents' = Contents
    BY <1>3, ContentsFrame DEF OSQPendReturn
  <2>3. CASE StatPend[t] = "OK"
    <3>1. Status[t] = "given"
      BY <2>0, <2>3, StatusFacts DEF HasMessage
    <3>2. Promise!ReturnMessage(t)
      BY <1>3, <2>1, <2>2, <2>3, <3>1, StatusUpdate DEF OSQPendReturn, Promise!ReturnMessage
    <3> QED
      BY <3>2 DEF Promise!Next
  <2>4. CASE StatPend[t] = "TO"
    <3>1. Status[t] = "expired"
      BY <2>0, <2>4, StatusFacts
    <3>2. t \in OSEventTbl /\ Msg[t] = NULL /\ Contents = << >>
      BY <1>0, <2>0, <2>4, ContentsSeq DEF TaskInv, InPend, IInv, NoStrandedMessage
    <3>3. Msg' = Msg
      BY <1>0, <1>3, <3>2 DEF OSQPendReturn, TypeOK
    <3>4. Promise!ReturnTimeout(t)
      BY <1>3, <2>1, <2>2, <2>4, <3>1, <3>2, <3>3, StatusUpdate
      DEF OSQPendReturn, Promise!ReturnTimeout
    <3> QED
      BY <3>4 DEF Promise!Next
  <2> QED
    BY <1>3, <2>3, <2>4 DEF OSQPendReturn
<1>4. ASSUME NEW m \in Message, OSQPostToWaiter(m) PROVE Promise!Next
  <2>1. PICK t \in OSEventTbl : MostUrgent(t, OSEventTbl) /\ OS_EventTaskRdy(t, m)
    BY <1>4 DEF OSQPostToWaiter
  <2>2. t \in Task /\ pc[t] = "pend"
    BY <1>0, <2>1 DEF TypeOK, TaskInv, InTask, InDelay
  <2>3. Status'[t] = "given" /\ \A u \in Task : u # t => Status'[u] = Status[u]
    BY <1>0, <1>4, <2>1, <2>2 DEF OSQPostToWaiter, OS_EventTaskRdy, TypeOK, Status
  <2>4. /\ Promise!Waiting(t)
        /\ \A u \in Task : Promise!Waiting(u) => t <= u
    BY <2>1, <2>2, StatusFacts DEF MostUrgent
  <2>5. Promise!PostToWaiter(m, t)
    BY <1>4, <2>1, <2>2, <2>3, <2>4, StatusUpdate, ContentsFrame
    DEF OSQPostToWaiter, OS_EventTaskRdy, Promise!PostToWaiter
  <2> QED
    BY <2>2, <2>5 DEF Promise!Next
<1>5. ASSUME NEW m \in Message, OSQPostToQueue(m) PROVE Promise!Next
  <2>1. Status' = Status
    BY <1>5 DEF OSQPostToQueue, tcbVars, Status
  <2>2. Promise!NoneWaits
    BY <1>5, StatusFacts DEF OSQPostToQueue, Promise!NoneWaits
  <2>3. Promise!PostToQueue(m)
    BY <1>5, <2>1, <2>2, ContentsPost, ContentsSeq
    DEF OSQPostToQueue, tcbVars, Promise!PostToQueue
  <2> QED
    BY <2>3 DEF Promise!Next
<1>6. ASSUME OSQPostFull PROVE Promise!Next
  <2>1. Status' = Status
    BY <1>6 DEF OSQPostFull, tcbVars, Status
  <2>2. Promise!NoneWaits /\ Len(Contents) = Size
    BY <1>0, <1>6, StatusFacts, ContentsSeq DEF OSQPostFull, Promise!NoneWaits, TypeOK
  <2>3. Promise!PostRefused
    BY <1>6, <2>1, <2>2, ContentsFrame DEF OSQPostFull, tcbVars, Promise!PostRefused
  <2> QED
    BY <2>3 DEF Promise!Next
<1>7. ASSUME OSTimeTick PROVE Promise!Next
  <2> DEFINE S == {t \in Task : Dly[t] = 1 /\ pc[t] = "pend"}
  <2>1. ASSUME NEW u \in S PROVE Status[u] = "waiting"
    <3>1. u \in Task /\ Dly[u] = 1 /\ pc[u] = "pend" /\ u \notin OSRdyTbl
      BY <1>0 DEF TaskInv, InPend
    <3> QED
      BY <3>1, StatusFacts
  <2>2. ASSUME NEW u \in Task
        PROVE  Status'[u] = IF u \in S THEN "expired" ELSE Status[u]
    <3>1. pc'[u] = pc[u]
      BY <1>7 DEF OSTimeTick
    <3>2. CASE Dly[u] = 1
      <4>1. StatPend'[u] = (IF Stat[u] = "Q" THEN "TO" ELSE "OK") /\ u \in OSRdyTbl'
        BY <1>7, <3>2 DEF OSTimeTick
      <4>2. pc[u] = "pend" => Stat[u] = "Q"
        BY <1>0, <3>2 DEF TaskInv, InPend, TypeOK
      <4> QED
        BY <3>1, <3>2, <4>1, <4>2 DEF Status
    <3>3. CASE Dly[u] # 1
      <4>1. StatPend'[u] = StatPend[u] /\ (u \in OSRdyTbl' <=> u \in OSRdyTbl)
        BY <1>7, <3>3 DEF OSTimeTick
      <4> QED
        BY <3>1, <3>3, <4>1 DEF Status
    <3> QED
      BY <3>2, <3>3
  <2>3. Status' = [t \in Task |-> IF t \in S THEN "expired" ELSE Status[t]]
    BY <2>2 DEF Status
  <2>4. Promise!Expire(S)
    BY <1>7, <2>1, <2>3, ContentsFrame DEF OSTimeTick, Promise!Expire
  <2> QED
    BY <2>4 DEF Promise!Next
<1>8. ASSUME NEW t \in Task, NEW ticks \in DelayTicks, OSTimeDly(t, ticks)
      PROVE UNCHANGED Promise!vars
  <2>1. \A u \in Task : Status'[u] = Status[u]
    BY <1>0, <1>8 DEF OSTimeDly, TypeOK, Status
  <2> QED
    BY <1>8, <2>1, StatusFrame, ContentsFrame DEF OSTimeDly
<1>9. ASSUME NEW t \in Task, OSTimeDlyReturn(t) PROVE UNCHANGED Promise!vars
  <2>1. \A u \in Task : Status'[u] = Status[u]
    BY <1>0, <1>9 DEF OSTimeDlyReturn, TypeOK, Status
  <2> QED
    BY <1>9, <2>1, StatusFrame, ContentsFrame DEF OSTimeDlyReturn
<1>10. ASSUME UNCHANGED vars PROVE UNCHANGED Promise!vars
  BY <1>10, ContentsFrame DEF vars, tcbVars, Status
<1> QED
  BY <1>1, <1>2, <1>3, <1>4, <1>5, <1>6, <1>7, <1>8, <1>9, <1>10 DEF Next

(* The kernel's message queue implements MsgQueue: for any tasks, queue    *)
(* size, timeouts and postings, what a task gets from OSQPend is what a    *)
(* bounded first-in first-out queue, in which a message beats a timeout,   *)
(* would have given it.                                                    *)
THEOREM Refinement == Spec => ImplementsMsgQueue
<1>1. Init => Promise!Init
  <2> SUFFICES ASSUME Init PROVE Promise!Init
    OBVIOUS
  <2>1. Contents = << >>
    BY DEF Init, Contents
  <2>2. Status = [t \in Task |-> "outside"]
    BY DEF Init, Status
  <2> QED
    BY <2>1, <2>2 DEF Init, Promise!Init
<1>2. IInv /\ IInv' /\ [Next]_vars => [Promise!Next]_Promise!vars
  BY PromiseStep
<1> QED
  BY <1>1, <1>2, Inductive, PTL DEF Spec, ImplementsMsgQueue, Promise!Spec
=============================================================================
