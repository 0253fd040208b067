----------------------------- MODULE UcosQueue -----------------------------
(***************************************************************************)
(* One message queue of the MicroC/OS-II kernel (UCOSII/src/os_q.c) with   *)
(* the tasks that pend on it, the task control blocks and event wait list  *)
(* of os_core.c, the clock tick and OSTimeDly of os_time.c.                *)
(*                                                                         *)
(* Every action is one critical section of the kernel.  Tasks run one at a *)
(* time, the most urgent ready one first; an interrupt handler may post,   *)
(* and the clock may tick, between any two of them.                        *)
(***************************************************************************)
EXTENDS Integers, Sequences

CONSTANTS
  Task,       \* OSTCBPrio of the tasks: the smaller, the more urgent
  Message,    \* one element per posting (see MsgQueue)
  NULL,       \* the null pointer
  Size,       \* OSQSize
  Timeout,    \* the timeout each task passes to OSQPend; 0 is for ever
  DelayTicks  \* the arguments tasks pass to OSTimeDly

ASSUME TaskAssumption == Task \subseteq Nat
ASSUME SizeAssumption == Size \in Nat \ {0}
ASSUME NullAssumption == NULL \notin Message
ASSUME TimeoutAssumption == Timeout \in [Task -> Nat]
ASSUME DelayAssumption == DelayTicks \subseteq Nat \ {0}

VARIABLES
  ring,        \* the storage OSQStart .. OSQEnd
  OSQIn,       \* index of the next insertion
  OSQOut,      \* index of the next extraction
  OSQEntries,  \* number of messages stored
  OSEventTbl,  \* the tasks in the queue's wait list
  OSRdyTbl,    \* the ready tasks
  Stat,        \* OSTCBStat: "RDY", or "Q" while pending on the queue
  StatPend,    \* OSTCBStatPend: "OK", or "TO" after a timeout
  Dly,         \* OSTCBDly: ticks left, 0 when no timer runs
  Msg,         \* OSTCBMsg: the message OS_EventTaskRdy left for the task
  pc,          \* "task": own code; "pend": inside OSQPend; "delay": OSTimeDly
  perr, pmsg,  \* how each task's last OSQPend ended and what it returned
  inFlight,    \* accepted by OSQPost, not yet returned by OSQPend
  postErr      \* the value of the last OSQPost

queueVars == <<ring, OSQIn, OSQOut, OSQEntries>>
tcbVars   == <<OSEventTbl, OSRdyTbl, Stat, StatPend, Dly, Msg, pc>>
vars      == <<queueVars, tcbVars, perr, pmsg, inFlight, postErr>>

Index == 0 .. Size - 1

TypeOK ==
  /\ ring \in [Index -> Message \cup {NULL}]
  /\ OSQIn \in Index
  /\ OSQOut \in Index
  /\ OSQEntries \in 0 .. Size
  /\ OSEventTbl \subseteq Task
  /\ OSRdyTbl \subseteq Task
  /\ Stat \in [Task -> {"RDY", "Q"}]
  /\ StatPend \in [Task -> {"OK", "TO"}]
  /\ Dly \in [Task -> Nat]
  /\ Msg \in [Task -> Message \cup {NULL}]
  /\ pc \in [Task -> {"task", "pend", "delay"}]
  /\ perr \in [Task -> {"none", "message", "timeout"}]
  /\ pmsg \in [Task -> Message \cup {NULL}]
  /\ inFlight \subseteq Message
  /\ postErr \in {"none", "full"}

(* OSQCreate, and tasks that OSTaskCreateExt made ready.                   *)
Init ==
  /\ ring = [i \in Index |-> NULL]
  /\ OSQIn = 0
  /\ OSQOut = 0
  /\ OSQEntries = 0
  /\ OSEventTbl = {}
  /\ OSRdyTbl = Task
  /\ Stat = [t \in Task |-> "RDY"]
  /\ StatPend = [t \in Task |-> "OK"]
  /\ Dly = [t \in Task |-> 0]
  /\ Msg = [t \in Task |-> NULL]
  /\ pc = [t \in Task |-> "task"]
  /\ perr = [t \in Task |-> "none"]
  /\ pmsg = [t \in Task |-> NULL]
  /\ inFlight = {}
  /\ postErr = "none"

-----------------------------------------------------------------------------
(* Definitions named X_<fault> are faulty variants of X.  No action uses    *)
(* them: putting one in the place of X shows that a property notices.      *)
Advance_LateWrap(i) == IF i = Size THEN 0 ELSE i + 1

(* An index moved on by one, back to OSQStart when it meets OSQEnd.        *)
Advance(i) == IF i + 1 = Size THEN 0 ELSE i + 1

MostUrgent(t, S) == t \in S /\ \A u \in S : t <= u

(* OS_SchedNew picks the most urgent ready task.                           *)
Runs(t) == MostUrgent(t, OSRdyTbl)

(* OSQPend, a message is stored: return with the oldest.                   *)
OSQPendTake(t) ==
  /\ Runs(t)
  /\ pc[t] = "task"
  /\ OSQEntries > 0
  /\ perr' = [perr EXCEPT ![t] = "message"]
  /\ pmsg' = [pmsg EXCEPT ![t] = ring[OSQOut]]
  /\ inFlight' = inFlight \ {ring[OSQOut]}
  /\ OSQOut' = Advance(OSQOut)
  /\ OSQEntries' = OSQEntries - 1
  /\ UNCHANGED <<ring, OSQIn, tcbVars, postErr>>

(* Into the event's wait list, out of the ready list.                      *)
OS_EventTaskWait(t) ==
  /\ OSEventTbl' = OSEventTbl \cup {t}
  /\ OSRdyTbl' = OSRdyTbl \ {t}

OSQPendBlock_NoTimer(t) ==
  /\ Runs(t)
  /\ pc[t] = "task"
  /\ OSQEntries = 0
  /\ Stat' = [Stat EXCEPT ![t] = "Q"]
  /\ StatPend' = [StatPend EXCEPT ![t] = "OK"]
  /\ OS_EventTaskWait(t)
  /\ pc' = [pc EXCEPT ![t] = "pend"]
  /\ UNCHANGED <<queueVars, Dly, Msg, perr, pmsg, inFlight, postErr>>

(* OSQPend, nothing stored: arm the timer, wait for the event and give up  *)
(* the processor (OS_Sched).                                               *)
OSQPendBlock(t) ==
  /\ Runs(t)
  /\ pc[t] = "task"
  /\ OSQEntries = 0
  /\ Stat' = [Stat EXCEPT ![t] = "Q"]
  /\ StatPend' = [StatPend EXCEPT ![t] = "OK"]
  /\ Dly' = [Dly EXCEPT ![t] = Timeout[t]]
  /\ OS_EventTaskWait(t)
  /\ pc' = [pc EXCEPT ![t] = "pend"]
  /\ UNCHANGED <<queueVars, Msg, perr, pmsg, inFlight, postErr>>

OSQPendReturn_StaysListed(t) ==
  /\ Runs(t)
  /\ pc[t] = "pend"
  /\ \/ /\ StatPend[t] = "OK"
        /\ perr' = [perr EXCEPT ![t] = "message"]
        /\ pmsg' = [pmsg EXCEPT ![t] = Msg[t]]
        /\ inFlight' = inFlight \ {Msg[t]}
     \/ /\ StatPend[t] = "TO"
        /\ perr' = [perr EXCEPT ![t] = "timeout"]
        /\ pmsg' = [pmsg EXCEPT ![t] = NULL]
        /\ UNCHANGED inFlight
  /\ Stat' = [Stat EXCEPT ![t] = "RDY"]
  /\ StatPend' = [StatPend EXCEPT ![t] = "OK"]
  /\ Msg' = [Msg EXCEPT ![t] = NULL]
  /\ pc' = [pc EXCEPT ![t] = "task"]
  /\ UNCHANGED <<queueVars, OSEventTbl, OSRdyTbl, Dly, postErr>>

(* The rest of OSQPend, once the task has the processor again.             *)
OSQPendReturn(t) ==
  /\ Runs(t)
  /\ pc[t] = "pend"
  /\ \/ /\ StatPend[t] = "OK"
        /\ perr' = [perr EXCEPT ![t] = "message"]
        /\ pmsg' = [pmsg EXCEPT ![t] = Msg[t]]
        /\ inFlight' = inFlight \ {Msg[t]}
        /\ UNCHANGED OSEventTbl
     \/ /\ StatPend[t] = "TO"
        /\ OSEventTbl' = OSEventTbl \ {t}
        /\ perr' = [perr EXCEPT ![t] = "timeout"]
        /\ pmsg' = [pmsg EXCEPT ![t] = NULL]
        /\ UNCHANGED inFlight
  /\ Stat' = [Stat EXCEPT ![t] = "RDY"]
  /\ StatPend' = [StatPend EXCEPT ![t] = "OK"]
  /\ Msg' = [Msg EXCEPT ![t] = NULL]
  /\ pc' = [pc EXCEPT ![t] = "task"]
  /\ UNCHANGED <<queueVars, OSRdyTbl, Dly, postErr>>

OS_EventTaskRdy_TimerRuns(t, m) ==
  /\ Msg' = [Msg EXCEPT ![t] = m]
  /\ Stat' = [Stat EXCEPT ![t] = "RDY"]
  /\ StatPend' = [StatPend EXCEPT ![t] = "OK"]
  /\ OSRdyTbl' = OSRdyTbl \cup {t}
  /\ OSEventTbl' = OSEventTbl \ {t}
  /\ UNCHANGED Dly

OS_EventTaskRdy_StaysListed(t, m) ==
  /\ Dly' = [Dly EXCEPT ![t] = 0]
  /\ Msg' = [Msg EXCEPT ![t] = m]
  /\ Stat' = [Stat EXCEPT ![t] = "RDY"]
  /\ StatPend' = [StatPend EXCEPT ![t] = "OK"]
  /\ OSRdyTbl' = OSRdyTbl \cup {t}
  /\ UNCHANGED OSEventTbl

OS_EventTaskRdy_KeepsTimeout(t, m) ==
  /\ Dly' = [Dly EXCEPT ![t] = 0]
  /\ Msg' = [Msg EXCEPT ![t] = m]
  /\ Stat' = [Stat EXCEPT ![t] = "RDY"]
  /\ OSRdyTbl' = OSRdyTbl \cup {t}
  /\ OSEventTbl' = OSEventTbl \ {t}
  /\ UNCHANGED StatPend

(* OS_EventTaskRdy: the message goes into the waiter's control block, its  *)
(* timer stops, it is ready and leaves the wait list.                      *)
OS_EventTaskRdy(t, m) ==
  /\ Dly' = [Dly EXCEPT ![t] = 0]
  /\ Msg' = [Msg EXCEPT ![t] = m]
  /\ Stat' = [Stat EXCEPT ![t] = "RDY"]
  /\ StatPend' = [StatPend EXCEPT ![t] = "OK"]
  /\ OSRdyTbl' = OSRdyTbl \cup {t}
  /\ OSEventTbl' = OSEventTbl \ {t}

(* OSQPost, called by an interrupt handler or by the running task.         *)
OSQPostToWaiter(m) ==
  /\ m \notin inFlight
  /\ \E t \in OSEventTbl :
       MostUrgent(t, OSEventTbl) /\ OS_EventTaskRdy(t, m)
  /\ inFlight' = inFlight \cup {m}
  /\ postErr' = "none"
  /\ UNCHANGED <<queueVars, pc, perr, pmsg>>

OSQPostToQueue_IgnoresWaiters(m) ==
  /\ m \notin inFlight
  /\ OSQEntries < Size
  /\ ring' = [ring EXCEPT ![OSQIn] = m]
  /\ OSQIn' = Advance(OSQIn)
  /\ OSQEntries' = OSQEntries + 1
  /\ inFlight' = inFlight \cup {m}
  /\ postErr' = "none"
  /\ UNCHANGED <<OSQOut, tcbVars, perr, pmsg>>

OSQPostToQueue(m) ==
  /\ m \notin inFlight
  /\ OSEventTbl = {}
  /\ OSQEntries < Size
  /\ ring' = [ring EXCEPT ![OSQIn] = m]
  /\ OSQIn' = Advance(OSQIn)
  /\ OSQEntries' = OSQEntries + 1
  /\ inFlight' = inFlight \cup {m}
  /\ postErr' = "none"
  /\ UNCHANGED <<OSQOut, tcbVars, perr, pmsg>>

OSQPostFull ==
  /\ OSEventTbl = {}
  /\ OSQEntries >= Size
  /\ postErr' = "full"
  /\ UNCHANGED <<queueVars, tcbVars, perr, pmsg, inFlight>>

OSTimeTick_PendersSleepOn ==
  LET expired == {t \in Task : Dly[t] = 1}
  IN  /\ \E t \in Task : Dly[t] > 0
      /\ Dly' = [t \in Task |-> IF Dly[t] > 0 THEN Dly[t] - 1 ELSE 0]
      /\ OSRdyTbl' = OSRdyTbl \cup {t \in expired : Stat[t] = "RDY"}
      /\ UNCHANGED <<queueVars, OSEventTbl, Stat, StatPend, Msg, pc, perr, pmsg,
                     inFlight, postErr>>

(* OSTimeTick: every running timer counts down; a task whose timer ends is *)
(* made ready, but one that was pending stays in the queue's wait list     *)
(* until its OSQPend resumes.                                              *)
OSTimeTick ==
  LET expired == {t \in Task : Dly[t] = 1}
  IN  /\ \E t \in Task : Dly[t] > 0
      /\ Dly' = [t \in Task |-> IF Dly[t] > 0 THEN Dly[t] - 1 ELSE 0]
      /\ StatPend' = [t \in Task |->
           IF t \in expired
             THEN IF Stat[t] = "Q" THEN "TO" ELSE "OK"
             ELSE StatPend[t]]
      /\ Stat' = [t \in Task |-> IF t \in expired THEN "RDY" ELSE Stat[t]]
      /\ OSRdyTbl' = OSRdyTbl \cup expired
      /\ UNCHANGED <<queueVars, OSEventTbl, Msg, pc, perr, pmsg, inFlight, postErr>>

OSTimeDly(t, ticks) ==
  /\ Runs(t)
  /\ pc[t] = "task"
  /\ OSRdyTbl' = OSRdyTbl \ {t}
  /\ Dly' = [Dly EXCEPT ![t] = ticks]
  /\ pc' = [pc EXCEPT ![t] = "delay"]
  /\ UNCHANGED <<queueVars, OSEventTbl, Stat, StatPend, Msg, perr, pmsg, inFlight, postErr>>

OSTimeDlyReturn(t) ==
  /\ Runs(t)
  /\ pc[t] = "delay"
  /\ pc' = [pc EXCEPT ![t] = "task"]
  /\ UNCHANGED <<queueVars, OSEventTbl, OSRdyTbl, Stat, StatPend, Dly, Msg,
                 perr, pmsg, inFlight, postErr>>

Next ==
  \/ \E t \in Task :
       \/ OSQPendTake(t)
       \/ OSQPendBlock(t)
       \/ OSQPendReturn(t)
       \/ \E ticks \in DelayTicks : OSTimeDly(t, ticks)
       \/ OSTimeDlyReturn(t)
  \/ \E m \in Message : OSQPostToWaiter(m) \/ OSQPostToQueue(m)
  \/ OSQPostFull
  \/ OSTimeTick

Spec == Init /\ [][Next]_vars

(* The timer interrupt keeps coming and a ready task gets the processor    *)
(* when it is the most urgent; nobody is obliged to post.                  *)
Fairness ==
  /\ WF_vars(OSTimeTick)
  /\ \A t \in Task : WF_vars(OSQPendReturn(t)) /\ WF_vars(OSTimeDlyReturn(t))

FairSpec == Spec /\ Fairness

-----------------------------------------------------------------------------
(* PROPERTIES                                                              *)

(* The ring: OSQIn lies OSQEntries slots beyond OSQOut.                    *)
Slot(k) == IF OSQOut + k < Size THEN OSQOut + k ELSE OSQOut + k - Size

(* The stored messages, oldest first.                                      *)
Contents == [k \in 1 .. OSQEntries |-> ring[Slot(k - 1)]]

(* Tasks that hold a message their OSQPend has not returned yet.           *)
HasMessage(t) == pc[t] = "pend" /\ t \in OSRdyTbl /\ StatPend[t] = "OK"

(* A message is never stored while a task waits for one: OSQPost hands it  *)
(* over, also to a task whose timeout the tick has just expired and which  *)
(* OSQPend has not yet taken off the wait list.                            *)
NoStrandedMessage == OSEventTbl # {} => OSQEntries = 0

(* A timer runs only for a task that is blocked: a post that beats the     *)
(* timeout also stops it, so that no later tick can report a timeout for a *)
(* wait that is over, or cut short a later OSTimeDly.                      *)
NoStaleTimer == \A t \in Task : Dly[t] > 0 => t \notin OSRdyTbl

(* The wait list holds exactly the tasks inside OSQPend that have no       *)
(* message: a post can never write into the control block of a task that   *)
(* has left OSQPend or that already holds a message.                       *)
WaitListExact ==
  OSEventTbl = {t \in Task : pc[t] = "pend" /\ ~HasMessage(t)}

(* A blocked task can always be woken: it waits on the queue or on a timer *)
(* that runs, so a timed wait or a delay never becomes a wait for ever.    *)
BlockedCanWake ==
  \A t \in Task \ OSRdyTbl :
    \/ Dly[t] > 0
    \/ t \in OSEventTbl /\ Timeout[t] = 0

(* Wait list, timers and ready table agree on who waits and for what, so   *)
(* that of a post and a timeout that race exactly one ends the wait        *)
(* (os_core.c:989, 851; os_q.c:435); and the two pointers of the ring stay *)
(* within it (os_q.c:424).                                                 *)
WaitersConsistent == TypeOK /\ WaitListExact /\ NoStaleTimer /\ BlockedCanWake

(* Every message accepted by OSQPost and not yet returned by OSQPend is in *)
(* exactly one place: one slot of the ring or one task's control block.    *)
ExactlyOnce ==
  \A m \in Message :
    LET slots   == {k \in 1 .. OSQEntries : Contents[k] = m}
        holders == {t \in Task : HasMessage(t) /\ Msg[t] = m}
    IN  IF m \in inFlight
          THEN \/ \E k \in slots : slots = {k} /\ holders = {}
               \/ \E t \in holders : holders = {t} /\ slots = {}
          ELSE slots = {} /\ holders = {}

(* Where a task stands in its call of OSQPend, as MsgQueue sees it.        *)
Status == [t \in Task |->
  IF pc[t] # "pend"       THEN "outside"
  ELSE IF t \notin OSRdyTbl THEN "waiting"
  ELSE IF StatPend[t] = "TO" THEN "expired"
  ELSE "given"]

(* The kernel queue keeps the promises of MsgQueue: first in first out, a  *)
(* message beats a timeout, a post is refused only when the ring is full.  *)
Promise == INSTANCE MsgQueue WITH
  queue <- Contents, status <- Status, given <- Msg

ImplementsMsgQueue == Promise!Spec

(* Under ticks that keep coming, the most urgent task returns from every   *)
(* OSQPend that has a timeout and from every OSTimeDly, whether or not     *)
(* anything is posted.                                                     *)
TimedWaitEnds ==
  \A t \in Task :
    MostUrgent(t, Task) =>
      ((pc[t] = "delay" \/ (pc[t] = "pend" /\ Timeout[t] > 0)) ~> pc[t] = "task")
=============================================================================
