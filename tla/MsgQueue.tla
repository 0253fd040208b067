------------------------------ MODULE MsgQueue ------------------------------
(***************************************************************************)
(* What a MicroC/OS-II message queue promises to the tasks that pend on it *)
(* and to the tasks and interrupt handlers that post to it.                *)
(*                                                                         *)
(* A message stands for ONE posting: the same byte posted twice is two     *)
(* messages, and a message may be posted again only once it has been       *)
(* received.                                                               *)
(***************************************************************************)
EXTENDS Integers, Sequences

CONSTANTS
  Task,      \* the priorities of the tasks that use the queue; 0 is the most urgent
  Message,   \* the messages
  NULL,      \* what a pend returns when it returns no message
  Size       \* the number of messages the queue stores

VARIABLES
  queue,     \* the stored messages, oldest first
  status,    \* where each task stands in its call of pend
  given,     \* the message a task has been handed and has not yet returned with
  inFlight,  \* the messages accepted by a post and not yet returned by a pend
  perr, pmsg,   \* how each task's last pend ended, and with which message
  postErr    \* how the last post ended

vars == <<queue, status, given, inFlight, perr, pmsg, postErr>>

Waiting(t) == status[t] \in {"waiting", "expired"}

NoneWaits == \A t \in Task : ~Waiting(t)

TypeOK ==
  /\ queue \in Seq(Message)
  /\ status \in [Task -> {"outside", "waiting", "expired", "given"}]
  /\ given \in [Task -> Message \cup {NULL}]
  /\ inFlight \subseteq Message
  /\ perr \in [Task -> {"none", "message", "timeout"}]
  /\ pmsg \in [Task -> Message \cup {NULL}]
  /\ postErr \in {"none", "full"}

Init ==
  /\ queue = << >>
  /\ status = [t \in Task |-> "outside"]
  /\ given = [t \in Task |-> NULL]
  /\ inFlight = {}
  /\ perr = [t \in Task |-> "none"]
  /\ pmsg = [t \in Task |-> NULL]
  /\ postErr = "none"

-----------------------------------------------------------------------------
(* A post goes straight to the most urgent waiting task: one whose timeout *)
(* has expired but whose call has not returned counts as waiting.          *)
PostToWaiter(m, t) ==
  /\ m \notin inFlight
  /\ Waiting(t)
  /\ \A u \in Task : Waiting(u) => t <= u
  /\ status' = [status EXCEPT ![t] = "given"]
  /\ given' = [given EXCEPT ![t] = m]
  /\ inFlight' = inFlight \cup {m}
  /\ postErr' = "none"
  /\ UNCHANGED <<queue, perr, pmsg>>

PostToQueue(m) ==
  /\ m \notin inFlight
  /\ NoneWaits
  /\ Len(queue) < Size
  /\ queue' = Append(queue, m)
  /\ inFlight' = inFlight \cup {m}
  /\ postErr' = "none"
  /\ UNCHANGED <<status, given, perr, pmsg>>

PostRefused ==
  /\ NoneWaits
  /\ Len(queue) = Size
  /\ postErr' = "full"
  /\ UNCHANGED <<queue, status, given, inFlight, perr, pmsg>>

(* A pend that finds a message returns with the oldest one.                *)
Take(t) ==
  /\ status[t] = "outside"
  /\ queue # << >>
  /\ queue' = Tail(queue)
  /\ inFlight' = inFlight \ {Head(queue)}
  /\ perr' = [perr EXCEPT ![t] = "message"]
  /\ pmsg' = [pmsg EXCEPT ![t] = Head(queue)]
  /\ UNCHANGED <<status, given, postErr>>

Block(t) ==
  /\ status[t] = "outside"
  /\ queue = << >>
  /\ status' = [status EXCEPT ![t] = "waiting"]
  /\ UNCHANGED <<queue, given, inFlight, perr, pmsg, postErr>>

(* Any set of timeouts may expire at once: a clock tick serves all tasks.  *)
Expire(S) ==
  /\ \A t \in S : status[t] = "waiting"
  /\ status' = [t \in Task |-> IF t \in S THEN "expired" ELSE status[t]]
  /\ UNCHANGED <<queue, given, inFlight, perr, pmsg, postErr>>

ReturnMessage(t) ==
  /\ status[t] = "given"
  /\ status' = [status EXCEPT ![t] = "outside"]
  /\ given' = [given EXCEPT ![t] = NULL]
  /\ inFlight' = inFlight \ {given[t]}
  /\ perr' = [perr EXCEPT ![t] = "message"]
  /\ pmsg' = [pmsg EXCEPT ![t] = given[t]]
  /\ UNCHANGED <<queue, postErr>>

(* A task is told of a timeout only while the queue holds nothing for it.  *)
ReturnTimeout(t) ==
  /\ status[t] = "expired"
  /\ queue = << >>
  /\ status' = [status EXCEPT ![t] = "outside"]
  /\ perr' = [perr EXCEPT ![t] = "timeout"]
  /\ pmsg' = [pmsg EXCEPT ![t] = NULL]
  /\ UNCHANGED <<queue, given, inFlight, postErr>>

Next ==
  \/ \E m \in Message : PostToQueue(m)
  \/ \E m \in Message, t \in Task : PostToWaiter(m, t)
  \/ PostRefused
  \/ \E t \in Task :
       Take(t) \/ Block(t) \/ ReturnMessage(t) \/ ReturnTimeout(t)
  \/ \E S \in SUBSET Task : Expire(S)

Spec == Init /\ [][Next]_vars
=============================================================================
