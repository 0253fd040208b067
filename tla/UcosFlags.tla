----------------------------- MODULE UcosFlags -----------------------------
(***************************************************************************)
(* Event flags of MicroC/OS-II (UCOSII/src/os_flag.c): a task waits until  *)
(* any or all of some flags of a group are set, or are clear, and may      *)
(* consume them.  A node of the group's wait list lies on the stack of the *)
(* waiting task: it stays linked after a timeout until the task runs, and  *)
(* flags are consumed when the task runs, not when they are posted.  The   *)
(* drivers of the serial port and of the JTAG UART (UartDriver, JtagUart)  *)
(* use them beside semaphores.                                             *)
(*                                                                         *)
(* Consuming wakes nobody, so all who use a group have to wait for the     *)
(* same polarity: see NobodyStranded.                                      *)
(***************************************************************************)
EXTENDS UcosCore

CONSTANTS
  Group,   \* the flag groups' control blocks
  Flag,    \* the flags of a group
  Ticks    \* timeouts, and arguments of OSTimeDly

ASSUME GroupAssumption == NULL \notin Group
ASSUME TicksAssumption == Ticks \subseteq Nat \ {0}

VARIABLES
  OSFlagFreeList,  \* the groups in the free list
  OSFlagFlags,     \* each group's flags that are set
  OSFlagWaitList,  \* each group's wait list: the tasks whose nodes are linked
  node,            \* each task's node: its last wait
  FlagsRdy         \* OSTCBFlagsRdy: the flags that ended the wait, until its end

flagVars == <<OSFlagFreeList, OSFlagFlags, OSFlagWaitList, node, FlagsRdy>>

(* A wait, for flags that are set or for flags that are clear.             *)
Waits  == [grp : Group, flags : SUBSET Flag, set : BOOLEAN, all : BOOLEAN, consume : BOOLEAN]
NoNode == [grp |-> NULL, flags |-> {}, set |-> TRUE, all |-> FALSE, consume |-> FALSE]

FlagsTypeOK ==
  /\ OSFlagFreeList \subseteq Group
  /\ OSFlagFlags \in [Group -> SUBSET Flag]
  /\ OSFlagWaitList \in [Group -> SUBSET TCB]
  /\ node \in [TCB -> Waits \cup {NoNode}]
  /\ FlagsRdy \in [TCB -> SUBSET Flag]

(* All groups have been created, with no flag set.                         *)
FlagsInit ==
  /\ OSFlagFreeList = {}
  /\ OSFlagFlags = [g \in Group |-> {}]
  /\ OSFlagWaitList = [g \in Group |-> {}]
  /\ node = [t \in TCB |-> NoNode]
  /\ FlagsRdy = [t \in TCB |-> {}]

-----------------------------------------------------------------------------
(* Definitions named X_<fault> are faulty variants of X; nothing uses them. *)

(* The flags that a wait w finds when those of S are set; whether they end *)
(* it; and what is set once they are consumed.                             *)
Found(w, S)     == IF w.set THEN w.flags \cap S ELSE w.flags \ S
Satisfied(w, S) == IF w.all THEN Found(w, S) = w.flags ELSE Found(w, S) # {}
Consume(w, S, found) ==
  IF ~w.consume THEN S ELSE IF w.set THEN S \ found ELSE S \cup found

(* A group's wait list without the nodes of S.                             *)
OS_FlagUnlink(g, S) == [OSFlagWaitList EXCEPT ![g] = @ \ S]

(* OS_FlagTaskRdy for each task of S, rdy[t] being the flags it is given:  *)
(* the node leaves the list of g, and the task is ready unless suspended.  *)
OS_FlagTaskRdy(g, S, rdy) ==
  /\ Dly' = [t \in TCB |-> IF t \in S THEN 0 ELSE Dly[t]]
  /\ Stat' = [t \in TCB |-> IF t \in S THEN Stat[t] \ {"FLAG"} ELSE Stat[t]]
  /\ StatPend' = [t \in TCB |-> IF t \in S THEN "OK" ELSE StatPend[t]]
  /\ FlagsRdy' = [t \in TCB |-> IF t \in S THEN rdy[t] ELSE FlagsRdy[t]]
  /\ OSRdyTbl' = OSRdyTbl \cup {OSTCBPrio[t] : t \in {u \in S : Stat[u] \subseteq {"FLAG"}}}
  /\ OSFlagWaitList' = OS_FlagUnlink(g, S)

OSFlagCreate(t) ==
  /\ InTask(t)
  /\ \E g \in OSFlagFreeList, flags \in SUBSET Flag :
       /\ OSFlagFreeList' = OSFlagFreeList \ {g}
       /\ OSFlagFlags' = [OSFlagFlags EXCEPT ![g] = flags]
       /\ OSFlagWaitList' = [OSFlagWaitList EXCEPT ![g] = {}]
  /\ UNCHANGED <<coreVars, node, FlagsRdy>>

(* OS_DEL_ALWAYS gives the waiters no flags; OS_DEL_NO_PEND does the same  *)
(* when there are none, and nothing otherwise.                             *)
OSFlagDel(t, g) ==
  /\ InTask(t)
  /\ g \notin OSFlagFreeList
  /\ OS_FlagTaskRdy(g, OSFlagWaitList[g], [u \in TCB |-> {}])
  /\ OSFlagFreeList' = OSFlagFreeList \cup {g}
  /\ OSFlagFlags' = [OSFlagFlags EXCEPT ![g] = {}]
  /\ ThenSched(t, OSFlagWaitList[g] # {})
  /\ UNCHANGED <<prioVars, waitVars, pc, node>>

(* A wait w that the flags end at once, and OSFlagAccept, which does       *)
(* nothing when they do not.                                               *)
TakeFlags(g, w) ==
  /\ g \notin OSFlagFreeList
  /\ Satisfied(w, OSFlagFlags[g])
  /\ OSFlagFlags' = [OSFlagFlags EXCEPT ![g] = Consume(w, @, Found(w, @))]
  /\ UNCHANGED <<OSFlagFreeList, OSFlagWaitList, node, FlagsRdy>>

OSFlagAccept(g, w) == TakeFlags(g, w)

OS_FlagBlock(t, g, w, timeout) ==
  /\ Block(OSRdyTbl, t, {"FLAG"}, timeout)
  /\ node' = [node EXCEPT ![t] = w]
  /\ OSFlagWaitList' = [OSFlagWaitList EXCEPT ![g] = @ \cup {t}]

OSFlagPend(t, w, timeout) ==
  /\ InTask(t)
  /\ OSLockNesting = 0
  /\ \/ TakeFlags(w.grp, w) /\ UNCHANGED coreVars
     \/ /\ w.grp \notin OSFlagFreeList
        /\ ~Satisfied(w, OSFlagFlags[w.grp])
        /\ OS_FlagBlock(t, w.grp, w, timeout)
        /\ pc' = [pc EXCEPT ![t] = "flag"]
        /\ ThenSched(t, TRUE)
        /\ UNCHANGED <<prioVars, waitVars, OSFlagFreeList, OSFlagFlags, FlagsRdy>>

FlagReturn_KeepsNode(t) ==
  LET w  == node[t]
      ok == StatPend[t] = "OK"
  IN  /\ Running(t)
      /\ pc[t] = "flag"
      /\ OSFlagFlags' = IF ok THEN [OSFlagFlags EXCEPT ![w.grp] = Consume(w, @, FlagsRdy[t])]
                              ELSE OSFlagFlags
      /\ Stat' = IF ok THEN Stat ELSE [Stat EXCEPT ![t] = {}]
      /\ StatPend' = [StatPend EXCEPT ![t] = "OK"]
      /\ node' = [node EXCEPT ![t] = NoNode]
      /\ FlagsRdy' = [FlagsRdy EXCEPT ![t] = {}]
      /\ pc' = [pc EXCEPT ![t] = "task"]
      /\ UNCHANGED <<prioVars, Dly, OSRdyTbl, waitVars, cpuVars>>
      /\ UNCHANGED <<OSFlagFreeList, OSFlagWaitList>>

(* The second half: the node is unlinked after a timeout, else the flags   *)
(* are consumed, from the group as it is now.                              *)
FlagReturn(t) ==
  LET w  == node[t]
      ok == StatPend[t] = "OK"
  IN  /\ Running(t)
      /\ pc[t] = "flag"
      /\ OSFlagFlags' = IF ok THEN [OSFlagFlags EXCEPT ![w.grp] = Consume(w, @, FlagsRdy[t])]
                              ELSE OSFlagFlags
      /\ OSFlagWaitList' = IF ok THEN OSFlagWaitList ELSE OS_FlagUnlink(w.grp, {t})
      /\ Stat' = IF ok THEN Stat ELSE [Stat EXCEPT ![t] = {}]
      /\ StatPend' = [StatPend EXCEPT ![t] = "OK"]
      /\ node' = [node EXCEPT ![t] = NoNode]
      /\ FlagsRdy' = [FlagsRdy EXCEPT ![t] = {}]
      /\ pc' = [pc EXCEPT ![t] = "task"]
      /\ UNCHANGED <<prioVars, Dly, OSRdyTbl, waitVars, cpuVars, OSFlagFreeList>>

OSFlagPost_FirstOnly(g, flags, set) ==
  LET now == IF set THEN OSFlagFlags[g] \cup flags ELSE OSFlagFlags[g] \ flags
      found == [t \in TCB |-> Found(node[t], now)]
      S == {t \in OSFlagWaitList[g] : Satisfied(node[t], now)}
  IN  /\ g \notin OSFlagFreeList
      /\ OSFlagFlags' = [OSFlagFlags EXCEPT ![g] = now]
      /\ OS_FlagTaskRdy(g, {t \in S : \A u \in S : OSTCBPrio[t] <= OSTCBPrio[u]}, found)
      /\ UNCHANGED <<prioVars, waitVars, OSFlagFreeList, node>>

(* OS_FLAG_SET or OS_FLAG_CLR; each waiter that finds its flags is woken.  *)
OSFlagPost(g, flags, set) ==
  LET now == IF set THEN OSFlagFlags[g] \cup flags ELSE OSFlagFlags[g] \ flags
      found == [t \in TCB |-> Found(node[t], now)]
  IN  /\ g \notin OSFlagFreeList
      /\ OSFlagFlags' = [OSFlagFlags EXCEPT ![g] = now]
      /\ OS_FlagTaskRdy(g, {t \in OSFlagWaitList[g] : Satisfied(node[t], now)}, found)
      /\ UNCHANGED <<prioVars, waitVars, OSFlagFreeList, node>>

OSFlagQuery(g) == OSFlagFlags[g]

-----------------------------------------------------------------------------
(* What the drivers use of the kernel beside flags: semaphores that are    *)
(* created with a count of 1 and never deleted (ALT_SEM_CREATE,            *)
(* ALT_SEM_PEND and ALT_SEM_POST), and tasks that run the drivers' code    *)
(* step by step.                                                           *)
CONSTANTS
  events,                 \* the driver's flag group
  read_lock, write_lock   \* its semaphores

ASSUME DriverAssumption == events \in Group /\ {read_lock, write_lock} \subseteq Event

VARIABLES
  cnt,   \* OSEventCnt of the semaphores
  role,  \* what each task does, and with up to how many bytes
  at     \* where it is in the driver's code

(* A step of task t's code.                                                *)
Step(t, from, to) == InTask(t) /\ at[t] = from /\ at' = [at EXCEPT ![t] = to]

OSSemPend(t, e) ==
  \/ /\ cnt[e] > 0
     /\ cnt' = [cnt EXCEPT ![e] = @ - 1]
     /\ UNCHANGED coreVars
  \/ /\ cnt[e] = 0
     /\ Block(OSRdyTbl, t, {"SEM"}, 0)
     /\ OS_EventTaskWait(t, e)
     /\ pc' = [pc EXCEPT ![t] = "pend"]
     /\ ThenSched(t, TRUE)
     /\ UNCHANGED <<prioVars, cnt>>

OSSemPendEnds(t) ==
  /\ Running(t)
  /\ pc[t] = "pend"
  /\ PendEnds(t)
  /\ pc' = [pc EXCEPT ![t] = "task"]
  /\ UNCHANGED <<prioVars, cpuVars, flagVars, cnt>>

OSSemPost(t, e) ==
  \/ /\ OSEventTbl[e] # {}
     /\ OS_EventTaskRdy(OSRdyTbl, e, FirstWaiter(e), {"SEM"}, "OK")
     /\ ThenSched(t, TRUE)
     /\ UNCHANGED <<prioVars, pc, cnt>>
  \/ /\ OSEventTbl[e] = {}
     /\ cnt' = [cnt EXCEPT ![e] = @ + 1]
     /\ UNCHANGED coreVars

(* The task sleeps between calls of the driver, and the clock wakes it.    *)
TaskSleeps(t) ==
  /\ \E ticks \in Ticks : OSTimeDly(t, ticks)
  /\ ThenSched(t, TRUE)
  /\ UNCHANGED pc

ClockTicks == OSTimeTick /\ OSIntExit

(* ALT_FLAG_PEND for any of some flags of the driver's, to be consumed.    *)
AltFlagPend(t, flags) ==
  OSFlagPend(t, [grp |-> events, flags |-> flags, set |-> TRUE, all |-> FALSE, consume |-> TRUE], 0)

-----------------------------------------------------------------------------
(* PROPERTIES                                                              *)

(* Held off the ready list: a task that waits for flags, and no timeout    *)
(* has ended the wait; one whose timer runs; a suspended one.              *)
WaitsForFlags(t) == pc[t] = "flag" /\ "FLAG" \in Stat[t]

(* The wait list of a group holds exactly the nodes of tasks that wait for *)
(* its flags or have timed out and not yet run, so no list ever leads into *)
(* a stack frame that is gone; a group in the free list has no waiters;    *)
(* and a task is off the ready list exactly when something holds it there. *)
FlagWaitersExact ==
  /\ \A g \in Group : OSFlagWaitList[g] =
       {t \in TCB : pc[t] = "flag" /\ node[t].grp = g /\
                    (WaitsForFlags(t) \/ StatPend[t] = "TO")}
  /\ \A g \in OSFlagFreeList : OSFlagWaitList[g] = {}
  /\ \A t \in TCB : OSTCBPrio[t] \notin OSRdyTbl <=>
       (WaitsForFlags(t) \/ Dly[t] > 0 \/ "SUSPEND" \in Stat[t] \/ "SEM" \in Stat[t])

(* No task waits for flags that its group has, however posts, deletions,   *)
(* timeouts and the late consumption of other tasks' flags follow.         *)
NobodyStranded ==
  \A g \in Group : \A t \in OSFlagWaitList[g] : ~Satisfied(node[t], OSFlagQuery(g))
=============================================================================
