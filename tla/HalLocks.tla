------------------------------ MODULE HalLocks ------------------------------
(***************************************************************************)
(* The locks by which newlib protects the heap and the environment         *)
(* (UCOSII/src/alt_malloc_lock.c, alt_env_lock.c): a semaphore, the owner  *)
(* (by priority) and how often it has locked.  Tasks lock and unlock them  *)
(* beside those that use the serial driver, on the same kernel.            *)
(*                                                                         *)
(* Init allows a task nested locks up to its role's len.  __env_lock sees  *)
(* that its caller owns the lock only when some other task waits for it,   *)
(* so the environment's lock must not be nested (len = 1).                 *)
(*                                                                         *)
(* The owner and the count are written outside a critical section, by the  *)
(* owner alone; the others only compare the owner with themselves.         *)
(***************************************************************************)
EXTENDS UartDriver

CONSTANTS alt_heapsem, alt_envsem

ASSUME LockAssumption == {alt_heapsem, alt_envsem} \subseteq Event \ {read_lock, write_lock}

VARIABLES
  lockid,  \* the priority of each lock's owner, or NOBODY
  locks,   \* how often it has locked
  seen,    \* local to the lock functions: what OSSemQuery has shown
  depth    \* history: the calls of lock that have returned, less those of unlock

lockVars == <<lockid, locks, seen, depth>>
allVars  == <<vars, lockVars>>

LockSteps == {"ltest", "lpend", "lclaim", "lown", "lpost"}
LockNames == {"heap", "env"}
NOBODY    == -1

ASSUME LockRolesAssumption ==
  /\ OtherSteps = LockSteps
  /\ \A r \in Roles : \A t \in TCB : r[t].does = "env" => r[t].len <= 1

LocksTypeOK ==
  /\ OtherSteps = LockSteps
  /\ lockid \in [LockNames -> Prio \cup {NOBODY}]
  /\ locks \in [LockNames -> Nat]
  /\ seen \in [TCB -> BOOLEAN]
  /\ depth \in [TCB -> Nat]

HalInit ==
  /\ Init
  /\ lockid = [l \in LockNames |-> NOBODY]
  /\ locks = [l \in LockNames |-> 0]
  /\ seen = [t \in TCB |-> FALSE]
  /\ depth = [t \in TCB |-> 0]

-----------------------------------------------------------------------------
(* Definitions named X_<fault> are faulty variants of X; nothing uses them. *)

LockOf(t) == role[t].does
Sem(t)    == IF LockOf(t) = "heap" THEN alt_heapsem ELSE alt_envsem
Owns(t)   == lockid[LockOf(t)] = OSTCBPrio[t]

Rest == <<flagVars, left, got, rxVars, txVars, ctrl, role, wireVars>>

(* OSSemQuery: whether the heap's semaphore is taken; whether somebody     *)
(* waits for the environment's.                                            *)
Query(t) ==
  /\ Step(t, "out", "ltest")
  /\ LockOf(t) \in LockNames
  /\ depth[t] < role[t].len
  /\ seen' = [seen EXCEPT ![t] =
       IF LockOf(t) = "heap" THEN cnt[Sem(t)] = 0 ELSE OSEventTbl[Sem(t)] # {}]
  /\ UNCHANGED <<coreVars, cnt, Rest, lockid, locks, depth>>

(* The owner counts the recursion; others go to wait.                      *)
Test(t) ==
  /\ \/ /\ Step(t, "ltest", "out")
        /\ seen[t] /\ Owns(t)
        /\ locks' = [locks EXCEPT ![LockOf(t)] = @ + 1]
        /\ depth' = [depth EXCEPT ![t] = @ + 1]
     \/ /\ Step(t, "ltest", "lpend")
        /\ ~(seen[t] /\ Owns(t))
        /\ UNCHANGED <<locks, depth>>
  /\ seen' = [seen EXCEPT ![t] = FALSE]
  /\ UNCHANGED <<coreVars, cnt, Rest, lockid>>

PendLock(t) ==
  /\ Step(t, "lpend", "lclaim")
  /\ OSSemPend(t, Sem(t))
  /\ UNCHANGED <<Rest, lockVars>>

(* The new owner writes the count and its name outside any critical        *)
(* section.                                                                *)
Claim(t) ==
  /\ \/ /\ Step(t, "lclaim", "lown")
        /\ locks' = [locks EXCEPT ![LockOf(t)] = 1]
        /\ UNCHANGED <<lockid, depth>>
     \/ /\ Step(t, "lown", "out")
        /\ lockid' = [lockid EXCEPT ![LockOf(t)] = OSTCBPrio[t]]
        /\ depth' = [depth EXCEPT ![t] = @ + 1]
        /\ UNCHANGED locks
  /\ UNCHANGED <<coreVars, cnt, Rest, seen>>

Unlock_KeepsOwner(t) ==
  LET l == LockOf(t)
  IN  /\ depth[t] > 0
      /\ depth' = [depth EXCEPT ![t] = @ - 1]
      /\ locks' = [locks EXCEPT ![l] = IF @ = 0 THEN 0 ELSE @ - 1]
      /\ IF locks[l] = 1 THEN Step(t, "out", "lpost") ELSE Step(t, "out", "out")
      /\ UNCHANGED <<coreVars, cnt, Rest, seen, lockid>>

(* __malloc_unlock and __env_unlock up to OSSemPost, which follows the     *)
(* last of nested ones.                                                    *)
Unlock(t) ==
  LET l == LockOf(t)
  IN  /\ depth[t] > 0
      /\ depth' = [depth EXCEPT ![t] = @ - 1]
      /\ locks' = [locks EXCEPT ![l] = IF @ = 0 THEN 0 ELSE @ - 1]
      /\ \/ locks[l] = 1 /\ Step(t, "out", "lpost") /\ lockid' = [lockid EXCEPT ![l] = NOBODY]
         \/ locks[l] # 1 /\ Step(t, "out", "out") /\ UNCHANGED lockid
      /\ UNCHANGED <<coreVars, cnt, Rest, seen>>

PostLock(t) ==
  /\ Step(t, "lpost", "out")
  /\ OSSemPost(t, Sem(t))
  /\ UNCHANGED <<Rest, lockVars>>

(* The task sleeps, with or without the lock.                              *)
Sleep(t) ==
  /\ Step(t, "out", "out")
  /\ LockOf(t) \in LockNames
  /\ TaskSleeps(t)
  /\ UNCHANGED <<cnt, Rest, lockVars>>

Tick ==
  /\ \E t \in TCB : LockOf(t) \in LockNames
  /\ ClockTicks
  /\ UNCHANGED <<flagVars, driverVars, lockVars>>

HalNext ==
  \/ Next /\ UNCHANGED lockVars
  \/ \E t \in TCB \ {Idle} :
       Query(t) \/ Test(t) \/ PendLock(t) \/ Claim(t) \/ Unlock(t) \/ PostLock(t)
       \/ Sleep(t)
  \/ Tick

HalSpec == HalInit /\ [][HalNext]_allVars

-----------------------------------------------------------------------------
(* PROPERTIES                                                              *)

(* The state is well-typed, the wait lists are exact and nobody waits for  *)
(* flags that are there already (UcosFlags), however the tasks call.       *)
TablesExact == TypeOK /\ LocksTypeOK /\ FlagWaitersExact /\ NobodyStranded

(* No two tasks are inside one lock; the owner and the count are those of  *)
(* the task that is, though they are read and written outside the critical *)
(* section that takes the semaphore; and that task is not waiting for the  *)
(* lock it holds.                                                          *)
LockIsExclusive ==
  \A t \in TCB : LockOf(t) \in LockNames /\ depth[t] > 0 =>
    /\ \A u \in TCB \ {t} : LockOf(u) = LockOf(t) => depth[u] = 0
    /\ Owns(t) /\ locks[LockOf(t)] = depth[t]
    /\ pc[t] # "pend"
=============================================================================
