---------------------------- MODULE DriverProofs ----------------------------
(***************************************************************************)
(* That the serial driver and the locks of the heap and the environment    *)
(* keep what they promise, for any number of tasks in any of the roles,    *)
(* any size of the rings and any number of bytes told apart: proofs, on    *)
(* the lemmas about the kernel of UcosFlagsProofs.                         *)
(*                                                                         *)
(* The invariant DriverInv says where a task can stand in its code and     *)
(* what it can wait for there; who holds which semaphore, counting the     *)
(* task that has been given one and not yet run; that the owner and the    *)
(* count of a lock follow the holder; what the transient index of a reader *)
(* and a byte that waits in the device may be; and, for each place from    *)
(* which a task goes to sleep, why it will be woken.                       *)
(***************************************************************************)
EXTENDS HalLocks, UcosFlagsProofs

DriverTypeOK ==
  /\ role \in Roles
  /\ cnt \in [Event -> {0, 1}]
  /\ at \in [TCB -> {"out"} \cup ReadSteps \cup WriteSteps \cup LockSteps]
  /\ left \in [TCB -> Nat]
  /\ got \in [TCB -> BOOLEAN]
  /\ lockid \in [LockNames -> Prio \cup {NOBODY}]
  /\ locks \in [LockNames -> Nat]
  /\ seen \in [TCB -> BOOLEAN]
  /\ depth \in [TCB -> Nat]

RingTypeOK ==
  /\ rx_start \in 0 .. BufLen
  /\ rx_end \in 0 .. BufLen - 1 /\ tx_start \in 0 .. BufLen - 1 /\ tx_end \in 0 .. BufLen - 1
  /\ rx_buf \in [0 .. BufLen - 1 -> 0 .. NONE] /\ tx_buf \in [0 .. BufLen - 1 -> 0 .. NONE]
  /\ ctrl \subseteq {"RRDY", "TRDY"}
  /\ rxdata \in 0 .. NONE /\ rxerror \in BOOLEAN /\ trdy \in BOOLEAN
  /\ received \in 0 .. Wrap - 1 /\ lastRead \in 0 .. Wrap - 1
  /\ written \in 0 .. Wrap - 1 /\ lastSent \in 0 .. Wrap - 1

(* The semaphore that a task uses, and its waits in the driver.            *)
MySem(t) == IF Reader(t) THEN read_lock ELSE IF Writer(t) THEN write_lock ELSE Sem(t)

WaitFor(flags) ==
  [grp |-> events, flags |-> flags, set |-> TRUE, all |-> FALSE, consume |-> TRUE]

(* Where a task stands in its code, by its role.                           *)
AtExact ==
  \A t \in TCB :
    /\ at[t] \in {"out"} \cup (IF Reader(t) THEN ReadSteps ELSE IF Writer(t) THEN WriteSteps
                               ELSE IF LockOf(t) \in LockNames THEN LockSteps ELSE {})
    /\ at[t] \in {"renable", "rpend"} => role[t].does = "read"
    /\ at[t] \in {"wenable", "wpend", "wagain"} => role[t].does = "write"
    /\ at[t] \in {"wenable", "wpend", "wagain", "wput"} => left[t] > 0
    /\ depth[t] > 0 => LockOf(t) \in LockNames

(* What it waits for where it stands.                                      *)
ForSet == \A u \in TCB : role[u].does # "clear"

WaitsWell(t) ==
  /\ pc[t] = "pend" => at[t] \in {"rloop", "wloop", "lclaim"}
  /\ "SEM" \in Stat[t] => EventPtr[t] = MySem(t)
  /\ pc[t] = "flag" => \/ IsAny(t)
                       \/ role[t].does = "read" /\ at[t] = "rloop" /\ node[t] = WaitFor({"READ_RDY"})
                       \/ role[t].does = "write" /\ at[t] = "wagain" /\ node[t] = WaitFor({"WRITE_RDY"})
  /\ pc[t] = "flag" => node[t].set = ForSet

WaitExact == \A t \in TCB : WaitsWell(t)

(* A semaphore is taken by a task between its wait for it and its post.    *)
Locked == (ReadSteps \cup WriteSteps \cup {"lclaim", "lown", "lpost"}) \ {"rlast", "wlast"}
Inside(t) == at[t] \in Locked \/ depth[t] > 0
Holds(t)  == Inside(t) /\ "SEM" \notin Stat[t]

Exclusion ==
  /\ \A t \in TCB : Inside(t) => cnt[MySem(t)] = 0
  /\ \A t, u \in TCB : Holds(t) /\ Holds(u) /\ MySem(t) = MySem(u) => t = u

(* The owner and the count of a lock follow its holder.                    *)
LockExact ==
  \A t \in TCB : LockOf(t) \in LockNames =>
    /\ depth[t] > 0 <=> Owns(t)
    /\ depth[t] > 0 => locks[LockOf(t)] = depth[t]
    /\ at[t] = "lown" => locks[LockOf(t)] = 1
    /\ at[t] = "ltest" /\ depth[t] > 0 => seen[t]
    /\ at[t] \in {"lpend", "lclaim", "lown", "lpost"} => depth[t] = 0

(* Only a reader that has taken a byte leaves the index unmasked, and a    *)
(* writer puts a byte where there is room.                                 *)
PlacesExact ==
  /\ rx_start = BufLen => \E t \in TCB : at[t] = "rmask"
  /\ \A t \in TCB : at[t] = "wput" => ~Full

Index == 0 .. BufLen - 1
Byte  == 0 .. Wrap - 1

(* What lies in a ring from s up to e are the bytes that follow last.      *)
Follows(buf, s, e, last) ==
  \A i \in 1 .. Used(s, e) : buf[Masked(s + i - 1)] = (last + i) % Wrap

(* The slots of a ring from s up to e.                                     *)
Slots(s, e) == {i \in Index : IF s <= e THEN s <= i /\ i < e ELSE s <= i \/ i < e}

TxExact ==
  /\ (lastSent + Used(tx_start, tx_end)) % Wrap = written
  /\ Follows(tx_buf, tx_start, tx_end, lastSent)

(* A peer that is Paced sends a byte only when there is room for it, and   *)
(* then all are in order; from any peer, what is taken is a byte.          *)
RxExact ==
  /\ rxdata # NONE => rxdata = received
  /\ \A i \in Slots(Masked(rx_start), rx_end) : rx_buf[i] \in Byte
  /\ Paced =>
       /\ rxdata # NONE => Masked(rx_end + 1) # Masked(rx_start)
       /\ (lastRead + Used(Masked(rx_start), rx_end)) % Wrap
            = IF rxdata = NONE THEN received ELSE (received + Wrap - 1) % Wrap
       /\ Follows(rx_buf, Masked(rx_start), rx_end, lastRead)

Rings == RingTypeOK /\ PlacesExact /\ RxExact /\ TxExact

(* What a task knows on its way to sleep.                                  *)
Ready(flag) == flag \in OSFlagFlags[events]

Due(t) ==
  /\ at[t] = "renable" => rx_start = rx_end \/ Ready("READ_RDY")
  /\ at[t] = "rpend" => (rx_start = rx_end /\ "RRDY" \in ctrl) \/ Ready("READ_RDY")
  /\ at[t] = "wenable" => Full \/ Ready("WRITE_RDY")
  /\ at[t] = "wpend" => IF Full THEN "TRDY" \in ctrl ELSE Ready("WRITE_RDY")
  /\ at[t] = "wagain" /\ Full => "TRDY" \in ctrl
  /\ WaitsForFlags(t) /\ role[t].does = "read" => rx_start = rx_end /\ "RRDY" \in ctrl
  /\ WaitsForFlags(t) /\ role[t].does = "write" => Full /\ "TRDY" \in ctrl

DueExact == \A t \in TCB : Due(t)

Turns == DriverTypeOK /\ KernelSound /\ AtExact /\ WaitExact /\ Exclusion /\ LockExact

-----------------------------------------------------------------------------
(* Roles.                                                                  *)

LEMMA RoleFacts ==
  ASSUME DriverTypeOK
  PROVE  /\ role \in [TCB -> [does : Does, len : Nat]]
         /\ (\E t \in TCB : role[t].does \notin {"set", "clear", "none"})
              => \A t \in TCB : ~IsAny(t)
         /\ \A t \in TCB : IsAny(t) => (ForSet <=> role[t].does = "set")
         /\ \A t \in TCB : LockOf(t) = "env" => role[t].len <= 1
  BY RolesAssumption, LockRolesAssumption DEF DriverTypeOK, IsAny, ForSet, LockOf

LEMMA SemIsEvent ==
  \A t \in TCB : MySem(t) \in Event
  BY DriverAssumption, LockAssumption DEF MySem, Sem

(* All who wait for flags wait as a user of the driver, or another, would. *)
LEMMA OnePolarity ==
  ASSUME DriverTypeOK, WaitExact, NEW t \in TCB, NEW w \in Waits,
         \/ IsAny(t) /\ w.set = (role[t].does = "set")
         \/ role[t].does \in {"read", "write"} /\ w.set = TRUE
  PROVE  w.set = ForSet /\ \A u \in TCB : pc[u] = "flag" => node[u].set = w.set
  <1>1. w.set = ForSet
    <2>1. CASE IsAny(t) /\ w.set = (role[t].does = "set")
      <3>1. ForSet <=> role[t].does = "set"
        BY <2>1, RoleFacts
      <3>2. ForSet = (role[t].does = "set")
        BY <3>1 DEF ForSet
      <3>. QED
        BY <2>1, <3>2
    <2>2. CASE role[t].does \in {"read", "write"} /\ w.set = TRUE
      <3>1. \A u \in TCB : ~IsAny(u)
        BY <2>2, RoleFacts
      <3>2. ForSet = TRUE
        BY <3>1 DEF ForSet, IsAny
      <3>. QED
        BY <2>2, <3>2
    <2>. QED
      BY <2>1, <2>2
  <1>. QED
    BY <1>1 DEF WaitExact, WaitsWell

LEMMA WaitForType ==
  /\ WaitFor({"READ_RDY"}) \in Waits /\ WaitFor({"WRITE_RDY"}) \in Waits
  /\ \A flags : WaitFor(flags).set = TRUE /\ WaitFor(flags).grp = events
  BY DriverAssumption, UartAssumption DEF WaitFor, Waits

-----------------------------------------------------------------------------
(* The kernel.                                                             *)

LEMMA AnyCallKeeps ==
  ASSUME DriverTypeOK, KernelSound, WaitExact, NEW t \in TCB, IsAny(t), AnyCall(t)
  PROVE  KernelSound'
  <1>1. CASE InTask(t) /\ SomePost /\ ThenSched(t, OSRdyTbl' # OSRdyTbl) /\ UNCHANGED pc
    <2>1. TablesSound' /\ UNCHANGED prioVars /\ OSRdyTbl \subseteq OSRdyTbl'
      BY <1>1, PostKeeps, ZenonT(30) DEF SomePost, OSFlagPost, KernelSound
    <2>. QED
      BY <1>1, <2>1, CallKeeps
  <1>2. CASE InTask(t) /\ \E w \in WaitsOf(t) : OSFlagAccept(w.grp, w) /\ UNCHANGED coreVars
    <2>1. PICK w \in WaitsOf(t) : TakeFlags(w.grp, w) /\ UNCHANGED coreVars
      BY <1>2 DEF OSFlagAccept
    <2>2. w \in Waits /\ w.set = (role[t].does = "set")
      BY DEF WaitsOf
    <2>3. TablesSound'
      BY <2>1, <2>2, OnePolarity, TakeKeeps DEF KernelSound
    <2>. QED
      BY <2>1, <2>3 DEF KernelSound, Processor, coreVars, prioVars, stateVars, cpuVars
  <1>3. CASE /\ InTask(t) /\ UNCHANGED <<pc, flagVars>>
             /\ \E p \in Prio : OSTaskSuspend(p) /\ ThenSched(t, OSTCBPrioTbl[p] = t)
    <2>1. PICK p \in Prio : OSTaskSuspend(p) /\ ThenSched(t, OSTCBPrioTbl[p] = t)
      BY <1>3
    <2>2. TablesSound'
      BY <1>3, <2>1, SuspendKeeps DEF KernelSound
    <2>3. OSTCBPrioTbl[p] # t => OSTCBPrio[t] \in OSRdyTbl'
      BY <1>3, <2>1, RunningFree DEF InTask, OSTaskSuspend, HasTask, KernelSound, TablesSound, PrioExact
    <2>4. Processor'
      BY <1>3, <2>1, <2>3, ThenSchedKeeps DEF KernelSound, InTask, Running, OSTaskSuspend
    <2>. QED
      BY <2>2, <2>4 DEF KernelSound
  <1>4. CASE /\ InTask(t) /\ UNCHANGED <<pc, flagVars>>
             /\ \E p \in Prio : OSTaskResume(p) /\ ThenSched(t, OSRdyTbl' # OSRdyTbl)
    <2>1. TablesSound' /\ UNCHANGED prioVars /\ OSRdyTbl \subseteq OSRdyTbl'
      BY <1>4, ResumeKeeps DEF OSTaskResume, KernelSound
    <2>. QED
      BY <1>4, <2>1, CallKeeps
  <1>5. CASE /\ InTask(t) /\ UNCHANGED <<pc, flagVars>>
             /\ \E ticks \in Ticks : OSTimeDly(t, ticks) /\ ThenSched(t, TRUE)
    <2>1. TablesSound' /\ UNCHANGED prioVars
      BY <1>5, DelayKeeps DEF OSTimeDly
    <2>. QED
      BY <1>5, <2>1, CallKeeps
  <1>6. CASE OSFlagCreate(t)
    BY <1>6, CreateKeeps
  <1>7. CASE \E g \in Group : OSFlagDel(t, g)
    <2>1. PICK g \in Group : OSFlagDel(t, g)
      BY <1>7
    <2>2. TablesSound' /\ OSRdyTbl \subseteq OSRdyTbl'
      BY <2>1, DelKeeps DEF KernelSound
    <2>3. InTask(t) /\ UNCHANGED prioVars /\ ThenSched(t, OSFlagWaitList[g] # {})
      BY <2>1 DEF OSFlagDel
    <2>. QED
      BY <2>2, <2>3, CallKeeps
  <1>8. CASE \E w \in WaitsOf(t), timeout \in Ticks \cup {0} : OSFlagPend(t, w, timeout)
    <2>1. PICK w \in WaitsOf(t), timeout \in Nat : OSFlagPend(t, w, timeout)
      BY <1>8, TicksAssumption
    <2>2. w \in Waits /\ w.set = (role[t].does = "set")
      BY DEF WaitsOf
    <2>. QED
      BY <2>1, <2>2, OnePolarity, FlagPendKeeps
  <1>. QED
    BY <1>1, <1>2, <1>3, <1>4, <1>5, <1>6, <1>7, <1>8 DEF AnyCall

-----------------------------------------------------------------------------
(* The kinds of steps.                                                     *)

Idles == UNCHANGED <<role, wireVars, lockVars>>

(* A task asks for its semaphore, gives it back, or waits for a flag of    *)
(* the driver's.                                                           *)
Takes(t) ==
  \/ StartRead(t) /\ Idles
  \/ StartWrite(t) /\ Idles
  \/ PendLock(t)

Gives(t) ==
  \/ UnlockRead(t) /\ Idles
  \/ UnlockWrite(t) /\ Idles
  \/ PostLock(t)

Naps(t) == (SleepRead(t) \/ SleepWrite(t)) /\ Idles

(* Steps of a task in which the kernel has no part.                        *)
ReadsOn(t) ==
  \/ TakeByte(t) \/ MaskStart(t) \/ EndLoop(t)
  \/ Step(t, "renable", "rpend") /\ Enable({"RRDY"})
  \/ Step(t, "rlast", "out") /\ Enable({"RRDY"})

WritesOn(t) ==
  \/ TestFull(t) \/ PutByte(t)
  \/ Step(t, "wenable", "wpend") /\ Enable({"TRDY"})
  \/ Step(t, "wlast", "out") /\ Enable({"TRDY"})

Locks(t) == Query(t) \/ Test(t) \/ Claim(t) \/ Unlock(t)

Resumes(t) == (FlagReturn(t) /\ UNCHANGED driverVars) \/ PendReturn(t)

(* Steps of tasks that leave the driver alone.                             *)
Elsewhere ==
  /\ UNCHANGED <<driverVars, lockVars>>
  /\ \/ \E t \in TCB : IsAny(t) /\ AnyCall(t)
     \/ \E t \in TCB : OS_Sched(t) /\ UNCHANGED flagVars
     \/ OtherInterrupt
     \/ ClockTicks /\ UNCHANGED flagVars
     \/ \E t \in TCB : InTask(t) /\ TaskSleeps(t) /\ UNCHANGED flagVars
     \/ UNCHANGED <<coreVars, flagVars>>

(* Steps of the device.                                                    *)
Device ==
  /\ UNCHANGED lockVars
  /\ altera_avalon_uart_irq \/ Arrive \/ Shifted

LEMMA Kinds ==
  ASSUME DriverTypeOK, HalNext
  PROVE  \/ \E t \in TCB : Takes(t) \/ Gives(t) \/ Naps(t) \/ (Resumes(t) /\ UNCHANGED lockVars)
         \/ \E t \in TCB : (ReadsOn(t) \/ WritesOn(t)) /\ Idles
         \/ \E t \in TCB : Locks(t)
         \/ Elsewhere
         \/ Device
  <1>1. CASE Next /\ UNCHANGED lockVars
    <2>1. CASE \E t \in TCB \ {Idle} : (StartRead(t) \/ StartWrite(t)) /\ UNCHANGED <<role, wireVars>>
      BY <1>1, <2>1 DEF Takes, Idles
    <2>2. CASE \E t \in TCB \ {Idle} : IsAny(t) /\ AnyCall(t) /\ UNCHANGED driverVars
      BY <1>1, <2>2 DEF Elsewhere
    <2>3. CASE \E t \in TCB : Program(t)
      <3>1. PICK t \in TCB : Program(t)
        BY <2>3
      <3>2. CASE (Read(t) \/ Write(t)) /\ UNCHANGED <<role, wireVars>>
        BY <1>1, <3>2 DEF Read, Write, Gives, Naps, ReadsOn, WritesOn, Idles
      <3>3. CASE (FlagReturn(t) /\ UNCHANGED driverVars) \/ PendReturn(t)
        BY <1>1, <3>3 DEF Resumes
      <3>4. CASE OS_Sched(t) /\ UNCHANGED <<flagVars, driverVars>>
        BY <1>1, <3>4 DEF Elsewhere
      <3>. QED
        BY <3>1, <3>2, <3>3, <3>4 DEF Program
    <2>4. CASE altera_avalon_uart_irq \/ Arrive \/ Shifted
      BY <1>1, <2>4 DEF Device
    <2>5. CASE OtherInterrupt
      BY <1>1, <2>5 DEF Elsewhere, OtherInterrupt
    <2>6. CASE Running(Idle) /\ UNCHANGED vars
      BY <1>1, <2>6 DEF Elsewhere, vars
    <2>. QED
      BY <1>1, <2>1, <2>2, <2>3, <2>4, <2>5, <2>6 DEF Next
  <1>2. ASSUME NEW t \in TCB \ {Idle},
               Query(t) \/ Test(t) \/ PendLock(t) \/ Claim(t) \/ Unlock(t) \/ PostLock(t)
        PROVE  Locks(t) \/ Takes(t) \/ Gives(t)
    BY <1>2 DEF Locks, Takes, Gives
  <1>3. ASSUME NEW t \in TCB \ {Idle}, Sleep(t)
        PROVE  Elsewhere
    <2>1. at' = at
      BY <1>3 DEF Sleep, Step, DriverTypeOK
    <2>. QED
      BY <1>3, <2>1 DEF Sleep, Step, Elsewhere, Rest, driverVars, callVars
  <1>4. CASE Tick
    BY <1>4 DEF Tick, Elsewhere
  <1>5. CASE \E t \in TCB \ {Idle} : Query(t) \/ Test(t) \/ PendLock(t) \/ Claim(t) \/ Unlock(t)
                                     \/ PostLock(t) \/ Sleep(t)
    <2>1. PICK t \in TCB \ {Idle} : Query(t) \/ Test(t) \/ PendLock(t) \/ Claim(t) \/ Unlock(t)
                                     \/ PostLock(t) \/ Sleep(t)
      BY <1>5
    <2>2. Locks(t) \/ Takes(t) \/ Gives(t) \/ Elsewhere
      BY <1>2, <1>3, <2>1
    <2>. QED
      BY <2>1, <2>2
  <1>. QED
    BY <1>1, <1>4, <1>5 DEF HalNext

(* What a task does alone.                                                 *)
LEMMA Alone ==
  ASSUME NEW t \in TCB, ((ReadsOn(t) \/ WritesOn(t)) /\ Idles) \/ Locks(t)
  PROVE  /\ UNCHANGED <<coreVars, flagVars, cnt, role, wireVars>>
         /\ InTask(t)
         /\ \E to : at' = [at EXCEPT ![t] = to]
  <1>1. CASE ReadsOn(t) /\ Idles
    BY <1>1 DEF ReadsOn, Idles, TakeByte, MaskStart, EndLoop, Enable, Step
  <1>2. CASE WritesOn(t) /\ Idles
    BY <1>2 DEF WritesOn, Idles, TestFull, PutByte, Enable, Step
  <1>3. CASE Locks(t)
    BY <1>3 DEF Locks, Query, Test, Claim, Unlock, Step, Rest
  <1>. QED
    BY <1>1, <1>2, <1>3

LEMMA TakesPends ==
  ASSUME NEW t \in TCB, AtExact, Takes(t)
  PROVE  /\ InTask(t) /\ OSSemPend(t, MySem(t)) /\ UNCHANGED <<flagVars, role, lockVars>>
         /\ UNCHANGED <<got, rxVars, txVars, ctrl, wireVars>>
         /\ \/ Reader(t) /\ at[t] = "out" /\ at' = [at EXCEPT ![t] = "rloop"]
            \/ Writer(t) /\ at[t] = "out" /\ at' = [at EXCEPT ![t] = "wloop"]
            \/ /\ LockOf(t) \in LockNames /\ at[t] = "lpend" /\ at' = [at EXCEPT ![t] = "lclaim"]
               /\ left' = left
  <1>1. CASE StartRead(t) /\ Idles
    BY <1>1 DEF StartRead, Idles, Step, MySem
  <1>2. CASE StartWrite(t) /\ Idles
    BY <1>2 DEF StartWrite, Idles, Step, MySem, Reader, Writer
  <1>3. CASE PendLock(t)
    <2>1. at[t] = "lpend" /\ ~Reader(t) /\ ~Writer(t) /\ LockOf(t) \in LockNames
      BY <1>3 DEF PendLock, Step, AtExact, ReadSteps, WriteSteps
    <2>. QED
      BY <1>3, <2>1 DEF PendLock, Step, Rest, MySem
  <1>. QED
    BY <1>1, <1>2, <1>3 DEF Takes

LEMMA GivesPosts ==
  ASSUME NEW t \in TCB, AtExact, Gives(t)
  PROVE  /\ InTask(t) /\ OSSemPost(t, MySem(t)) /\ UNCHANGED <<flagVars, role, lockVars>>
         /\ UNCHANGED <<rxVars, txVars, ctrl, wireVars>>
         /\ \/ Reader(t) /\ at[t] = "rpost" /\ at' = [at EXCEPT ![t] = "rlast"]
            \/ Writer(t) /\ at[t] = "wpost" /\ at' = [at EXCEPT ![t] = "wlast"]
            \/ LockOf(t) \in LockNames /\ at[t] = "lpost" /\ at' = [at EXCEPT ![t] = "out"]
         /\ (LockOf(t) \in LockNames /\ UNCHANGED <<left, got>>) \/ CallEnds(t)
  <1>1. CASE UnlockRead(t) /\ Idles
    <2>1. Reader(t)
      BY <1>1 DEF UnlockRead, Step, AtExact, WriteSteps, LockSteps
    <2>. QED
      BY <1>1, <2>1 DEF UnlockRead, Idles, Step, MySem
  <1>2. CASE UnlockWrite(t) /\ Idles
    <2>1. Writer(t) /\ ~Reader(t)
      BY <1>2 DEF UnlockWrite, Step, AtExact, ReadSteps, LockSteps, Reader, Writer
    <2>. QED
      BY <1>2, <2>1 DEF UnlockWrite, Idles, Step, MySem
  <1>3. CASE PostLock(t)
    <2>1. at[t] = "lpost" /\ ~Reader(t) /\ ~Writer(t) /\ LockOf(t) \in LockNames
      BY <1>3 DEF PostLock, Step, AtExact, ReadSteps, WriteSteps
    <2>. QED
      BY <1>3, <2>1 DEF PostLock, Step, Rest, MySem
  <1>. QED
    BY <1>1, <1>2, <1>3 DEF Gives

LEMMA NapsPends ==
  ASSUME NEW t \in TCB, AtExact, Naps(t)
  PROVE  /\ InTask(t) /\ UNCHANGED <<cnt, role, lockVars, left, got, rxVars, txVars, ctrl, wireVars>>
         /\ \/ /\ role[t].does = "read" /\ at[t] = "rpend" /\ at' = [at EXCEPT ![t] = "rloop"]
               /\ OSFlagPend(t, WaitFor({"READ_RDY"}), 0)
            \/ /\ role[t].does = "write" /\ at[t] = "wpend" /\ at' = [at EXCEPT ![t] = "wagain"]
               /\ OSFlagPend(t, WaitFor({"WRITE_RDY"}), 0)
  BY DEF Naps, SleepRead, SleepWrite, AltFlagPend, Idles, Step, AtExact, WaitFor

LEMMA PostedAreFlags == Posted \in SUBSET Flag
  BY UartAssumption DEF Posted

LEMMA KernelStep ==
  ASSUME DriverTypeOK, KernelSound, AtExact, WaitExact, HalNext
  PROVE  KernelSound'
  <1>1. ASSUME NEW t \in TCB, Takes(t) PROVE KernelSound'
    BY <1>1, TakesPends, SemIsEvent, SemPendKeeps
  <1>2. ASSUME NEW t \in TCB, Gives(t) PROVE KernelSound'
    BY <1>2, GivesPosts, SemIsEvent, SemPostKeeps
  <1>3. ASSUME NEW t \in TCB, Naps(t) PROVE KernelSound'
    <2>1. PICK w \in Waits : /\ OSFlagPend(t, w, 0) /\ w.set = TRUE
                             /\ role[t].does \in {"read", "write"}
      BY <1>3, NapsPends, WaitForType
    <2>2. \A u \in TCB : pc[u] = "flag" => node[u].set = w.set
      BY <2>1, OnePolarity
    <2>. QED
      BY <2>1, <2>2, FlagPendKeeps
  <1>4. ASSUME NEW t \in TCB, Resumes(t) PROVE KernelSound'
    BY <1>4, ReturnKeeps, PendEndsKeeps DEF Resumes, PendReturn
  <1>5. ASSUME NEW t \in TCB, ((ReadsOn(t) \/ WritesOn(t)) /\ Idles) \/ Locks(t) PROVE KernelSound'
    BY <1>5, Alone, KernelFrame
  <1>6. CASE Elsewhere
    <2>1. ASSUME NEW t \in TCB, IsAny(t), AnyCall(t) PROVE KernelSound'
      BY <2>1, AnyCallKeeps
    <2>2. ASSUME NEW t \in TCB, OS_Sched(t), UNCHANGED flagVars PROVE KernelSound'
      BY <2>2, SchedKeeps
    <2>3. CASE OtherInterrupt
      <3>1. CASE SomePost
        <4>1. TablesSound' /\ UNCHANGED prioVars
          BY <2>3, <3>1, PostKeeps DEF SomePost, OSFlagPost, OtherInterrupt, OSIntExit, KernelSound
        <4>. QED
          BY <2>3, <4>1, HandlerKeeps DEF OtherInterrupt
      <3>2. CASE OSTimeTick /\ UNCHANGED flagVars
        BY <2>3, <3>2, ClockKeeps DEF OtherInterrupt, ClockTicks
      <3>. QED
        BY <2>3, <3>1, <3>2 DEF OtherInterrupt
    <2>4. CASE ClockTicks /\ UNCHANGED flagVars
      BY <2>4, ClockKeeps
    <2>5. ASSUME NEW t \in TCB, InTask(t), TaskSleeps(t), UNCHANGED flagVars PROVE KernelSound'
      BY <2>5, SleepsKeeps
    <2>6. CASE UNCHANGED <<coreVars, flagVars>>
      BY <2>6, KernelFrame
    <2>. QED
      BY <1>6, <2>1, <2>2, <2>3, <2>4, <2>5, <2>6 DEF Elsewhere
  <1>7. CASE Device
    <2>1. CASE altera_avalon_uart_irq
      <3>1. CASE OSFlagPost(events, Posted, TRUE)
        <4>1. TablesSound' /\ UNCHANGED prioVars
          BY <2>1, <3>1, PostKeeps, PostedAreFlags, DriverAssumption
          DEF OSFlagPost, altera_avalon_uart_irq, OSIntExit, KernelSound
        <4>. QED
          BY <2>1, <4>1, HandlerKeeps DEF altera_avalon_uart_irq
      <3>2. CASE UNCHANGED <<prioVars, stateVars, waitVars, flagVars>>
        <4>1. TablesSound'
          BY <2>1, <3>2, TablesFrame DEF altera_avalon_uart_irq, OSIntExit, KernelSound, tableVars
        <4>. QED
          BY <2>1, <3>2, <4>1, HandlerKeeps DEF altera_avalon_uart_irq
      <3>. QED
        BY <2>1, <3>1, <3>2 DEF altera_avalon_uart_irq
    <2>2. CASE Arrive \/ Shifted
      BY <2>2, KernelFrame DEF Arrive, Shifted
    <2>. QED
      BY <1>7, <2>1, <2>2 DEF Device
  <1>. QED
    BY Kinds, <1>1, <1>2, <1>3, <1>4, <1>5, <1>6, <1>7

(* Steps in which no task gets on in the driver or the lock functions.     *)
Passive == \/ \E t \in TCB : Resumes(t) /\ UNCHANGED lockVars
           \/ Elsewhere
           \/ Device

LEMMA AnyCallDoes ==
  ASSUME DriverTypeOK, KernelSound, WaitExact, NEW t \in TCB, IsAny(t), AnyCall(t), NEW u \in TCB
  PROVE  \/ Undisturbed(u)
         \/ /\ IsAny(u) /\ "SEM" \notin Stat[u] /\ "SEM" \notin Stat'[u] /\ pc'[u] # "pend"
            /\ pc'[u] = "flag" => node'[u].set = ForSet
  <1>1. CASE SomePost /\ UNCHANGED pc
    BY <1>1, FlagPostDisturbsNobody DEF SomePost, KernelSound
  <1>2. CASE \E w \in WaitsOf(t) : OSFlagAccept(w.grp, w) /\ UNCHANGED coreVars
    BY <1>2, FrameDisturbsNobody DEF OSFlagAccept, TakeFlags
  <1>3. CASE /\ UNCHANGED <<pc, flagVars>>
             /\ \/ \E p \in Prio : OSTaskSuspend(p) \/ OSTaskResume(p)
                \/ \E v \in TCB, ticks \in Ticks : OSTimeDly(v, ticks)
    BY <1>3, TaskServicesDisturbNobody DEF KernelSound
  <1>4. CASE OSFlagCreate(t)
    BY <1>4, FrameDisturbsNobody DEF OSFlagCreate
  <1>5. CASE \E g \in Group : OSFlagDel(t, g)
    BY <1>5, FlagPostDisturbsNobody DEF OSFlagDel, KernelSound
  <1>6. CASE \E w \in WaitsOf(t), timeout \in Ticks \cup {0} : OSFlagPend(t, w, timeout)
    <2>1. PICK w \in WaitsOf(t), timeout \in Nat : OSFlagPend(t, w, timeout)
      BY <1>6, TicksAssumption
    <2>2. w \in Waits /\ w.set = (role[t].does = "set")
      BY <2>1 DEF WaitsOf
    <2>3. w.set = ForSet
      BY <2>2, OnePolarity
    <2>4. "SEM" \notin Stat[t]
      BY <2>1, RunningFree DEF OSFlagPend, InTask
    <2>5. /\ \A v \in TCB \ {t} : Undisturbed(v)
          /\ "SEM" \notin Stat'[t]
          /\ pc'[t] = "task" \/ (pc'[t] = "flag" /\ node'[t] = w)
      BY <2>1, <2>2, FlagPendDoes
    <2>6. pc'[t] = "flag" => node'[t].set = ForSet
      BY <2>3, <2>5
    <2>. QED
      BY <2>4, <2>5, <2>6
  <1>. QED
    BY <1>1, <1>2, <1>3, <1>4, <1>5, <1>6 DEF AnyCall

LEMMA PassiveDoes ==
  ASSUME DriverTypeOK, KernelSound, WaitExact, Passive
  PROVE  /\ UNCHANGED <<cnt, role, at, left, got, lockVars>>
         /\ \A u \in TCB :
              \/ Undisturbed(u)
              \/ "SEM" \notin Stat[u] /\ "SEM" \notin Stat'[u] /\ pc'[u] = "task"
              \/ /\ IsAny(u) /\ "SEM" \notin Stat[u] /\ "SEM" \notin Stat'[u] /\ pc'[u] # "pend"
                 /\ pc'[u] = "flag" => node'[u].set = ForSet
  <1>1. ASSUME NEW t \in TCB, Resumes(t), NEW u \in TCB
        PROVE  Undisturbed(u) \/ ("SEM" \notin Stat[u] /\ "SEM" \notin Stat'[u] /\ pc'[u] = "task")
    BY <1>1, ReturnDoes DEF Resumes, PendReturn
  <1>2. CASE Elsewhere
    <2>1. ASSUME NEW t \in TCB, IsAny(t), AnyCall(t), NEW u \in TCB
          PROVE  \/ Undisturbed(u)
                 \/ /\ IsAny(u) /\ "SEM" \notin Stat[u] /\ "SEM" \notin Stat'[u] /\ pc'[u] # "pend"
                    /\ pc'[u] = "flag" => node'[u].set = ForSet
      BY <2>1, AnyCallDoes
    <2>2. ASSUME NEW t \in TCB, OS_Sched(t), UNCHANGED flagVars, NEW u \in TCB PROVE Undisturbed(u)
      BY <2>2 DEF OS_Sched, stateVars, waitVars, flagVars, Undisturbed
    <2>3. ASSUME OtherInterrupt, NEW u \in TCB PROVE Undisturbed(u)
      BY <2>3, FlagPostDisturbsNobody, TickDisturbsNobody
      DEF OtherInterrupt, SomePost, OSIntExit, KernelSound
    <2>4. ASSUME ClockTicks, UNCHANGED flagVars, NEW u \in TCB PROVE Undisturbed(u)
      BY <2>4, TickDisturbsNobody DEF ClockTicks, OSIntExit, KernelSound
    <2>5. ASSUME NEW t \in TCB, TaskSleeps(t), UNCHANGED flagVars, NEW u \in TCB PROVE Undisturbed(u)
      BY <2>5, TaskServicesDisturbNobody DEF TaskSleeps, KernelSound
    <2>6. ASSUME UNCHANGED <<coreVars, flagVars>>, NEW u \in TCB PROVE Undisturbed(u)
      BY <2>6, FrameDisturbsNobody DEF flagVars
    <2>7. UNCHANGED <<cnt, role, at, left, got, lockVars>>
      BY <1>2 DEF Elsewhere, driverVars, callVars
    <2>. QED
      BY <1>2, <2>1, <2>2, <2>3, <2>4, <2>5, <2>6, <2>7 DEF Elsewhere
  <1>3. ASSUME Device, NEW u \in TCB PROVE Undisturbed(u)
    <2>1. CASE OSFlagPost(events, Posted, TRUE) /\ UNCHANGED pc
      BY <2>1, PostedAreFlags, FlagPostDisturbsNobody, DriverAssumption DEF KernelSound
    <2>2. CASE UNCHANGED <<stateVars, waitVars, flagVars, pc>>
      BY <2>2 DEF stateVars, waitVars, flagVars, Undisturbed
    <2>. QED
      BY <1>3, <2>1, <2>2 DEF Device, altera_avalon_uart_irq, Arrive, Shifted, OSIntExit, coreVars
  <1>4. Device => UNCHANGED <<cnt, role, at, left, got, lockVars>>
    BY DEF Device, altera_avalon_uart_irq, Arrive, Shifted, callVars
  <1>5. ASSUME NEW t \in TCB, Resumes(t), UNCHANGED lockVars
        PROVE  UNCHANGED <<cnt, role, at, left, got, lockVars>>
    BY <1>5 DEF Resumes, PendReturn, OSSemPendEnds, driverVars, callVars
  <1>. QED
    BY <1>1, <1>2, <1>3, <1>4, <1>5 DEF Passive

-----------------------------------------------------------------------------
(* Where the tasks stand.                                                  *)

LEMMA LeftIsNat ==
  ASSUME DriverTypeOK, AtExact, NEW t \in TCB,
         \/ Takes(t) \/ Gives(t)
         \/ ((ReadsOn(t) \/ WritesOn(t)) /\ Idles) \/ Locks(t)
  PROVE  left' \in [TCB -> Nat] /\ got' \in [TCB -> BOOLEAN]
  <1> USE DEF DriverTypeOK
  <1>1. CASE StartRead(t) \/ StartWrite(t)
    <2>1. role[t].len \in Nat
      BY RoleFacts
    <2>. QED
      BY <1>1, <2>1 DEF StartRead, StartWrite
  <1>2. CASE PendLock(t) \/ PostLock(t)
    BY <1>2 DEF PendLock, PostLock, Rest
  <1>3. CASE UnlockRead(t) \/ UnlockWrite(t)
    <2>1. left' = [left EXCEPT ![t] = 0] /\ got' = [got EXCEPT ![t] = FALSE]
      BY <1>3 DEF UnlockRead, UnlockWrite, CallEnds
    <2>2. left' \in [TCB -> Nat]
      BY <2>1
    <2>3. got' \in [TCB -> BOOLEAN]
      BY <2>1, ZenonT(30)
    <2>. QED
      BY <2>2, <2>3
  <1>4. CASE ReadsOn(t)
    <2>1. CASE TakeByte(t)
      <3>1. left' = [left EXCEPT ![t] = @ - 1] /\ left[t] > 0 /\ got' = [got EXCEPT ![t] = TRUE]
        BY <2>1 DEF TakeByte
      <3>2. left' \in [TCB -> Nat]
        BY <3>1
      <3>3. got' \in [TCB -> BOOLEAN]
        BY <3>1, ZenonT(30)
      <3>. QED
        BY <3>2, <3>3
    <2>2. CASE ~TakeByte(t)
      BY <1>4, <2>2 DEF ReadsOn, MaskStart, EndLoop, Enable
    <2>. QED
      BY <2>1, <2>2
  <1>5. CASE PutByte(t)
    <2>1. left[t] > 0
      BY <1>5 DEF PutByte, Step, AtExact
    <2>. QED
      BY <1>5, <2>1 DEF PutByte
  <1>6. CASE WritesOn(t) /\ ~PutByte(t)
    BY <1>6 DEF WritesOn, TestFull, Enable
  <1>7. CASE Locks(t)
    BY <1>7 DEF Locks, Query, Test, Claim, Unlock, Rest
  <1>. QED
    BY <1>1, <1>2, <1>3, <1>4, <1>5, <1>6, <1>7 DEF Takes, Gives

(* What a task does with a lock.                                           *)
LEMMA LocksMoves ==
  ASSUME DriverTypeOK, KernelSound, AtExact, NEW t \in TCB, Locks(t)
  PROVE  /\ LockOf(t) \in LockNames /\ t # Idle
         /\ lockid' \in [LockNames -> Prio \cup {NOBODY}] /\ locks' \in [LockNames -> Nat]
         /\ seen' \in [TCB -> BOOLEAN] /\ depth' \in [TCB -> Nat]
         /\ \E to \in {"out"} \cup LockSteps : at' = [at EXCEPT ![t] = to]
         /\ \A u \in TCB \ {t} : depth'[u] = depth[u]
  <1> USE DEF DriverTypeOK
  <1>1. t # Idle
    BY DEF Locks, Query, Test, Claim, Unlock, Step, InTask
  <1>2. LockOf(t) \in LockNames
    <2>1. at[t] \in LockSteps => LockOf(t) \in LockNames
      BY DEF AtExact, ReadSteps, WriteSteps, LockSteps
    <2>. QED
      BY <2>1 DEF Locks, Query, Test, Claim, Unlock, Step, LockSteps, AtExact
  <1>3. OSTCBPrio[t] \in Prio
    BY <1>1, IdleAssumption DEF KernelSound, TablesSound, TablesTypeOK, PrioExact, AnyPrio
  <1>4. seen' \in [TCB -> BOOLEAN]
    BY DEF Locks, Query, Test, Claim, Unlock
  <1>5. /\ depth' \in [TCB -> Nat] /\ \A u \in TCB \ {t} : depth'[u] = depth[u]
        /\ locks' \in [LockNames -> Nat]
    BY <1>2 DEF Locks, Query, Test, Claim, Unlock
  <1>6. lockid' \in [LockNames -> Prio \cup {NOBODY}]
    BY <1>2, <1>3 DEF Locks, Query, Test, Claim, Unlock
  <1>7. \E to \in {"out"} \cup LockSteps : at' = [at EXCEPT ![t] = to]
    BY DEF Locks, Query, Test, Claim, Unlock, Step, LockSteps
  <1>. QED
    BY <1>1, <1>2, <1>4, <1>5, <1>6, <1>7

LEMMA TypeStep ==
  ASSUME Turns, HalNext
  PROVE  DriverTypeOK'
  <1> USE DEF Turns
  <1>1. ASSUME NEW t \in TCB, Takes(t) PROVE DriverTypeOK'
    <2>1. left' \in [TCB -> Nat] /\ got' \in [TCB -> BOOLEAN]
      BY <1>1, LeftIsNat
    <2>2. cnt' \in [Event -> {0, 1}]
      <3>1. \/ cnt[MySem(t)] > 0 /\ cnt' = [cnt EXCEPT ![MySem(t)] = @ - 1]
            \/ cnt' = cnt
        BY <1>1, TakesPends DEF OSSemPend
      <3>. QED
        BY <3>1, SemIsEvent DEF DriverTypeOK
    <2>. QED
      BY <1>1, <2>1, <2>2, TakesPends DEF DriverTypeOK, ReadSteps, WriteSteps, LockSteps, lockVars
  <1>2. ASSUME NEW t \in TCB, Gives(t) PROVE DriverTypeOK'
    <2>1. left' \in [TCB -> Nat] /\ got' \in [TCB -> BOOLEAN]
      BY <1>2, LeftIsNat
    <2>2. cnt' \in [Event -> {0, 1}]
      <3>1. cnt[MySem(t)] = 0
        BY <1>2, GivesPosts DEF Exclusion, Inside, Locked, ReadSteps, WriteSteps
      <3>2. cnt' = [cnt EXCEPT ![MySem(t)] = @ + 1] \/ cnt' = cnt
        BY <1>2, GivesPosts DEF OSSemPost
      <3>. QED
        BY <3>1, <3>2, SemIsEvent DEF DriverTypeOK
    <2>. QED
      BY <1>2, <2>1, <2>2, GivesPosts DEF DriverTypeOK, ReadSteps, WriteSteps, LockSteps, lockVars
  <1>3. ASSUME NEW t \in TCB, Naps(t) PROVE DriverTypeOK'
    BY <1>3, NapsPends DEF DriverTypeOK, ReadSteps, WriteSteps, lockVars
  <1>4. ASSUME NEW t \in TCB, (ReadsOn(t) \/ WritesOn(t)) /\ Idles PROVE DriverTypeOK'
    <2>1. left' \in [TCB -> Nat] /\ got' \in [TCB -> BOOLEAN]
      BY <1>4, LeftIsNat
    <2>2. UNCHANGED <<cnt, role, lockVars>>
      BY <1>4, Alone DEF Idles
    <2>3. \E to \in {"out"} \cup ReadSteps \cup WriteSteps : at' = [at EXCEPT ![t] = to]
      BY <1>4 DEF ReadsOn, WritesOn, TakeByte, MaskStart, EndLoop, TestFull, PutByte, Step,
         ReadSteps, WriteSteps
    <2>. QED
      BY <2>1, <2>2, <2>3 DEF DriverTypeOK, lockVars
  <1>5. ASSUME NEW t \in TCB, Locks(t) PROVE DriverTypeOK'
    BY <1>5, LeftIsNat, LocksMoves, Alone DEF DriverTypeOK
  <1>6. CASE Passive
    BY <1>6, PassiveDoes DEF DriverTypeOK, lockVars
  <1>. QED
    BY Kinds, <1>1, <1>2, <1>3, <1>4, <1>5, <1>6 DEF Passive

LEMMA AtStep ==
  ASSUME Turns, HalNext
  PROVE  AtExact'
  <1> USE DEF Turns
  <1>1. ASSUME NEW t \in TCB, Takes(t) PROVE AtExact'
    <2>1. \A u \in TCB \ {t} : left'[u] = left[u]
      BY <1>1 DEF Takes, StartRead, StartWrite, PendLock, Rest, DriverTypeOK
    <2>. QED
      BY <1>1, <2>1, TakesPends DEF AtExact, DriverTypeOK, ReadSteps, WriteSteps, LockSteps, lockVars,
         Reader, Writer, LockOf, LockNames
  <1>2. ASSUME NEW t \in TCB, Gives(t) PROVE AtExact'
    <2>1. \A u \in TCB \ {t} : left'[u] = left[u]
      BY <1>2, GivesPosts DEF CallEnds, DriverTypeOK
    <2>. QED
      BY <1>2, <2>1, GivesPosts DEF AtExact, DriverTypeOK, ReadSteps, WriteSteps, LockSteps, lockVars,
         Reader, Writer, LockOf, LockNames
  <1>3. ASSUME NEW t \in TCB, Naps(t) PROVE AtExact'
    BY <1>3, NapsPends DEF AtExact, DriverTypeOK, ReadSteps, WriteSteps, LockSteps, lockVars,
       Reader, Writer, LockOf
  <1>4. ASSUME NEW t \in TCB, ReadsOn(t), Idles PROVE AtExact'
    <2>1. Reader(t)
      BY <1>4 DEF ReadsOn, TakeByte, MaskStart, EndLoop, Step, AtExact, WriteSteps, LockSteps
    <2>2. \A u \in TCB \ {t} : left'[u] = left[u]
      BY <1>4 DEF ReadsOn, TakeByte, MaskStart, EndLoop, Enable, DriverTypeOK
    <2>3. \E to \in {"out"} \cup ReadSteps :
            /\ at' = [at EXCEPT ![t] = to]
            /\ to \in {"renable", "rpend"} => role[t].does = "read"
      BY <1>4, <2>1 DEF ReadsOn, TakeByte, MaskStart, EndLoop, Step, ReadSteps, Blocks, Reader, AtExact
    <2>4. UNCHANGED <<role, depth>>
      BY <1>4 DEF Idles, lockVars
    <2>. QED
      BY <2>1, <2>2, <2>3, <2>4 DEF AtExact, DriverTypeOK, ReadSteps, WriteSteps, LockSteps,
         Reader, Writer, LockOf
  <1>5. ASSUME NEW t \in TCB, WritesOn(t), Idles PROVE AtExact'
    <2>1. Writer(t)
      BY <1>5 DEF WritesOn, TestFull, PutByte, Step, AtExact, ReadSteps, LockSteps
    <2>2. \A u \in TCB \ {t} : left'[u] = left[u]
      BY <1>5 DEF WritesOn, TestFull, PutByte, Enable, DriverTypeOK
    <2>3. \E to \in {"out"} \cup WriteSteps :
            /\ at' = [at EXCEPT ![t] = to]
            /\ to \in {"wenable", "wpend", "wagain"} => role[t].does = "write"
            /\ to \in {"wenable", "wpend", "wagain", "wput"} => left'[t] > 0
      BY <1>5, <2>1 DEF WritesOn, TestFull, PutByte, Enable, Step, WriteSteps, Blocks, Writer, AtExact
    <2>4. UNCHANGED <<role, depth>>
      BY <1>5 DEF Idles, lockVars
    <2>. QED
      BY <2>1, <2>2, <2>3, <2>4 DEF AtExact, DriverTypeOK, ReadSteps, WriteSteps, LockSteps,
         Reader, Writer, LockOf
  <1>6. ASSUME NEW t \in TCB, Locks(t) PROVE AtExact'
    <2>1. ~Reader(t) /\ ~Writer(t) /\ left' = left /\ role' = role
      BY <1>6, LocksMoves DEF Reader, Writer, LockOf, LockNames, Locks, Query, Test, Claim, Unlock, Rest
    <2>. QED
      BY <1>6, <2>1, LocksMoves DEF AtExact, DriverTypeOK, ReadSteps, WriteSteps, LockSteps,
         Reader, Writer, LockOf
  <1>7. CASE Passive
    BY <1>7, PassiveDoes DEF AtExact, lockVars, Reader, Writer, LockOf
  <1>. QED
    BY Kinds, <1>1, <1>2, <1>3, <1>4, <1>5, <1>6, <1>7 DEF Passive

-----------------------------------------------------------------------------
(* What they wait for.                                                     *)

LEMMA WaitsOn ==
  ASSUME NEW u \in TCB, WaitsWell(u), Undisturbed(u), UNCHANGED role,
         at'[u] = at[u] \/ pc[u] = "task", "SEM" \in Stat[u] => pc[u] = "pend"
  PROVE  WaitsWell(u)'
  BY DEF WaitsWell, Undisturbed, MySem, Reader, Writer, Sem, LockOf, IsAny, ForSet

LEMMA NapsDoes ==
  ASSUME Turns, NEW t \in TCB, Naps(t)
  PROVE  /\ \A u \in TCB \ {t} : Undisturbed(u)
         /\ "SEM" \notin Stat'[t] /\ "SEM" \notin Stat[t]
         /\ \/ /\ role[t].does = "read" /\ at[t] = "rpend" /\ at' = [at EXCEPT ![t] = "rloop"]
               /\ \/ pc'[t] = "task" /\ TakeFlags(events, WaitFor({"READ_RDY"}))
                  \/ /\ pc'[t] = "flag" /\ node'[t] = WaitFor({"READ_RDY"})
                     /\ ~Ready("READ_RDY") /\ OSFlagFlags' = OSFlagFlags
            \/ /\ role[t].does = "write" /\ at[t] = "wpend" /\ at' = [at EXCEPT ![t] = "wagain"]
               /\ \/ pc'[t] = "task" /\ TakeFlags(events, WaitFor({"WRITE_RDY"}))
                  \/ /\ pc'[t] = "flag" /\ node'[t] = WaitFor({"WRITE_RDY"})
                     /\ ~Ready("WRITE_RDY") /\ OSFlagFlags' = OSFlagFlags
  <1>1. \A flag \in Flag : Satisfied(WaitFor({flag}), OSFlagFlags[events]) <=> Ready(flag)
    BY DEF WaitFor, Satisfied, Found, Ready
  <1>2. \A flags : WaitFor(flags).grp = events
    BY WaitForType
  <1>3. "SEM" \notin Stat[t] /\ KernelSound
    BY NapsPends, RunningFree DEF Turns, InTask
  <1>4. CASE /\ role[t].does = "read" /\ at[t] = "rpend" /\ at' = [at EXCEPT ![t] = "rloop"]
             /\ OSFlagPend(t, WaitFor({"READ_RDY"}), 0)
    <2> DEFINE w == WaitFor({"READ_RDY"})
    <2>1. w \in Waits /\ w.grp = events /\ (Satisfied(w, OSFlagFlags[events]) <=> Ready("READ_RDY"))
      BY <1>1, <1>2, WaitForType, UartAssumption
    <2> HIDE DEF w
    <2>2. OSFlagPend(t, w, 0)
      BY <1>4 DEF w
    <2>3. /\ \A u \in TCB \ {t} : Undisturbed(u)
          /\ "SEM" \notin Stat'[t]
          /\ \/ pc'[t] = "task" /\ TakeFlags(w.grp, w)
             \/ /\ pc'[t] = "flag" /\ node'[t] = w
                /\ ~Satisfied(w, OSFlagFlags[w.grp]) /\ OSFlagFlags' = OSFlagFlags
      BY <1>3, <2>1, <2>2, FlagPendDoes
    <2>. QED
      BY <1>3, <1>4, <2>1, <2>3 DEF w
  <1>5. CASE /\ role[t].does = "write" /\ at[t] = "wpend" /\ at' = [at EXCEPT ![t] = "wagain"]
             /\ OSFlagPend(t, WaitFor({"WRITE_RDY"}), 0)
    <2> DEFINE w == WaitFor({"WRITE_RDY"})
    <2>1. w \in Waits /\ w.grp = events /\ (Satisfied(w, OSFlagFlags[events]) <=> Ready("WRITE_RDY"))
      BY <1>1, <1>2, WaitForType, UartAssumption
    <2> HIDE DEF w
    <2>2. OSFlagPend(t, w, 0)
      BY <1>5 DEF w
    <2>3. /\ \A u \in TCB \ {t} : Undisturbed(u)
          /\ "SEM" \notin Stat'[t]
          /\ \/ pc'[t] = "task" /\ TakeFlags(w.grp, w)
             \/ /\ pc'[t] = "flag" /\ node'[t] = w
                /\ ~Satisfied(w, OSFlagFlags[w.grp]) /\ OSFlagFlags' = OSFlagFlags
      BY <1>3, <2>1, <2>2, FlagPendDoes
    <2>. QED
      BY <1>3, <1>5, <2>1, <2>3 DEF w
  <1>. QED
    BY <1>4, <1>5, NapsPends DEF Turns

LEMMA WaitStep ==
  ASSUME Turns, HalNext
  PROVE  WaitExact'
  <1>1. KernelSound /\ DriverTypeOK /\ AtExact /\ WaitExact
        /\ \A u \in TCB : WaitsWell(u) /\ ("SEM" \in Stat[u] => pc[u] = "pend")
    BY DEF Turns, WaitExact, KernelSound, TablesSound, StatusExact
  <1>2. ASSUME NEW t \in TCB, Takes(t) PROVE WaitExact'
    <2>1. /\ InTask(t) /\ OSSemPend(t, MySem(t)) /\ UNCHANGED <<flagVars, role>>
          /\ \E to \in {"rloop", "wloop", "lclaim"} : at' = [at EXCEPT ![t] = to]
      BY <1>1, <1>2, TakesPends
    <2>2. /\ \A u \in TCB \ {t} : Undisturbed(u)
          /\ \/ pc'[t] = "task" /\ "SEM" \notin Stat'[t]
             \/ pc'[t] = "pend" /\ EventPtr'[t] = MySem(t)
      BY <1>1, <2>1, SemIsEvent, SemPendDoes
    <2>3. at'[t] \in {"rloop", "wloop", "lclaim"} /\ \A u \in TCB \ {t} : at'[u] = at[u]
      BY <1>1, <2>1 DEF DriverTypeOK
    <2>4. \A u \in TCB \ {t} : WaitsWell(u)'
      BY <1>1, <2>1, <2>2, <2>3, WaitsOn
    <2>5. MySem(t)' = MySem(t)
      BY <2>1 DEF MySem, Reader, Writer, Sem, LockOf
    <2>6. WaitsWell(t)'
      BY <2>2, <2>3, <2>5 DEF WaitsWell
    <2>. QED
      BY <2>4, <2>6 DEF WaitExact
  <1>3. ASSUME NEW t \in TCB, Gives(t) PROVE WaitExact'
    <2>1. /\ InTask(t) /\ OSSemPost(t, MySem(t)) /\ UNCHANGED <<flagVars, role>>
          /\ \A u \in TCB \ {t} : at'[u] = at[u]
      BY <1>1, <1>3, GivesPosts DEF DriverTypeOK
    <2>2. \A u \in TCB : at'[u] = at[u] \/ pc[u] = "task"
      BY <2>1 DEF InTask
    <2>3. \/ \A u \in TCB : Undisturbed(u)
          \/ \E v \in SemWaiters(MySem(t)) :
               /\ \A u \in TCB \ {v} : Undisturbed(u)
               /\ pc'[v] = pc[v] /\ node'[v] = node[v] /\ EventPtr'[v] = EventPtr[v]
               /\ "SEM" \notin Stat'[v]
      BY <1>1, <2>1, SemIsEvent, SemPostDoes
    <2>4. ASSUME NEW v \in TCB, pc'[v] = pc[v], node'[v] = node[v], "SEM" \notin Stat'[v]
          PROVE  WaitsWell(v)'
      BY <1>1, <2>1, <2>2, <2>4 DEF WaitsWell, IsAny, ForSet
    <2>5. SemWaiters(MySem(t)) \subseteq TCB
      BY DEF SemWaiters
    <2>. QED
      BY <1>1, <2>1, <2>2, <2>3, <2>4, <2>5, WaitsOn DEF WaitExact
  <1>4. ASSUME NEW t \in TCB, Naps(t) PROVE WaitExact'
    <2>1. role' = role /\ InTask(t)
      BY <1>1, <1>4, NapsPends
    <2>2. \A u \in TCB \ {t} : at'[u] = at[u]
      BY <1>1, <1>4, NapsPends DEF DriverTypeOK
    <2>3. \A u \in TCB \ {t} : WaitsWell(u)'
      BY <1>1, <1>4, <2>1, <2>2, NapsDoes, WaitsOn
    <2>4. ForSet' = ForSet /\ (role[t].does \in {"read", "write"} => ForSet)
      <3>1. ForSet' = ForSet
        BY <2>1 DEF ForSet
      <3>2. ASSUME role[t].does \in {"read", "write"} PROVE ForSet
        BY <1>1, <3>2, RoleFacts DEF ForSet, IsAny
      <3>. QED
        BY <3>1, <3>2
    <2>5. /\ "SEM" \notin Stat'[t]
          /\ pc'[t] = "task" \/ /\ pc'[t] = "flag" /\ role[t].does = "read" /\ at'[t] = "rloop"
                                /\ node'[t] = WaitFor({"READ_RDY"})
                             \/ /\ pc'[t] = "flag" /\ role[t].does = "write" /\ at'[t] = "wagain"
                                /\ node'[t] = WaitFor({"WRITE_RDY"})
      BY <1>1, <1>4, NapsDoes DEF DriverTypeOK
    <2>6. ForSet' = TRUE \/ pc'[t] = "task"
      BY <2>4, <2>5 DEF ForSet
    <2>7. node'[t].set = TRUE \/ pc'[t] = "task"
      BY <2>5, WaitForType
    <2>8. WaitsWell(t)'
      BY <2>1, <2>5, <2>6, <2>7 DEF WaitsWell, WaitFor
    <2>. QED
      BY <2>3, <2>8 DEF WaitExact
  <1>5. ASSUME NEW t \in TCB, ((ReadsOn(t) \/ WritesOn(t)) /\ Idles) \/ Locks(t) PROVE WaitExact'
    <2>1. UNCHANGED <<coreVars, flagVars, role>> /\ pc[t] = "task"
          /\ \A u \in TCB \ {t} : at'[u] = at[u]
      BY <1>1, <1>5, Alone DEF InTask, DriverTypeOK
    <2>. QED
      BY <1>1, <2>1, FrameDisturbsNobody, WaitsOn DEF flagVars, WaitExact
  <1>6. CASE Passive
    <2>1. /\ UNCHANGED <<role, at>>
          /\ \A u \in TCB :
               \/ Undisturbed(u)
               \/ "SEM" \notin Stat'[u] /\ pc'[u] = "task"
               \/ /\ IsAny(u) /\ "SEM" \notin Stat'[u] /\ pc'[u] # "pend"
                  /\ pc'[u] = "flag" => node'[u].set = ForSet
      BY <1>1, <1>6, PassiveDoes
    <2>2. ForSet' = ForSet /\ \A u \in TCB : IsAny(u)' <=> IsAny(u)
      BY <2>1 DEF ForSet, IsAny
    <2>3. ASSUME NEW u \in TCB, IsAny(u), "SEM" \notin Stat'[u], pc'[u] # "pend",
                 pc'[u] = "flag" => node'[u].set = ForSet
          PROVE  WaitsWell(u)'
      BY <2>2, <2>3 DEF WaitsWell
    <2>4. ASSUME NEW u \in TCB, "SEM" \notin Stat'[u], pc'[u] = "task" PROVE WaitsWell(u)'
      BY <2>4 DEF WaitsWell
    <2>5. ASSUME NEW u \in TCB, Undisturbed(u) PROVE WaitsWell(u)'
      BY <1>1, <2>1, <2>5, WaitsOn
    <2>. QED
      BY <2>1, <2>3, <2>4, <2>5 DEF WaitExact
  <1>. QED
    BY Kinds, <1>1, <1>2, <1>3, <1>4, <1>5, <1>6 DEF Passive

-----------------------------------------------------------------------------
(* Who holds a semaphore.                                                  *)

LEMMA SameSem ==
  ASSUME UNCHANGED role
  PROVE  \A u \in TCB : MySem(u)' = MySem(u)
  BY DEF MySem, Reader, Writer, Sem, LockOf

(* A step in which nobody gets inside and no wait for a semaphore ends.    *)
LEMMA ExclusionFrame ==
  ASSUME Exclusion, UNCHANGED <<role, cnt>>,
         \A u \in TCB : Inside(u)' => Inside(u),
         \A u \in TCB : "SEM" \in Stat[u] => "SEM" \in Stat'[u]
  PROVE  Exclusion'
  BY SameSem DEF Exclusion, Holds

LEMMA LocksInside ==
  ASSUME Turns, NEW t \in TCB, ((ReadsOn(t) \/ WritesOn(t)) /\ Idles) \/ Locks(t), NEW u \in TCB,
         Inside(u)'
  PROVE  Inside(u)
  <1>1. CASE u # t
    <2>1. at'[u] = at[u]
      BY <1>1, Alone DEF Turns, DriverTypeOK
    <2>2. depth'[u] = depth[u]
      BY <1>1, LocksMoves DEF Turns, Idles, lockVars
    <2>. QED
      BY <2>1, <2>2 DEF Inside
  <1>2. CASE u = t /\ ReadsOn(t) /\ Idles
    <2>1. at[t] \in ReadSteps /\ (at[t] = "rlast" => at'[t] = "out") /\ depth'[t] = depth[t]
      BY <1>2 DEF ReadsOn, TakeByte, MaskStart, EndLoop, Step, Turns, DriverTypeOK, Idles, lockVars,
         ReadSteps
    <2>. QED
      BY <1>2, <2>1 DEF Inside, Locked, ReadSteps, WriteSteps
  <1>3. CASE u = t /\ WritesOn(t) /\ Idles
    <2>1. at[t] \in WriteSteps /\ (at[t] = "wlast" => at'[t] = "out") /\ depth'[t] = depth[t]
      BY <1>3 DEF WritesOn, TestFull, PutByte, Step, Turns, DriverTypeOK, Idles, lockVars, WriteSteps
    <2>. QED
      BY <1>3, <2>1 DEF Inside, Locked, ReadSteps, WriteSteps
  <1>4. CASE u = t /\ Locks(t)
    <2>1. LockOf(t) \in LockNames /\ (depth[t] > 0 <=> Owns(t))
      BY <1>4, LocksMoves DEF Turns, LockExact
    <2>2. CASE Query(t)
      BY <1>4, <2>2 DEF Query, Step, Turns, DriverTypeOK, Inside, Locked, ReadSteps, WriteSteps
    <2>3. CASE Test(t)
      <3>1. at'[t] \in {"out", "lpend"}
        BY <2>3 DEF Test, Step, Turns, DriverTypeOK
      <3>2. depth[t] > 0 \/ depth' = depth
        BY <2>1, <2>3 DEF Test
      <3>. QED
        BY <1>4, <3>1, <3>2 DEF Inside, Locked, ReadSteps, WriteSteps
    <2>4. CASE Claim(t)
      BY <1>4, <2>4 DEF Claim, Step, Inside, Locked
    <2>5. CASE Unlock(t)
      BY <1>4, <2>5 DEF Unlock, Inside
    <2>. QED
      BY <1>4, <2>2, <2>3, <2>4, <2>5 DEF Locks
  <1>. QED
    BY <1>1, <1>2, <1>3, <1>4

LEMMA ExclusionStep ==
  ASSUME Turns, HalNext
  PROVE  Exclusion'
  <1>1. KernelSound /\ DriverTypeOK /\ AtExact /\ WaitExact /\ Exclusion /\ LockExact
    BY DEF Turns
  <1>2. ASSUME NEW t \in TCB, Takes(t) PROVE Exclusion'
    <2> DEFINE e == MySem(t)
    <2>1. InTask(t) /\ OSSemPend(t, e) /\ UNCHANGED <<flagVars, role, depth>> /\ e \in Event
      BY <1>1, <1>2, TakesPends, SemIsEvent DEF lockVars
    <2>2. \A u \in TCB \ {t} : at'[u] = at[u]
      BY <1>1, <1>2, TakesPends DEF DriverTypeOK
    <2>3. /\ \A u \in TCB \ {t} : Undisturbed(u)
          /\ \/ cnt[e] > 0 /\ cnt' = [cnt EXCEPT ![e] = @ - 1]
             \/ "SEM" \in Stat'[t] /\ cnt[e] = 0 /\ cnt' = cnt
      BY <1>1, <2>1, SemPendDoes
    <2>4. \A u \in TCB \ {t} : (Inside(u)' <=> Inside(u)) /\ (Holds(u)' <=> Holds(u))
      BY <2>1, <2>2, <2>3 DEF Inside, Holds, Undisturbed
    <2>5. \A u \in TCB : MySem(u)' = MySem(u)
      BY <2>1, SameSem
    <2> HIDE DEF e
    <2>6. CASE cnt[e] > 0 /\ cnt' = [cnt EXCEPT ![e] = @ - 1]
      <3>1. cnt'[e] = 0 /\ \A d \in Event \ {e} : cnt'[d] = cnt[d]
        BY <1>1, <2>1, <2>6 DEF DriverTypeOK
      <3>2. \A u \in TCB : Inside(u)' => cnt'[MySem(u)] = 0
        BY <1>1, <2>4, <3>1, SemIsEvent DEF Exclusion, e
      <3>3. \A u \in TCB \ {t} : Holds(u)' => MySem(u) # e
        BY <1>1, <2>4, <2>6 DEF Exclusion, Holds
      <3>. QED
        BY <1>1, <2>4, <2>5, <3>2, <3>3 DEF Exclusion, e
    <2>7. CASE "SEM" \in Stat'[t] /\ cnt[e] = 0 /\ cnt' = cnt
      BY <1>1, <2>4, <2>5, <2>7 DEF Exclusion, Holds, e
    <2>. QED
      BY <2>3, <2>6, <2>7
  <1>3. ASSUME NEW t \in TCB, Gives(t) PROVE Exclusion'
    <2> DEFINE e == MySem(t)
    <2>1. InTask(t) /\ OSSemPost(t, e) /\ UNCHANGED <<flagVars, role, depth>> /\ e \in Event
      BY <1>1, <1>3, GivesPosts, SemIsEvent DEF lockVars
    <2>2. \A u \in TCB \ {t} : at'[u] = at[u]
      BY <1>1, <1>3, GivesPosts DEF DriverTypeOK
    <2>3. Holds(t) /\ ~Inside(t)'
      <3>1. "SEM" \notin Stat[t]
        BY <1>1, <2>1, RunningFree DEF InTask
      <3>2. at[t] \in {"rpost", "wpost", "lpost"} /\ at'[t] \notin Locked
        BY <1>1, <1>3, GivesPosts DEF DriverTypeOK, Locked, ReadSteps, WriteSteps
      <3>3. depth[t] = 0
        BY <1>1, <1>3, GivesPosts DEF LockExact, AtExact, DriverTypeOK, Reader, Writer, LockOf, LockNames
      <3>. QED
        BY <2>1, <3>1, <3>2, <3>3 DEF Holds, Inside, Locked, ReadSteps, WriteSteps
    <2>4. \A u \in TCB : Inside(u)' => u # t /\ Inside(u)
      BY <2>1, <2>2, <2>3 DEF Inside
    <2>5. \A u \in TCB : MySem(u)' = MySem(u)
      BY <2>1, SameSem
    <2>6. \/ (\A u \in TCB : Undisturbed(u)) /\ SemWaiters(e) = {} /\ cnt' = [cnt EXCEPT ![e] = @ + 1]
          \/ \E v \in SemWaiters(e) : (\A u \in TCB \ {v} : Undisturbed(u)) /\ cnt' = cnt
      BY <1>1, <2>1, SemPostDoes
    <2>7. \A u \in TCB : Holds(u) /\ MySem(u) = e => u = t
      BY <1>1, <2>3 DEF Exclusion
    <2>8. \A u \in TCB : u \in SemWaiters(e) <=> "SEM" \in Stat[u] /\ MySem(u) = e
      <3>1. \A u \in TCB : "SEM" \in Stat[u] => EventPtr[u] = MySem(u)
        BY <1>1 DEF WaitExact, WaitsWell
      <3>. QED
        BY <3>1 DEF SemWaiters
    <2>9. SemWaiters(e) \subseteq TCB
      BY DEF SemWaiters
    <2> HIDE DEF e
    <2>10. CASE (\A u \in TCB : Undisturbed(u)) /\ SemWaiters(e) = {} /\ cnt' = [cnt EXCEPT ![e] = @ + 1]
      <3>1. \A u \in TCB : Inside(u)' => MySem(u) # e
        BY <2>4, <2>7, <2>8, <2>10 DEF Holds
      <3>2. \A d \in Event \ {e} : cnt'[d] = cnt[d]
        BY <1>1, <2>10 DEF DriverTypeOK
      <3>3. \A u \in TCB : Holds(u)' => Holds(u)
        BY <2>4, <2>10 DEF Holds, Undisturbed
      <3>. QED
        BY <1>1, <2>4, <2>5, <3>1, <3>2, <3>3, SemIsEvent DEF Exclusion
    <2>11. CASE \E v \in SemWaiters(e) : (\A u \in TCB \ {v} : Undisturbed(u)) /\ cnt' = cnt
      <3>1. PICK v \in SemWaiters(e) : (\A u \in TCB \ {v} : Undisturbed(u)) /\ cnt' = cnt
        BY <2>11
      <3>2. \A u \in TCB \ {v} : Holds(u)' => Holds(u) /\ u # t
        BY <2>4, <3>1 DEF Holds, Undisturbed
      <3>3. \A u \in TCB : Holds(u)' /\ MySem(u) = e => u = v
        BY <2>7, <3>2
      <3>4. MySem(v) = e /\ v \in TCB
        BY <2>8, <2>9
      <3>. QED
        BY <1>1, <2>4, <2>5, <3>1, <3>2, <3>3, <3>4 DEF Exclusion
    <2>. QED
      BY <2>6, <2>10, <2>11
  <1>4. ASSUME NEW t \in TCB, Naps(t) PROVE Exclusion'
    <2>1. UNCHANGED <<cnt, role, depth>> /\ \A u \in TCB \ {t} : at'[u] = at[u]
      BY <1>1, <1>4, NapsPends DEF DriverTypeOK, lockVars
    <2>2. /\ \A u \in TCB \ {t} : Undisturbed(u)
          /\ "SEM" \notin Stat[t] /\ at[t] \in {"rpend", "wpend"}
      BY <1>4, NapsDoes
    <2>3. \A u \in TCB : Inside(u)' => Inside(u)
      BY <2>1, <2>2 DEF Inside, Locked, ReadSteps, WriteSteps
    <2>. QED
      BY <1>1, <2>1, <2>2, <2>3, ExclusionFrame DEF Undisturbed
  <1>5. ASSUME NEW t \in TCB, ((ReadsOn(t) \/ WritesOn(t)) /\ Idles) \/ Locks(t) PROVE Exclusion'
    <2>1. UNCHANGED <<cnt, role, Stat>>
      BY <1>5, Alone DEF coreVars, stateVars
    <2>2. \A u \in TCB : Inside(u)' => Inside(u)
      BY <1>5, LocksInside
    <2>. QED
      BY <1>1, <2>1, <2>2, ExclusionFrame
  <1>6. CASE Passive
    <2>1. UNCHANGED <<cnt, role, at, depth>> /\ \A u \in TCB : "SEM" \in Stat[u] => "SEM" \in Stat'[u]
      BY <1>1, <1>6, PassiveDoes DEF lockVars, Undisturbed
    <2>2. \A u \in TCB : Inside(u)' => Inside(u)
      BY <2>1 DEF Inside
    <2>. QED
      BY <1>1, <2>1, <2>2, ExclusionFrame
  <1>. QED
    BY Kinds, <1>1, <1>2, <1>3, <1>4, <1>5, <1>6 DEF Passive

-----------------------------------------------------------------------------
(* The owner and the count.                                                *)

(* A step in which no task gets on in the lock functions.                  *)
LEMMA LockFrame ==
  ASSUME LockExact, UNCHANGED <<role, lockVars, OSTCBPrio>>,
         \A u \in TCB : LockOf(u) \in LockNames => at'[u] = at[u]
  PROVE  LockExact'
  <1>1. \A u \in TCB : LockOf(u)' = LockOf(u) /\ (Owns(u)' <=> Owns(u))
    BY DEF LockOf, Owns, lockVars
  <1>. QED
    BY <1>1 DEF LockExact, lockVars

LEMMA OthersAreNotIn ==
  ASSUME Turns, NEW t \in TCB, LockOf(t) \in LockNames, Inside(t), InTask(t),
         NEW u \in TCB \ {t}, LockOf(u) = LockOf(t)
  PROVE  depth[u] = 0 /\ at[u] # "lown"
  <1>1. MySem(u) = MySem(t)
    BY DEF MySem, Reader, Writer, Sem, LockOf, LockNames
  <1>2. Holds(t)
    BY RunningFree DEF Turns, Holds, InTask
  <1>3. ~Holds(u)
    BY <1>1, <1>2 DEF Turns, Exclusion
  <1>4. "SEM" \in Stat[u] => at[u] = "lclaim"
    BY DEF Turns, WaitExact, WaitsWell, KernelSound, TablesSound, StatusExact, AtExact, LockNames,
       LockSteps, Reader, Writer, LockOf
  <1>5. at[u] = "lclaim" => depth[u] = 0
    BY DEF Turns, LockExact
  <1>6. depth[u] \in Nat
    BY DEF Turns, DriverTypeOK
  <1>. QED
    BY <1>3, <1>4, <1>5, <1>6 DEF Holds, Inside, Locked

LEMMA PrioOfOne ==
  ASSUME KernelSound
  PROVE  \A t, u \in TCB : OSTCBPrio[t] = OSTCBPrio[u] => t = u
  BY DEF KernelSound, TablesSound, PrioExact

LEMMA LocksKeeps ==
  ASSUME Turns, NEW t \in TCB, Locks(t)
  PROVE  LockExact'
  <1>1. /\ LockOf(t) \in LockNames /\ InTask(t) /\ UNCHANGED <<role, cnt, OSTCBPrio>>
        /\ \A u \in TCB \ {t} : at'[u] = at[u] /\ depth'[u] = depth[u]
    BY LocksMoves, Alone DEF Turns, DriverTypeOK, coreVars, prioVars
  <1>2. LockExact /\ DriverTypeOK /\ AtExact
    BY DEF Turns
  <1>3. \A u \in TCB : LockOf(u)' = LockOf(u)
    BY <1>1 DEF LockOf
  <1>4. /\ depth[t] > 0 <=> Owns(t)
        /\ depth[t] > 0 => locks[LockOf(t)] = depth[t]
    BY <1>1, <1>2 DEF LockExact
  <1>5. Inside(t) => \A u \in TCB \ {t} : LockOf(u) = LockOf(t) => depth[u] = 0 /\ at[u] # "lown"
    BY <1>1, OthersAreNotIn
  <1>6. \A u \in TCB \ {t} : OSTCBPrio[u] # OSTCBPrio[t]
    BY PrioOfOne DEF Turns
  <1>7. OSTCBPrio[t] \in Nat
    BY PrioIsNat DEF Turns, KernelSound, TablesSound, TablesTypeOK
  <1>8. CASE Query(t)
    <2>1. /\ at' = [at EXCEPT ![t] = "ltest"] /\ UNCHANGED <<lockid, locks, depth>> /\ at[t] = "out"
          /\ \A u \in TCB \ {t} : seen'[u] = seen[u]
      BY <1>2, <1>8 DEF Query, Step, DriverTypeOK
    <2>2. depth[t] > 0 => seen'[t]
      <3>1. depth[t] > 0 => cnt[Sem(t)] = 0
        BY <1>1, <1>2 DEF Turns, Exclusion, Inside, MySem, Reader, Writer, LockOf, LockNames
      <3>2. depth[t] > 0 => LockOf(t) = "heap"
        <4>1. depth[t] < role[t].len
          BY <1>8 DEF Query
        <4>2. LockOf(t) = "env" => role[t].len <= 1 /\ role[t].len \in Nat
          BY <1>2, RoleFacts
        <4>. QED
          BY <1>1, <1>2, <4>1, <4>2 DEF LockNames, DriverTypeOK
      <3>3. seen' = [seen EXCEPT ![t] =
               IF LockOf(t) = "heap" THEN cnt[Sem(t)] = 0 ELSE OSEventTbl[Sem(t)] # {}]
        BY <1>8 DEF Query
      <3>. QED
        BY <1>2, <3>1, <3>2, <3>3 DEF DriverTypeOK
    <2>3. \A u \in TCB : Owns(u)' <=> Owns(u)
      BY <1>1, <1>3, <2>1 DEF Owns
    <2>. QED
      BY <1>1, <1>2, <1>3, <2>1, <2>2, <2>3 DEF LockExact, DriverTypeOK
  <1>9. CASE Test(t)
    <2>1. lockid' = lockid /\ \A u \in TCB \ {t} : seen'[u] = seen[u]
      BY <1>2, <1>9 DEF Test, DriverTypeOK
    <2>2. \A u \in TCB : Owns(u)' <=> Owns(u)
      BY <1>1, <1>3, <2>1 DEF Owns
    <2>3. CASE /\ at[t] = "ltest" /\ at' = [at EXCEPT ![t] = "out"] /\ Owns(t)
               /\ locks' = [locks EXCEPT ![LockOf(t)] = @ + 1]
               /\ depth' = [depth EXCEPT ![t] = @ + 1]
      <3>1. depth[t] > 0 /\ depth'[t] = depth[t] + 1 /\ locks'[LockOf(t)] = locks[LockOf(t)] + 1
            /\ at'[t] = "out"
        BY <1>1, <1>2, <1>4, <2>3 DEF DriverTypeOK
      <3>2. \A u \in TCB \ {t} : LockOf(u) = LockOf(t) => depth[u] = 0 /\ at[u] # "lown"
        BY <1>5, <3>1 DEF Inside
      <3>3. \A l \in LockNames \ {LockOf(t)} : locks'[l] = locks[l]
        BY <1>2, <2>3 DEF DriverTypeOK
      <3>. QED
        BY <1>1, <1>2, <1>3, <1>4, <2>1, <2>2, <2>3, <3>1, <3>2, <3>3 DEF LockExact, DriverTypeOK
    <2>4. CASE /\ at[t] = "ltest" /\ at' = [at EXCEPT ![t] = "lpend"] /\ ~(seen[t] /\ Owns(t))
               /\ UNCHANGED <<locks, depth>>
      <3>1. depth[t] = 0
        BY <1>1, <1>2, <1>4, <2>4 DEF LockExact, DriverTypeOK
      <3>. QED
        BY <1>1, <1>2, <1>3, <1>4, <2>1, <2>2, <2>4, <3>1 DEF LockExact, DriverTypeOK
    <2>. QED
      BY <1>9, <2>3, <2>4 DEF Test, Step
  <1>10. CASE Claim(t)
    <2>1. seen' = seen /\ Inside(t)
      BY <1>10 DEF Claim, Step, Inside, Locked
    <2>2. \A u \in TCB \ {t} : LockOf(u) = LockOf(t) => depth[u] = 0 /\ at[u] # "lown"
      BY <1>5, <2>1
    <2>3. CASE /\ at[t] = "lclaim" /\ at' = [at EXCEPT ![t] = "lown"]
               /\ locks' = [locks EXCEPT ![LockOf(t)] = 1] /\ UNCHANGED <<lockid, depth>>
      <3>1. \A u \in TCB : Owns(u)' <=> Owns(u)
        BY <1>1, <1>3, <2>3 DEF Owns
      <3>2. locks'[LockOf(t)] = 1 /\ depth[t] = 0 /\ \A l \in LockNames \ {LockOf(t)} : locks'[l] = locks[l]
        BY <1>1, <1>2, <2>3 DEF LockExact, DriverTypeOK
      <3>. QED
        BY <1>1, <1>2, <1>3, <2>1, <2>2, <2>3, <3>1, <3>2 DEF LockExact, DriverTypeOK
    <2>4. CASE /\ at[t] = "lown" /\ at' = [at EXCEPT ![t] = "out"]
               /\ lockid' = [lockid EXCEPT ![LockOf(t)] = OSTCBPrio[t]]
               /\ depth' = [depth EXCEPT ![t] = @ + 1] /\ UNCHANGED locks
      <3>1. lockid'[LockOf(t)] = OSTCBPrio[t] /\ \A l \in LockNames \ {LockOf(t)} : lockid'[l] = lockid[l]
        BY <1>1, <1>2, <2>4 DEF DriverTypeOK
      <3>2. Owns(t)' /\ \A u \in TCB \ {t} : IF LockOf(u) = LockOf(t) THEN ~Owns(u)'
                                             ELSE LockOf(u) \in LockNames => (Owns(u)' <=> Owns(u))
        BY <1>1, <1>3, <1>6, <3>1 DEF Owns
      <3>3. locks[LockOf(t)] = 1 /\ depth[t] = 0 /\ depth'[t] = 1
        BY <1>1, <1>2, <2>4 DEF LockExact, DriverTypeOK
      <3>. QED
        BY <1>1, <1>2, <1>3, <2>1, <2>2, <2>4, <3>2, <3>3 DEF LockExact, DriverTypeOK
    <2>. QED
      BY <1>10, <2>3, <2>4 DEF Claim, Step
  <1>11. CASE Unlock(t)
    <2> DEFINE l == LockOf(t)
    <2>1. /\ depth[t] > 0 /\ depth'[t] = depth[t] - 1 /\ seen' = seen
          /\ locks[l] = depth[t] /\ locks'[l] = depth[t] - 1
          /\ \A k \in LockNames \ {l} : locks'[k] = locks[k]
      BY <1>1, <1>2, <1>4, <1>11 DEF Unlock, DriverTypeOK
    <2>2. \A u \in TCB \ {t} : LockOf(u) = LockOf(t) => depth[u] = 0 /\ at[u] # "lown"
      BY <1>5, <2>1 DEF Inside
    <2>3. CASE locks[l] = 1 /\ at' = [at EXCEPT ![t] = "lpost"] /\ lockid' = [lockid EXCEPT ![l] = NOBODY]
      <3>1. lockid'[l] = NOBODY /\ \A k \in LockNames \ {l} : lockid'[k] = lockid[k]
        BY <1>1, <1>2, <2>3 DEF DriverTypeOK
      <3>2. \A u \in TCB : IF LockOf(u) = l THEN ~Owns(u)'
                           ELSE LockOf(u) \in LockNames => (Owns(u)' <=> Owns(u))
        <4>1. \A u \in TCB : OSTCBPrio[u] # NOBODY
          BY PrioIsNat DEF Turns, KernelSound, TablesSound, TablesTypeOK, NOBODY
        <4>. QED
          BY <1>1, <1>3, <3>1, <4>1 DEF Owns
      <3>. QED
        BY <1>1, <1>2, <1>3, <2>1, <2>2, <2>3, <3>2 DEF LockExact, DriverTypeOK
    <2>4. CASE locks[l] # 1 /\ at' = [at EXCEPT ![t] = "out"] /\ UNCHANGED lockid
      <3>1. \A u \in TCB : Owns(u)' <=> Owns(u)
        BY <1>1, <1>3, <2>4 DEF Owns
      <3>. QED
        BY <1>1, <1>2, <1>3, <1>4, <2>1, <2>2, <2>4, <3>1 DEF LockExact, DriverTypeOK
    <2>. QED
      BY <1>11, <2>3, <2>4 DEF Unlock, Step
  <1>. QED
    BY <1>8, <1>9, <1>10, <1>11 DEF Locks

LEMMA PriosStay ==
  ASSUME Turns, HalNext
  PROVE  OSTCBPrio' = OSTCBPrio
  <1>1. ASSUME NEW t \in TCB, Takes(t) \/ Gives(t) \/ Naps(t) PROVE OSTCBPrio' = OSTCBPrio
    BY <1>1, TakesPends, GivesPosts, NapsPends
    DEF Turns, OSSemPend, OSSemPost, OSFlagPend, coreVars, prioVars
  <1>2. ASSUME NEW t \in TCB, Resumes(t) PROVE OSTCBPrio' = OSTCBPrio
    BY <1>2 DEF Resumes, FlagReturn, PendReturn, OSSemPendEnds, prioVars
  <1>3. ASSUME NEW t \in TCB, ((ReadsOn(t) \/ WritesOn(t)) /\ Idles) \/ Locks(t)
        PROVE  OSTCBPrio' = OSTCBPrio
    BY <1>3, Alone DEF coreVars, prioVars
  <1>4. CASE Device
    BY <1>4 DEF Device, altera_avalon_uart_irq, OSFlagPost, Arrive, Shifted, coreVars, prioVars
  <1>5. CASE Elsewhere
    <2>1. ASSUME NEW t \in TCB, AnyCall(t) PROVE OSTCBPrio' = OSTCBPrio
      BY <2>1 DEF AnyCall, SomePost, OSFlagPost, OSFlagAccept, OSTaskSuspend, OSTaskResume, OSTimeDly,
         OSFlagCreate, OSFlagDel, OSFlagPend, coreVars, prioVars
    <2>2. CASE \E t \in TCB : OS_Sched(t)
      BY <2>2 DEF OS_Sched, prioVars
    <2>3. CASE OtherInterrupt \/ ClockTicks
      BY <2>3 DEF OtherInterrupt, ClockTicks, SomePost, OSFlagPost, OSTimeTick, TimersEnd, prioVars
    <2>4. CASE \E t \in TCB : TaskSleeps(t)
      BY <2>4 DEF TaskSleeps, OSTimeDly, prioVars
    <2>5. CASE UNCHANGED <<coreVars, flagVars>>
      BY <2>5 DEF coreVars, prioVars
    <2>. QED
      BY <1>5, <2>1, <2>2, <2>3, <2>4, <2>5 DEF Elsewhere
  <1>. QED
    BY Kinds, <1>1, <1>2, <1>3, <1>4, <1>5 DEF Turns

LEMMA LockStep ==
  ASSUME Turns, HalNext
  PROVE  LockExact'
  <1>1. DriverTypeOK /\ AtExact /\ LockExact /\ KernelSound /\ WaitExact /\ OSTCBPrio' = OSTCBPrio
    BY PriosStay DEF Turns
  <1>2. ASSUME UNCHANGED <<role, lockVars>>, NEW t \in TCB, NEW to, at' = [at EXCEPT ![t] = to],
               Reader(t) \/ Writer(t)
        PROVE  LockExact'
    BY <1>1, <1>2, LockFrame DEF Reader, Writer, LockOf, LockNames, DriverTypeOK
  <1>3. ASSUME NEW t \in TCB, Takes(t) \/ Gives(t) PROVE LockExact'
    <2>1. UNCHANGED <<role, lockVars>>
      BY <1>1, <1>3, TakesPends, GivesPosts
    <2>2. CASE Reader(t) \/ Writer(t)
      BY <1>1, <1>2, <1>3, <2>1, <2>2, TakesPends, GivesPosts DEF Reader, Writer, LockOf, LockNames
    <2>3. CASE /\ LockOf(t) \in LockNames /\ at[t] \in {"lpend", "lpost"}
               /\ \E to \in {"lclaim", "out"} : at' = [at EXCEPT ![t] = to]
      <3>1. \A u \in TCB : LockOf(u)' = LockOf(u) /\ (Owns(u)' <=> Owns(u))
        BY <1>1, <2>1 DEF LockOf, Owns, lockVars
      <3>. QED
        BY <1>1, <2>1, <2>3, <3>1 DEF LockExact, DriverTypeOK, lockVars
    <2>. QED
      BY <1>1, <1>3, <2>2, <2>3, TakesPends, GivesPosts
  <1>4. ASSUME NEW t \in TCB, Naps(t) PROVE LockExact'
    BY <1>1, <1>2, <1>4, NapsPends DEF Reader, Writer
  <1>5. ASSUME NEW t \in TCB, (ReadsOn(t) \/ WritesOn(t)) /\ Idles PROVE LockExact'
    <2>1. Reader(t) \/ Writer(t)
      BY <1>1, <1>5 DEF ReadsOn, WritesOn, TakeByte, MaskStart, EndLoop, TestFull, PutByte, Step, AtExact,
         LockSteps, LockNames
    <2>. QED
      BY <1>2, <1>5, <2>1, Alone DEF Idles
  <1>6. ASSUME NEW t \in TCB, Locks(t) PROVE LockExact'
    BY <1>6, LocksKeeps
  <1>7. CASE Passive
    BY <1>1, <1>7, PassiveDoes, LockFrame
  <1>. QED
    BY Kinds, <1>1, <1>3, <1>4, <1>5, <1>6, <1>7 DEF Passive

LEMMA TurnsStep ==
  ASSUME Turns, HalNext
  PROVE  Turns'
  BY TypeStep, KernelStep, AtStep, WaitStep, ExclusionStep, LockStep DEF Turns

LEMMA TurnsStutter ==
  ASSUME Turns, UNCHANGED allVars
  PROVE  Turns'
  <1>1. UNCHANGED <<coreVars, flagVars, cnt, role, at, left, got, lockVars>>
    BY DEF allVars, vars, driverVars, callVars
  <1>2. KernelSound'
    BY <1>1, KernelFrame DEF Turns
  <1>3. DriverTypeOK' /\ AtExact'
    BY <1>1 DEF Turns, DriverTypeOK, AtExact, lockVars, Reader, Writer, LockOf
  <1>4. WaitExact'
    BY <1>1, FrameDisturbsNobody, WaitsOn DEF flagVars, Turns, WaitExact, KernelSound, TablesSound,
       StatusExact
  <1>5. Exclusion'
    BY <1>1, ExclusionFrame DEF Turns, Inside, lockVars, coreVars, stateVars
  <1>6. LockExact'
    BY <1>1, LockFrame DEF Turns, coreVars, prioVars
  <1>. QED
    BY <1>2, <1>3, <1>4, <1>5, <1>6 DEF Turns

LEMMA TurnsStart ==
  ASSUME HalInit
  PROVE  Turns
  <1>1. /\ CoreInit(TCB, BasePrio, {}) /\ pc = [t \in TCB |-> "task"] /\ FlagsInit /\ role \in Roles
        /\ cnt = [e \in Event |-> 1] /\ at = [t \in TCB |-> "out"] /\ left = [t \in TCB |-> 0]
        /\ got = [t \in TCB |-> FALSE]
        /\ lockid = [l \in LockNames |-> NOBODY] /\ locks = [l \in LockNames |-> 0]
        /\ seen = [t \in TCB |-> FALSE] /\ depth = [t \in TCB |-> 0]
    BY DEF HalInit, Init
  <1>2. KernelSound
    BY <1>1, BasePrioAssumption, KernelStarts
  <1>3. DriverTypeOK /\ AtExact
    BY <1>1 DEF DriverTypeOK, AtExact
  <1>4. WaitExact
    BY <1>1 DEF WaitExact, WaitsWell, CoreInit
  <1>5. Exclusion
    BY <1>1 DEF Exclusion, Inside, Holds, Locked, ReadSteps, WriteSteps
  <1>6. LockExact
    <2>1. \A t \in TCB : OSTCBPrio[t] # NOBODY
      BY <1>2, PrioIsNat DEF KernelSound, TablesSound, TablesTypeOK, NOBODY
    <2>. QED
      BY <1>1, <2>1 DEF LockExact, Owns
  <1>. QED
    BY <1>2, <1>3, <1>4, <1>5, <1>6 DEF Turns

(* The locks of the heap and of the environment (alt_malloc_lock.c,        *)
(* alt_env_lock.c) keep their owner and count right, and no two tasks get  *)
(* inside one, for any number of tasks in any roles.                       *)
THEOREM LockIsExclusiveHolds == HalSpec => []LockIsExclusive
  <1>1. HalInit => Turns
    BY TurnsStart
  <1>2. Turns /\ [HalNext]_allVars => Turns'
    BY TurnsStep, TurnsStutter
  <1>3. Turns => LockIsExclusive
    <2>1. ASSUME Turns, NEW t \in TCB, LockOf(t) \in LockNames, depth[t] > 0
          PROVE  /\ \A u \in TCB \ {t} : LockOf(u) = LockOf(t) => depth[u] = 0
                 /\ Owns(t) /\ locks[LockOf(t)] = depth[t]
                 /\ pc[t] # "pend"
      <3>1. pc[t] # "pend" /\ Owns(t) /\ locks[LockOf(t)] = depth[t]
        BY <2>1 DEF Turns, WaitExact, WaitsWell, LockExact, AtExact, LockNames, LockSteps, Reader, Writer,
           LockOf
      <3>2. \A u \in TCB \ {t} : LockOf(u) = LockOf(t) => depth[u] = 0
        <4>1. ASSUME NEW u \in TCB \ {t}, LockOf(u) = LockOf(t), depth[u] > 0 PROVE FALSE
          <5>1. Owns(u)
            BY <2>1, <4>1 DEF Turns, LockExact
          <5>2. OSTCBPrio[u] = OSTCBPrio[t]
            BY <3>1, <4>1, <5>1 DEF Owns
          <5>. QED
            BY <2>1, <4>1, <5>2, PrioOfOne DEF Turns
        <4>. QED
          BY <2>1, <4>1 DEF Turns, DriverTypeOK
      <3>. QED
        BY <3>1, <3>2
    <2>. QED
      BY <2>1 DEF LockIsExclusive
  <1>. QED
    BY <1>1, <1>2, <1>3, PTL DEF HalSpec

-----------------------------------------------------------------------------
(* Rings.                                                                  *)

LEMMA Remainder ==
  ASSUME NEW k \in Nat \ {0}
  PROVE  \A x \in 0 .. 2 * k - 1 : x % k = IF x < k THEN x ELSE x - k
  OBVIOUS

LEMMA MaskedIs ==
  /\ \A i \in 0 .. 2 * BufLen - 1 : Masked(i) = IF i < BufLen THEN i ELSE i - BufLen
  /\ \A i \in 0 .. 2 * BufLen - 1 : Masked(i) \in Index
  <1>1. BufLen \in Nat \ {0}
    BY UartAssumption
  <1>2. \A x \in 0 .. 2 * BufLen - 1 : x % BufLen = IF x < BufLen THEN x ELSE x - BufLen
    BY <1>1, Remainder
  <1>. QED
    BY <1>1, <1>2 DEF Masked, Index

LEMMA UsedIs ==
  \A s, e \in Index : /\ Used(s, e) = IF s <= e THEN e - s ELSE e + BufLen - s
                      /\ Used(s, e) \in 0 .. BufLen - 1
  <1>1. BufLen \in Nat \ {0}
    BY UartAssumption
  <1>2. \A x \in 0 .. 2 * BufLen - 1 : x % BufLen = IF x < BufLen THEN x ELSE x - BufLen
    BY <1>1, Remainder
  <1>3. \A s, e \in Index : e + BufLen - s \in 0 .. 2 * BufLen - 1
    BY <1>1 DEF Index
  <1>. QED
    BY <1>1, <1>2, <1>3 DEF Used, Index

LEMMA BytesFollow ==
  /\ \A x \in Byte, i \in 0 .. BufLen : (x + i) % Wrap = IF x + i < Wrap THEN x + i ELSE x + i - Wrap
  /\ \A x \in Byte, i \in 0 .. BufLen : (x + i) % Wrap \in Byte
  /\ \A x \in Byte : Follower(x) = (x + 1) % Wrap /\ Follower(x) \in Byte /\ Follower(x) # NONE
  /\ \A x \in Byte : (x + Wrap - 1) % Wrap = IF x = 0 THEN Wrap - 1 ELSE x - 1
  <1>1. Wrap \in Nat \ {0} /\ BufLen \in Nat /\ Wrap > BufLen + 1
    BY UartAssumption
  <1>2. \A x \in 0 .. 2 * Wrap - 1 : x % Wrap = IF x < Wrap THEN x ELSE x - Wrap
    BY <1>1, Remainder
  <1>3. \A x \in Byte, i \in 0 .. BufLen : x + i \in 0 .. 2 * Wrap - 1
    BY <1>1 DEF Byte
  <1>4. \A x \in Byte : x + 1 \in 0 .. 2 * Wrap - 1 /\ x + Wrap - 1 \in 0 .. 2 * Wrap - 1
    BY <1>1 DEF Byte
  <1>5. \A x \in Byte, i \in 0 .. BufLen :
          (x + i) % Wrap = IF x + i < Wrap THEN x + i ELSE x + i - Wrap
    <2> SUFFICES ASSUME NEW x \in Byte, NEW i \in 0 .. BufLen
                 PROVE  (x + i) % Wrap = IF x + i < Wrap THEN x + i ELSE x + i - Wrap
      OBVIOUS
    <2> DEFINE y == x + i
    <2>1. y \in 0 .. 2 * Wrap - 1
      BY <1>3
    <2> HIDE DEF y
    <2>2. y % Wrap = IF y < Wrap THEN y ELSE y - Wrap
      BY <1>2, <2>1
    <2>. QED
      BY <1>1, <2>2 DEF y, Byte
  <1>6. \A x \in Byte, i \in 0 .. BufLen : (x + i) % Wrap \in Byte
    BY <1>1, <1>3, <1>5 DEF Byte
  <1>7. \A x \in Byte : (x + 1) % Wrap \in Byte
    <2>1. 1 \in 0 .. BufLen
      BY UartAssumption
    <2>. QED
      BY <1>6, <2>1
  <1>8. \A x \in Byte : (x + Wrap - 1) % Wrap = IF x = 0 THEN Wrap - 1 ELSE x - 1
    <2>1. \A x \in Byte : x + Wrap - 1 < Wrap <=> x = 0
      BY <1>1 DEF Byte
    <2>. QED
      BY <1>1, <1>2, <1>4, <2>1 DEF Byte
  <1>9. \A x \in Byte : Follower(x) = (x + 1) % Wrap /\ Follower(x) \in Byte /\ Follower(x) # NONE
    BY <1>1, <1>7 DEF Byte, Follower, NONE
  <1>. QED
    BY <1>5, <1>6, <1>8, <1>9

LEMMA RingTake ==
  ASSUME NEW s \in Index, NEW e \in Index, s # e, NEW last \in Byte, NEW buf \in [Index -> 0 .. NONE],
         Follows(buf, s, e, last)
  PROVE  /\ buf[s] = (last + 1) % Wrap
         /\ (buf[s] + Used(Masked(s + 1), e)) % Wrap = (last + Used(s, e)) % Wrap
         /\ Follows([buf EXCEPT ![s] = NONE], Masked(s + 1), e, buf[s])
  <1> DEFINE n == Used(s, e)
             t == Masked(s + 1)
             new == [buf EXCEPT ![s] = NONE]
  <1>1. BufLen \in Nat \ {0, 1} /\ Wrap \in Nat /\ Wrap > BufLen + 1
    BY UartAssumption
  <1>2. t \in Index /\ t = IF s + 1 < BufLen THEN s + 1 ELSE 0
    BY <1>1, MaskedIs DEF Index
  <1>3. n \in 1 .. BufLen - 1 /\ Used(t, e) = n - 1
    <2>1. n = IF s <= e THEN e - s ELSE e + BufLen - s
      BY UsedIs
    <2>2. Used(t, e) = IF t <= e THEN e - t ELSE e + BufLen - t
      BY <1>2, UsedIs
    <2>3. s # e
      OBVIOUS
    <2> HIDE DEF n, t
    <2>4. CASE s < e
      BY <1>1, <1>2, <2>1, <2>2, <2>4 DEF Index
    <2>5. CASE e < s
      <3>1. n = e + BufLen - s
        BY <2>1, <2>5 DEF Index
      <3>2. CASE s + 1 < BufLen
        BY <1>1, <1>2, <2>2, <2>5, <3>1, <3>2 DEF Index
      <3>3. CASE s = BufLen - 1
        BY <1>1, <1>2, <2>2, <2>5, <3>1, <3>3 DEF Index
      <3>. QED
        BY <1>1, <3>2, <3>3 DEF Index
    <2>. QED
      BY <2>3, <2>4, <2>5 DEF Index
  <1>4. buf[s] = (last + 1) % Wrap
    <2>1. Masked(s + 1 - 1) = s
      BY <1>1, MaskedIs DEF Index
    <2>. QED
      BY <1>3, <2>1 DEF Follows
  <1>5. buf[s] \in Byte
    BY <1>1, <1>4, BytesFollow
  <1>6. \A i \in 0 .. BufLen - 1 : (buf[s] + i) % Wrap = (last + (i + 1)) % Wrap
    <2>1. SUFFICES ASSUME NEW i \in 0 .. BufLen - 1
                   PROVE  (buf[s] + i) % Wrap = (last + (i + 1)) % Wrap
      OBVIOUS
    <2>2. buf[s] = IF last + 1 < Wrap THEN last + 1 ELSE last + 1 - Wrap
      BY <1>1, <1>4, BytesFollow
    <2>3. (buf[s] + i) % Wrap = IF buf[s] + i < Wrap THEN buf[s] + i ELSE buf[s] + i - Wrap
      BY <1>1, <1>5, BytesFollow
    <2>4. (last + (i + 1)) % Wrap
            = IF last + (i + 1) < Wrap THEN last + (i + 1) ELSE last + (i + 1) - Wrap
      BY <1>1, BytesFollow
    <2>. QED
      BY <1>1, <2>2, <2>3, <2>4 DEF Byte
  <1>7. (buf[s] + (n - 1)) % Wrap = (last + n) % Wrap
    <2>1. n - 1 \in 0 .. BufLen - 1 /\ (n - 1) + 1 = n
      BY <1>1, <1>3
    <2> HIDE DEF n
    <2>. QED
      BY <1>6, <2>1
  <1>8. \A i \in 1 .. n - 1 : Masked(t + i - 1) = Masked(s + (i + 1) - 1) /\ Masked(t + i - 1) \in Index
                             /\ Masked(t + i - 1) # s
    <2>1. SUFFICES ASSUME NEW i \in 1 .. n - 1
                   PROVE  Masked(t + i - 1) = Masked(s + (i + 1) - 1) /\ Masked(t + i - 1) \in Index
                          /\ Masked(t + i - 1) # s
      OBVIOUS
    <2> HIDE DEF n, t
    <2>2. t + i - 1 \in 0 .. 2 * BufLen - 1 /\ s + (i + 1) - 1 \in 0 .. 2 * BufLen - 1
      BY <1>1, <1>2, <1>3 DEF Index
    <2>3. /\ Masked(t + i - 1) = IF t + i - 1 < BufLen THEN t + i - 1 ELSE t + i - 1 - BufLen
          /\ Masked(s + (i + 1) - 1) =
               IF s + (i + 1) - 1 < BufLen THEN s + (i + 1) - 1 ELSE s + (i + 1) - 1 - BufLen
          /\ Masked(t + i - 1) \in Index
      <3> DEFINE j == t + i - 1
                 k == s + (i + 1) - 1
      <3>1. j \in 0 .. 2 * BufLen - 1 /\ k \in 0 .. 2 * BufLen - 1
        BY <2>2
      <3> HIDE DEF j, k
      <3>2. /\ (Masked(j) = IF j < BufLen THEN j ELSE j - BufLen) /\ Masked(j) \in Index
            /\ Masked(k) = IF k < BufLen THEN k ELSE k - BufLen
        BY <3>1, MaskedIs
      <3>. QED
        BY <1>1, <1>2, <1>3, <3>2 DEF j, k, Index
    <2>. QED
      BY <1>1, <1>2, <1>3, <2>3 DEF Index
  <1> HIDE DEF n, t
  <1>9. \A i \in 1 .. n - 1 : new[Masked(t + i - 1)] = (buf[s] + i) % Wrap
    <2>1. ASSUME NEW i \in 1 .. n - 1 PROVE new[Masked(t + i - 1)] = (buf[s] + i) % Wrap
      <3>1. new[Masked(t + i - 1)] = buf[Masked(s + (i + 1) - 1)]
        BY <1>8
      <3>2. i + 1 \in 1 .. n
        BY <1>3
      <3>3. buf[Masked(s + (i + 1) - 1)] = (last + (i + 1)) % Wrap
        BY <3>2 DEF Follows, n
      <3>4. i \in 0 .. BufLen - 1
        BY <1>1, <1>3
      <3>. QED
        BY <1>6, <3>1, <3>3, <3>4
    <2>. QED
      BY <2>1
  <1>. QED
    BY <1>3, <1>4, <1>7, <1>9 DEF Follows, n, t

LEMMA RingPut ==
  ASSUME NEW s \in Index, NEW e \in Index, Masked(e + 1) # s, NEW last \in Byte,
         NEW buf \in [Index -> 0 .. NONE], Follows(buf, s, e, last),
         NEW byte, byte = (last + Used(s, e) + 1) % Wrap
  PROVE  /\ Masked(e + 1) \in Index
         /\ (last + Used(s, Masked(e + 1))) % Wrap = byte
         /\ Follows([buf EXCEPT ![e] = byte], s, Masked(e + 1), last)
  <1> DEFINE n == Used(s, e)
             d == Masked(e + 1)
             new == [buf EXCEPT ![e] = byte]
  <1>1. BufLen \in Nat \ {0, 1} /\ Wrap \in Nat /\ Wrap > BufLen + 1
    BY UartAssumption
  <1>2. d \in Index /\ d = IF e + 1 < BufLen THEN e + 1 ELSE 0
    BY <1>1, MaskedIs DEF Index
  <1>3. n \in 0 .. BufLen - 2 /\ Used(s, d) = n + 1 /\ n = IF s <= e THEN e - s ELSE e + BufLen - s
    <2>1. n = IF s <= e THEN e - s ELSE e + BufLen - s
      BY UsedIs
    <2>2. Used(s, d) = IF s <= d THEN d - s ELSE d + BufLen - s
      BY <1>2, UsedIs
    <2>3. d # s
      OBVIOUS
    <2> HIDE DEF n, d
    <2>. QED
      BY <1>1, <1>2, <2>1, <2>2, <2>3 DEF Index
  <1>4. \A i \in 1 .. n + 1 : Masked(s + i - 1) \in Index /\ (Masked(s + i - 1) = e <=> i = n + 1)
    <2>1. SUFFICES ASSUME NEW i \in 1 .. n + 1
                   PROVE  Masked(s + i - 1) \in Index /\ (Masked(s + i - 1) = e <=> i = n + 1)
      OBVIOUS
    <2> HIDE DEF n, d
    <2>2. s + i - 1 \in 0 .. 2 * BufLen - 1
      BY <1>1, <1>3 DEF Index
    <2>3. /\ Masked(s + i - 1) = IF s + i - 1 < BufLen THEN s + i - 1 ELSE s + i - 1 - BufLen
          /\ Masked(s + i - 1) \in Index
      <3> DEFINE j == s + i - 1
      <3>1. j \in 0 .. 2 * BufLen - 1
        BY <2>2
      <3> HIDE DEF j
      <3>2. (Masked(j) = IF j < BufLen THEN j ELSE j - BufLen) /\ Masked(j) \in Index
        BY <3>1, MaskedIs
      <3>. QED
        BY <1>1, <1>3, <3>2 DEF j, Index
    <2>4. /\ s \in Nat /\ e \in Nat /\ n \in Nat /\ i \in Nat /\ BufLen \in Nat
          /\ s < BufLen /\ e < BufLen /\ 1 <= i /\ i <= n + 1 /\ n <= BufLen - 2
      BY <1>1, <1>3 DEF Index
    <2> DEFINE m == Masked(s + i - 1)
    <2>5. m = IF s + i - 1 < BufLen THEN s + i - 1 ELSE s + i - 1 - BufLen
      BY <2>3
    <2> HIDE DEF m
    <2>6. CASE s <= e
      <3>1. n = e - s
        BY <1>3, <2>6
      <3>. QED
        BY <2>3, <2>4, <2>5, <3>1 DEF m
    <2>7. CASE s > e
      <3>1. n = e + BufLen - s
        BY <1>3, <2>4, <2>7
      <3>2. m = e <=> i = n + 1
        BY <2>4, <2>5, <2>7, <3>1
      <3>. QED
        BY <2>3, <3>2 DEF m
    <2>. QED
      BY <2>4, <2>6, <2>7
  <1>5. byte = (last + (n + 1)) % Wrap
    <2>1. last + n + 1 = last + (n + 1)
      BY <1>3 DEF Byte
    <2>. QED
      BY <2>1
  <1> HIDE DEF n, d
  <1>6. \A i \in 1 .. n + 1 : new[Masked(s + i - 1)] = (last + i) % Wrap
    <2>1. ASSUME NEW i \in 1 .. n + 1 PROVE new[Masked(s + i - 1)] = (last + i) % Wrap
      <3>1. CASE i = n + 1
        BY <1>4, <1>5, <3>1
      <3>2. CASE i # n + 1
        <4>1. i \in 1 .. n
          BY <1>3, <3>2
        <4>2. new[Masked(s + i - 1)] = buf[Masked(s + i - 1)]
          BY <1>4, <3>2
        <4>. QED
          BY <4>1, <4>2 DEF Follows, n
      <3>. QED
        BY <3>1, <3>2
    <2>. QED
      BY <2>1
  <1>. QED
    BY <1>2, <1>3, <1>5, <1>6 DEF Follows, d

-----------------------------------------------------------------------------
(* The bytes.                                                              *)

(* A step in which the rings and the wire rest.                            *)
Rests ==
  /\ UNCHANGED <<rxVars, txVars, wireVars>>
  /\ \/ ctrl' = ctrl
     \/ \E irq \in {"RRDY", "TRDY"} : ctrl' = ctrl \cup {irq}
  /\ \A u \in TCB : at'[u] = "wput" => at[u] = "wput" \/ ~Full
  /\ \A u \in TCB : at[u] = "rmask" => at'[u] = "rmask"

LEMMA RingKinds ==
  ASSUME Turns, HalNext
  PROVE  \/ \E t \in TCB : (TakeByte(t) \/ MaskStart(t) \/ PutByte(t)) /\ Idles
         \/ altera_avalon_uart_irq
         \/ Arrive \/ Shifted
         \/ Rests
  <1>1. DriverTypeOK /\ AtExact /\ KernelSound /\ WaitExact
    BY DEF Turns
  <1>2. ASSUME NEW t \in TCB, Takes(t) \/ Gives(t) \/ Naps(t) PROVE Rests
    BY <1>1, <1>2, TakesPends, GivesPosts, NapsPends DEF Rests, DriverTypeOK
  <1>3. ASSUME NEW t \in TCB, (ReadsOn(t) \/ WritesOn(t)) /\ Idles,
               ~TakeByte(t), ~MaskStart(t), ~PutByte(t)
        PROVE  Rests
    <2>1. UNCHANGED <<rxVars, txVars, wireVars>>
      BY <1>3 DEF ReadsOn, WritesOn, EndLoop, TestFull, Enable, Idles
    <2>2. \/ ctrl' = ctrl
          \/ \E irq \in {"RRDY", "TRDY"} : ctrl' = ctrl \cup {irq}
      BY <1>3 DEF ReadsOn, WritesOn, EndLoop, TestFull, Enable
    <2>3. /\ \A u \in TCB : at'[u] = "wput" => at[u] = "wput" \/ ~Full
          /\ \A u \in TCB : at[u] = "rmask" => at'[u] = "rmask"
      BY <1>1, <1>3 DEF ReadsOn, WritesOn, EndLoop, TestFull, Step, DriverTypeOK
    <2>. QED
      BY <2>1, <2>2, <2>3 DEF Rests
  <1>4. ASSUME NEW t \in TCB, Locks(t) PROVE Rests
    <2>1. UNCHANGED <<rxVars, txVars, wireVars, ctrl>>
      BY <1>4 DEF Locks, Query, Test, Claim, Unlock, Rest
    <2>2. /\ \A u \in TCB : at'[u] = "wput" => at[u] = "wput" \/ ~Full
          /\ \A u \in TCB : at[u] = "rmask" => at'[u] = "rmask"
      BY <1>1, <1>4 DEF Locks, Query, Test, Claim, Unlock, Step, DriverTypeOK
    <2>. QED
      BY <2>1, <2>2 DEF Rests
  <1>5. ASSUME NEW t \in TCB, Resumes(t) PROVE Rests
    BY <1>5 DEF Resumes, PendReturn, driverVars, callVars, Rests
  <1>6. ASSUME Elsewhere PROVE Rests
    BY <1>6 DEF Elsewhere, driverVars, callVars, Rests
  <1>. QED
    BY Kinds, <1>1, <1>2, <1>3, <1>4, <1>5, <1>6 DEF Device

(* Nobody else is at work on the ring that a task works on.                *)
LEMMA OthersAreAway ==
  ASSUME Turns, NEW t \in TCB, Running(t), Inside(t), NEW u \in TCB \ {t}
  PROVE  /\ MySem(u) = MySem(t) => ~Inside(u) \/ pc[u] = "pend"
         /\ Reader(t) /\ Reader(u) => at[u] \in {"out", "rlast", "rloop"}
         /\ Writer(t) /\ Writer(u) => at[u] \in {"out", "wlast", "wloop"}
         /\ Writer(t) => Writer(u) \/ at[u] \notin WriteSteps
         /\ Reader(t) => Reader(u) \/ at[u] \notin ReadSteps
  <1>1. Holds(t)
    BY RunningFree DEF Turns, Holds
  <1>2. MySem(u) = MySem(t) => ~Holds(u)
    BY <1>1 DEF Turns, Exclusion
  <1>3. "SEM" \in Stat[u] => pc[u] = "pend" /\ at[u] \in {"rloop", "wloop", "lclaim"}
    BY DEF Turns, WaitExact, WaitsWell, KernelSound, TablesSound, StatusExact
  <1>4. at[u] \in {"out"} \cup (IF Reader(u) THEN ReadSteps ELSE IF Writer(u) THEN WriteSteps
                               ELSE IF LockOf(u) \in LockNames THEN LockSteps ELSE {})
    BY DEF Turns, AtExact
  <1>5. /\ Reader(t) /\ Reader(u) => MySem(u) = MySem(t)
        /\ Writer(t) /\ Writer(u) => MySem(u) = MySem(t)
        /\ ~(Reader(t) /\ Writer(t)) /\ ~(Reader(u) /\ Writer(u))
    BY DEF MySem, Reader, Writer
  <1>. QED
    BY <1>2, <1>3, <1>4, <1>5 DEF Holds, Inside, Locked, ReadSteps, WriteSteps, LockSteps

LEMMA Working ==
  ASSUME Turns, NEW t \in TCB
  PROVE  /\ TakeByte(t) \/ MaskStart(t) => Running(t) /\ Inside(t) /\ Reader(t)
         /\ PutByte(t) => Running(t) /\ Inside(t) /\ Writer(t)
  BY DEF InTask, Turns, AtExact, TakeByte, MaskStart, PutByte, Step, Inside, Locked, ReadSteps, WriteSteps,
     LockSteps

LEMMA StartIsIndex ==
  ASSUME Turns, Rings, NEW t \in TCB, TakeByte(t)
  PROVE  rx_start \in Index
  <1>1. rx_start # BufLen
    <2>1. SUFFICES ASSUME NEW u \in TCB, at[u] = "rmask" PROVE FALSE
      BY DEF Rings, PlacesExact
    <2>2. u # t
      BY <2>1 DEF TakeByte, Step
    <2>3. Reader(u)
      BY <2>1 DEF Turns, AtExact, WriteSteps, LockSteps
    <2>. QED
      BY <2>1, <2>2, <2>3, Working, OthersAreAway
  <1>. QED
    BY <1>1, UartAssumption DEF Rings, RingTypeOK, Index

(* Room on a ring: an end that does not meet the start, masked or not.     *)
LEMMA Masking ==
  /\ \A i \in 0 .. BufLen : Masked(i) \in Index /\ Masked(i) = IF i = BufLen THEN 0 ELSE i
  /\ \A i \in 0 .. BufLen : Masked(Masked(i)) = Masked(i)
  /\ \A i, k \in Index : Masked(i + 1) = Masked(k + 1) <=> i = k
  /\ \A i \in Index : i + 1 \in 0 .. BufLen /\ Masked(i) = i
  <1>1. BufLen \in Nat /\ BufLen > 1
    BY UartAssumption
  <1>2. \A i \in 0 .. BufLen : Masked(i) \in Index /\ Masked(i) = IF i = BufLen THEN 0 ELSE i
    BY <1>1, MaskedIs
  <1>3. \A i \in Index : i \in 0 .. BufLen /\ i + 1 \in 0 .. BufLen
    BY <1>1 DEF Index
  <1>4. \A i \in Index : Masked(i) = i
    BY <1>1, <1>2, <1>3 DEF Index
  <1>5. \A i \in Index : Masked(i + 1) = IF i + 1 = BufLen THEN 0 ELSE i + 1
    BY <1>2, <1>3
  <1>. QED
    BY <1>1, <1>2, <1>3, <1>4, <1>5 DEF Index

LEMMA RxFrame ==
  ASSUME RxExact, UNCHANGED <<rxVars, rxdata, received>>
  PROVE  RxExact'
  BY DEF RxExact, rxVars, Follows, Slots, Used, Masked

LEMMA TxFrame ==
  ASSUME TxExact, UNCHANGED <<txVars, lastSent>>
  PROVE  TxExact'
  BY DEF TxExact, txVars, Follows, Used, Masked

LEMMA SlotTaken ==
  ASSUME NEW s \in Index, NEW e \in Index, s # e
  PROVE  s \in Slots(s, e) /\ Slots(Masked(s + 1), e) \subseteq Slots(s, e) \ {s}
  <1>1. BufLen \in Nat /\ BufLen > 1
    BY UartAssumption
  <1>2. Masked(s + 1) = IF s + 1 = BufLen THEN 0 ELSE s + 1
    BY Masking
  <1>. QED
    BY <1>1, <1>2 DEF Slots, Index

LEMMA SlotPut ==
  ASSUME NEW s \in Index, NEW e \in Index
  PROVE  Slots(s, Masked(e + 1)) \subseteq Slots(s, e) \cup {e}
  <1>1. BufLen \in Nat /\ BufLen > 1
    BY UartAssumption
  <1>2. Masked(e + 1) = IF e + 1 = BufLen THEN 0 ELSE e + 1
    BY Masking
  <1>. QED
    BY <1>1, <1>2 DEF Slots, Index

(* A byte is taken from the ring, stored in it, and brought by the wire.   *)
LEMMA TakeRx ==
  ASSUME RingTypeOK, RxExact, rx_start \in Index, rx_start # rx_end,
         rx_start' = rx_start + 1, lastRead' = rx_buf[rx_start],
         rx_buf' = [rx_buf EXCEPT ![rx_start] = NONE], UNCHANGED <<rx_end, rxdata, received>>
  PROVE  RxExact' /\ lastRead' \in Byte /\ rx_buf' \in [Index -> 0 .. NONE] /\ rx_start' \in 0 .. BufLen
  <1>1. /\ rx_end \in Index /\ lastRead \in Byte /\ rx_buf \in [Index -> 0 .. NONE]
        /\ NONE \in 0 .. NONE
    BY UartAssumption DEF RingTypeOK, Index, Byte, NONE
  <1>2. /\ Masked(rx_start) = rx_start /\ Masked(rx_start) \in Index
        /\ Masked(rx_start') = Masked(rx_start + 1) /\ rx_start' \in 0 .. BufLen
        /\ Masked(rx_start) = rx_start
    BY Masking
  <1>3. rx_buf[rx_start] \in Byte
    BY <1>1, <1>2, SlotTaken DEF RxExact
  <1>4. \A i \in Slots(Masked(rx_start'), rx_end) : rx_buf'[i] \in Byte
    <2>1. Slots(Masked(rx_start'), rx_end) \subseteq Slots(Masked(rx_start), rx_end) \ {rx_start}
      BY <1>1, <1>2, SlotTaken
    <2>2. Slots(Masked(rx_start), rx_end) \subseteq Index
      BY DEF Slots
    <2>. QED
      BY <1>1, <2>1, <2>2 DEF RxExact
  <1>5. ASSUME Paced
        PROVE  /\ rxdata # NONE => Masked(rx_end + 1) # Masked(rx_start')
               /\ (lastRead' + Used(Masked(rx_start'), rx_end)) % Wrap
                    = IF rxdata = NONE THEN received ELSE (received + Wrap - 1) % Wrap
               /\ Follows(rx_buf', Masked(rx_start'), rx_end, lastRead')
    <2>1. Follows(rx_buf, rx_start, rx_end, lastRead)
      BY <1>2, <1>5 DEF RxExact
    <2>2. /\ (lastRead' + Used(Masked(rx_start + 1), rx_end)) % Wrap
               = (lastRead + Used(rx_start, rx_end)) % Wrap
          /\ Follows(rx_buf', Masked(rx_start + 1), rx_end, lastRead')
      BY <1>1, <2>1, RingTake
    <2>3. Masked(rx_end + 1) # Masked(rx_start + 1)
      BY <1>1, Masking
    <2>. QED
      BY <1>2, <1>5, <2>2, <2>3 DEF RxExact
  <1>6. RxExact'
    BY <1>4, <1>5 DEF RxExact, Follows, Slots, Used, Masked
  <1>. QED
    BY <1>1, <1>2, <1>3, <1>6

LEMMA StoreRx ==
  ASSUME RingTypeOK, RxExact, rxdata # NONE,
         rx_buf' = [rx_buf EXCEPT ![rx_end] = rxdata], rx_end' = Masked(rx_end + 1), rxdata' = NONE,
         UNCHANGED <<rx_start, lastRead, received>>
  PROVE  RxExact' /\ rx_end' \in Index /\ rx_buf' \in [Index -> 0 .. NONE]
  <1>1. /\ rx_end \in Index /\ lastRead \in Byte /\ rx_buf \in [Index -> 0 .. NONE]
        /\ received \in Byte /\ rxdata = received /\ rx_start \in 0 .. BufLen
    BY DEF RingTypeOK, RxExact, Index, Byte
  <1>2. Masked(rx_start) \in Index /\ Masked(rx_end + 1) \in Index
    BY <1>1, Masking
  <1>3. rxdata \in 0 .. NONE
    BY DEF RingTypeOK
  <1>4. \A i \in Slots(Masked(rx_start), rx_end') : rx_buf'[i] \in Byte
    <2>1. Slots(Masked(rx_start), rx_end') \subseteq Slots(Masked(rx_start), rx_end) \cup {rx_end}
      BY <1>1, <1>2, SlotPut
    <2>2. Slots(Masked(rx_start), rx_end) \subseteq Index
      BY DEF Slots
    <2>. QED
      BY <1>1, <2>1, <2>2 DEF RxExact
  <1>5. ASSUME Paced
        PROVE  /\ (lastRead + Used(Masked(rx_start), rx_end')) % Wrap = received
               /\ Follows(rx_buf', Masked(rx_start), rx_end', lastRead)
    <2> DEFINE n == Used(Masked(rx_start), rx_end)
    <2>1. /\ Masked(rx_end + 1) # Masked(rx_start)
          /\ Follows(rx_buf, Masked(rx_start), rx_end, lastRead)
          /\ (lastRead + n) % Wrap = (received + Wrap - 1) % Wrap
      BY <1>5 DEF RxExact
    <2>2. n \in 0 .. BufLen - 1
      BY <1>1, <1>2, UsedIs
    <2> HIDE DEF n
    <2>3. (lastRead + n + 1) % Wrap = received
      <3>1. BufLen \in Nat /\ Wrap \in Nat /\ Wrap > BufLen + 1 /\ n \in 0 .. BufLen /\ n + 1 \in 0 .. BufLen
        BY <2>2, UartAssumption
      <3>2. (lastRead + n) % Wrap = IF lastRead + n < Wrap THEN lastRead + n ELSE lastRead + n - Wrap
        BY <1>1, <3>1, BytesFollow
      <3>3. (lastRead + (n + 1)) % Wrap
              = IF lastRead + (n + 1) < Wrap THEN lastRead + (n + 1) ELSE lastRead + (n + 1) - Wrap
        BY <1>1, <3>1, BytesFollow
      <3>4. (received + Wrap - 1) % Wrap = IF received = 0 THEN Wrap - 1 ELSE received - 1
        BY <1>1, BytesFollow
      <3>5. (lastRead + (n + 1)) % Wrap = received
        BY <1>1, <2>1, <3>1, <3>2, <3>3, <3>4 DEF Byte
      <3>6. lastRead + n + 1 = lastRead + (n + 1)
        BY <1>1, <3>1 DEF Byte
      <3>. QED
        BY <3>5, <3>6
    <2>4. rxdata = (lastRead + Used(Masked(rx_start), rx_end) + 1) % Wrap
      BY <1>1, <2>3 DEF n
    <2>5. /\ (lastRead + Used(Masked(rx_start), Masked(rx_end + 1))) % Wrap = rxdata
          /\ Follows([rx_buf EXCEPT ![rx_end] = rxdata], Masked(rx_start), Masked(rx_end + 1), lastRead)
      <3> DEFINE s == Masked(rx_start)
      <3>1. /\ s \in Index /\ Masked(rx_end + 1) # s /\ Follows(rx_buf, s, rx_end, lastRead)
            /\ rxdata = (lastRead + Used(s, rx_end) + 1) % Wrap
        BY <1>2, <2>1, <2>4
      <3> HIDE DEF s
      <3>2. /\ (lastRead + Used(s, Masked(rx_end + 1))) % Wrap = rxdata
            /\ Follows([rx_buf EXCEPT ![rx_end] = rxdata], s, Masked(rx_end + 1), lastRead)
        BY <1>1, <3>1, RingPut
      <3>. QED
        BY <3>2 DEF s
    <2>. QED
      BY <1>1, <2>5
  <1>6. RxExact'
    BY <1>4, <1>5 DEF RxExact, Follows, Slots, Used, Masked
  <1>. QED
    BY <1>1, <1>2, <1>3, <1>6

LEMMA ArriveRx ==
  ASSUME RingTypeOK, RxExact, Arrive
  PROVE  RxExact' /\ received' \in Byte /\ rxdata' \in 0 .. NONE /\ rxerror' \in BOOLEAN
  <1>1. received \in Byte /\ rxdata = NONE
    BY DEF RingTypeOK, Byte, Arrive
  <1>2. received' \in Byte /\ rxdata' = received' /\ rxdata' # NONE /\ rxerror' \in BOOLEAN
    BY <1>1, BytesFollow DEF Arrive
  <1>3. (received' + Wrap - 1) % Wrap = received
    <2>1. Wrap \in Nat /\ BufLen \in Nat /\ Wrap > BufLen + 1 /\ 1 \in 0 .. BufLen
      BY UartAssumption
    <2>2. received' = IF received + 1 < Wrap THEN received + 1 ELSE received + 1 - Wrap
      BY <1>1, <2>1, BytesFollow DEF Arrive
    <2>3. (received' + Wrap - 1) % Wrap = IF received' = 0 THEN Wrap - 1 ELSE received' - 1
      BY <1>2, BytesFollow
    <2>. QED
      BY <1>1, <2>1, <2>2, <2>3 DEF Byte
  <1>4. Paced => Masked(rx_end + 1) # Masked(rx_start)
    BY DEF Arrive
  <1>5. UNCHANGED rxVars
    BY DEF Arrive
  <1>6. RxExact'
    BY <1>1, <1>2, <1>3, <1>4, <1>5 DEF RxExact, rxVars, Follows, Slots, Used, Masked
  <1>. QED
    BY <1>2, <1>6, UartAssumption DEF Byte, NONE

LEMMA PutTx ==
  ASSUME RingTypeOK, TxExact, ~Full, written' = Follower(written),
         tx_buf' = [tx_buf EXCEPT ![tx_end] = written'], tx_end' = Masked(tx_end + 1),
         UNCHANGED <<tx_start, lastSent>>
  PROVE  TxExact' /\ written' \in Byte /\ tx_end' \in Index /\ tx_buf' \in [Index -> 0 .. NONE]
  <1>1. /\ tx_start \in Index /\ tx_end \in Index /\ lastSent \in Byte /\ written \in Byte
        /\ tx_buf \in [Index -> 0 .. NONE] /\ Masked(tx_end + 1) # tx_start
    BY DEF RingTypeOK, Index, Byte, Full
  <1>2. written' \in Byte /\ written' = (written + 1) % Wrap /\ Masked(tx_end + 1) \in Index
    BY <1>1, BytesFollow, Masking
  <1> DEFINE n == Used(tx_start, tx_end)
  <1>3. n \in 0 .. BufLen - 1 /\ (lastSent + n) % Wrap = written
    BY <1>1, UsedIs DEF TxExact
  <1>4. written' = (lastSent + Used(tx_start, tx_end) + 1) % Wrap
    <2> HIDE DEF n
    <2>1. BufLen \in Nat /\ Wrap \in Nat /\ Wrap > BufLen + 1 /\ n \in 0 .. BufLen /\ n + 1 \in 0 .. BufLen
          /\ 1 \in 0 .. BufLen
      BY <1>3, UartAssumption
    <2>2. written = IF lastSent + n < Wrap THEN lastSent + n ELSE lastSent + n - Wrap
      BY <1>1, <1>3, <2>1, BytesFollow
    <2>3. (lastSent + (n + 1)) % Wrap
            = IF lastSent + (n + 1) < Wrap THEN lastSent + (n + 1) ELSE lastSent + (n + 1) - Wrap
      BY <1>1, <2>1, BytesFollow
    <2>4. written' = IF written + 1 < Wrap THEN written + 1 ELSE written + 1 - Wrap
      BY <1>1, <1>2, <2>1, BytesFollow
    <2>5. written' = (lastSent + (n + 1)) % Wrap
      BY <1>1, <2>1, <2>2, <2>3, <2>4 DEF Byte
    <2>6. lastSent + n + 1 = lastSent + (n + 1)
      BY <1>1, <2>1 DEF Byte
    <2>. QED
      BY <2>5, <2>6 DEF n
  <1> HIDE DEF n
  <1>5. Follows(tx_buf, tx_start, tx_end, lastSent)
    BY DEF TxExact
  <1> DEFINE byte == written'
  <1>6. byte = (lastSent + Used(tx_start, tx_end) + 1) % Wrap /\ tx_buf' = [tx_buf EXCEPT ![tx_end] = byte]
    BY <1>4
  <1> HIDE DEF byte
  <1>7. /\ (lastSent + Used(tx_start, Masked(tx_end + 1))) % Wrap = byte
        /\ Follows([tx_buf EXCEPT ![tx_end] = byte], tx_start, Masked(tx_end + 1), lastSent)
    BY <1>1, <1>5, <1>6, RingPut
  <1>8. TxExact'
    BY <1>6, <1>7 DEF TxExact, Follows, Used, Masked, byte
  <1>9. tx_buf' \in [Index -> 0 .. NONE]
    BY <1>1, <1>2, UartAssumption DEF Byte, NONE
  <1>. QED
    BY <1>2, <1>8, <1>9

LEMMA SendTx ==
  ASSUME RingTypeOK, TxExact, tx_start # tx_end, lastSent' = tx_buf[tx_start],
         tx_buf' = [tx_buf EXCEPT ![tx_start] = NONE], tx_start' = Masked(tx_start + 1),
         UNCHANGED <<tx_end, written>>
  PROVE  TxExact' /\ lastSent' \in Byte /\ tx_start' \in Index /\ tx_buf' \in [Index -> 0 .. NONE]
  <1>1. /\ tx_start \in Index /\ tx_end \in Index /\ lastSent \in Byte
        /\ tx_buf \in [Index -> 0 .. NONE] /\ NONE \in 0 .. NONE
    BY UartAssumption DEF RingTypeOK, Index, Byte, NONE
  <1>2. Masked(tx_start + 1) \in Index /\ 1 \in 0 .. BufLen
    BY <1>1, Masking, UartAssumption
  <1>3. /\ tx_buf[tx_start] = (lastSent + 1) % Wrap
        /\ (tx_buf[tx_start] + Used(Masked(tx_start + 1), tx_end)) % Wrap
             = (lastSent + Used(tx_start, tx_end)) % Wrap
        /\ Follows([tx_buf EXCEPT ![tx_start] = NONE], Masked(tx_start + 1), tx_end, tx_buf[tx_start])
    BY <1>1, RingTake DEF TxExact
  <1>4. lastSent' \in Byte
    BY <1>1, <1>2, <1>3, BytesFollow
  <1>5. TxExact'
    BY <1>3 DEF TxExact, Follows, Used, Masked
  <1>. QED
    BY <1>1, <1>2, <1>4, <1>5

-----------------------------------------------------------------------------
(* The rings stay exact.                                                   *)

LEMMA HandlerDoes ==
  ASSUME altera_avalon_uart_irq
  PROVE  /\ UNCHANGED <<cnt, role, at, left, got, rx_start, lastRead, tx_end, written, received>>
         /\ rxerror' = FALSE
         /\ \/ /\ Stores /\ rx_buf' = [rx_buf EXCEPT ![rx_end] = rxdata]
               /\ rx_end' = Masked(rx_end + 1) /\ rxdata' = NONE
            \/ ~Stores /\ UNCHANGED <<rx_buf, rx_end, rxdata>>
         /\ \/ /\ Sends /\ lastSent' = tx_buf[tx_start] /\ tx_buf' = [tx_buf EXCEPT ![tx_start] = NONE]
               /\ tx_start' = Masked(tx_start + 1) /\ trdy' = FALSE
            \/ ~Sends /\ UNCHANGED <<lastSent, tx_buf, tx_start, trdy>>
  BY DEF altera_avalon_uart_irq, altera_avalon_uart_rxirq, altera_avalon_uart_txirq, callVars

LEMMA HandlerKeepsRings ==
  ASSUME Turns, Rings, altera_avalon_uart_irq
  PROVE  Rings'
  <1>1. RingTypeOK /\ PlacesExact /\ RxExact /\ TxExact
    BY DEF Rings
  <1>2. /\ RxExact' /\ rx_end' \in Index /\ rx_buf' \in [Index -> 0 .. NONE] /\ rxdata' \in 0 .. NONE
    <2>1. CASE Stores
      <3>1. RxExact' /\ rx_end' \in Index /\ rx_buf' \in [Index -> 0 .. NONE] /\ rxdata' = NONE
        BY <1>1, <2>1, HandlerDoes, StoreRx DEF Stores
      <3>. QED
        BY <3>1, UartAssumption DEF NONE
    <2>2. CASE ~Stores
      BY <1>1, <2>2, HandlerDoes, RxFrame DEF rxVars, RingTypeOK, Index
    <2>. QED
      BY <2>1, <2>2
  <1>3. TxExact' /\ tx_start' \in Index /\ tx_buf' \in [Index -> 0 .. NONE] /\ lastSent' \in Byte
        /\ trdy' \in BOOLEAN
    <2>1. CASE Sends
      BY <1>1, <2>1, HandlerDoes, SendTx DEF Sends
    <2>2. CASE ~Sends
      BY <1>1, <2>2, HandlerDoes, TxFrame DEF txVars, RingTypeOK, Index, Byte
    <2>. QED
      BY <2>1, <2>2
  <1>4. ctrl' \subseteq {"RRDY", "TRDY"}
    BY <1>1 DEF altera_avalon_uart_irq, Control, RingTypeOK
  <1>5. RingTypeOK'
    BY <1>1, <1>2, <1>3, <1>4, HandlerDoes DEF RingTypeOK, Index, Byte, NONE
  <1>6. PlacesExact'
    <2>1. rx_start' = BufLen => \E t \in TCB : at'[t] = "rmask"
      BY <1>1, HandlerDoes DEF PlacesExact
    <2>2. ASSUME ~Full PROVE ~(Masked(tx_end' + 1) = tx_start')
      <3>1. CASE Sends
        <4>1. Masked(tx_end + 1) = Masked(tx_start + 1) => tx_end = tx_start
          BY <1>1, Masking DEF RingTypeOK, Index
        <4>. QED
          BY <3>1, <4>1, HandlerDoes DEF Sends
      <3>2. CASE ~Sends
        BY <2>2, <3>2, HandlerDoes DEF Full
      <3>. QED
        BY <3>1, <3>2
    <2>. QED
      BY <1>1, <2>1, <2>2, HandlerDoes DEF PlacesExact, Full, Masked
  <1>. QED
    BY <1>2, <1>3, <1>5, <1>6 DEF Rings

LEMMA TaskKeepsRings ==
  ASSUME Turns, Rings, NEW t \in TCB, TakeByte(t) \/ MaskStart(t) \/ PutByte(t), Idles
  PROVE  Rings'
  <1>1. RingTypeOK /\ PlacesExact /\ RxExact /\ TxExact /\ DriverTypeOK
    BY DEF Rings, Turns
  <1>2. CASE TakeByte(t)
    <2>1. rx_start \in Index /\ rx_start # rx_end
      BY <1>2, StartIsIndex DEF TakeByte
    <2>2. /\ rx_start' = rx_start + 1
          /\ lastRead' = rx_buf[rx_start] /\ rx_buf' = [rx_buf EXCEPT ![rx_start] = NONE]
          /\ UNCHANGED <<rx_end, txVars, ctrl, wireVars>>
          /\ at' = [at EXCEPT ![t] = "rmask"] /\ at[t] = "rloop"
      BY <1>2 DEF TakeByte, Step, Idles
    <2>3. RxExact' /\ lastRead' \in Byte /\ rx_buf' \in [Index -> 0 .. NONE] /\ rx_start' \in 0 .. BufLen
      BY <1>1, <2>1, <2>2, TakeRx DEF wireVars
    <2>4. TxExact'
      BY <1>1, <2>2, TxFrame DEF wireVars
    <2>5. RingTypeOK'
      BY <1>1, <2>2, <2>3 DEF RingTypeOK, Index, Byte, txVars, wireVars, NONE
    <2>6. PlacesExact'
      BY <1>1, <2>2 DEF PlacesExact, DriverTypeOK, txVars, Full, Masked
    <2>. QED
      BY <2>3, <2>4, <2>5, <2>6 DEF Rings
  <1>3. CASE MaskStart(t)
    <2>1. /\ rx_start' = Masked(rx_start) /\ UNCHANGED <<rx_end, rx_buf, lastRead, txVars, ctrl, wireVars>>
          /\ at' = [at EXCEPT ![t] = "rloop"]
      BY <1>3 DEF MaskStart, Step, Idles
    <2>2. Masked(rx_start) \in Index /\ Masked(Masked(rx_start)) = Masked(rx_start)
      BY <1>1, Masking DEF RingTypeOK
    <2>3. RxExact'
      <3>1. Masked(rx_start') = Masked(rx_start)
        BY <2>1, <2>2
      <3>. QED
        BY <1>1, <2>1, <3>1 DEF RxExact, wireVars, Follows, Slots, Used, Masked
    <2>4. TxExact'
      BY <1>1, <2>1, TxFrame DEF wireVars
    <2>5. RingTypeOK' /\ rx_start' # BufLen
      <3>1. rx_start' \in 0 .. BufLen /\ rx_start' # BufLen
        BY <2>1, <2>2, UartAssumption DEF Index
      <3>. QED
        BY <1>1, <2>1, <3>1 DEF RingTypeOK, txVars, wireVars, NONE
    <2>6. PlacesExact'
      BY <1>1, <2>1, <2>5 DEF PlacesExact, DriverTypeOK, txVars, Full, Masked
    <2>. QED
      BY <2>3, <2>4, <2>5, <2>6 DEF Rings
  <1>4. CASE PutByte(t)
    <2>1. /\ written' = Follower(written) /\ tx_buf' = [tx_buf EXCEPT ![tx_end] = written']
          /\ tx_end' = Masked(tx_end + 1) /\ UNCHANGED <<rxVars, tx_start, ctrl, wireVars>>
          /\ at' = [at EXCEPT ![t] = "wloop"] /\ at[t] = "wput"
      BY <1>4 DEF PutByte, Step, Idles
    <2>2. ~Full
      BY <1>1, <2>1 DEF PlacesExact
    <2>3. TxExact' /\ written' \in Byte /\ tx_end' \in Index /\ tx_buf' \in [Index -> 0 .. NONE]
      BY <1>1, <2>1, <2>2, PutTx DEF wireVars
    <2>4. RxExact'
      BY <1>1, <2>1, RxFrame DEF wireVars
    <2>5. RingTypeOK'
      BY <1>1, <2>1, <2>3 DEF RingTypeOK, Index, Byte, rxVars, wireVars, NONE
    <2>6. \A u \in TCB : at'[u] # "wput"
      <3>1. Running(t) /\ Inside(t) /\ Writer(t)
        BY <1>4, Working
      <3>2. \A u \in TCB \ {t} : at[u] # "wput"
        BY <3>1, OthersAreAway DEF WriteSteps
      <3>. QED
        BY <1>1, <2>1, <3>2 DEF DriverTypeOK
    <2>7. rx_start' = BufLen => \E u \in TCB : at'[u] = "rmask"
      BY <1>1, <2>1 DEF PlacesExact, DriverTypeOK, rxVars
    <2>. QED
      BY <2>3, <2>4, <2>5, <2>6, <2>7 DEF Rings, PlacesExact
  <1>. QED
    BY <1>2, <1>3, <1>4

LEMMA RingsStep ==
  ASSUME Turns, Rings, HalNext
  PROVE  Rings'
  <1>1. RingTypeOK /\ PlacesExact /\ RxExact /\ TxExact
    BY DEF Rings
  <1>2. CASE Rests
    <2>1. RxExact' /\ TxExact'
      BY <1>1, <1>2, RxFrame, TxFrame DEF Rests, wireVars
    <2>2. ctrl' \subseteq {"RRDY", "TRDY"}
      BY <1>1, <1>2 DEF Rests, RingTypeOK
    <2>3. RingTypeOK'
      BY <1>1, <1>2, <2>2 DEF Rests, RingTypeOK, rxVars, txVars, wireVars, NONE
    <2>4. PlacesExact'
      BY <1>1, <1>2 DEF Rests, PlacesExact, rxVars, txVars, Full, Masked
    <2>. QED
      BY <2>1, <2>3, <2>4 DEF Rings
  <1>3. CASE Arrive
    <2>1. RxExact' /\ received' \in Byte /\ rxdata' \in 0 .. NONE /\ rxerror' \in BOOLEAN
      BY <1>1, <1>3, ArriveRx
    <2>2. UNCHANGED <<rxVars, txVars, ctrl, trdy, lastSent, at>>
      BY <1>3 DEF Arrive, callVars
    <2>3. TxExact'
      BY <1>1, <2>2, TxFrame
    <2>4. RingTypeOK' /\ PlacesExact'
      BY <1>1, <2>1, <2>2 DEF RingTypeOK, PlacesExact, rxVars, txVars, NONE, Byte, Full, Masked
    <2>. QED
      BY <2>1, <2>3, <2>4 DEF Rings
  <1>4. CASE Shifted
    <2>1. UNCHANGED <<rxVars, txVars, ctrl, at, rxdata, rxerror, received, lastSent>> /\ trdy' = TRUE
      BY <1>4 DEF Shifted, callVars
    <2>2. RxExact' /\ TxExact'
      BY <1>1, <2>1, RxFrame, TxFrame
    <2>3. RingTypeOK' /\ PlacesExact'
      BY <1>1, <2>1 DEF RingTypeOK, PlacesExact, rxVars, txVars, NONE, Full, Masked
    <2>. QED
      BY <2>2, <2>3 DEF Rings
  <1>. QED
    BY RingKinds, <1>2, <1>3, <1>4, HandlerKeepsRings, TaskKeepsRings

-----------------------------------------------------------------------------
(* Why those who sleep will be woken.                                      *)

ReadKept ==
  /\ UNCHANGED <<rx_start, rx_end>>
  /\ "RRDY" \in ctrl => "RRDY" \in ctrl'
  /\ Ready("READ_RDY") => "READ_RDY" \in OSFlagFlags'[events]

WriteKept ==
  /\ UNCHANGED <<tx_start, tx_end>>
  /\ "TRDY" \in ctrl => "TRDY" \in ctrl'
  /\ Ready("WRITE_RDY") => "WRITE_RDY" \in OSFlagFlags'[events]

Busy(t) == Inside(t) /\ pc[t] # "pend"

(* A task that knows nothing about a ring it could sleep for is at no such *)
(* place.                                                                  *)
OnlyBusy ==
  \A t \in TCB : AtExact /\ WaitExact /\ (Busy(t) => role[t].does \notin {"read", "write"}) => Due(t)

LEMMA OnlyBusyAreDue == OnlyBusy
  <1>1. SUFFICES ASSUME AtExact, WaitExact, NEW t \in TCB,
                        Busy(t) => role[t].does \notin {"read", "write"}
                 PROVE  Due(t)
    BY DEF OnlyBusy
  <1>2. WaitsWell(t)
    BY <1>1 DEF WaitExact
  <1>3. at[t] \in {"renable", "rpend", "wenable", "wpend", "wagain"}
          => Busy(t) /\ role[t].does \in {"read", "write"}
    BY <1>1, <1>2 DEF AtExact, WaitsWell, Busy, Inside, Locked, ReadSteps, WriteSteps
  <1>4. WaitsForFlags(t) /\ role[t].does \in {"read", "write"} => Busy(t)
    BY <1>2 DEF WaitsForFlags, WaitsWell, IsAny, Busy, Inside, Locked, ReadSteps, WriteSteps
  <1>. QED
    BY <1>1, <1>3, <1>4 DEF Due

LEMMA OnlyBusyWillBeDue == OnlyBusy'
  BY OnlyBusyAreDue, PTL

LEMMA StaysDue ==
  ASSUME Turns, NEW u \in TCB, Due(u), UNCHANGED role, at'[u] = at[u],
         Undisturbed(u) \/ pc'[u] # "flag",
         role[u].does = "read" => ReadKept, role[u].does = "write" => WriteKept
  PROVE  Due(u)'
  <1>1. AtExact
    BY DEF Turns
  <1>2. WaitsForFlags(u)' => WaitsForFlags(u)
    BY DEF WaitsForFlags, Undisturbed
  <1>3. CASE role[u].does = "read"
    <2>1. at[u] \notin {"wenable", "wpend", "wagain"}
      BY <1>1, <1>3 DEF AtExact
    <2>. QED
      BY <1>2, <1>3, <2>1 DEF Due, ReadKept, Ready
  <1>4. CASE role[u].does = "write"
    <2>1. at[u] \notin {"renable", "rpend"}
      BY <1>1, <1>4 DEF AtExact
    <2>. QED
      BY <1>2, <1>4, <2>1 DEF Due, WriteKept, Ready, Full, Masked
  <1>5. CASE role[u].does \notin {"read", "write"}
    <2>1. at[u] \notin {"renable", "rpend", "wenable", "wpend", "wagain"}
      BY <1>1, <1>5 DEF AtExact
    <2>. QED
      BY <1>2, <1>5, <2>1 DEF Due
  <1>. QED
    BY <1>3, <1>4, <1>5

(* What a task does on the ring that it has the semaphore of concerns no   *)
(* other user of that ring.                                                *)
LEMMA OthersStayDue ==
  ASSUME Turns, Turns', DueExact, NEW t \in TCB, Running(t), Inside(t), UNCHANGED role,
         \A u \in TCB \ {t} : Undisturbed(u) /\ at'[u] = at[u] /\ depth'[u] = depth[u],
         \/ role[t].does \in {"read", "poll"} /\ WriteKept
         \/ role[t].does \in {"write", "try"} /\ ReadKept
  PROVE  \A u \in TCB \ {t} : Due(u)'
  <1>1. SUFFICES ASSUME NEW u \in TCB \ {t} PROVE Due(u)'
    OBVIOUS
  <1>2. Due(u)
    BY DEF DueExact
  <1>3. CASE MySem(u) = MySem(t)
    <2>1. ~Busy(u)
      BY <1>3, OthersAreAway DEF Busy
    <2>2. ~Busy(u)'
      BY <2>1 DEF Busy, Inside, Undisturbed
    <2>3. AtExact' /\ WaitExact'
      BY DEF Turns
    <2>. QED
      BY <2>2, <2>3, OnlyBusyWillBeDue DEF OnlyBusy
  <1>4. CASE MySem(u) # MySem(t)
    <2>1. /\ role[u].does = "read" => role[t].does \notin {"read", "poll"}
          /\ role[u].does = "write" => role[t].does \notin {"write", "try"}
      BY <1>4 DEF MySem, Reader, Writer
    <2>. QED
      BY <1>2, <2>1, StaysDue
  <1>. QED
    BY <1>3, <1>4

LEMMA NobodyIsDue ==
  ASSUME Turns, Turns', UNCHANGED role, NEW v \in TCB, IsAny(v)
  PROVE  DueExact'
  <1>1. \A u \in TCB : role[u].does \notin {"read", "write"}
    BY RoleFacts DEF Turns
  <1>2. AtExact' /\ WaitExact'
    BY DEF Turns
  <1>. QED
    BY <1>1, <1>2, OnlyBusyWillBeDue DEF OnlyBusy, DueExact

LEMMA AwayFromSleep ==
  ASSUME NEW t \in TCB, at'[t] \notin {"renable", "rpend", "wenable", "wpend", "wagain"},
         pc'[t] # "flag"
  PROVE  Due(t)'
  BY DEF Due, WaitsForFlags

LEMMA AllKept ==
  ASSUME UNCHANGED <<rxVars, txVars, flagVars>>, ctrl' = ctrl \/ \E irq : ctrl' = ctrl \cup {irq}
  PROVE  ReadKept /\ WriteKept
  BY DEF rxVars, txVars, flagVars, ReadKept, WriteKept, Ready

LEMMA SemStepsKeepDue ==
  ASSUME Turns, DueExact, NEW t \in TCB, Takes(t) \/ Gives(t)
  PROVE  DueExact'
  <1>1. KernelSound /\ AtExact /\ DriverTypeOK /\ WaitExact /\ \A u \in TCB : Due(u)
    BY DEF Turns, DueExact
  <1>2. /\ InTask(t) /\ UNCHANGED <<role, flagVars, rxVars, txVars, ctrl>>
        /\ \A u \in TCB \ {t} : at'[u] = at[u]
        /\ at'[t] \in {"rloop", "wloop", "lclaim", "rlast", "wlast", "out"}
    BY <1>1, TakesPends, GivesPosts DEF DriverTypeOK
  <1>3. ReadKept /\ WriteKept
    BY <1>2, AllKept
  <1>4. pc'[t] # "flag" /\ \A u \in TCB \ {t} : Undisturbed(u) \/ pc'[u] # "flag"
    <2>1. CASE Takes(t)
      BY <1>1, <2>1, TakesPends, SemIsEvent, SemPendDoes
    <2>2. CASE Gives(t)
      <3>1. \/ \A u \in TCB : Undisturbed(u)
            \/ \E v \in SemWaiters(MySem(t)) :
                 (\A u \in TCB \ {v} : Undisturbed(u)) /\ pc'[v] = pc[v] /\ "SEM" \notin Stat'[v]
        BY <1>1, <2>2, GivesPosts, SemIsEvent, SemPostDoes
      <3>2. \A v \in SemWaiters(MySem(t)) : pc[v] = "pend"
        BY <1>1 DEF SemWaiters, KernelSound, TablesSound, StatusExact
      <3>3. pc[t] = "task"
        BY <1>2 DEF InTask
      <3>. QED
        BY <3>1, <3>2, <3>3 DEF Undisturbed
    <2>. QED
      BY <2>1, <2>2
  <1>5. Due(t)'
    BY <1>2, <1>4, AwayFromSleep
  <1>6. \A u \in TCB \ {t} : Due(u)'
    BY <1>1, <1>2, <1>3, <1>4, StaysDue
  <1>. QED
    BY <1>5, <1>6 DEF DueExact

LEMMA NapsKeepDue ==
  ASSUME Turns, Turns', DueExact, NEW t \in TCB, Naps(t)
  PROVE  DueExact'
  <1>1. KernelSound /\ AtExact /\ DriverTypeOK /\ Due(t)
    BY DEF Turns, DueExact
  <1>2. /\ UNCHANGED <<role, depth, rx_start, rx_end, tx_start, tx_end, ctrl>> /\ Running(t)
        /\ \A u \in TCB \ {t} : at'[u] = at[u] /\ Undisturbed(u)
    BY <1>1, NapsPends, NapsDoes DEF DriverTypeOK, lockVars, rxVars, txVars, InTask
  <1>3. \A flag, other \in Flag :
          TakeFlags(events, WaitFor({flag})) /\ other # flag /\ Ready(other)
            => other \in OSFlagFlags'[events]
    BY <1>1, DriverAssumption
    DEF TakeFlags, WaitFor, Consume, Found, Ready, KernelSound, TablesSound, TablesTypeOK, FlagsTypeOK
  <1>4. CASE role[t].does = "read"
    <2>1. /\ at[t] = "rpend" /\ at'[t] = "rloop"
          /\ \/ pc'[t] = "task" /\ TakeFlags(events, WaitFor({"READ_RDY"}))
             \/ pc'[t] = "flag" /\ ~Ready("READ_RDY") /\ OSFlagFlags' = OSFlagFlags
      BY <1>1, <1>4, NapsDoes DEF DriverTypeOK
    <2>2. Due(t)'
      BY <1>1, <1>2, <1>4, <2>1 DEF Due, WaitsForFlags
    <2>3. WriteKept
      BY <1>2, <1>3, <2>1, UartAssumption DEF WriteKept, Ready
    <2>. QED
      BY <1>2, <1>4, <2>1, <2>2, <2>3, OthersStayDue DEF DueExact, Inside, Locked, ReadSteps
  <1>5. CASE role[t].does = "write"
    <2>1. /\ at[t] = "wpend" /\ at'[t] = "wagain"
          /\ \/ pc'[t] = "task" /\ TakeFlags(events, WaitFor({"WRITE_RDY"}))
             \/ pc'[t] = "flag" /\ ~Ready("WRITE_RDY") /\ OSFlagFlags' = OSFlagFlags
      BY <1>1, <1>5, NapsDoes DEF DriverTypeOK
    <2>2. Due(t)'
      BY <1>1, <1>2, <1>5, <2>1 DEF Due, WaitsForFlags, Full, Masked
    <2>3. ReadKept
      BY <1>2, <1>3, <2>1, UartAssumption DEF ReadKept, Ready
    <2>. QED
      BY <1>2, <1>5, <2>1, <2>2, <2>3, OthersStayDue DEF DueExact, Inside, Locked, WriteSteps
  <1>. QED
    BY <1>1, <1>4, <1>5, NapsPends

LEMMA ReadsKeepDue ==
  ASSUME Turns, Turns', DueExact, NEW t \in TCB, ReadsOn(t), Idles
  PROVE  DueExact'
  <1>1. KernelSound /\ AtExact /\ DriverTypeOK /\ Due(t)
    BY DEF Turns, DueExact
  <1>2. /\ UNCHANGED <<coreVars, flagVars, role, depth, txVars>> /\ InTask(t)
        /\ \A u \in TCB \ {t} : at'[u] = at[u]
        /\ pc'[t] = "task"
    BY <1>1, Alone DEF Idles, lockVars, ReadsOn, TakeByte, MaskStart, EndLoop, Enable, DriverTypeOK, InTask,
       coreVars
  <1>3. \A u \in TCB : Undisturbed(u)
    BY <1>2, FrameDisturbsNobody DEF flagVars
  <1>4. at[t] \in ReadSteps /\ role[t].does \in {"read", "poll"}
    BY <1>1 DEF ReadsOn, TakeByte, MaskStart, EndLoop, Step, ReadSteps, AtExact, Reader, WriteSteps,
       LockSteps
  <1>5. ctrl' = ctrl \/ ctrl' = ctrl \cup {"RRDY"}
    BY DEF ReadsOn, TakeByte, MaskStart, EndLoop, Enable
  <1>6. WriteKept
    BY <1>2, <1>5 DEF WriteKept, txVars, flagVars, Ready
  <1>7. Due(t)'
    <2>1. CASE at'[t] \notin {"renable", "rpend", "wenable", "wpend", "wagain"}
      BY <1>2, <2>1, AwayFromSleep
    <2>2. CASE at' = [at EXCEPT ![t] = "renable"] /\ rx_start = rx_end /\ UNCHANGED rxVars
      BY <1>1, <1>2, <2>2 DEF Due, DriverTypeOK, WaitsForFlags, rxVars
    <2>3. CASE /\ at[t] = "renable" /\ at' = [at EXCEPT ![t] = "rpend"]
               /\ ctrl' = ctrl \cup {"RRDY"} /\ UNCHANGED rxVars
      BY <1>1, <1>2, <2>3 DEF Due, DriverTypeOK, WaitsForFlags, rxVars, flagVars, Ready
    <2>4. \/ at'[t] \in {"rmask", "rloop", "rpost", "out"}
          \/ at' = [at EXCEPT ![t] = "renable"] /\ rx_start = rx_end /\ UNCHANGED rxVars
          \/ /\ at[t] = "renable" /\ at' = [at EXCEPT ![t] = "rpend"]
             /\ ctrl' = ctrl \cup {"RRDY"} /\ UNCHANGED rxVars
      BY <1>1 DEF ReadsOn, TakeByte, MaskStart, EndLoop, Step, Enable, DriverTypeOK
    <2>. QED
      BY <2>1, <2>2, <2>3, <2>4
  <1>8. CASE at[t] = "rlast"
    <2>1. UNCHANGED rxVars
      BY <1>8 DEF ReadsOn, TakeByte, MaskStart, EndLoop, Step, Enable
    <2>2. ReadKept
      BY <1>2, <1>5, <2>1, AllKept
    <2>3. \A u \in TCB \ {t} : Due(u)'
      BY <1>2, <1>3, <1>6, <2>2, StaysDue DEF DueExact
    <2>. QED
      BY <1>7, <2>3 DEF DueExact
  <1>9. CASE at[t] # "rlast"
    BY <1>2, <1>3, <1>4, <1>6, <1>7, <1>9, OthersStayDue DEF DueExact, Inside, Locked, ReadSteps, InTask
  <1>. QED
    BY <1>8, <1>9

LEMMA WritesKeepDue ==
  ASSUME Turns, Turns', DueExact, NEW t \in TCB, WritesOn(t), Idles
  PROVE  DueExact'
  <1>1. KernelSound /\ AtExact /\ DriverTypeOK /\ Due(t)
    BY DEF Turns, DueExact
  <1>2. /\ UNCHANGED <<coreVars, flagVars, role, depth, rxVars>> /\ InTask(t)
        /\ \A u \in TCB \ {t} : at'[u] = at[u]
        /\ pc'[t] = "task"
    BY <1>1, Alone DEF Idles, lockVars, WritesOn, TestFull, PutByte, Enable, DriverTypeOK, InTask, coreVars
  <1>3. \A u \in TCB : Undisturbed(u)
    BY <1>2, FrameDisturbsNobody DEF flagVars
  <1>4. at[t] \in WriteSteps /\ role[t].does \in {"write", "try"}
    BY <1>1 DEF WritesOn, TestFull, PutByte, Step, WriteSteps, AtExact, Reader, Writer, ReadSteps,
       LockSteps
  <1>5. ctrl' = ctrl \/ ctrl' = ctrl \cup {"TRDY"}
    BY DEF WritesOn, TestFull, PutByte, Enable
  <1>6. ReadKept
    BY <1>2, <1>5 DEF ReadKept, rxVars, flagVars, Ready
  <1>7. Due(t)'
    <2>1. CASE at'[t] \notin {"renable", "rpend", "wenable", "wpend", "wagain"}
      BY <1>2, <2>1, AwayFromSleep
    <2>2. CASE at' = [at EXCEPT ![t] = "wenable"] /\ Full /\ UNCHANGED txVars
      BY <1>1, <1>2, <2>2 DEF Due, DriverTypeOK, WaitsForFlags, txVars, Full, Masked
    <2>3. CASE /\ at[t] = "wenable" /\ at' = [at EXCEPT ![t] = "wpend"]
               /\ ctrl' = ctrl \cup {"TRDY"} /\ UNCHANGED txVars
      BY <1>1, <1>2, <2>3 DEF Due, DriverTypeOK, WaitsForFlags, txVars, flagVars, Ready, Full, Masked
    <2>4. CASE at[t] = "wagain" /\ at' = [at EXCEPT ![t] = "wpend"] /\ Full /\ UNCHANGED <<txVars, ctrl>>
      BY <1>1, <1>2, <2>4 DEF Due, DriverTypeOK, WaitsForFlags, txVars, Full, Masked
    <2>5. \/ at'[t] \in {"wpost", "wput", "wloop", "out"}
          \/ at' = [at EXCEPT ![t] = "wenable"] /\ Full /\ UNCHANGED txVars
          \/ /\ at[t] = "wenable" /\ at' = [at EXCEPT ![t] = "wpend"]
             /\ ctrl' = ctrl \cup {"TRDY"} /\ UNCHANGED txVars
          \/ at[t] = "wagain" /\ at' = [at EXCEPT ![t] = "wpend"] /\ Full /\ UNCHANGED <<txVars, ctrl>>
      BY <1>1 DEF WritesOn, TestFull, PutByte, Step, Enable, DriverTypeOK
    <2>. QED
      BY <2>1, <2>2, <2>3, <2>4, <2>5
  <1>8. CASE at[t] = "wlast"
    <2>1. UNCHANGED txVars
      BY <1>8 DEF WritesOn, TestFull, PutByte, Step, Enable
    <2>2. WriteKept
      BY <1>2, <1>5, <2>1, AllKept
    <2>3. \A u \in TCB \ {t} : Due(u)'
      BY <1>2, <1>3, <1>6, <2>2, StaysDue DEF DueExact
    <2>. QED
      BY <1>7, <2>3 DEF DueExact
  <1>9. CASE at[t] # "wlast"
    BY <1>2, <1>3, <1>4, <1>6, <1>7, <1>9, OthersStayDue DEF DueExact, Inside, Locked, WriteSteps, InTask
  <1>. QED
    BY <1>8, <1>9

LEMMA LocksKeepDue ==
  ASSUME Turns, DueExact, NEW t \in TCB, Locks(t)
  PROVE  DueExact'
  <1>1. /\ UNCHANGED <<coreVars, flagVars, role, rxVars, txVars, ctrl>> /\ InTask(t)
    BY Alone DEF Locks, Query, Test, Claim, Unlock, Rest
  <1>2. at'[t] \notin ReadSteps \cup WriteSteps /\ \A u \in TCB \ {t} : at'[u] = at[u]
    BY LocksMoves DEF Turns, DriverTypeOK, ReadSteps, WriteSteps, LockSteps
  <1>3. ReadKept /\ WriteKept /\ \A u \in TCB : Undisturbed(u)
    BY <1>1, AllKept, FrameDisturbsNobody DEF flagVars
  <1>4. Due(t)'
    BY <1>1, <1>2, AwayFromSleep DEF coreVars, InTask, ReadSteps, WriteSteps
  <1>. QED
    BY <1>1, <1>2, <1>3, <1>4, StaysDue DEF DueExact

LEMMA ResumesKeepDue ==
  ASSUME Turns, Turns', DueExact, NEW t \in TCB, Resumes(t), UNCHANGED lockVars
  PROVE  DueExact'
  <1>1. KernelSound /\ DriverTypeOK /\ AtExact /\ \A u \in TCB : Due(u)
    BY DEF Turns, DueExact
  <1>2. UNCHANGED <<role, at, depth, rxVars, txVars, ctrl>>
    BY DEF Resumes, PendReturn, driverVars, callVars, lockVars
  <1>3. pc'[t] = "task" /\ \A u \in TCB \ {t} : Undisturbed(u)
    BY <1>1, ReturnDoes DEF Resumes, PendReturn
  <1>4. Running(t)
    BY DEF Resumes, FlagReturn, PendReturn, OSSemPendEnds
  <1>5. CASE PendReturn(t)
    <2>1. ReadKept /\ WriteKept
      BY <1>2, <1>5, AllKept DEF PendReturn, OSSemPendEnds
    <2>. QED
      BY <1>1, <1>2, <1>3, <2>1, StaysDue DEF DueExact
  <1>6. CASE FlagReturn(t) /\ IsAny(t)
    BY <1>2, <1>6, NobodyIsDue
  <1>7. CASE FlagReturn(t) /\ ~IsAny(t)
    <2>1. \/ role[t].does = "read" /\ at[t] = "rloop" /\ node[t] = WaitFor({"READ_RDY"})
          \/ role[t].does = "write" /\ at[t] = "wagain" /\ node[t] = WaitFor({"WRITE_RDY"})
      BY <1>7 DEF Turns, WaitExact, WaitsWell, FlagReturn
    <2>2. CASE role[t].does = "read" /\ at[t] = "rloop" /\ node[t] = WaitFor({"READ_RDY"})
      <3>1. node[t].set /\ node[t].flags = {"READ_RDY"} /\ "WRITE_RDY" \notin node[t].flags
        BY <2>2 DEF WaitFor
      <3>2. Ready("WRITE_RDY") => "WRITE_RDY" \in OSFlagFlags'[events]
        BY <1>1, <1>7, <3>1, OtherFlagsStay, DriverAssumption DEF Ready
      <3>3. WriteKept
        BY <1>2, <3>2 DEF WriteKept, txVars
      <3>4. Due(t)'
        BY <1>2, <1>3, <2>2, AwayFromSleep
      <3>. QED
        BY <1>2, <1>3, <1>4, <2>2, <3>3, <3>4, OthersStayDue DEF DueExact, Inside, Locked, ReadSteps
    <2>3. CASE role[t].does = "write" /\ at[t] = "wagain" /\ node[t] = WaitFor({"WRITE_RDY"})
      <3>1. node[t].set /\ node[t].flags = {"WRITE_RDY"} /\ "READ_RDY" \notin node[t].flags
        BY <2>3 DEF WaitFor
      <3>2. Ready("READ_RDY") => "READ_RDY" \in OSFlagFlags'[events]
        BY <1>1, <1>7, <3>1, OtherFlagsStay, DriverAssumption DEF Ready
      <3>3. ReadKept
        BY <1>2, <3>2 DEF ReadKept, rxVars
      <3>4. Due(t)'
        BY <1>1, <1>2, <1>3, <2>3 DEF Due, WaitsForFlags, txVars, Full, Masked
      <3>. QED
        BY <1>2, <1>3, <1>4, <2>3, <3>3, <3>4, OthersStayDue DEF DueExact, Inside, Locked, WriteSteps
    <2>. QED
      BY <2>1, <2>2, <2>3
  <1>. QED
    BY <1>5, <1>6, <1>7 DEF Resumes

LEMMA ElsewhereKeepsDue ==
  ASSUME Turns, Turns', DueExact, Elsewhere
  PROVE  DueExact'
  <1>1. KernelSound /\ DriverTypeOK /\ WaitExact /\ \A u \in TCB : Due(u)
    BY DEF Turns, DueExact
  <1>2. UNCHANGED <<role, at, rxVars, txVars, ctrl>>
    BY DEF Elsewhere, driverVars, callVars
  <1>3. CASE \E v \in TCB : IsAny(v)
    BY <1>2, <1>3, NobodyIsDue
  <1>4. CASE \A v \in TCB : ~IsAny(v)
    <2>1. UNCHANGED flagVars
      BY <1>4 DEF Elsewhere, OtherInterrupt
    <2>2. ReadKept /\ WriteKept
      BY <1>2, <2>1, AllKept
    <2>3. \A u \in TCB : Undisturbed(u) \/ pc'[u] # "flag"
      BY <1>1, <1>4, PassiveDoes DEF Passive
    <2>. QED
      BY <1>1, <1>2, <2>2, <2>3, StaysDue DEF DueExact
  <1>. QED
    BY <1>3, <1>4

(* What the handler leaves and posts.                                      *)
LEMMA HandlerPosts ==
  ASSUME Turns, Rings, altera_avalon_uart_irq
  PROVE  /\ \A flag \in Posted : flag \in OSFlagFlags'[events]
         /\ \A flag : Ready(flag) => flag \in OSFlagFlags'[events]
         /\ \A u \in TCB : Undisturbed(u)
         /\ \A u \in TCB, flag \in Posted :
              WaitsForFlags(u) /\ node[u] = WaitFor({flag}) => "FLAG" \notin Stat'[u]
  <1>1. KernelSound /\ DriverTypeOK /\ WaitExact
    BY DEF Turns
  <1>2. \A u \in TCB : Undisturbed(u)
    <2>1. CASE OSFlagPost(events, Posted, TRUE) /\ UNCHANGED pc
      BY <1>1, <2>1, PostedAreFlags, FlagPostDisturbsNobody, DriverAssumption DEF KernelSound
    <2>2. CASE UNCHANGED <<stateVars, waitVars, flagVars, pc>>
      BY <2>2 DEF stateVars, waitVars, flagVars, Undisturbed
    <2>. QED
      BY <2>1, <2>2 DEF altera_avalon_uart_irq, OSIntExit
  <1>3. CASE Posted # {}
    <2>1. OSFlagPost(events, Posted, TRUE)
      BY <1>3 DEF altera_avalon_uart_irq
    <2>2. OSFlagFlags'[events] = OSFlagFlags[events] \cup Posted
      BY <1>1, <2>1, DriverAssumption DEF OSFlagPost, KernelSound, TablesSound, TablesTypeOK, FlagsTypeOK
    <2>3. ASSUME NEW u \in TCB, NEW flag \in Posted, WaitsForFlags(u), node[u] = WaitFor({flag})
          PROVE  "FLAG" \notin Stat'[u]
      <3>1. Satisfied(node[u], OSFlagFlags[events] \cup Posted) /\ node[u].grp = events
        BY <2>3 DEF WaitFor, Satisfied, Found
      <3>. QED
        BY <1>1, <2>1, <2>3, <3>1, PostedAreFlags, FlagPostWakes, DriverAssumption DEF KernelSound
    <2>. QED
      BY <1>2, <2>2, <2>3 DEF Ready
  <1>4. CASE Posted = {}
    BY <1>2, <1>4 DEF altera_avalon_uart_irq, flagVars, Ready
  <1>. QED
    BY <1>3, <1>4

LEMMA HandlerKeepsReadersDue ==
  ASSUME Turns, Rings, altera_avalon_uart_irq, NEW u \in TCB, Due(u), role[u].does = "read"
  PROVE  Due(u)'
  <1>1. UNCHANGED <<role, at, rx_start>> /\ at[u] \notin {"wenable", "wpend", "wagain"}
    BY HandlerDoes DEF Turns, AtExact
  <1>2. CASE ~Stores
    <2>1. rx_end' = rx_end /\ ("RRDY" \in ctrl => "RRDY" \in ctrl')
      BY <1>2, HandlerDoes DEF altera_avalon_uart_irq, Control
    <2>2. Ready("READ_RDY") => Ready("READ_RDY")'
      BY HandlerPosts DEF Ready
    <2>3. WaitsForFlags(u)' => WaitsForFlags(u)
      BY HandlerPosts DEF Undisturbed, WaitsForFlags
    <2>. QED
      BY <1>1, <2>1, <2>2, <2>3 DEF Due
  <1>3. CASE Stores /\ rx_start = rx_end
    <2>1. "READ_RDY" \in Posted
      BY <1>3 DEF Posted
    <2>2. Ready("READ_RDY")'
      BY <2>1, HandlerPosts DEF Ready
    <2>3. ~WaitsForFlags(u)'
      <3>1. WaitsForFlags(u) => node[u] = WaitFor({"READ_RDY"})
        BY DEF Turns, WaitExact, WaitsWell, WaitsForFlags, IsAny
      <3>. QED
        BY <2>1, <3>1, HandlerPosts DEF Undisturbed, WaitsForFlags
    <2>. QED
      BY <1>1, <2>2, <2>3 DEF Due
  <1>4. CASE rx_start # rx_end
    <2>1. ~WaitsForFlags(u)
      BY <1>4 DEF Due
    <2>2. ~WaitsForFlags(u)' /\ (Ready("READ_RDY") => Ready("READ_RDY")')
      BY <2>1, HandlerPosts DEF Undisturbed, WaitsForFlags, Ready
    <2>. QED
      BY <1>1, <1>4, <2>2 DEF Due
  <1>. QED
    BY <1>2, <1>3, <1>4

LEMMA HandlerKeepsWritersDue ==
  ASSUME Turns, Rings, altera_avalon_uart_irq, NEW u \in TCB, Due(u), role[u].does = "write"
  PROVE  Due(u)'
  <1>1. UNCHANGED <<role, at, tx_end>> /\ at[u] \notin {"renable", "rpend"}
    BY HandlerDoes DEF Turns, AtExact
  <1>2. tx_start \in Index /\ tx_end \in Index
    BY DEF Rings, RingTypeOK, Index
  <1>3. /\ WaitsForFlags(u)' => WaitsForFlags(u)
        /\ Ready("WRITE_RDY") => Ready("WRITE_RDY")'
    BY HandlerPosts DEF Undisturbed, WaitsForFlags, Ready
  <1>4. CASE ~Sends
    <2>1. tx_start' = tx_start /\ (Full' <=> Full)
      BY <1>1, <1>4, HandlerDoes DEF Full, Masked
    <2>2. Full => tx_start # tx_end
      <3>1. Masked(tx_end + 1) # tx_end
        BY <1>2, Masking, UartAssumption DEF Index
      <3>. QED
        BY <3>1 DEF Full
    <2>3. Full /\ "TRDY" \in ctrl => "TRDY" \in ctrl'
      BY <1>4, <2>1, <2>2 DEF altera_avalon_uart_irq, Control
    <2>. QED
      BY <1>1, <1>3, <2>1, <2>3 DEF Due
  <1>5. CASE Sends
    <2>1. ~Full'
      <3>1. tx_start' = Masked(tx_start + 1) /\ tx_start # tx_end
        BY <1>5, HandlerDoes DEF Sends
      <3>2. Masked(tx_end + 1) # Masked(tx_start + 1)
        BY <1>2, <3>1, Masking
      <3>. QED
        BY <1>1, <3>1, <3>2 DEF Full, Masked
    <2>2. Full => Ready("WRITE_RDY")'
      BY <1>5, HandlerPosts DEF Posted, Ready
    <2>3. ~WaitsForFlags(u)'
      <3>1. WaitsForFlags(u) => Full /\ node[u] = WaitFor({"WRITE_RDY"})
        BY DEF Due, Turns, WaitExact, WaitsWell, WaitsForFlags, IsAny
      <3>2. Full => "WRITE_RDY" \in Posted
        BY <1>5 DEF Posted
      <3>. QED
        BY <1>3, <3>1, <3>2, HandlerPosts DEF WaitsForFlags
    <2>. QED
      BY <1>1, <1>3, <2>1, <2>2, <2>3 DEF Due
  <1>. QED
    BY <1>4, <1>5

LEMMA DeviceKeepsDue ==
  ASSUME Turns, Turns', Rings, DueExact, Device
  PROVE  DueExact'
  <1>1. CASE altera_avalon_uart_irq
    <2>1. UNCHANGED <<role, at>> /\ AtExact' /\ WaitExact'
      BY <1>1, HandlerDoes DEF Turns
    <2>2. ASSUME NEW u \in TCB, role[u].does \notin {"read", "write"} PROVE Due(u)'
      BY <2>1, <2>2, OnlyBusyWillBeDue DEF OnlyBusy
    <2>. QED
      BY <1>1, <2>2, HandlerKeepsReadersDue, HandlerKeepsWritersDue DEF DueExact
  <1>2. CASE Arrive \/ Shifted
    <2>1. UNCHANGED <<coreVars, flagVars, role, at, rxVars, txVars, ctrl>>
      BY <1>2 DEF Arrive, Shifted, callVars
    <2>2. ReadKept /\ WriteKept /\ \A u \in TCB : Undisturbed(u)
      BY <2>1, AllKept, FrameDisturbsNobody DEF flagVars
    <2>. QED
      BY <2>1, <2>2, StaysDue DEF DueExact
  <1>. QED
    BY <1>1, <1>2 DEF Device

LEMMA DueStep ==
  ASSUME Turns, Rings, DueExact, HalNext
  PROVE  DueExact'
  <1>1. Turns' /\ DriverTypeOK
    BY TurnsStep DEF Turns
  <1>. QED
    BY <1>1, Kinds, SemStepsKeepDue, NapsKeepDue, ReadsKeepDue, WritesKeepDue, LocksKeepDue,
       ResumesKeepDue, ElsewhereKeepsDue, DeviceKeepsDue

-----------------------------------------------------------------------------
(* The invariant.                                                          *)

DriverInv == Turns /\ Rings /\ DueExact

LEMMA DriverInvStarts ==
  ASSUME HalInit
  PROVE  DriverInv
  <1>1. /\ role \in Roles /\ at = [t \in TCB |-> "out"] /\ pc = [t \in TCB |-> "task"]
        /\ rx_start = 0 /\ rx_end = 0 /\ tx_start = 0 /\ tx_end = 0
        /\ rx_buf = [i \in 0 .. BufLen - 1 |-> NONE] /\ tx_buf = [i \in 0 .. BufLen - 1 |-> NONE]
        /\ ctrl = {"RRDY"} /\ rxdata = NONE /\ rxerror = FALSE /\ trdy = TRUE
        /\ received = 0 /\ lastRead = 0 /\ written = 0 /\ lastSent = 0
    BY DEF HalInit, Init
  <1>2. Turns
    BY TurnsStart
  <1>3. BufLen \in Nat /\ BufLen > 1 /\ Wrap \in Nat /\ Wrap > 1 /\ NONE = Wrap
    BY UartAssumption DEF NONE
  <1>4. 0 \in Index /\ Masked(0) = 0 /\ Used(0, 0) = 0 /\ 0 % Wrap = 0
    BY <1>3, Masking, UsedIs DEF Index
  <1>5. RingTypeOK
    <2>1. 0 \in 0 .. BufLen /\ 0 \in 0 .. BufLen - 1 /\ 0 \in 0 .. Wrap - 1 /\ NONE \in 0 .. NONE
      BY <1>3
    <2>2. rx_buf \in [0 .. BufLen - 1 -> 0 .. NONE] /\ tx_buf \in [0 .. BufLen - 1 -> 0 .. NONE]
      BY <1>1, <2>1
    <2>. QED
      BY <1>1, <2>1, <2>2 DEF RingTypeOK
  <1>6. PlacesExact
    BY <1>1, <1>3 DEF PlacesExact
  <1>7. Follows(rx_buf, 0, 0, 0) /\ Follows(tx_buf, 0, 0, 0)
    BY <1>4 DEF Follows
  <1>8. Slots(0, 0) = {}
    BY <1>3 DEF Slots, Index
  <1>9. RxExact /\ TxExact
    BY <1>1, <1>4, <1>7, <1>8 DEF RxExact, TxExact
  <1>10. DueExact
    BY <1>1 DEF DueExact, Due, WaitsForFlags
  <1>. QED
    BY <1>2, <1>5, <1>6, <1>9, <1>10 DEF DriverInv, Rings

LEMMA DriverInvStutters ==
  ASSUME DriverInv, UNCHANGED allVars
  PROVE  DriverInv'
  <1>1. Turns /\ Turns' /\ Rings /\ DueExact
    BY TurnsStutter DEF DriverInv
  <1>2. UNCHANGED <<coreVars, flagVars, role, at, rxVars, txVars, ctrl, wireVars>>
    BY DEF allVars, vars, driverVars, callVars
  <1>3. RxExact' /\ TxExact'
    BY <1>1, <1>2, RxFrame, TxFrame DEF Rings, wireVars
  <1>4. RingTypeOK' /\ PlacesExact'
    BY <1>1, <1>2 DEF Rings, RingTypeOK, PlacesExact, rxVars, txVars, wireVars, Full, Masked
  <1>5. DueExact'
    <2>1. ReadKept /\ WriteKept /\ \A u \in TCB : Undisturbed(u)
      BY <1>2, AllKept, FrameDisturbsNobody DEF flagVars
    <2>. QED
      BY <1>1, <1>2, <2>1, StaysDue DEF DueExact
  <1>. QED
    BY <1>1, <1>3, <1>4, <1>5 DEF DriverInv, Rings

(* The invariant that all that follows rests on.                           *)
THEOREM DriverInvHolds == HalSpec => []DriverInv
  <1>1. HalInit => DriverInv
    BY DriverInvStarts
  <1>2. DriverInv /\ [HalNext]_allVars => DriverInv'
    <2>1. DriverInv /\ HalNext => DriverInv'
      BY TurnsStep, RingsStep, DueStep DEF DriverInv
    <2>. QED
      BY <2>1, DriverInvStutters
  <1>. QED
    BY <1>1, <1>2, PTL DEF HalSpec

(* However the tasks call the event flags, the driver and the locks, the   *)
(* kernel's tables agree with each other and nobody waits for flags that   *)
(* are there (OSFlagPend, OSFlagPost, OSFlagDel and OS_FlagTaskRdy, with   *)
(* the consumption that FlagReturn does late).                             *)
THEOREM TablesExactHolds == HalSpec => []TablesExact
  <1>1. DriverInv => TablesExact
    <2>1. SUFFICES ASSUME DriverInv PROVE TablesExact
      OBVIOUS
    <2>2. DriverTypeOK /\ RingTypeOK /\ KernelSound
      BY <2>1 DEF DriverInv, Turns, Rings
    <2>3. CoreTypeOK({"task", "flag", "pend"})
      BY <2>2 DEF CoreTypeOK, KernelSound, TablesSound, TablesTypeOK, Processor
    <2>4. OtherSteps = LockSteps
      BY LockRolesAssumption
    <2>5. TypeOK
      BY <2>2, <2>3, <2>4, RoleFacts
         DEF TypeOK, DriverTypeOK, RingTypeOK, KernelSound, TablesSound, TablesTypeOK
    <2>6. LocksTypeOK
      BY <2>2, <2>4 DEF LocksTypeOK, DriverTypeOK
    <2>. QED
      BY <2>2, <2>5, <2>6 DEF TablesExact, KernelSound, TablesSound
  <1>. QED
    BY <1>1, DriverInvHolds, PTL

(* A task that sleeps in altera_avalon_uart_read or _write is due to be    *)
(* woken: no interleaving of the test, the enabling of the interrupt, the  *)
(* handler's post and the wait loses the wake-up.                          *)
THEOREM SleepersAreDueHolds == HalSpec => []SleepersAreDue
  <1>1. DriverInv => SleepersAreDue
    BY DEF DriverInv, DueExact, Due, SleepersAreDue
  <1>. QED
    BY <1>1, DriverInvHolds, PTL

(* From a peer that is Paced no byte is lost, doubled or reordered on its  *)
(* way through the driver, and to any peer none is.                        *)
THEOREM BytesInOrderHolds == Paced => (HalSpec => []BytesInOrder)
  <1>. SUFFICES ASSUME Paced PROVE HalSpec => []BytesInOrder
    OBVIOUS
  <1>1. DriverInv => BytesInOrder
    <2>1. SUFFICES ASSUME DriverInv PROVE BytesInOrder
      OBVIOUS
    <2>2. RingTypeOK /\ RxExact /\ TxExact
      BY <2>1 DEF DriverInv, Rings
    <2>3. BufLen \in Nat /\ BufLen > 1
      BY UartAssumption
    <2>4. rx_start \in 0 .. BufLen /\ rx_end \in Index /\ Masked(rx_start) \in Index
      BY <2>2, Masking DEF RingTypeOK, Index
    <2>5. ASSUME NEW i \in 1 .. Used(Masked(rx_start), rx_end)
          PROVE  Masked(rx_start + i - 1) = Masked(Masked(rx_start) + i - 1)
      <3>1. i \in 1 .. BufLen - 1
        BY <2>3, <2>4, UsedIs
      <3>2. CASE rx_start = BufLen
        <4>1. Masked(rx_start) = 0
          BY <2>4, <3>2, Masking
        <4>2. rx_start + i - 1 \in 0 .. 2 * BufLen - 1 /\ rx_start + i - 1 >= BufLen
              /\ 0 + i - 1 \in 0 .. 2 * BufLen - 1 /\ 0 + i - 1 < BufLen
          BY <2>3, <3>1, <3>2
        <4>. QED
          BY <2>3, <3>1, <3>2, <4>1, <4>2, MaskedIs
      <3>3. CASE rx_start # BufLen
        <4>1. Masked(rx_start) = rx_start
          BY <2>4, <3>3, Masking
        <4>. QED
          BY <4>1
      <3>. QED
        BY <3>2, <3>3
    <2>6. \A i \in 1 .. Used(Masked(rx_start), rx_end) :
            rx_buf[Masked(rx_start + i - 1)] = (lastRead + i) % Wrap
      BY <2>1, <2>2, <2>5 DEF RxExact, Follows
    <2>. QED
      BY <2>1, <2>2, <2>6 DEF BytesInOrder, RxExact, TxExact, Follows
  <1>. QED
    BY <1>1, DriverInvHolds, PTL
=============================================================================
