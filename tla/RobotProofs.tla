----------------------------- MODULE RobotProofs -----------------------------
(***************************************************************************)
(* Proofs about Robot, for any alphabet, queue lengths, delays, bounds and *)
(* number of buffers; then about the two directions of its Bluetooth link, *)
(* for any bytes, sizes, payloads and number of copies, and about the      *)
(* start of the program, HalBoot, for any requests and priorities.         *)
(*                                                                         *)
(* First, why sendQueue and sendCount need neither room nor a lock.  The   *)
(* argument is the scheduler's: task1 runs only while sendTask sleeps, and *)
(* sendTask sleeps nowhere but in OSQPend, without a timeout.  So between  *)
(* the moment task1 wakes it and its next OSQPend, task1 stands still in   *)
(* front of lidar_read; it cannot change sendCount meanwhile.              *)
(*                                                                         *)
(* Second, that every buffer has one owner and that silence stops the      *)
(* motors: RobotInv says where buffers are and what task2's timer and the  *)
(* motors have to do with each other.                                      *)
(*                                                                         *)
(* Third, that Robot keeps the promise of RemoteDrive: each of its steps   *)
(* is one of RemoteDrive, as the lemmas name it, or changes nothing that   *)
(* whoever drives the robot notices.  RobotInv is what it takes: a packet  *)
(* stays as it was accepted because nobody else owns its buffer.           *)
(*                                                                         *)
(* Then the link: what the remote side makes of the bytes sent, and that   *)
(* receiveTask decodes the bytes that come as PacketDecoder says.  Last,   *)
(* the start: what an interrupt finds, at whatever call it comes.          *)
(***************************************************************************)
EXTENDS Robot, MCBluetooth, HalBoot, SequenceTheorems, FiniteSetTheorems, WellFoundedInduction,
        TLAPS

(* The inductive invariant, in the parts the argument names.               *)
Shape ==
  /\ DOMAIN status = Task /\ DOMAIN pc = Task /\ DOMAIN timer = Task
  /\ DOMAIN queue = Consumer
  /\ DOMAIN loaded = {"sendTask", "task1"}
  /\ sendCount \in Int

SenderSleepsInPend ==
  /\ status["sendTask"] \in {"run", "wait", "given"}
  /\ pc["sendTask"] \in {"pend", "got", "count", "free"}
  /\ status["sendTask"] # "run" => pc["sendTask"] = "pend"
  /\ timer["sendTask"] = 0

LidarWaitsForSender ==
  /\ pc["task1"] \in {"start", "range", "alloc", "load", "count", "post"}
  /\ status["sendTask"] # "wait" => pc["task1"] \in {"start", "range"}

CountLoaded ==
  /\ pc["sendTask"] = "count" => loaded["sendTask"] = sendCount
  /\ pc["task1"] = "count" => loaded["task1"] = sendCount

CountIs ==
  sendCount = (IF pc["task1"] = "post" THEN 1 ELSE 0)
              + (IF status["sendTask"] = "given" \/ pc["sendTask"] \in {"got", "count"}
                   THEN 1 ELSE 0)

SenderInv ==
  /\ Shape /\ SendQueueNeverStores /\ SenderSleepsInPend
  /\ LidarWaitsForSender /\ CountLoaded /\ CountIs

USE DEF Shape, SendQueueNeverStores, SenderSleepsInPend, LidarWaitsForSender,
        CountLoaded, CountIs

-----------------------------------------------------------------------------
(* The least urgent task runs only while every other task sleeps.          *)
LEMMA LidarAlone ==
  ASSUME SenderInv, NEW l, At("task1", l)
  PROVE  status["sendTask"] = "wait"
BY DEF SenderInv, At, Runs, Ready, Priority, Task

(* A post to another queue does not concern sendTask.                      *)
LEMMA PostElsewhere ==
  ASSUME SenderInv, NEW c \in Consumer \ {"sendTask"}, NEW m, NEW locals,
         OSQPost(c, m, locals)
  PROVE  /\ DOMAIN status' = Task /\ DOMAIN timer' = Task
         /\ DOMAIN queue' = Consumer
         /\ status'["sendTask"] = status["sendTask"]
         /\ timer'["sendTask"] = timer["sendTask"]
         /\ queue'["sendTask"] = queue["sendTask"]
BY DEF SenderInv, OSQPost, kernelVars, Task, Consumer

LEMMA SenderInit == Init => SenderInv
BY DEF Init, SenderInv, Task, Consumer

-----------------------------------------------------------------------------
(* One lemma per group of actions.                                         *)
LEMMA KernelStep ==
  ASSUME SenderInv,
         OSTimeTick \/ (\E c \in Consumer : OSQPend(c)) \/ (\E t \in Task : Resume(t))
  PROVE  SenderInv'
<1>1. CASE OSTimeTick
  BY <1>1 DEF OSTimeTick, Expire, SenderInv, Task, countVars
<1>2. ASSUME NEW c \in Consumer, PendTake(c) PROVE SenderInv'
  BY <1>2 DEF PendTake, Goto, At, SenderInv, Task, Consumer, countVars
<1>3. ASSUME NEW c \in Consumer, PendBlock(c) PROVE SenderInv'
  <2>1. timer'["sendTask"] = 0
    BY <1>3 DEF PendBlock, PendTimeout, SenderInv, Task, Consumer
  <2> QED
    BY <1>3, <2>1 DEF PendBlock, At, SenderInv, Task, Consumer, countVars
<1>4. ASSUME NEW c \in Consumer, PendReturn(c) PROVE SenderInv'
  BY <1>4 DEF PendReturn, Goto, SenderInv, Task, Consumer, countVars
<1>5. ASSUME NEW t \in Task, Resume(t) PROVE SenderInv'
  BY <1>5 DEF Resume, SenderInv, Task, Consumer, countVars
<1> QED
  BY <1>1, <1>2, <1>3, <1>4, <1>5 DEF OSQPend

LEMMA IrqStep ==
  ASSUME SenderInv, NEW b, bluetoothIRQ(b)
  PROVE  SenderInv'
<1>1. OSQPost("receiveTask", b, hand) /\ UNCHANGED <<pc, sendCount, loaded>>
  BY DEF bluetoothIRQ, countVars
<1> QED
  BY <1>1, PostElsewhere DEF SenderInv, Consumer, Task

LEMMA ReceiverStep ==
  ASSUME SenderInv, receiveTask
  PROVE  SenderInv'
<1>1. CASE receiveLog
  BY <1>1 DEF receiveLog, MayBeHeld, Goto, SenderInv, Task, countVars
<1>2. ASSUME NEW b, receiveHandle(b), UNCHANGED kernelVars PROVE SenderInv'
  BY <1>2 DEF receiveHandle, kernelVars, Goto, SenderInv, Task, countVars
<1>3. CASE receiveEnd
  <2>1. PICK b \in Buffer : OSQPost("task2", b, ByteHandled)
    BY <1>3 DEF receiveEnd
  <2>2. UNCHANGED <<sendCount, loaded>> /\ pc' = [pc EXCEPT !["receiveTask"] = "pend"]
    BY <1>3 DEF receiveEnd, receiveHandle, Goto, countVars
  <2> QED
    BY <2>1, <2>2, PostElsewhere DEF SenderInv, Consumer, Task
<1> QED
  BY <1>1, <1>2, <1>3 DEF receiveTask, receiveStart, receiveData, receiveStrayEnd

LEMMA SendStep ==
  ASSUME SenderInv, sendTask
  PROVE  SenderInv'
<1>1. CASE sendLoad
  BY <1>1 DEF sendLoad, At, Goto, kernelVars, SenderInv, Task
<1>2. CASE sendUncount
  BY <1>2 DEF sendUncount, At, Goto, kernelVars, SenderInv, Task
<1>3. CASE sendFree
  BY <1>3 DEF sendFree, At, Goto, kernelVars, countVars, SenderInv, Task
<1> QED
  BY <1>1, <1>2, <1>3 DEF sendTask

LEMMA DriveStep ==
  ASSUME SenderInv, task2
  PROVE  SenderInv'
<1>1. CASE task2Log
  BY <1>1 DEF task2Log, MayBeHeld, Goto, kernelVars, countVars, SenderInv, Task
<1>2. CASE task2Timeout \/ task2Byte \/ task2Free
  BY <1>2 DEF task2Timeout, task2Byte, task2Free, Goto, kernelVars, countVars,
              SenderInv, Task
<1> QED
  BY <1>1, <1>2 DEF task2

LEMMA LidarStep ==
  ASSUME SenderInv, task1
  PROVE  SenderInv'
<1>1. status["sendTask"] = "wait"
  BY LidarAlone DEF task1, task1Brake, task1Range, task1Alloc, task1Load,
                    task1Count, task1Post
<1>2. CASE task1Brake \/ task1Alloc
  BY <1>1, <1>2 DEF task1Brake, task1Alloc, At, Goto, kernelVars, countVars,
                    SenderInv, Task
<1>3. CASE task1Range
  BY <1>1, <1>3 DEF task1Range, At, Goto, countVars, SenderInv, Task
<1>4. CASE task1Load
  BY <1>1, <1>4 DEF task1Load, At, Goto, kernelVars, SenderInv, Task
<1>5. CASE task1Count
  BY <1>1, <1>5 DEF task1Count, At, Goto, kernelVars, SenderInv, Task
<1>6. CASE task1Post
  BY <1>1, <1>6 DEF task1Post, OSQPost, Waiting, Accepts, At, Goto, countVars,
                    SenderInv, Task
<1> QED
  BY <1>2, <1>3, <1>4, <1>5, <1>6 DEF task1

-----------------------------------------------------------------------------
(* The scheduling argument as an invariant of every behaviour.             *)
THEOREM SenderInductive == Spec => []SenderInv
<1>1. ASSUME SenderInv, [Next]_vars PROVE SenderInv'
  <2>1. CASE UNCHANGED vars
    BY <1>1, <2>1 DEF vars, kernelVars, countVars, SenderInv
  <2>2. CASE Next
    BY <1>1, <2>2, KernelStep, IrqStep, ReceiverStep, SendStep, DriveStep, LidarStep
       DEF Next
  <2> QED
    BY <1>1, <2>1, <2>2
<1> QED
  BY <1>1, SenderInit, PTL DEF Spec

(* sendQueue never stores a message, so no range is ever lost to a full    *)
(* queue, however short it is made (main.c:114).                           *)
THEOREM SendQueueNeverStoresHolds == Spec => []SendQueueNeverStores
<1>1. SenderInv => SendQueueNeverStores
  BY DEF SenderInv
<1> QED
  BY <1>1, SenderInductive, PTL

(* The unprotected read-modify-writes of sendCount lose no update.         *)
THEOREM SendCountExactHolds == Spec => []SendCountExact
<1>1. SenderInv => SendCountExact
  BY DEF SenderInv, SendCountExact, Announced
<1> QED
  BY <1>1, SenderInductive, PTL

(* Both together: ranges need neither room in sendQueue nor a lock.        *)
THEOREM HandOverExactHolds == Spec => []HandOverExact
BY SendQueueNeverStoresHolds, SendCountExactHolds, PTL DEF HandOverExact

HIDE DEF Shape, SendQueueNeverStores, SenderSleepsInPend, LidarWaitsForSender,
         CountLoaded, CountIs

-----------------------------------------------------------------------------
(* The inductive invariant of buffers, motors and types.                   *)
Bytes == Command \cup {START, END}
Holder == {"sendTask", "task2", "task1"}

(* What the kernel's view of a task may be: a task waits, is asleep or is  *)
(* held up only at the labels where it calls something that does so, and a *)
(* timer runs only for a task that waits or sleeps.                        *)
KernelShape ==
  /\ status \in [Task -> {"run", "wait", "expired", "given", "delay", "held"}]
  /\ timer \in [Task -> Nat]
  /\ DOMAIN pc = Task /\ \A t \in Task : pc[t] \in Labels[t]
  /\ \A t \in Task : timer[t] > 0 => t \in {"task2", "task1"}
                                    /\ status[t] \in {"wait", "delay"}
  /\ \A c \in Consumer : status[c] \in {"wait", "expired", "given"} => pc[c] = "pend"
  /\ \A c \in Consumer : status[c] = "expired" => c = "task2"
  /\ \A t \in Task : status[t] = "held" => pc[t] \in {"handle", "obey"}
  /\ status["task1"] \in {"run", "delay"} /\ \A c \in Consumer : status[c] # "delay"

Message(c) == IF c = "receiveTask" THEN Bytes ELSE Buffer

(* The queues; a task that waits has nothing stored for it.                *)
QueueShape ==
  /\ DOMAIN queue = Consumer
  /\ \A c \in Consumer : queue[c] \in Seq(Message(c))
  /\ \A c \in Consumer : Len(queue[c]) <= QueueLength[c]
  /\ \A c \in Consumer : Waiting(c) => queue[c] = << >>

(* A task has a buffer in its hands from the moment it is given one to the *)
(* moment it frees it or passes it on.                                     *)
HandShape ==
  /\ DOMAIN hand = Task
  /\ hand["receiveTask"] \in Bytes \cup {NULL}
  /\ \A t \in Holder : hand[t] \in Buffer \cup {NULL}
  /\ hand["sendTask"] # NULL <=>
       status["sendTask"] = "given" \/ pc["sendTask"] \in {"got", "count", "free"}
  /\ hand["task2"] # NULL <=>
       status["task2"] = "given" \/ pc["task2"] \in {"got", "obey"}
  /\ hand["task1"] # NULL <=> pc["task1"] \in {"load", "count", "post"}

(* A buffer is in the queue of task2, the only one that stores any, or in  *)
(* a task's hands.                                                         *)
Stored(b) == \E i \in 1 .. Len(queue["task2"]) : queue["task2"][i] = b

InHand(b) == \E t \in Holder : hand[t] = b

(* No buffer is in two places, and the allocated ones that are not lost    *)
(* are those in a place.                                                   *)
HandsDiffer == \A t, u \in Holder : hand[t] # NULL /\ hand[t] = hand[u] => t = u
SlotsDiffer == \A i, j \in 1 .. Len(queue["task2"]) :
                 queue["task2"][i] = queue["task2"][j] => i = j
HeapOwned ==
  /\ heap \subseteq Buffer /\ lost \subseteq heap
  /\ \A b \in Buffer : ~(Stored(b) /\ InHand(b))
  /\ \A b \in Buffer : b \in heap \ lost <=> Stored(b) \/ InHand(b)

Ownership == HandsDiffer /\ SlotsDiffer /\ HeapOwned

(* The variables whose values only have to be of their types; task2 begins *)
(* each packet with its first byte.                                        *)
DataShape ==
  /\ open \in BOOLEAN /\ body \in Seq(Command)
  /\ data \in [Buffer -> Seq(Command)]
  /\ next \in Nat \ {0} /\ (pc["task2"] # "obey" => next = 1)
  /\ motora \in {0, MOTORA_CW, MOTORA_CCW} /\ motorb \in {0, MOTORB_CW, MOTORB_CCW}
  /\ dcReg \in Drive
  /\ sendCount \in Int /\ loaded \in [{"sendTask", "task1"} -> Int]
  /\ rxBytes \in 0 .. MaxBytes

(* task2 waits with its timer running: the motors stand, or task2 has      *)
(* obeyed a packet and waited since for the part of the timeout that has   *)
(* run.                                                                    *)
Watchdog ==
  /\ quiet \in 0 .. BtTimeout
  /\ status["task2"] = "wait" =>
       timer["task2"] > 0 /\ (dcReg = Stop \/ quiet = BtTimeout - timer["task2"])
  /\ status["task2"] = "run" /\ pc["task2"] = "pend" => dcReg = Stop \/ quiet = 0

RobotInv == KernelShape /\ QueueShape /\ HandShape /\ Ownership /\ DataShape /\ Watchdog

-----------------------------------------------------------------------------
LEMMA KernelShapeInit == Init => KernelShape
BY DEF Init, KernelShape, Task, Consumer, Labels

(* A post by a task that goes on, or by the handler.                       *)
LEMMA PostKernel ==
  ASSUME KernelShape, NEW c \in Consumer, NEW m, NEW locals, OSQPost(c, m, locals),
         DOMAIN pc' = Task, \A t \in Task : pc'[t] \in Labels[t],

         \A d \in Consumer : pc[d] = "pend" => pc'[d] = "pend",
         \A t \in Task : pc[t] \in {"handle", "obey"} /\ status[t] # "run" => pc'[t] = pc[t]
  PROVE  KernelShape'
<1>1. CASE Waiting(c) /\ status' = [status EXCEPT ![c] = "given"]
                      /\ timer' = [timer EXCEPT ![c] = 0]
  BY <1>1 DEF KernelShape, Waiting, Task, Consumer
<1>2. CASE UNCHANGED <<status, timer>>
  BY <1>2 DEF KernelShape, Consumer
<1> QED
  BY <1>1, <1>2 DEF OSQPost, kernelVars

LEMMA GotoLabel ==
  ASSUME KernelShape, NEW t \in Task, NEW l \in Labels[t], Goto(t, l)
  PROVE  /\ DOMAIN pc' = Task
         /\ \A u \in Task : pc'[u] \in Labels[u]
         /\ pc'[t] = l
         /\ \A u \in Task \ {t} : pc'[u] = pc[u]
BY DEF KernelShape, Goto, Labels, Task

LEMMA MoveKernel ==
  ASSUME KernelShape, NEW t \in Task, NEW l \in Labels[t], Goto(t, l), status[t] = "run",
         UNCHANGED <<status, timer>>
  PROVE  KernelShape'
BY GotoLabel DEF KernelShape, Consumer

LEMMA HeldKernel ==
  ASSUME KernelShape, NEW t \in Task \ {"task1"}, NEW l \in Labels[t], Goto(t, l),
         l \in {"handle", "obey"}, status[t] = "run", timer[t] = 0, MayBeHeld(t)
  PROVE  KernelShape'
BY GotoLabel DEF KernelShape, MayBeHeld, Consumer, Task

LEMMA KernelShapeStep ==
  ASSUME RobotInv, [Next]_vars
  PROVE  KernelShape'
<1> USE DEF RobotInv
<1>a. ASSUME NEW b \in Bytes, bluetoothIRQ(b) PROVE KernelShape'
  BY <1>a, PostKernel DEF bluetoothIRQ, KernelShape, Consumer, Task
<1>b. CASE OSTimeTick
  <2>1. timer' \in [Task -> Nat] /\ UNCHANGED pc
    BY <1>b DEF OSTimeTick, KernelShape
  <2>2. \A t \in Task : timer'[t] = IF timer[t] > 0 THEN timer[t] - 1 ELSE 0
    BY <1>b DEF OSTimeTick
  <2>3. status' = [t \in Task |-> IF timer[t] = 1 THEN Expire(t) ELSE status[t]]
    BY <1>b DEF OSTimeTick
  <2> QED
    BY <2>1, <2>2, <2>3 DEF Expire, KernelShape, Consumer, Task
<1>c. ASSUME NEW c \in Consumer, OSQPend(c) PROVE KernelShape'
  <2>1. CASE PendTake(c)
    <3>1. "got" \in Labels[c]
      BY DEF Labels, Consumer, Task
    <3> QED
      BY <2>1, <3>1, MoveKernel DEF PendTake, At, Consumer
  <2>2. CASE PendBlock(c)
    BY <2>2, TimeAssumption
       DEF PendBlock, PendTimeout, At, KernelShape, Consumer, Task
  <2>3. CASE PendReturn(c)
    <3>1. "got" \in Labels[c] /\ (c = "task2" => "timeout" \in Labels[c])
      BY DEF Labels, Consumer, Task
    <3>2. PICK l \in Labels[c] : Goto(c, l)
      BY <2>3, <3>1 DEF PendReturn, KernelShape
    <3> QED
      BY <2>3, <3>2, GotoLabel DEF PendReturn, KernelShape, Consumer
  <2> QED
    BY <1>c, <2>1, <2>2, <2>3 DEF OSQPend
<1>d. ASSUME NEW t \in Task, Resume(t) PROVE KernelShape'
  BY <1>d DEF Resume, KernelShape, Consumer
<1>e. CASE receiveTask
  <2>1. CASE receiveLog
    BY <1>e, <2>1, HeldKernel DEF receiveLog, At, Labels, Task, KernelShape
  <2>2. ASSUME NEW b, receiveHandle(b), UNCHANGED kernelVars PROVE KernelShape'
    BY <2>2, MoveKernel DEF receiveHandle, At, Labels, Task, kernelVars
  <2>3. CASE receiveEnd
    <3>1. PICK b \in Buffer : OSQPost("task2", b, ByteHandled)
      BY <2>3 DEF receiveEnd
    <3>2. Goto("receiveTask", "pend") /\ status["receiveTask"] = "run"
          /\ pc["receiveTask"] = "handle"
      BY <2>3 DEF receiveEnd, receiveHandle, At
    <3> QED
      BY <3>1, <3>2, GotoLabel, PostKernel DEF Labels, Task, Consumer
  <2> QED
    BY <1>e, <2>1, <2>2, <2>3
       DEF receiveTask, receiveStart, receiveData, receiveStrayEnd
<1>f. CASE sendTask
  BY <1>f, MoveKernel
     DEF sendTask, sendLoad, sendUncount, sendFree, At, Labels, Task, kernelVars
<1>g. CASE task2
  <2>1. CASE task2Log
    BY <1>g, <2>1, MoveKernel, HeldKernel
       DEF task2Log, At, Labels, Task, KernelShape, kernelVars
  <2>2. CASE task2Timeout \/ task2Free
    BY <2>2, MoveKernel
       DEF task2Timeout, task2Free, At, Labels, Task, kernelVars
  <2>3. CASE task2Byte
    BY <2>3 DEF task2Byte, KernelShape, kernelVars
  <2> QED
    BY <1>g, <2>1, <2>2, <2>3 DEF task2
<1>h. CASE task1
  <2>1. CASE task1Range
    BY <2>1, GotoLabel, TimeAssumption
       DEF task1Range, At, Labels, Task, KernelShape, Consumer
  <2>2. CASE task1Post
    BY <2>2, GotoLabel, PostKernel DEF task1Post, At, Labels, Task, Consumer
  <2>3. CASE task1Brake \/ task1Alloc \/ task1Load \/ task1Count
    BY <2>3, MoveKernel
       DEF task1Brake, task1Alloc, task1Load, task1Count, At, Labels, Task,
           kernelVars
  <2> QED
    BY <1>h, <2>1, <2>2, <2>3 DEF task1
<1>i. CASE UNCHANGED vars
  BY <1>i DEF vars, kernelVars, KernelShape
<1> QED
  BY <1>a, <1>b, <1>c, <1>d, <1>e, <1>f, <1>g, <1>h, <1>i DEF Next, Bytes

-----------------------------------------------------------------------------
LEMMA QueueShapeInit == Init => QueueShape
BY LengthAssumption DEF Init, QueueShape, Waiting, Task, Consumer

LEMMA PostQueue ==
  ASSUME KernelShape, QueueShape,
         NEW c \in Consumer, NEW m \in Message(c), NEW locals, OSQPost(c, m, locals)
  PROVE  QueueShape'
<1>1. CASE Waiting(c) /\ status' = [status EXCEPT ![c] = "given"] /\ UNCHANGED queue
  BY <1>1 DEF KernelShape, QueueShape, Waiting, Consumer
<1>2. CASE ~Waiting(c) /\ Accepts(c) /\ queue' = [queue EXCEPT ![c] = Append(@, m)]
           /\ UNCHANGED status
  <2>1. queue'[c] = Append(queue[c], m) /\ \A d \in Consumer \ {c} : queue'[d] = queue[d]
    BY <1>2 DEF QueueShape
  <2>2. queue'[c] \in Seq(Message(c)) /\ Len(queue'[c]) = Len(queue[c]) + 1
    BY <2>1, AppendProperties DEF QueueShape
  <2>3. DOMAIN queue' = Consumer
    BY <1>2 DEF QueueShape
  <2>4. Len(queue[c]) \in Nat /\ QueueLength[c] \in Nat
    BY LengthAssumption DEF QueueShape
  <2>5. Len(queue'[c]) <= QueueLength[c]
    BY <1>2, <2>2, <2>4 DEF Accepts
  <2> QED
    BY <1>2, <2>1, <2>2, <2>3, <2>5 DEF QueueShape, Waiting
<1>3. CASE UNCHANGED kernelVars
  BY <1>3 DEF kernelVars, QueueShape, Waiting
<1> QED
  BY <1>1, <1>2, <1>3 DEF OSQPost

(* A step that only moves tasks in or out of other states than waiting.    *)
LEMMA SameQueue ==
  ASSUME QueueShape, UNCHANGED queue,
         \A c \in Consumer : status'[c] \in {"wait", "expired"} => Waiting(c)
  PROVE  QueueShape'
BY DEF QueueShape, Waiting

LEMMA QueueShapeStep ==
  ASSUME RobotInv, [Next]_vars
  PROVE  QueueShape'
<1> USE DEF RobotInv
<1>a. ASSUME NEW b \in Bytes, bluetoothIRQ(b) PROVE QueueShape'
  BY <1>a, PostQueue DEF bluetoothIRQ, Consumer, Task, Message
<1>b. CASE OSTimeTick
  <2>1. UNCHANGED queue
        /\ status' = [t \in Task |-> IF timer[t] = 1 THEN Expire(t) ELSE status[t]]
    BY <1>b DEF OSTimeTick
  <2> QED
    BY <2>1, SameQueue DEF Expire, Waiting, Consumer
<1>c. ASSUME NEW c \in Consumer, OSQPend(c) PROVE QueueShape'
  <2>1. CASE PendTake(c)
    <3>1. queue'[c] = Tail(queue[c]) /\ \A d \in Consumer \ {c} : queue'[d] = queue[d]
      BY <2>1 DEF PendTake, QueueShape
    <3>2. queue'[c] \in Seq(Message(c)) /\ Len(queue'[c]) = Len(queue[c]) - 1
      BY <2>1, <3>1, HeadTailProperties DEF QueueShape, PendTake
    <3>3. UNCHANGED status /\ status[c] = "run" /\ DOMAIN queue' = Consumer
      BY <2>1 DEF PendTake, At, QueueShape
    <3>4. Len(queue'[c]) <= QueueLength[c]
      BY <3>2, LengthAssumption DEF QueueShape
    <3> QED
      BY <3>1, <3>2, <3>3, <3>4 DEF QueueShape, Waiting
  <2>2. CASE PendBlock(c)
    BY <2>2 DEF PendBlock, KernelShape, QueueShape, Consumer, Waiting
  <2>3. CASE PendReturn(c)
    BY <2>3, SameQueue DEF PendReturn, KernelShape, Waiting
  <2> QED
    BY <1>c, <2>1, <2>2, <2>3 DEF OSQPend
<1>d. ASSUME NEW t \in Task, Resume(t) PROVE QueueShape'
  BY <1>d, SameQueue DEF Resume, KernelShape, Waiting
<1>e. CASE receiveTask
  <2>1. CASE receiveLog
    BY <2>1, SameQueue
       DEF receiveLog, MayBeHeld, KernelShape, Waiting, Consumer, Task
  <2>2. CASE receiveEnd
    BY <2>2, PostQueue DEF receiveEnd, Message, Consumer, Task
  <2>3. CASE receiveStart \/ receiveData \/ receiveStrayEnd
    BY <2>3, SameQueue
       DEF receiveStart, receiveData, receiveStrayEnd, kernelVars, Waiting
  <2> QED
    BY <1>e, <2>1, <2>2, <2>3 DEF receiveTask
<1>f. CASE sendTask
  BY <1>f, SameQueue
     DEF sendTask, sendLoad, sendUncount, sendFree, kernelVars, Waiting
<1>g. CASE task2
  <2>1. CASE task2Log
    BY <2>1, SameQueue
       DEF task2Log, MayBeHeld, KernelShape, Waiting, kernelVars, Consumer, Task
  <2>2. CASE task2Timeout \/ task2Byte \/ task2Free
    BY <2>2, SameQueue
       DEF task2Timeout, task2Byte, task2Free, Waiting, kernelVars
  <2> QED
    BY <1>g, <2>1, <2>2 DEF task2
<1>h. CASE task1
  <2>1. CASE task1Range
    BY <2>1, SameQueue DEF task1Range, KernelShape, Waiting, Consumer
  <2>2. CASE task1Post
    <3>1. hand["task1"] \in Buffer
      BY <2>2 DEF task1Post, At, HandShape, Holder
    <3> QED
      BY <2>2, <3>1, PostQueue DEF task1Post, Message, Consumer, Task
  <2>3. CASE task1Brake \/ task1Alloc \/ task1Load \/ task1Count
    BY <2>3, SameQueue
       DEF task1Brake, task1Alloc, task1Load, task1Count, kernelVars, Waiting
  <2> QED
    BY <1>h, <2>1, <2>2, <2>3 DEF task1
<1>i. CASE UNCHANGED vars
  BY <1>i, SameQueue DEF vars, kernelVars, Waiting
<1> QED
  BY <1>a, <1>b, <1>c, <1>d, <1>e, <1>f, <1>g, <1>h, <1>i DEF Next, Bytes

-----------------------------------------------------------------------------
LEMMA HandShapeInit == Init => HandShape
BY DEF Init, HandShape, Holder, Task

(* What a post does to the hands, and to the status that goes with them.   *)
LEMMA PostHand ==
  ASSUME KernelShape, NEW c \in Consumer, NEW m, NEW locals, DOMAIN locals = Task,
         OSQPost(c, m, locals)
  PROVE  /\ DOMAIN hand' = Task
         /\ \A t \in Task \ {c} : hand'[t] = locals[t] /\ status'[t] = status[t]
         /\ \/ Waiting(c) /\ hand'[c] = m /\ status'[c] = "given"
            \/ ~Waiting(c) /\ hand'[c] = locals[c] /\ status'[c] = status[c]
BY DEF OSQPost, Accepts, KernelShape, kernelVars, Task, Consumer

(* A step after which each task has in its hands what its label says.      *)
LEMMA SameHand ==
  ASSUME HandShape, UNCHANGED hand,
         \A t \in Holder : status[t] = "given" <=> status'[t] = "given",
         \A t \in Holder : pc[t] \in {"got", "count", "free", "obey", "load", "post"}
                             => pc'[t] = pc[t],
         \A t \in Holder : pc[t] \notin {"got", "count", "free", "obey", "load", "post"}
                             => pc'[t] \notin {"got", "count", "free", "obey", "load", "post"}
  PROVE  HandShape'
BY DEF HandShape, Holder

LEMMA HandShapeStep ==
  ASSUME RobotInv, [Next]_vars
  PROVE  HandShape'
<1> USE DEF RobotInv
<1>a. ASSUME NEW b \in Bytes, bluetoothIRQ(b) PROVE HandShape'
  <2>1. OSQPost("receiveTask", b, hand) /\ UNCHANGED pc
    BY <1>a DEF bluetoothIRQ
  <2> QED
    BY <2>1, PostHand DEF HandShape, Holder, Consumer, Task
<1>b. CASE OSTimeTick
  <2>1. UNCHANGED <<hand, pc>>
        /\ status' = [t \in Task |-> IF timer[t] = 1 THEN Expire(t) ELSE status[t]]
    BY <1>b DEF OSTimeTick
  <2> QED
    BY <2>1, SameHand DEF Expire, KernelShape, Holder, Task
<1>c. ASSUME NEW c \in Consumer, OSQPend(c) PROVE HandShape'
  <2>1. CASE PendTake(c)
    <3>1. Head(queue[c]) \in Message(c) /\ Head(queue[c]) # NULL
      BY <2>1, HeadTailProperties, NullAssumption
         DEF PendTake, QueueShape, Message, Bytes
    <3>2. /\ hand'[c] = Head(queue[c]) /\ \A t \in Task \ {c} : hand'[t] = hand[t]
          /\ DOMAIN hand' = Task /\ UNCHANGED status
          /\ status[c] = "run"
      BY <2>1 DEF PendTake, At, HandShape, Consumer
    <3>3. pc'[c] = "got" /\ \A t \in Task \ {c} : pc'[t] = pc[t]
      BY <2>1 DEF PendTake, Goto, KernelShape, Consumer
    <3> QED
      BY <3>1, <3>2, <3>3 DEF HandShape, Message, Consumer, Holder, Task
  <2>2. CASE PendBlock(c)
    BY <2>2, SameHand DEF PendBlock, At, KernelShape, Consumer, Holder, Task
  <2>3. CASE PendReturn(c)
    <3>1. UNCHANGED hand /\ status'[c] = "run" /\ pc[c] = "pend"
          /\ \/ status[c] = "given" /\ pc'[c] = "got"
             \/ status[c] = "expired" /\ pc'[c] = "timeout"
          /\ \A t \in Task \ {c} : pc'[t] = pc[t] /\ status'[t] = status[t]
      BY <2>3 DEF PendReturn, Goto, KernelShape, Consumer
    <3> QED
      BY <3>1 DEF HandShape, Consumer, Holder, Task
  <2> QED
    BY <1>c, <2>1, <2>2, <2>3 DEF OSQPend
<1>d. ASSUME NEW t \in Task, Resume(t) PROVE HandShape'
  BY <1>d, SameHand DEF Resume, KernelShape, Holder, Task
<1>e. CASE receiveTask
  <2>1. CASE receiveLog
    BY <2>1, SameHand
       DEF receiveLog, At, Goto, MayBeHeld, KernelShape, Holder, Task
  <2>2. CASE receiveEnd
    <3>1. PICK b \in Buffer : OSQPost("task2", b, ByteHandled)
      BY <2>2 DEF receiveEnd
    <3>2. \A t \in Holder : pc'[t] = pc[t]
      BY <2>2 DEF receiveEnd, receiveHandle, Goto, Holder, KernelShape
    <3>3. DOMAIN ByteHandled = Task /\ ByteHandled["receiveTask"] = NULL
          /\ \A t \in Holder : ByteHandled[t] = hand[t]
      BY DEF ByteHandled, HandShape, Holder, Task
    <3>4. status["task2"] # "given" \/ ~Waiting("task2")
      BY DEF Waiting
    <3> QED
      BY <3>1, <3>2, <3>3, <3>4, PostHand, NullAssumption
         DEF HandShape, KernelShape, Waiting, Consumer, Holder, Task
  <2>3. CASE receiveStart \/ receiveData \/ receiveStrayEnd
    <3>1. /\ UNCHANGED status /\ \A t \in Holder : pc'[t] = pc[t] /\ hand'[t] = hand[t]
          /\ DOMAIN hand' = Task /\ hand'["receiveTask"] = NULL
      BY <2>3
         DEF receiveStart, receiveData, receiveStrayEnd, receiveHandle,
             ByteHandled, Goto, HandShape, KernelShape, Holder, Task, kernelVars
    <3> QED
      BY <3>1 DEF HandShape, Holder
  <2> QED
    BY <1>e, <2>1, <2>2, <2>3 DEF receiveTask
<1>f. CASE sendTask
  BY <1>f
     DEF sendTask, sendLoad, sendUncount, sendFree, At, Goto, kernelVars,
         KernelShape, HandShape, Holder, Task
<1>g. CASE task2
  <2>1. CASE task2Log
    BY <2>1
       DEF task2Log, At, Goto, MayBeHeld, kernelVars, KernelShape, HandShape,
           Holder, Task
  <2>2. CASE task2Timeout \/ task2Byte
    BY <2>2, SameHand
       DEF task2Timeout, task2Byte, At, Goto, kernelVars, KernelShape, Holder,
           Task
  <2>3. CASE task2Free
    BY <2>3
       DEF task2Free, At, Goto, kernelVars, KernelShape, HandShape, Holder, Task
  <2> QED
    BY <1>g, <2>1, <2>2, <2>3 DEF task2
<1>h. CASE task1
  <2>1. CASE task1Range \/ task1Brake
    BY <2>1, SameHand
       DEF task1Range, task1Brake, At, Goto, kernelVars, KernelShape, Holder,
           Task
  <2>2. CASE task1Post
    <3> DEFINE rest == [hand EXCEPT !["task1"] = NULL]
    <3>1. OSQPost("sendTask", hand["task1"], rest)
          /\ status["task1"] = "run" /\ pc["task1"] = "post"
      BY <2>2 DEF task1Post, At
    <3>2. pc'["task1"] = "range" /\ \A t \in Task \ {"task1"} : pc'[t] = pc[t]
      BY <2>2 DEF task1Post, Goto, KernelShape, Task
    <3>3. hand["task1"] \in Buffer /\ hand["task1"] # NULL
      BY <3>1, NullAssumption DEF HandShape, Holder
    <3>4. DOMAIN rest = Task /\ rest["task1"] = NULL
          /\ \A t \in Task \ {"task1"} : rest[t] = hand[t]
      BY DEF HandShape, Task
    <3> HIDE DEF rest
    <3>5. /\ DOMAIN hand' = Task
          /\ \A t \in Task \ {"sendTask"} : hand'[t] = rest[t] /\ status'[t] = status[t]
          /\ \/ Waiting("sendTask") /\ hand'["sendTask"] = hand["task1"]
                /\ status'["sendTask"] = "given"
             \/ hand'["sendTask"] = rest["sendTask"] /\ status'["sendTask"] = status["sendTask"]
      BY <3>1, <3>4, PostHand DEF Consumer, Task
    <3> QED
      BY <3>1, <3>2, <3>3, <3>4, <3>5
         DEF HandShape, KernelShape, Waiting, Consumer, Holder, Task
  <2>3. CASE task1Alloc
    BY <2>3, NullAssumption
       DEF task1Alloc, At, Goto, kernelVars, KernelShape, HandShape, Holder,
           Task
  <2>4. CASE task1Load \/ task1Count
    BY <2>4
       DEF task1Load, task1Count, At, Goto, kernelVars, KernelShape, HandShape,
           Holder, Task
  <2> QED
    BY <1>h, <2>1, <2>2, <2>3, <2>4 DEF task1
<1>i. CASE UNCHANGED vars
  BY <1>i, SameHand DEF vars, kernelVars
<1> QED
  BY <1>a, <1>b, <1>c, <1>d, <1>e, <1>f, <1>g, <1>h, <1>i DEF Next, Bytes

-----------------------------------------------------------------------------
LEMMA DataShapeInit == Init => DataShape
<1> SUFFICES ASSUME Init PROVE DataShape
  OBVIOUS
<1>1. body \in Seq(Command) /\ data \in [Buffer -> Seq(Command)]
  BY DEF Init
<1>2. dcReg \in Drive /\ rxBytes \in 0 .. MaxBytes
  BY BoundAssumption DEF Init
<1>3. loaded \in [{"sendTask", "task1"} -> Int] /\ next = 1
  BY DEF Init
<1>5. open \in BOOLEAN
  BY DEF Init
<1>4. motora = 0 /\ motorb = 0 /\ sendCount = 0
  BY DEF Init
<1> QED
  BY <1>1, <1>2, <1>3, <1>4, <1>5 DEF DataShape

LEMMA FreeData ==
  ASSUME NEW b, data \in [Buffer -> Seq(Command)], free(b)
  PROVE  data' \in [Buffer -> Seq(Command)] /\ \A d \in Buffer \ {b} : data'[d] = data[d]
<1>1. << >> \in Seq(Command)
  OBVIOUS
<1> QED
  BY <1>1 DEF free

LEMMA SameData ==
  ASSUME DataShape, UNCHANGED <<open, body, data, next, motora, motorb, dcReg, sendCount,
                                loaded, rxBytes>>,
         pc["task2"] = "obey" => pc'["task2"] = "obey"
  PROVE  DataShape'
BY DEF DataShape

(* The bits of the two motors, decoded, are what a command means.          *)
LEMMA CodesMean ==
  ASSUME NEW c \in DOMAIN Codes
  PROVE  /\ Codes[c].a \in {0, MOTORA_CW, MOTORA_CCW}
         /\ Codes[c].b \in {0, MOTORB_CW, MOTORB_CCW}
         /\ Decode(Codes[c].a + Codes[c].b) = Meaning[c]
         /\ c \in DOMAIN Meaning /\ Meaning[c] \in Drive
<1>1. CASE c = "f"
  BY <1>1
     DEF Codes, Meaning, Decode, MotorState, MOTORA_CW, MOTORA_CCW, MOTORB_CW,
         MOTORB_CCW, Drive, MOTOR_STATE
<1>2. CASE c = "b"
  BY <1>2
     DEF Codes, Meaning, Decode, MotorState, MOTORA_CW, MOTORA_CCW, MOTORB_CW,
         MOTORB_CCW, Drive, MOTOR_STATE
<1>3. CASE c = "l"
  BY <1>3
     DEF Codes, Meaning, Decode, MotorState, MOTORA_CW, MOTORA_CCW, MOTORB_CW,
         MOTORB_CCW, Drive, MOTOR_STATE
<1>4. CASE c = "r"
  BY <1>4
     DEF Codes, Meaning, Decode, MotorState, MOTORA_CW, MOTORA_CCW, MOTORB_CW,
         MOTORB_CCW, Drive, MOTOR_STATE
<1>5. CASE c = "s"
  BY <1>5 DEF Codes, Meaning, Decode, MotorState, Drive, MOTOR_STATE, Stop
<1> QED
  BY <1>1, <1>2, <1>3, <1>4, <1>5 DEF Codes

LEMMA StopCommand ==
  ASSUME handle_bluetooth_input("s")
  PROVE  motora' = 0 /\ motorb' = 0 /\ dcReg' = Stop
<1>1. motora' = Codes["s"].a /\ motorb' = Codes["s"].b /\ dcReg' = Decode(Codes["s"].a + Codes["s"].b)
  BY DEF handle_bluetooth_input, dc_driver_write, Codes
<1>2. Codes["s"].a = 0 /\ Codes["s"].b = 0 /\ Meaning["s"] = Stop /\ "s" \in DOMAIN Codes
  BY DEF Codes, Meaning
<1> QED
  BY <1>1, <1>2, CodesMean

LEMMA DataShapeStep ==
  ASSUME RobotInv, [Next]_vars
  PROVE  DataShape'
<1> USE DEF RobotInv
<1>a. ASSUME NEW b \in Bytes, bluetoothIRQ(b) PROVE DataShape'
  BY <1>a, BoundAssumption
     DEF bluetoothIRQ, DataShape, packetVars, driveVars, countVars, heapVars
<1>b. CASE OSTimeTick
  BY <1>b, SameData DEF OSTimeTick, packetVars, countVars, heapVars
<1>c. ASSUME NEW c \in Consumer, OSQPend(c) PROVE DataShape'
  <2>1. pc["task2"] = "obey" => pc'["task2"] = "obey"
    BY <1>c
       DEF OSQPend, PendTake, PendBlock, PendReturn, At, Goto, KernelShape,
           Consumer, Task
  <2> QED
    BY <1>c, <2>1, SameData
       DEF OSQPend, PendTake, PendBlock, PendReturn, packetVars, driveVars,
           countVars, heapVars
<1>d. ASSUME NEW t \in Task, Resume(t) PROVE DataShape'
  BY <1>d, SameData DEF Resume, packetVars, driveVars, countVars, heapVars
<1>e. CASE receiveTask
  <2>0. UNCHANGED <<driveVars, countVars, rxBytes>> /\ pc'["task2"] = pc["task2"]
    BY <1>e
       DEF receiveTask, receiveLog, receiveStart, receiveData, receiveEnd,
           receiveStrayEnd, receiveHandle, Goto, KernelShape, Task
  <2>1. CASE receiveLog \/ receiveStrayEnd
    BY <2>1, SameData, <2>0
       DEF receiveLog, receiveStrayEnd, packetVars, driveVars, countVars,
           heapVars
  <2>2. CASE receiveStart
    BY <2>2, <2>0 DEF receiveStart, DataShape, driveVars, countVars, heapVars
  <2>3. CASE receiveData
    <3>1. hand["receiveTask"] \in Command
      BY <2>3 DEF receiveData, receiveHandle
    <3> QED
      BY <2>3, <2>0, <3>1
         DEF receiveData, DataShape, driveVars, countVars, heapVars
  <2>4. CASE receiveEnd
    <3>1. PICK b \in Buffer : data' = [data EXCEPT ![b] = body]
      BY <2>4 DEF receiveEnd
    <3>2. open' = FALSE /\ UNCHANGED body
      BY <2>4 DEF receiveEnd
    <3> QED
      BY <3>1, <3>2, <2>0 DEF DataShape, driveVars, countVars
  <2> QED
    BY <1>e, <2>1, <2>2, <2>3, <2>4 DEF receiveTask
<1>f. CASE sendTask
  <2>1. pc'["task2"] = pc["task2"] /\ UNCHANGED <<packetVars, driveVars, rxBytes>>
    BY <1>f
       DEF sendTask, sendLoad, sendUncount, sendFree, Goto, KernelShape, Task
  <2>2. sendCount' \in Int /\ loaded' \in [{"sendTask", "task1"} -> Int]
    BY <1>f DEF sendTask, sendLoad, sendUncount, sendFree, countVars, DataShape
  <2>3. data' \in [Buffer -> Seq(Command)]
    BY <1>f, FreeData
       DEF sendTask, sendLoad, sendUncount, sendFree, heapVars, DataShape
  <2> QED
    BY <2>1, <2>2, <2>3 DEF DataShape, packetVars, driveVars
<1>g. CASE task2
  <2>1. CASE task2Timeout
    <3>1. motora' = 0 /\ motorb' = 0 /\ dcReg' = Stop
      BY <2>1, StopCommand DEF task2Timeout
    <3> QED
      BY <2>1, <3>1
         DEF task2Timeout, At, DataShape, Stop, Drive, MOTOR_STATE, packetVars,
             countVars, heapVars
  <2>2. CASE task2Log
    BY <2>2
       DEF task2Log, At, DataShape, packetVars, driveVars, countVars, heapVars
  <2>3. CASE task2Byte
    <3>1. /\ motora' \in {0, MOTORA_CW, MOTORA_CCW} /\ motorb' \in {0, MOTORB_CW, MOTORB_CCW}
          /\ dcReg' \in Drive
      BY <2>3
         DEF task2Byte, handle_bluetooth_input, DataShape, Codes,
             dc_driver_write, Decode, MotorState, Drive, MOTOR_STATE, MOTORA_CW,
             MOTORA_CCW, MOTORB_CW, MOTORB_CCW
    <3> QED
      BY <2>3, <3>1
         DEF task2Byte, At, DataShape, packetVars, countVars, heapVars
  <2>4. CASE task2Free
    <3>1. data' \in [Buffer -> Seq(Command)]
      BY <2>4, FreeData DEF task2Free, DataShape
    <3>2. next' = 1 /\ UNCHANGED <<packetVars, motora, motorb, dcReg, countVars, rxBytes>>
      BY <2>4 DEF task2Free
    <3> QED
      BY <3>1, <3>2 DEF DataShape, packetVars, countVars
  <2> QED
    BY <1>g, <2>1, <2>2, <2>3, <2>4 DEF task2
<1>h. CASE task1
  <2>1. pc'["task2"] = pc["task2"]
    BY <1>h
       DEF task1, task1Brake, task1Range, task1Alloc, task1Load, task1Count,
           task1Post, Goto, KernelShape, Task
  <2>2. CASE task1Brake
    BY <2>1, <2>2
       DEF task1Brake, dc_driver_write, Decode, MotorState, Drive, MOTOR_STATE,
           DataShape, packetVars, countVars, heapVars
  <2>3. CASE task1Range \/ task1Alloc \/ task1Post
    BY <2>1, <2>3, SameData
       DEF task1Range, task1Alloc, task1Post, packetVars, driveVars, countVars,
           heapVars
  <2>4. CASE task1Load \/ task1Count
    BY <2>1, <2>4
       DEF task1Load, task1Count, DataShape, packetVars, driveVars, heapVars
  <2> QED
    BY <1>h, <2>2, <2>3, <2>4 DEF task1
<1>i. CASE UNCHANGED vars
  BY <1>i, SameData DEF vars, packetVars, driveVars, countVars, heapVars
<1> QED
  BY <1>a, <1>b, <1>c, <1>d, <1>e, <1>f, <1>g, <1>h, <1>i DEF Next, Bytes

-----------------------------------------------------------------------------
LEMMA WatchdogInit == Init => Watchdog
BY TimeAssumption DEF Init, Watchdog, Task

(* A step of others, or one that stops the motors.                         *)
LEMMA SameWatch ==
  ASSUME Watchdog, UNCHANGED quiet, dcReg' = dcReg \/ dcReg' = Stop,
         \/ /\ status'["task2"] = status["task2"] /\ timer'["task2"] = timer["task2"]
            /\ status["task2"] = "run" /\ pc'["task2"] = "pend" => pc["task2"] = "pend"
         \/ status'["task2"] \notin {"run", "wait"}
         \/ status'["task2"] = "run" /\ pc'["task2"] # "pend"
  PROVE  Watchdog'
BY DEF Watchdog

LEMMA WatchdogStep ==
  ASSUME RobotInv, [Next]_vars
  PROVE  Watchdog'
<1> USE DEF RobotInv
<1>a. ASSUME NEW b \in Bytes, bluetoothIRQ(b) PROVE Watchdog'
  BY <1>a, SameWatch
     DEF bluetoothIRQ, OSQPost, KernelShape, driveVars, kernelVars, Task
<1>b. CASE OSTimeTick
  <2>1. /\ timer'["task2"] = IF timer["task2"] > 0 THEN timer["task2"] - 1 ELSE 0
        /\ status'["task2"] = IF timer["task2"] = 1 THEN Expire("task2") ELSE status["task2"]
        /\ quiet' = IF status["task2"] = "wait" /\ quiet < BtTimeout
                      THEN quiet + 1 ELSE quiet
        /\ UNCHANGED <<pc, dcReg>>
    BY <1>b DEF OSTimeTick, Task
  <2>2. timer["task2"] \in Nat /\ (timer["task2"] > 0 => status["task2"] = "wait")
    BY DEF KernelShape, Consumer, Task
  <2>3. quiet' \in 0 .. BtTimeout
    BY <2>1, TimeAssumption DEF Watchdog
  <2>4. CASE timer["task2"] = 1
    BY <2>1, <2>2, <2>3, <2>4, TimeAssumption
       DEF Expire, Watchdog, KernelShape, Task
  <2>5. CASE timer["task2"] # 1
    BY <2>1, <2>2, <2>3, <2>5, TimeAssumption DEF Watchdog
  <2> QED
    BY <2>4, <2>5
<1>c. ASSUME NEW c \in Consumer, OSQPend(c) PROVE Watchdog'
  <2>1. CASE c # "task2"
    BY <1>c, <2>1, SameWatch
       DEF OSQPend, PendTake, PendBlock, PendReturn, Goto, KernelShape,
           driveVars, Task, Consumer
  <2>2. CASE PendTake("task2")
    BY <2>2, SameWatch DEF PendTake, At, Goto, KernelShape, driveVars, Task
  <2>3. CASE PendBlock("task2")
    BY <2>3, TimeAssumption
       DEF PendBlock, PendTimeout, At, Watchdog, KernelShape, driveVars, Task
  <2>4. CASE PendReturn("task2")
    BY <2>4, SameWatch DEF PendReturn, Goto, KernelShape, driveVars, Task
  <2> QED
    BY <1>c, <2>1, <2>2, <2>3, <2>4 DEF OSQPend
<1>d. ASSUME NEW t \in Task, Resume(t) PROVE Watchdog'
  <2>1. status["task2"] = "held" => pc["task2"] # "pend"
    BY DEF KernelShape, Task
  <2> QED
    BY <1>d, <2>1, SameWatch DEF Resume, KernelShape, driveVars, Task
<1>e. CASE receiveTask
  BY <1>e, SameWatch
     DEF receiveTask, receiveLog, receiveStart, receiveData, receiveEnd,
         receiveStrayEnd, MayBeHeld, OSQPost, receiveHandle, Goto, KernelShape,
         kernelVars, driveVars, Task
<1>f. CASE sendTask
  BY <1>f, SameWatch
     DEF sendTask, sendLoad, sendUncount, sendFree, Goto, KernelShape,
         kernelVars, driveVars, Task
<1>g. CASE task2
  <2>1. CASE task2Timeout
    BY <2>1, StopCommand DEF task2Timeout, At, kernelVars, Watchdog
  <2>2. CASE task2Log
    BY <2>2, SameWatch
       DEF task2Log, At, MayBeHeld, Goto, KernelShape, kernelVars, driveVars,
           Task
  <2>3. CASE task2Byte
    BY <2>3 DEF task2Byte, At, Watchdog, kernelVars
  <2>4. CASE task2Free
    BY <2>4, TimeAssumption DEF task2Free, At, Watchdog, kernelVars
  <2> QED
    BY <1>g, <2>1, <2>2, <2>3, <2>4 DEF task2
<1>h. CASE task1
  <2>1. CASE task1Brake
    <3>1. dcReg' = Stop
      BY <2>1 DEF task1Brake, dc_driver_write, Decode, MotorState, Stop
    <3> QED
      BY <2>1, <3>1, SameWatch
         DEF task1Brake, Goto, KernelShape, kernelVars, Task
  <2>2. CASE task1Range \/ task1Alloc \/ task1Load \/ task1Count
    BY <2>2, SameWatch
       DEF task1Range, task1Alloc, task1Load, task1Count, Goto, KernelShape,
           kernelVars, driveVars, Task
  <2>3. CASE task1Post
    BY <2>3, SameWatch
       DEF task1Post, OSQPost, Goto, KernelShape, kernelVars, driveVars, Task
  <2> QED
    BY <1>h, <2>1, <2>2, <2>3 DEF task1
<1>i. CASE UNCHANGED vars
  BY <1>i, SameWatch DEF vars, kernelVars, driveVars
<1> QED
  BY <1>a, <1>b, <1>c, <1>d, <1>e, <1>f, <1>g, <1>h, <1>i DEF Next, Bytes

-----------------------------------------------------------------------------
LEMMA OwnershipInit == Init => Ownership
<1> SUFFICES ASSUME Init PROVE Ownership
  OBVIOUS
<1>1. \A b : ~Stored(b)
  BY DEF Init, Stored, Consumer, Task
<1>2. SlotsDiffer
  BY DEF Init, SlotsDiffer, Consumer, Task
<1>3. \A t \in Holder : hand[t] = NULL
  BY DEF Init, Holder, Task
<1> QED
  BY <1>1, <1>2, <1>3, NullAssumption
     DEF Init, Ownership, HandsDiffer, HeapOwned, InHand

LEMMA SameOwners ==
  ASSUME Ownership, UNCHANGED <<heap, lost>>, \A t \in Holder : hand'[t] = hand[t],
         queue'["task2"] = queue["task2"]
  PROVE  Ownership'
<1>1. \A b : (Stored(b)' <=> Stored(b)) /\ (InHand(b)' <=> InHand(b))
  BY DEF Stored, InHand
<1> QED
  BY <1>1 DEF Ownership, HandsDiffer, SlotsDiffer, HeapOwned

(* malloc returns a block that nobody owns.                                *)
LEMMA MallocFresh ==
  ASSUME Ownership, NEW b \in Buffer, Malloc(b)
  PROVE  /\ b \notin heap /\ heap' = heap \cup {b} /\ b # NULL
         /\ ~Stored(b) /\ \A t \in Holder : hand[t] # b
<1>1. \E d \in Buffer : d \notin heap
  BY DEF Malloc, Ownership, HeapOwned
<1>2. b \notin heap
  BY <1>1 DEF Malloc, Free
<1> QED
  BY <1>2, NullAssumption DEF Malloc, Ownership, HeapOwned, InHand

(* A task frees the block in its hand, which nobody else has.              *)
LEMMA FreeOwned ==
  ASSUME Ownership, HandShape, NEW t \in Holder, hand[t] # NULL, free(hand[t]),
         hand' = [hand EXCEPT ![t] = NULL], UNCHANGED <<queue, lost>>
  PROVE  Ownership'
<1>1. hand'[t] = NULL /\ \A u \in Holder \ {t} : hand'[u] = hand[u]
  BY DEF HandShape, Holder, Task
<1>2. hand[t] \in Buffer /\ ~Stored(hand[t]) /\ InHand(hand[t])
  BY DEF Ownership, HeapOwned, HandShape, InHand
<1>3. \A b : Stored(b)' <=> Stored(b)
  BY DEF Stored
<1>4. heap' = heap \ {hand[t]}
  BY DEF free
<1>5. \A b \in Buffer : InHand(b)' <=> InHand(b) /\ b # hand[t]
  BY <1>1, NullAssumption DEF InHand, Ownership, HandsDiffer
<1>6. HandsDiffer'
  BY <1>1 DEF Ownership, HandsDiffer
<1>7. SlotsDiffer'
  BY DEF Ownership, SlotsDiffer
<1> QED
  BY <1>2, <1>3, <1>4, <1>5, <1>6, <1>7 DEF Ownership, HeapOwned

LEMMA OwnershipStep ==
  ASSUME SenderInv, RobotInv, [Next]_vars
  PROVE  Ownership'
<1> USE DEF RobotInv
<1>a. ASSUME NEW b \in Bytes, bluetoothIRQ(b) PROVE Ownership'
  <2>1. OSQPost("receiveTask", b, hand) /\ UNCHANGED <<heap, lost>>
    BY <1>a DEF bluetoothIRQ, heapVars
  <2>2. \A t \in Holder : hand'[t] = hand[t]
    BY <2>1 DEF OSQPost, HandShape, Holder, Task
  <2>3. queue'["task2"] = queue["task2"]
    BY <2>1 DEF OSQPost, Accepts, kernelVars, QueueShape, Consumer, Task
  <2> QED
    BY <2>1, <2>2, <2>3, SameOwners
<1>b. CASE OSTimeTick
  BY <1>b, SameOwners DEF OSTimeTick, heapVars
<1>c. ASSUME NEW c \in Consumer, OSQPend(c) PROVE Ownership'
  <2>1. CASE PendTake("task2")
    <3>1. queue["task2"] \in Seq(Buffer) /\ queue["task2"] # << >>
      BY <2>1 DEF PendTake, QueueShape, Message, Consumer, Task
    <3>2. PICK b \in Buffer : b = Head(queue["task2"])
      BY <3>1
    <3>3. queue'["task2"] = Tail(queue["task2"]) /\ hand'["task2"] = b
          /\ \A t \in Holder \ {"task2"} : hand'[t] = hand[t]
      BY <2>1, <3>2 DEF PendTake, QueueShape, HandShape, Consumer, Task, Holder
    <3>4. hand["task2"] = NULL /\ UNCHANGED <<heap, lost>>
      BY <2>1 DEF PendTake, At, HandShape, heapVars
    <3>5. /\ Len(queue'["task2"]) = Len(queue["task2"]) - 1
          /\ \A i \in 1 .. Len(queue'["task2"]) : queue'["task2"][i] = queue["task2"][i + 1]
          /\ b = queue["task2"][1] /\ Len(queue["task2"]) \in Nat \ {0}
      BY <3>1, <3>2, <3>3, HeadTailProperties
    <3>6. ASSUME NEW d, Stored(d)' PROVE Stored(d) /\ d # b
      <4>1. PICK i \in 1 .. Len(queue'["task2"]) : queue'["task2"][i] = d
        BY <3>6 DEF Stored
      <4>2. i + 1 \in 1 .. Len(queue["task2"]) /\ queue["task2"][i + 1] = d /\ i + 1 # 1
        BY <3>5, <4>1
      <4>3. Stored(d)
        BY <4>2 DEF Stored
      <4>4. 1 \in 1 .. Len(queue["task2"])
        BY <3>5
      <4>5. queue["task2"][i + 1] # queue["task2"][1]
        BY <4>2, <4>4 DEF Ownership, SlotsDiffer
      <4> QED
        BY <3>5, <4>2, <4>3, <4>5
    <3>7. ASSUME NEW d, Stored(d), d # b PROVE Stored(d)'
      <4>1. PICK i \in 1 .. Len(queue["task2"]) : queue["task2"][i] = d
        BY <3>7 DEF Stored
      <4>2. i - 1 \in 1 .. Len(queue'["task2"]) /\ queue'["task2"][i - 1] = d
        BY <3>5, <3>7, <4>1
      <4> QED
        BY <4>2 DEF Stored
    <3>8. Stored(b)
      BY <3>5 DEF Stored
    <3>9. SlotsDiffer'
      BY <3>5 DEF Ownership, SlotsDiffer
    <3>10. \A d \in Buffer : InHand(d)' <=> InHand(d) \/ d = b
      BY <3>3, <3>4, NullAssumption DEF Holder, InHand
    <3>11. HandsDiffer'
      BY <3>3, <3>8 DEF Ownership, HandsDiffer, HeapOwned, InHand
    <3> QED
      BY <3>4, <3>6, <3>7, <3>8, <3>9, <3>10, <3>11 DEF Ownership, HeapOwned
  <2>2. CASE PendTake("receiveTask")
    BY <2>2, SameOwners
       DEF PendTake, HandShape, QueueShape, heapVars, Holder, Consumer, Task
  <2>3. CASE PendTake("sendTask")
    BY <2>3 DEF PendTake, SenderInv, SendQueueNeverStores
  <2>4. CASE PendBlock(c) \/ PendReturn(c)
    BY <2>4, SameOwners DEF PendBlock, PendReturn, heapVars
  <2> QED
    BY <1>c, <2>1, <2>2, <2>3, <2>4 DEF OSQPend, Consumer, Task
<1>d. ASSUME NEW t \in Task, Resume(t) PROVE Ownership'
  BY <1>d, SameOwners DEF Resume, heapVars
<1>e. CASE receiveTask
  <2>1. CASE receiveLog \/ receiveStart \/ receiveData \/ receiveStrayEnd
    BY <2>1, SameOwners
       DEF receiveLog, receiveStart, receiveData, receiveStrayEnd, MayBeHeld,
           ByteHandled, HandShape, heapVars, kernelVars, Holder, Task
  <2>2. CASE receiveEnd
    <3>1. PICK b \in Buffer : Malloc(b) /\ OSQPost("task2", b, ByteHandled)
                              /\ lost' = IF Accepts("task2") THEN lost ELSE lost \cup {b}
      BY <2>2 DEF receiveEnd
    <3>2. /\ b \notin heap /\ heap' = heap \cup {b} /\ b # NULL
          /\ ~Stored(b) /\ \A t \in Holder : hand[t] # b
      BY <3>1, MallocFresh
    <3>3. DOMAIN ByteHandled = Task /\ \A t \in Holder : ByteHandled[t] = hand[t]
      BY DEF ByteHandled, HandShape, Holder, Task
    <3>4. CASE Waiting("task2")
      <4>1. /\ hand'["task2"] = b /\ \A t \in Holder \ {"task2"} : hand'[t] = hand[t]
            /\ UNCHANGED queue
        BY <3>1, <3>3, <3>4 DEF OSQPost, Accepts, Holder, Task
      <4>2. hand["task2"] = NULL /\ lost' = lost
        BY <3>1, <3>4
           DEF HandShape, KernelShape, Waiting, Accepts, Consumer, Task
      <4>3. \A d : Stored(d)' <=> Stored(d)
        BY <4>1 DEF Stored
      <4>4. \A d \in Buffer : InHand(d)' <=> InHand(d) \/ d = b
        BY <4>1, <4>2, NullAssumption DEF Holder, InHand
      <4>5. HandsDiffer' /\ SlotsDiffer'
        BY <3>2, <4>1 DEF Ownership, HandsDiffer, SlotsDiffer
      <4> QED
        BY <3>2, <4>1, <4>2, <4>3, <4>4, <4>5 DEF Ownership, HeapOwned
    <3>5. CASE ~Waiting("task2") /\ Accepts("task2")
      <4>1. \A t \in Holder : hand'[t] = hand[t]
        BY <3>1, <3>3, <3>5 DEF OSQPost, Holder, Task
      <4>2. queue'["task2"] = Append(queue["task2"], b) /\ queue["task2"] \in Seq(Buffer)
        BY <3>1, <3>5 DEF OSQPost, QueueShape, Message, Consumer, Task
      <4>3. Len(queue'["task2"]) = Len(queue["task2"]) + 1
            /\ queue'["task2"][Len(queue["task2"]) + 1] = b
            /\ \A i \in 1 .. Len(queue["task2"]) : queue'["task2"][i] = queue["task2"][i]
            /\ Len(queue["task2"]) \in Nat
        BY <4>2, AppendProperties
      <4>4. \A d : Stored(d)' <=> Stored(d) \/ d = b
        BY <4>3 DEF Stored
      <4>5. SlotsDiffer'
        <5> SUFFICES ASSUME NEW i \in 1 .. Len(queue["task2"]) + 1,
                            NEW j \in 1 .. Len(queue["task2"]) + 1,
                            queue'["task2"][i] = queue'["task2"][j]
                     PROVE  i = j
          BY <4>3 DEF SlotsDiffer
        <5>1. CASE i = Len(queue["task2"]) + 1 \/ j = Len(queue["task2"]) + 1
          BY <3>2, <4>3, <5>1 DEF Stored
        <5>2. CASE i \in 1 .. Len(queue["task2"]) /\ j \in 1 .. Len(queue["task2"])
          BY <4>3, <5>2 DEF Ownership, SlotsDiffer
        <5> QED
          BY <5>1, <5>2, <4>3
      <4>6. lost' = lost
        BY <3>1, <3>5
      <4> QED
        BY <3>2, <4>1, <4>4, <4>5, <4>6
           DEF Ownership, HandsDiffer, HeapOwned, InHand
    <3>6. CASE ~Accepts("task2")
      <4>1. (\A t \in Holder : hand'[t] = hand[t]) /\ UNCHANGED queue
        BY <3>1, <3>3, <3>6 DEF OSQPost, Accepts, kernelVars, Holder, Task
      <4>2. lost' = lost \cup {b}
        BY <3>1, <3>6
      <4>3. \A d : (Stored(d)' <=> Stored(d)) /\ (InHand(d)' <=> InHand(d))
        BY <4>1 DEF Stored, InHand
      <4> QED
        BY <3>2, <4>1, <4>2, <4>3
           DEF Ownership, HandsDiffer, SlotsDiffer, HeapOwned
    <3> QED
      BY <3>4, <3>5, <3>6
  <2> QED
    BY <1>e, <2>1, <2>2 DEF receiveTask
<1>f. CASE sendTask
  <2>1. CASE sendFree
    <3>1. hand["sendTask"] # NULL
      BY <2>1 DEF sendFree, At, HandShape
    <3> QED
      BY <2>1, <3>1, FreeOwned DEF sendFree, kernelVars, Holder
  <2>2. CASE sendLoad \/ sendUncount
    BY <2>2, SameOwners DEF sendLoad, sendUncount, heapVars, kernelVars
  <2> QED
    BY <1>f, <2>1, <2>2 DEF sendTask
<1>g. CASE task2
  <2>1. CASE task2Free
    <3>1. hand["task2"] # NULL
      BY <2>1 DEF task2Free, At, HandShape
    <3> QED
      BY <2>1, <3>1, FreeOwned DEF task2Free, kernelVars, Holder
  <2>2. CASE task2Timeout \/ task2Log \/ task2Byte
    BY <2>2, SameOwners
       DEF task2Timeout, task2Log, task2Byte, MayBeHeld, heapVars, kernelVars
  <2> QED
    BY <1>g, <2>1, <2>2 DEF task2
<1>h. CASE task1
  <2>1. CASE task1Alloc
    <3>1. PICK b \in Buffer : Malloc(b) /\ hand' = [hand EXCEPT !["task1"] = b]
      BY <2>1 DEF task1Alloc
    <3>2. hand'["task1"] = b /\ \A t \in Holder \ {"task1"} : hand'[t] = hand[t]
      BY <3>1 DEF HandShape, Holder, Task
    <3>3. hand["task1"] = NULL /\ UNCHANGED <<queue, lost>>
      BY <2>1 DEF task1Alloc, At, HandShape, kernelVars
    <3>4. \A d : Stored(d)' <=> Stored(d)
      BY <3>3 DEF Stored
    <3>5. /\ b \notin heap /\ heap' = heap \cup {b} /\ b # NULL
          /\ ~Stored(b) /\ \A t \in Holder : hand[t] # b
      BY <3>1, MallocFresh
    <3>6. \A d \in Buffer : InHand(d)' <=> InHand(d) \/ d = b
      BY <3>2, <3>3, NullAssumption DEF Holder, InHand
    <3>7. HandsDiffer' /\ SlotsDiffer'
      BY <3>2, <3>3, <3>5 DEF Ownership, HandsDiffer, SlotsDiffer
    <3> QED
      BY <3>2, <3>3, <3>4, <3>5, <3>6, <3>7 DEF Ownership, HeapOwned
  <2>2. CASE task1Post
    <3>1. status["sendTask"] = "wait" /\ Waiting("sendTask")
      BY <2>2, LidarAlone DEF task1Post, Waiting
    <3>2. /\ hand'["sendTask"] = hand["task1"] /\ hand'["task1"] = NULL
          /\ hand'["task2"] = hand["task2"] /\ UNCHANGED <<queue, heap, lost>>
      BY <2>2, <3>1 DEF task1Post, OSQPost, Accepts, HandShape, Task
    <3>3. hand["sendTask"] = NULL
      BY <3>1 DEF SenderInv, SenderSleepsInPend, HandShape
    <3>4. \A d : Stored(d)' <=> Stored(d)
      BY <3>2 DEF Stored
    <3>5. \A d \in Buffer : InHand(d)' <=> InHand(d)
      BY <3>2, <3>3, NullAssumption DEF Holder, InHand
    <3>6. HandsDiffer' /\ SlotsDiffer'
      BY <3>2, <3>3 DEF Ownership, HandsDiffer, SlotsDiffer, Holder
    <3> QED
      BY <3>2, <3>4, <3>5, <3>6 DEF Ownership, HeapOwned
  <2>3. CASE task1Brake \/ task1Range \/ task1Load \/ task1Count
    BY <2>3, SameOwners
       DEF task1Brake, task1Range, task1Load, task1Count, heapVars, kernelVars
  <2> QED
    BY <1>h, <2>1, <2>2, <2>3 DEF task1
<1>i. CASE UNCHANGED vars
  BY <1>i, SameOwners DEF vars, kernelVars, heapVars
<1> QED
  BY <1>a, <1>b, <1>c, <1>d, <1>e, <1>f, <1>g, <1>h, <1>i DEF Next, Bytes

-----------------------------------------------------------------------------
(* Where the buffers are, and the watchdog, as an invariant.              *)
THEOREM RobotInductive == Spec => []RobotInv
<1>1. Init => RobotInv
  BY KernelShapeInit, QueueShapeInit, HandShapeInit, OwnershipInit,
     DataShapeInit, WatchdogInit
     DEF RobotInv
<1>2. SenderInv /\ RobotInv /\ [Next]_vars => RobotInv'
  BY KernelShapeStep, QueueShapeStep, HandShapeStep, OwnershipStep,
     DataShapeStep, WatchdogStep
     DEF RobotInv
<1> QED
  BY <1>1, <1>2, SenderInductive, PTL DEF Spec

(* The watchdog works however late packets race its timeout and however    *)
(* the motors stood before (main.c:158-161).                               *)
THEOREM SilenceStopsMotorsHolds == Spec => []SilenceStopsMotors
<1>1. RobotInv => SilenceStopsMotors
  BY TimeAssumption
     DEF RobotInv, Watchdog, KernelShape, SilenceStopsMotors, Task
<1> QED
  BY <1>1, RobotInductive, PTL

(* The two sets that References counts have at most one element each.      *)
LEMMA HandsCounted ==
  ASSUME Ownership, NEW b \in Buffer
  PROVE  Cardinality({t \in Task \ {"receiveTask"} : hand[t] = b}) = IF InHand(b) THEN 1 ELSE 0
<1>1. Holder = Task \ {"receiveTask"}
  BY DEF Holder, Task
<1>2. CASE InHand(b)
  <2>1. PICK t \in Holder : hand[t] = b
    BY <1>2 DEF InHand
  <2>2. {u \in Task \ {"receiveTask"} : hand[u] = b} = {t}
    BY <1>1, <2>1, NullAssumption DEF Ownership, HandsDiffer
  <2> QED
    BY <1>2, <2>2, FS_Singleton
<1>3. CASE ~InHand(b)
  <2>1. {u \in Task \ {"receiveTask"} : hand[u] = b} = {}
    BY <1>1, <1>3 DEF InHand
  <2> QED
    BY <1>3, <2>1, FS_EmptySet
<1> QED
  BY <1>2, <1>3

Slots(b) ==
  {p \in {"task2", "sendTask"} \X (1 .. QueueLength["task2"] + QueueLength["sendTask"]) :
     p[2] <= Len(queue[p[1]]) /\ queue[p[1]][p[2]] = b}

LEMMA SlotsCounted ==
  ASSUME SendQueueNeverStores, QueueShape, Ownership, NEW b \in Buffer
  PROVE  Cardinality(Slots(b)) = IF Stored(b) THEN 1 ELSE 0
<1> DEFINE q == queue["task2"]
<1>1. /\ Len(q) \in Nat /\ Len(q) <= QueueLength["task2"]
      /\ QueueLength["task2"] \in Nat /\ QueueLength["sendTask"] \in Nat
      /\ Len(queue["sendTask"]) = 0
  BY LengthAssumption DEF QueueShape, SendQueueNeverStores, Consumer, Task
<1>2. \A p \in Slots(b) : p = <<"task2", p[2]>> /\ p[2] \in 1 .. Len(q) /\ q[p[2]] = b
  BY <1>1 DEF Slots
<1>3. \A i \in 1 .. Len(q) : q[i] = b => <<"task2", i>> \in Slots(b)
  BY <1>1 DEF Slots
<1>4. CASE Stored(b)
  <2>1. PICK i \in 1 .. Len(q) : q[i] = b
    BY <1>4 DEF Stored
  <2>2. Slots(b) = {<<"task2", i>>}
    BY <1>2, <1>3, <2>1 DEF Ownership, SlotsDiffer
  <2> QED
    BY <1>4, <2>2, FS_Singleton
<1>5. CASE ~Stored(b)
  <2>1. Slots(b) = {}
    BY <1>2, <1>5 DEF Stored
  <2> QED
    BY <1>5, <2>1, FS_EmptySet
<1> QED
  BY <1>4, <1>5

(* No buffer is used after it is freed, freed twice or forgotten, except   *)
(* those posted to a full queue; and every variable is of its type.        *)
THEOREM OneOwnerHolds == Spec => []OneOwner
<1>1. ASSUME SenderInv, RobotInv PROVE OneOwner
  <2> USE DEF RobotInv
  <2>1. TypeOK
    <3>1. quiet \in 0 .. BtTimeout
      BY <1>1 DEF Watchdog
    <3>2. \A t \in Task \ {"receiveTask"} : hand[t] \in Buffer \cup {NULL}
      BY <1>1 DEF HandShape, Holder, Task
    <3> QED
      BY <1>1, <3>1, <3>2
         DEF TypeOK, KernelShape, QueueShape, HandShape, Bytes, Ownership,
             HeapOwned, DataShape
  <2>2. ASSUME NEW b \in Buffer PROVE References(b) = IF b \in heap \ lost THEN 1 ELSE 0
    <3>1. References(b) = (IF InHand(b) THEN 1 ELSE 0) + (IF Stored(b) THEN 1 ELSE 0)
      BY <1>1, HandsCounted, SlotsCounted DEF References, Slots, SenderInv
    <3> QED
      BY <1>1, <3>1 DEF Ownership, HeapOwned
  <2> QED
    BY <2>1, <2>2 DEF OneOwner
<1> QED
  BY <1>1, RobotInductive, SenderInductive, PTL

-----------------------------------------------------------------------------
(* The bytes of the buffers in the queue, and so the packets accepted.     *)
LEMMA ContentsSeq ==
  ASSUME data \in [Buffer -> Seq(Command)], NEW q \in Seq(Buffer)
  PROVE  /\ Contents(q) \in Seq(Seq(Command))
         /\ Len(Contents(q)) = Len(q)
         /\ \A i \in 1 .. Len(q) : Contents(q)[i] = data[q[i]]
<1>1. Contents(q) = [i \in 1 .. Len(q) |-> data[q[i]]] /\ Len(q) \in Nat
  BY LenProperties DEF Contents
<1>2. \A i \in 1 .. Len(q) : data[q[i]] \in Seq(Command)
  BY ElementOfSeq
<1>3. Contents(q) \in [1 .. Len(q) -> Seq(Command)]
  BY <1>1, <1>2
<1>4. Contents(q) \in Seq(Seq(Command))
  BY <1>1, <1>3, SeqDef
<1> QED
  BY <1>1, <1>3, <1>4, LenProperties

(* What RemoteDrive calls accepted: the packet task2 has been given, if it  *)
(* has not run since, and those in its queue.                              *)
AcceptedShape ==
  /\ Accepted \in Seq(Seq(Command)) /\ Contents(queue["task2"]) \in Seq(Seq(Command))
  /\ status["task2"] # "given" => Accepted = Contents(queue["task2"])
  /\ status["task2"] = "given" =>
       /\ Slice \in Seq(Command) /\ Len(Accepted) = Len(queue["task2"]) + 1
       /\ Accepted # << >>
       /\ Head(Accepted) = Slice /\ Tail(Accepted) = Contents(queue["task2"])

LEMMA AcceptedSeq == RobotInv => AcceptedShape
<1> SUFFICES ASSUME RobotInv PROVE AcceptedShape
  OBVIOUS
<1>1. queue["task2"] \in Seq(Buffer) /\ data \in [Buffer -> Seq(Command)]
  BY DEF RobotInv, QueueShape, DataShape, Message, Consumer, Task
<1>2. Contents(queue["task2"]) \in Seq(Seq(Command))
      /\ Len(Contents(queue["task2"])) = Len(queue["task2"])
  BY <1>1, ContentsSeq
<1>3. CASE status["task2"] = "given"
  <2>1. Slice \in Seq(Command)
    BY <1>1, <1>3 DEF RobotInv, HandShape, Holder, Slice
  <2>2. Accepted = <<Slice>> \o Contents(queue["task2"]) /\ <<Slice>> \in Seq(Seq(Command))
    BY <1>3, <2>1 DEF Accepted
  <2>3. /\ Accepted \in Seq(Seq(Command))
        /\ Len(Accepted) = Len(queue["task2"]) + 1
        /\ Accepted[1] = Slice
        /\ \A i \in 1 .. Len(queue["task2"]) : Accepted[i + 1] = Contents(queue["task2"])[i]
        /\ Len(queue["task2"]) \in Nat
    BY <1>1, <1>2, <2>2, ConcatProperties
  <2>4. Accepted # << >> /\ Head(Accepted) = Slice
    BY <2>3
  <2>5. Tail(Accepted) = Contents(queue["task2"])
    BY <1>2, <2>3, <2>4, HeadTailProperties, SeqEqual
  <2> QED
    BY <1>1, <1>2, <1>3, <2>1, <2>3, <2>4, <2>5 DEF AcceptedShape
<1>4. CASE status["task2"] # "given"
  BY <1>1, <1>2, <1>4, ConcatEmptySeq DEF Accepted, AcceptedShape
<1> QED
  BY <1>3, <1>4

(* Packets stay as they were accepted as long as their buffers keep their   *)
(* bytes.                                                                  *)
LEMMA SameAccepted ==
  ASSUME RobotInv, queue'["task2"] = queue["task2"],
         status'["task2"] = "given" <=> status["task2"] = "given",
         \A b \in Buffer : Stored(b) => data'[b] = data[b],
         status["task2"] = "given" => Slice' = Slice
  PROVE  Accepted' = Accepted
<1> DEFINE q == queue["task2"]
<1>1. q \in Seq(Buffer)
  BY DEF RobotInv, QueueShape, Message, Consumer, Task
<1>2. \A i \in 1 .. Len(q) : data'[q[i]] = data[q[i]]
  BY <1>1, ElementOfSeq DEF Stored
<1>3. Contents(queue["task2"])' = Contents(queue["task2"])
  BY <1>1, <1>2, LenProperties DEF Contents
<1> QED
  BY <1>3 DEF Accepted

-----------------------------------------------------------------------------
LEMMA PromiseInit == Init => Promise!Init
<1> SUFFICES ASSUME Init PROVE Promise!Init
  OBVIOUS
<1>1. Contents(<< >>) = << >>
  BY DEF Contents
<1>2. Accepted = << >>
  BY <1>1 DEF Init, Accepted, Consumer, Task
<1>3. Current = << >> /\ ~Silent /\ ~Braked
  BY DEF Init, Current, Obeying, Silent, Braked, Task
<1>4. Wanted = Stop
  BY DEF Init, Wanted, Decode, MotorState, Stop
<1>5. dcReg \in Drive
  BY BoundAssumption DEF Init
<1> QED
  BY <1>2, <1>3, <1>4, <1>5 DEF Promise!Init

(* A step the driver of the robot does not notice.                         *)
KeepsPromise ==
  /\ queue'["task2"] = queue["task2"] /\ hand'["task2"] = hand["task2"]
  /\ status'["task2"] = "given" <=> status["task2"] = "given"
  /\ pc'["task2"] = pc["task2"] \/ (pc["task2"] = "got" /\ pc'["task2"] = "obey")
  /\ pc'["task1"] = "start" <=> pc["task1"] = "start"
  /\ UNCHANGED <<next, motora, motorb, dcReg>>
  /\ \A b \in Buffer : Stored(b) \/ b = hand["task2"] => data'[b] = data[b]

LEMMA Unnoticed ==
  ASSUME RobotInv, KeepsPromise
  PROVE  UNCHANGED Promise!vars
<1>1. status["task2"] = "given" \/ pc["task2"] \in {"got", "obey"} => Slice' = Slice
  BY NullAssumption DEF KeepsPromise, RobotInv, HandShape, Holder, Slice
<1>2. Accepted' = Accepted
  BY <1>1, SameAccepted DEF KeepsPromise
<1>3. Current' = Current
  BY <1>1 DEF KeepsPromise, Current, Obeying
<1>4. UNCHANGED <<Silent, Wanted, Braked, dcReg>>
  BY DEF KeepsPromise, Silent, Wanted, Braked
<1> QED
  BY <1>2, <1>3, <1>4 DEF Promise!vars

(* A packet for which there is room is accepted; another is lost.          *)
LEMMA EndIsAccept ==
  ASSUME RobotInv, RobotInv', receiveEnd
  PROVE  Promise!Accept \/ UNCHANGED Promise!vars
<1> USE DEF RobotInv
<1> DEFINE q == queue["task2"]
<1>1. PICK b \in Buffer : /\ Malloc(b) /\ OSQPost("task2", b, ByteHandled)
                          /\ data' = [data EXCEPT ![b] = body]
  BY DEF receiveEnd
<1>2. ~Stored(b) /\ \A t \in Holder : hand[t] # b
  BY <1>1, MallocFresh
<1>3. data'[b] = body /\ \A d \in Buffer \ {b} : data'[d] = data[d]
  BY <1>1 DEF DataShape
<1>4. q \in Seq(Buffer) /\ \A i \in 1 .. Len(q) : q[i] \in Buffer \ {b}
  BY <1>2, ElementOfSeq DEF QueueShape, Message, Consumer, Task, Stored
<1>5. UNCHANGED <<next, motora, motorb, dcReg>>
  BY DEF receiveEnd, receiveHandle, driveVars
<1>6. pc'["task2"] = pc["task2"] /\ pc'["task1"] = pc["task1"]
  BY DEF receiveEnd, receiveHandle, Goto, KernelShape, Task
<1>7. DOMAIN ByteHandled = Task /\ ByteHandled["task2"] = hand["task2"]
  BY DEF ByteHandled, HandShape, Task
<1>a. AcceptedShape /\ AcceptedShape'
  BY AcceptedSeq, PTL
<1>8. Accepted \in Seq(Seq(Command)) /\ Accepted' \in Seq(Seq(Command))
  BY <1>a DEF AcceptedShape
<1>9. CASE Waiting("task2")
  <2>1. q = << >> /\ pc["task2"] = "pend" /\ status["task2"] # "given"
    BY <1>9 DEF QueueShape, KernelShape, Waiting, Consumer, Task
  <2>2. UNCHANGED queue /\ status'["task2"] = "given"
    BY <1>1, <1>9 DEF OSQPost, Accepts, KernelShape, Task
  <2>3. Accepted = << >> /\ Len(Accepted') = 1
    <3>1. Contents(<< >>) = << >>
      BY DEF Contents
    <3>2. Accepted = << >>
      BY <2>1, <3>1, <1>a DEF AcceptedShape
    <3>3. Len(Accepted') = Len(queue'["task2"]) + 1
      BY <2>2, <1>a DEF AcceptedShape
    <3> QED
      BY <2>1, <2>2, <3>2, <3>3
  <2>4. Current = << >> /\ Current' = << >>
    BY <1>6, <2>1, <2>2 DEF Current, Obeying
  <2>5. UNCHANGED <<Silent, Wanted, dcReg, Braked>>
    BY <1>5, <1>6 DEF Silent, Wanted, Braked
  <2>6. SubSeq(Accepted', 1, Len(Accepted)) = Accepted
    BY <2>3, SubSeqEmpty
  <2> QED
    BY <1>8, <2>3, <2>4, <2>5, <2>6, LengthAssumption
       DEF Promise!Accept, Consumer, Task
<1>10. CASE ~Waiting("task2") /\ Accepts("task2")
  <2>1. /\ UNCHANGED status /\ hand'["task2"] = hand["task2"]
        /\ queue'["task2"] = Append(q, b)
    BY <1>1, <1>7, <1>10 DEF OSQPost, QueueShape, Consumer, Task
  <2>2. /\ Len(queue'["task2"]) = Len(q) + 1 /\ Len(q) \in Nat
        /\ \A i \in 1 .. Len(q) : queue'["task2"][i] = q[i]
    BY <1>4, <2>1, AppendProperties
  <2>3. status["task2"] = "given" \/ pc["task2"] \in {"got", "obey"} => Slice' = Slice
    BY <1>2, <1>3, <2>1 DEF HandShape, Slice, Holder
  <2>4. /\ Contents(q) \in Seq(Seq(Command)) /\ Len(Contents(q)) = Len(q)
        /\ \A i \in 1 .. Len(q) : Contents(q)[i] = data[q[i]]
    BY <1>4, ContentsSeq DEF DataShape
  <2>5. /\ Contents(queue["task2"])' \in Seq(Seq(Command))
        /\ Len(Contents(queue["task2"])') = Len(q) + 1
        /\ \A i \in 1 .. Len(q) + 1 : Contents(queue["task2"])'[i] = data'[queue'["task2"][i]]
    <3>1. queue'["task2"] \in Seq(Buffer) /\ data' \in [Buffer -> Seq(Command)]
      BY DEF QueueShape, DataShape, Message, Consumer, Task
    <3>2. Contents(queue["task2"])' = [i \in 1 .. Len(q) + 1 |-> data'[queue'["task2"][i]]]
      BY <2>2, <3>1, LenProperties DEF Contents
    <3>3. \A i \in 1 .. Len(q) + 1 : data'[queue'["task2"][i]] \in Seq(Command)
      BY <2>2, <3>1, ElementOfSeq
    <3>4. Contents(queue["task2"])' \in [1 .. Len(q) + 1 -> Seq(Command)]
      BY <3>2, <3>3
    <3>5. Contents(queue["task2"])' \in Seq(Seq(Command))
      BY <1>a DEF AcceptedShape
    <3> QED
      BY <2>2, <3>2, <3>4, <3>5, LenProperties
  <2>6. \A i \in 1 .. Len(q) : Contents(queue["task2"])'[i] = Contents(q)[i]
    <3> TAKE i \in 1 .. Len(q)
    <3>1. queue'["task2"][i] = q[i] /\ q[i] \in Buffer \ {b}
      BY <1>4, <2>2
    <3>2. data'[queue'["task2"][i]] = data[q[i]]
      BY <1>3, <3>1
    <3>3. i \in 1 .. Len(q) + 1
      BY <2>2
    <3> QED
      BY <2>4, <2>5, <3>2, <3>3
  <2>7. /\ Len(Accepted') = Len(Accepted) + 1 /\ Len(Accepted) <= Len(q) + 1
        /\ \A i \in 1 .. Len(Accepted) : Accepted'[i] = Accepted[i]
    <3>1. CASE status["task2"] = "given"
      <4>1. Slice' = Slice /\ Slice \in Seq(Command)
        BY <2>3, <3>1, <1>a DEF AcceptedShape
      <4>2. Accepted = <<Slice>> \o Contents(q)
            /\ Accepted' = <<Slice>> \o Contents(queue["task2"])'
        BY <2>1, <3>1, <4>1 DEF Accepted
      <4>3. <<Slice>> \in Seq(Seq(Command)) /\ Len(<<Slice>>) = 1
        BY <4>1
      <4>4. Len(Accepted) = Len(q) + 1 /\ Len(Accepted') = Len(q) + 2
        BY <2>2, <2>4, <2>5, <4>2, <4>3, ConcatProperties
      <4>5. \A i \in 1 .. Len(q) + 1 :
              Accepted[i] = IF i <= 1 THEN <<Slice>>[i] ELSE Contents(q)[i - 1]
        BY <2>2, <2>4, <4>2, <4>3, ConcatProperties
      <4>6. \A i \in 1 .. Len(q) + 2 :
              Accepted'[i] = IF i <= 1 THEN <<Slice>>[i] ELSE Contents(queue["task2"])'[i - 1]
        BY <2>2, <2>5, <4>2, <4>3, ConcatProperties
      <4> QED
        BY <2>2, <2>6, <4>4, <4>5, <4>6
    <3>2. CASE status["task2"] # "given"
      <4>1. Accepted = Contents(q) /\ Accepted' = Contents(queue["task2"])'
        BY <2>1, <3>2, <1>a DEF AcceptedShape
      <4> QED
        BY <2>2, <2>4, <2>5, <2>6, <4>1
    <3> QED
      BY <3>1, <3>2
  <2>8. SubSeq(Accepted', 1, Len(Accepted)) = Accepted
    <3>1. Len(Accepted) \in Nat
      BY <1>8, LenProperties
    <3>2. \A i \in 1 .. Len(Accepted) : Accepted'[i] \in Seq(Command)
      BY <1>8, <2>7, ElementOfSeq
    <3> QED
      BY <1>8, <2>7, <3>1, <3>2, SubSeqProperties, SeqEqual
  <2>9. Len(Accepted) < QueueLength["task2"] + 1
    BY <1>10, <2>2, <2>7, <1>8, LenProperties, LengthAssumption
       DEF Accepts, Consumer, Task
  <2>10. Current' = Current
    BY <1>5, <1>6, <2>1, <2>3 DEF Current, Obeying
  <2>11. UNCHANGED <<Silent, Wanted, dcReg, Braked>>
    BY <1>5, <1>6 DEF Silent, Wanted, Braked
  <2> QED
    BY <1>8, <2>7, <2>8, <2>9, <2>10, <2>11 DEF Promise!Accept
<1>11. CASE ~Accepts("task2")
  <2>1. UNCHANGED <<status, queue>> /\ hand'["task2"] = hand["task2"]
    BY <1>1, <1>7, <1>11 DEF OSQPost, Accepts, kernelVars
  <2> QED
    BY <1>2, <1>3, <1>5, <1>6, <2>1, Unnoticed DEF KeepsPromise, Holder
<1> QED
  BY <1>9, <1>10, <1>11

-----------------------------------------------------------------------------
(* task2 finds the oldest packet in its queue and begins with it.          *)
LEMMA TakeIsBegin ==
  ASSUME RobotInv, RobotInv', PendTake("task2")
  PROVE  Promise!Begin
<1> USE DEF RobotInv
<1>a. AcceptedShape /\ AcceptedShape'
  BY AcceptedSeq, PTL
<1>1. /\ status["task2"] = "run" /\ pc["task2"] = "pend" /\ queue["task2"] # << >>
      /\ UNCHANGED <<status, data, next, motora, motorb, dcReg>>
      /\ queue'["task2"] = Tail(queue["task2"]) /\ hand'["task2"] = Head(queue["task2"])
  BY DEF PendTake, At, QueueShape, HandShape, driveVars, heapVars, Consumer,
         Task
<1>2. pc'["task2"] = "got" /\ pc'["task1"] = pc["task1"]
  BY DEF PendTake, Goto, KernelShape, Task
<1>3. queue["task2"] \in Seq(Buffer) /\ data \in [Buffer -> Seq(Command)]
  BY DEF QueueShape, DataShape, Message, Consumer, Task
<1>4. /\ Len(Contents(queue["task2"])) = Len(queue["task2"]) /\ Len(queue["task2"]) \in Nat \ {0}
      /\ \A i \in 1 .. Len(queue["task2"]) : Contents(queue["task2"])[i] = data[queue["task2"][i]]
  BY <1>1, <1>3, ContentsSeq, EmptySeq
<1>5. Accepted = Contents(queue["task2"]) /\ Accepted' = Contents(queue["task2"])'
  BY <1>1, <1>a DEF AcceptedShape
<1>6. Accepted # << >> /\ Head(Accepted) = Slice'
  BY <1>1, <1>4, <1>5 DEF Slice
<1>7. Tail(Accepted) = Accepted'
  <2>1. /\ Tail(queue["task2"]) \in Seq(Buffer)
        /\ Len(Tail(queue["task2"])) = Len(queue["task2"]) - 1
        /\ \A i \in 1 .. Len(queue["task2"]) - 1 : Tail(queue["task2"])[i] = queue["task2"][i + 1]
    BY <1>1, <1>3, HeadTailProperties
  <2>2. Accepted' = Contents(Tail(queue["task2"]))
    BY <1>1, <1>5 DEF Contents
  <2>3. /\ Len(Accepted') = Len(queue["task2"]) - 1
        /\ \A i \in 1 .. Len(queue["task2"]) - 1 : Accepted'[i] = data[queue["task2"][i + 1]]
    <3>1. Len(Accepted') = Len(Tail(queue["task2"]))
          /\ \A i \in 1 .. Len(Tail(queue["task2"])) : Accepted'[i] = data[Tail(queue["task2"])[i]]
      BY <1>3, <2>1, <2>2, ContentsSeq
    <3> QED
      BY <2>1, <3>1
  <2>4. /\ Tail(Accepted) \in Seq(Seq(Command)) /\ Len(Tail(Accepted)) = Len(queue["task2"]) - 1
        /\ \A i \in 1 .. Len(queue["task2"]) - 1 : Tail(Accepted)[i] = Accepted[i + 1]
    BY <1>4, <1>5, <1>6, <1>a, HeadTailProperties DEF AcceptedShape
  <2>5. \A i \in 1 .. Len(queue["task2"]) - 1 : Tail(Accepted)[i] = Accepted'[i]
    <3> TAKE i \in 1 .. Len(queue["task2"]) - 1
    <3>1. i + 1 \in 1 .. Len(queue["task2"])
      BY <1>4
    <3>2. Accepted[i + 1] = data[queue["task2"][i + 1]]
      BY <1>4, <1>5, <3>1
    <3> QED
      BY <2>3, <2>4, <3>2
  <2> QED
    BY <1>a, <2>3, <2>4, <2>5, SeqEqual DEF AcceptedShape
<1>8. Current = << >> /\ Current' = Slice'
  <2>1. next' = 1
    BY <1>1 DEF DataShape
  <2>2. Slice' \in Seq(Command)
    BY <1>2, NullAssumption DEF DataShape, HandShape, Holder, Slice
  <2> QED
    BY <1>1, <1>2, <2>1, <2>2, SubSeqFull DEF Current, Obeying
<1>9. ~Silent /\ UNCHANGED <<Silent, Wanted, dcReg, Braked>>
  BY <1>1, <1>2 DEF Silent, Wanted, Braked
<1> QED
  BY <1>6, <1>7, <1>8, <1>9 DEF Promise!Begin

(* After its wait task2 begins with the packet it was given, or gives up.  *)
LEMMA ReturnIsBegin ==
  ASSUME RobotInv, RobotInv', PendReturn("task2")
  PROVE  Promise!Begin \/ Promise!GiveUp
<1> USE DEF RobotInv
<1>a. AcceptedShape /\ AcceptedShape'
  BY AcceptedSeq, PTL
<1>1. /\ UNCHANGED <<queue, hand, data, next, motora, motorb, dcReg>>
      /\ status'["task2"] = "run" /\ pc'["task1"] = pc["task1"]
      /\ \/ status["task2"] = "given" /\ pc'["task2"] = "got"
         \/ status["task2"] = "expired" /\ pc'["task2"] = "timeout"
  BY DEF PendReturn, Goto, KernelShape, driveVars, heapVars, Task
<1>2. pc["task2"] = "pend" /\ Contents(queue["task2"])' = Contents(queue["task2"])
  BY <1>1 DEF KernelShape, Contents, Consumer, Task
<1>3. Accepted' = Contents(queue["task2"])
  BY <1>1, <1>2, <1>a DEF AcceptedShape
<1>4. Current = << >> /\ ~Silent /\ UNCHANGED <<Wanted, dcReg, Braked>>
  BY <1>1, <1>2 DEF Current, Obeying, Silent, Wanted, Braked
<1>5. CASE status["task2"] = "given"
  <2>1. Slice' = Slice /\ Slice \in Seq(Command) /\ next' = 1
    BY <1>1, <1>2, <1>5, <1>a DEF Slice, AcceptedShape, DataShape
  <2>2. Current' = Slice /\ UNCHANGED Silent
    BY <1>1, <1>2, <1>5, <2>1, SubSeqFull DEF Current, Obeying, Silent
  <2>3. Accepted # << >> /\ Head(Accepted) = Slice /\ Tail(Accepted) = Accepted'
    BY <1>3, <1>5, <1>a DEF AcceptedShape
  <2> QED
    BY <1>4, <2>2, <2>3 DEF Promise!Begin
<1>6. CASE status["task2"] = "expired" /\ pc'["task2"] = "timeout"
  <2>1. queue["task2"] = << >>
    BY <1>6 DEF QueueShape, Waiting, Consumer, Task
  <2>2. Contents(<< >>) = << >>
    BY DEF Contents
  <2>3. Accepted = << >> /\ Accepted' = << >>
    BY <1>3, <1>6, <1>a, <2>1, <2>2 DEF AcceptedShape
  <2>4. Silent' /\ Current' = << >>
    BY <1>6 DEF Silent, Current, Obeying
  <2> QED
    BY <1>4, <2>3, <2>4 DEF Promise!GiveUp
<1> QED
  BY <1>1, <1>5, <1>6

LEMMA ByteIsObey ==
  ASSUME RobotInv, RobotInv', task2Byte
  PROVE  Promise!Obey
<1> USE DEF RobotInv
<1> DEFINE c == Slice[next]
<1>1. /\ UNCHANGED <<status, queue, hand, pc, data>> /\ next' = next + 1
      /\ status["task2"] = "run" /\ pc["task2"] = "obey" /\ next <= Len(Slice)
      /\ handle_bluetooth_input(c)
  BY DEF task2Byte, At, kernelVars, heapVars
<1>2. Slice \in Seq(Command) /\ Slice' = Slice /\ next \in 1 .. Len(Slice)
  BY <1>1, LenProperties DEF HandShape, DataShape, Holder, Slice
<1>3. Current = SubSeq(Slice, next, Len(Slice)) /\ Current' = SubSeq(Slice, next + 1, Len(Slice))
  BY <1>1, <1>2 DEF Current, Obeying
<1>4. Head(Current) = c /\ Tail(Current) = Current'
  BY <1>2, <1>3, LenProperties, HeadTailOfSubSeq
<1>5. Current # << >>
  <2>1. /\ next \in Int /\ Len(Slice) \in Int
        /\ \A i \in next .. Len(Slice) : Slice[i] \in Command
    BY <1>2, LenProperties, ElementOfSeq
  <2>2. Len(Current) = Len(Slice) - next + 1
    BY <1>2, <1>3, <2>1, SubSeqProperties
  <2> QED
    BY <1>2, <2>1, <2>2
<1>6. Wanted' = Obeyed(c, Wanted) /\ dcReg' = Obeyed(c, dcReg)
  <2>1. DOMAIN Meaning = DOMAIN Codes
    BY DEF Meaning, Codes
  <2>2. CASE c \in DOMAIN Codes
    BY <1>1, <2>1, <2>2, CodesMean
       DEF handle_bluetooth_input, dc_driver_write, Wanted, Obeyed
  <2>3. CASE c \notin DOMAIN Codes
    BY <1>1, <2>1, <2>3 DEF handle_bluetooth_input, Wanted, Obeyed
  <2> QED
    BY <2>2, <2>3
<1>7. Accepted' = Accepted
  BY <1>1, <1>2, SameAccepted
<1>8. UNCHANGED <<Silent, Braked>>
  BY <1>1 DEF Silent, Braked
<1> QED
  BY <1>4, <1>5, <1>6, <1>7, <1>8 DEF Promise!Obey

LEMMA TimeoutIsFallSilent ==
  ASSUME RobotInv, task2Timeout
  PROVE  Promise!FallSilent
<1> USE DEF RobotInv
<1>1. /\ UNCHANGED <<status, queue, hand, data>> /\ pc["task2"] = "timeout"
      /\ motora' = 0 /\ motorb' = 0 /\ dcReg' = Stop
      /\ pc'["task2"] = "pend" /\ pc'["task1"] = pc["task1"]
  BY StopCommand
     DEF task2Timeout, At, Goto, KernelShape, Task, kernelVars, heapVars
<1>2. Wanted' = Stop
  BY <1>1 DEF Wanted, Decode, MotorState, Stop
<1>3. Accepted' = Accepted
  BY <1>1, SameAccepted DEF Slice
<1>4. Current = << >> /\ Current' = << >> /\ Silent /\ ~Silent' /\ UNCHANGED Braked
  BY <1>1 DEF Current, Obeying, Silent, Braked
<1> QED
  BY <1>1, <1>2, <1>3, <1>4 DEF Promise!FallSilent

(* The end of a packet is the end of its last byte to the driver.          *)
LEMMA FreeUnnoticed ==
  ASSUME RobotInv, RobotInv', task2Free
  PROVE  UNCHANGED Promise!vars
<1> USE DEF RobotInv
<1>1. /\ UNCHANGED <<status, queue, motora, motorb, dcReg>>
      /\ status["task2"] = "run" /\ pc["task2"] = "obey" /\ next > Len(Slice)
      /\ pc'["task2"] = "pend" /\ pc'["task1"] = pc["task1"]
      /\ free(hand["task2"])
  BY DEF task2Free, At, Goto, KernelShape, Task, kernelVars
<1>2. InHand(hand["task2"]) /\ hand["task2"] \in Buffer
  BY <1>1 DEF HandShape, Holder, InHand
<1>3. \A b \in Buffer : Stored(b) => data'[b] = data[b]
  BY <1>1, <1>2, FreeData DEF DataShape, Ownership, HeapOwned
<1>4. Accepted' = Accepted
  BY <1>1, <1>3, SameAccepted
<1>5. Slice \in Seq(Command)
  BY <1>2 DEF DataShape, Slice
<1>6. Current = << >> /\ Current' = << >>
  BY <1>1, <1>5, SubSeqEmpty, LenProperties DEF Current, Obeying, DataShape
<1>7. UNCHANGED <<Silent, Wanted, Braked, dcReg>>
  BY <1>1 DEF Silent, Wanted, Braked
<1> QED
  BY <1>4, <1>6, <1>7 DEF Promise!vars

LEMMA BrakeIsBrake ==
  ASSUME RobotInv, task1Brake
  PROVE  Promise!Brake
<1> USE DEF RobotInv
<1>1. /\ UNCHANGED <<status, queue, hand, data, next, motora, motorb>>
      /\ pc["task1"] = "start" /\ pc'["task1"] = "range" /\ pc'["task2"] = pc["task2"]
  BY DEF task1Brake, At, Goto, KernelShape, Task, kernelVars, heapVars
<1>2. dcReg' = Stop
  BY DEF task1Brake, dc_driver_write, Decode, MotorState, Stop
<1>3. Accepted' = Accepted
  BY <1>1, SameAccepted DEF Slice
<1>4. UNCHANGED <<Current, Silent, Wanted>> /\ ~Braked /\ Braked'
  BY <1>1 DEF Current, Obeying, Slice, Silent, Wanted, Braked
<1> QED
  BY <1>2, <1>3, <1>4 DEF Promise!Brake

(* All other steps leave what the driver of the robot sees as it is.       *)
LEMMA OtherUnnoticed ==
  ASSUME SenderInv, RobotInv,
         \/ \E b \in Bytes : bluetoothIRQ(b)
         \/ OSTimeTick
         \/ \E c \in {"receiveTask", "sendTask"} : OSQPend(c)
         \/ PendBlock("task2")
         \/ \E t \in Task : Resume(t)
         \/ receiveLog \/ receiveStart \/ receiveData \/ receiveStrayEnd
         \/ sendTask \/ task2Log
         \/ task1Range \/ task1Alloc \/ task1Load \/ task1Count \/ task1Post
  PROVE  KeepsPromise
<1> USE DEF RobotInv
<1>1. ASSUME NEW b \in Bytes, bluetoothIRQ(b) PROVE KeepsPromise
  <2>1. OSQPost("receiveTask", b, hand) /\ UNCHANGED <<pc, driveVars, data>>
    BY <1>1 DEF bluetoothIRQ, heapVars
  <2>2. /\ queue'["task2"] = queue["task2"] /\ hand'["task2"] = hand["task2"]
        /\ status'["task2"] = status["task2"]
    BY <2>1
       DEF OSQPost, kernelVars, QueueShape, HandShape, KernelShape, Consumer,
           Task
  <2> QED
    BY <2>1, <2>2 DEF KeepsPromise, driveVars
<1>2. CASE OSTimeTick
  <2>1. status'["task2"] = IF timer["task2"] = 1 THEN Expire("task2") ELSE status["task2"]
    BY <1>2 DEF OSTimeTick, Task
  <2> QED
    BY <1>2, <2>1
       DEF OSTimeTick, Expire, KernelShape, KeepsPromise, heapVars, Task
<1>3. ASSUME NEW c \in {"receiveTask", "sendTask"}, OSQPend(c) PROVE KeepsPromise
  <2>1. UNCHANGED <<driveVars, data>>
    BY <1>3 DEF OSQPend, PendTake, PendBlock, PendReturn, heapVars
  <2>2. /\ queue'["task2"] = queue["task2"] /\ hand'["task2"] = hand["task2"]
        /\ status'["task2"] = status["task2"]
    BY <1>3
       DEF OSQPend, PendTake, PendBlock, PendReturn, QueueShape, HandShape,
           KernelShape, Consumer, Task
  <2>3. pc'["task2"] = pc["task2"] /\ pc'["task1"] = pc["task1"]
    BY <1>3
       DEF OSQPend, PendTake, PendBlock, PendReturn, Goto, KernelShape, Task
  <2> QED
    BY <2>1, <2>2, <2>3 DEF KeepsPromise, driveVars
<1>4. CASE PendBlock("task2")
  BY <1>4
     DEF PendBlock, At, KernelShape, KeepsPromise, driveVars, heapVars, Task
<1>5. ASSUME NEW t \in Task, Resume(t) PROVE KeepsPromise
  BY <1>5 DEF Resume, KernelShape, KeepsPromise, driveVars, heapVars, Task
<1>6. CASE receiveLog
  BY <1>6
     DEF receiveLog, MayBeHeld, Goto, KernelShape, KeepsPromise, driveVars,
         heapVars, Task
<1>7. CASE receiveStart \/ receiveData \/ receiveStrayEnd
  BY <1>7
     DEF receiveStart, receiveData, receiveStrayEnd, receiveHandle, ByteHandled,
         Goto, KernelShape, HandShape, KeepsPromise, kernelVars, driveVars,
         heapVars, Task
<1>8. CASE sendLoad \/ sendUncount
  BY <1>8
     DEF sendLoad, sendUncount, Goto, KernelShape, KeepsPromise, kernelVars,
         driveVars, heapVars, Task
<1>9. CASE sendFree
  <2>1. /\ UNCHANGED <<status, queue, driveVars>> /\ hand'["task2"] = hand["task2"]
        /\ pc["sendTask"] = "free" /\ free(hand["sendTask"])
        /\ pc'["task2"] = pc["task2"] /\ pc'["task1"] = pc["task1"]
    BY <1>9 DEF sendFree, At, Goto, KernelShape, HandShape, kernelVars, Task
  <2>2. hand["sendTask"] \in Buffer /\ InHand(hand["sendTask"]) /\ hand["task2"] # hand["sendTask"]
    BY <2>1 DEF HandShape, Holder, InHand, Ownership, HandsDiffer
  <2>3. \A b \in Buffer : Stored(b) \/ b = hand["task2"] => data'[b] = data[b]
    BY <2>1, <2>2, FreeData DEF DataShape, Ownership, HeapOwned
  <2> QED
    BY <2>1, <2>3 DEF KeepsPromise, driveVars
<1>10. CASE task2Log
  BY <1>10
     DEF task2Log, At, MayBeHeld, Goto, KernelShape, KeepsPromise, kernelVars,
         driveVars, heapVars, Task
<1>11. CASE task1Range \/ task1Alloc \/ task1Load \/ task1Count
  BY <1>11
     DEF task1Range, task1Alloc, task1Load, task1Count, At, Goto, KernelShape,
         HandShape, KeepsPromise, kernelVars, driveVars, heapVars, Task
<1>12. CASE task1Post
  <2>1. /\ OSQPost("sendTask", hand["task1"], [hand EXCEPT !["task1"] = NULL])
        /\ UNCHANGED <<driveVars, data>> /\ pc["task1"] = "post" /\ pc'["task1"] = "range"
        /\ pc'["task2"] = pc["task2"]
    BY <1>12 DEF task1Post, At, Goto, KernelShape, Task
  <2>2. /\ queue'["task2"] = queue["task2"] /\ hand'["task2"] = hand["task2"]
        /\ status'["task2"] = status["task2"]
    BY <2>1
       DEF OSQPost, kernelVars, QueueShape, HandShape, KernelShape, Consumer,
           Task
  <2> QED
    BY <2>1, <2>2 DEF KeepsPromise, driveVars
<1> QED
  BY <1>1, <1>2, <1>3, <1>4, <1>5, <1>6, <1>7, <1>8, <1>9, <1>10, <1>11, <1>12
     DEF sendTask

(* Packets are obeyed in order and completely, and of their own accord the  *)
(* motors stop only when nothing is left to obey or task1 starts.          *)
THEOREM ImplementsRemoteDriveHolds == Spec => ImplementsRemoteDrive
<1>1. ASSUME SenderInv, RobotInv, RobotInv', [Next]_vars
      PROVE  [Promise!Next]_(Promise!vars)
  <2>1. CASE receiveEnd \/ task2Byte \/ task2Timeout \/ task2Free \/ task1Brake
             \/ PendTake("task2") \/ PendReturn("task2")
    BY <1>1, <2>1, EndIsAccept, TakeIsBegin, ReturnIsBegin, ByteIsObey,
       TimeoutIsFallSilent, FreeUnnoticed, BrakeIsBrake
       DEF Promise!Next
  <2>2. CASE UNCHANGED vars
    <3>1. KeepsPromise
      BY <2>2 DEF vars, kernelVars, driveVars, heapVars, KeepsPromise
    <3> QED
      BY <1>1, <3>1, Unnoticed
  <2>3. CASE ~(receiveEnd \/ task2Byte \/ task2Timeout \/ task2Free \/ task1Brake
               \/ PendTake("task2") \/ PendReturn("task2")) /\ Next
    <3>1. KeepsPromise
      BY <1>1, <2>3, OtherUnnoticed
         DEF Next, Bytes, OSQPend, receiveTask, task2, task1, Consumer, Task
    <3> QED
      BY <1>1, <3>1, Unnoticed
  <2> QED
    BY <1>1, <2>1, <2>2, <2>3
<1> QED
  BY <1>1, PromiseInit, SenderInductive, RobotInductive, PTL
     DEF Spec, ImplementsRemoteDrive, Promise!Spec
-----------------------------------------------------------------------------
(* THE LINK, SENDER.  The identifier counts what has been taken off the    *)
(* queue; while a packet is under way it is the one in the packet's first  *)
(* byte plus 1.                                                            *)
Due == IF sentId = -1 THEN FirstId ELSE (sentId + 1) % Radix

IdInv ==
  /\ packetId \in Out!Byte /\ sentId \in Out!Byte \cup {-1}
  /\ place = "pend" => packetId = Due
  /\ place # "pend" => buf[1] = Due /\ packetId = (Due + 1) % Radix

(* Where send is: at a byte of the packet, in a copy still to be sent.     *)
AtByte ==
  /\ place \in {"escape", "byte"} => nextByte < Len(buf)
  /\ IF place = "pend" THEN nextByte = 0 ELSE copy < Copies /\ Len(buf) >= 2

LEMMA SendBytes ==
  /\ Radix \in Nat \ {0}
  /\ {START_BYTE, END_BYTE, ESCAPE_BYTE, FirstId} \subseteq 0 .. Radix - 1
  /\ START_BYTE # END_BYTE /\ START_BYTE # ESCAPE_BYTE /\ END_BYTE # ESCAPE_BYTE
  /\ \A p \in Payload : p \in Seq(0 .. Radix - 1) /\ Len(p) + 2 < Radix
  /\ Copies \in Nat \ {0}
BY OutAssumption DEF Out!ByteAssumption

LEMMA DueIsByte ==
  \A n \in Out!Byte \cup {-1} : (n + 1) % Radix \in Out!Byte
BY SendBytes DEF Out!Byte

(* The packet taken has a header of two bytes in front of its payload.     *)
LEMMA Header ==
  ASSUME NEW p \in Payload, NEW id \in Out!Byte
  PROVE  /\ <<id, Len(p)>> \o p \in Seq(Out!Byte)
         /\ (<<id, Len(p)>> \o p)[1] = id
         /\ Len(<<id, Len(p)>> \o p) >= 2
<1>1. p \in Seq(Out!Byte) /\ Len(p) \in Out!Byte
  BY SendBytes DEF Out!Byte
<1>2. <<id, Len(p)>> \in Seq(Out!Byte)
  BY <1>1
<1> QED
  BY <1>1, <1>2

LEMMA DecoderTypes ==
  ASSUME NEW d \in Out!Decoder, NEW b \in Out!Byte
  PROVE  Out!DecodeByte(d, b) \in Out!Decoder
<1>1. Append(d.body, b) \in Seq(Out!Byte) /\ Append(d.frames, d.body) \in Seq(Seq(Out!Byte))
  BY DEF Out!Decoder
<1>2. << >> \in Seq(Out!Byte)
  OBVIOUS
<1> QED
  BY <1>1, <1>2 DEF Out!DecodeByte, Out!Decoder

LEMMA LinkInitial == Out!Init => Out!TypeOK /\ AtByte /\ IdInv
BY SendBytes DEF Out!Init, Out!TypeOK, AtByte, IdInv, Due, Out!Byte, Out!DecoderStart, Out!Decoder

LEMMA TakeTypes ==
  ASSUME Out!TypeOK, AtByte, NEW p \in Payload, Out!TakePacket(p)
  PROVE  Out!TypeOK' /\ AtByte'
<1>1. buf' \in Seq(Out!Byte) /\ Len(buf') >= 2 /\ packetId' \in Out!Byte
  BY Header, DueIsByte DEF Out!TakePacket, Out!TypeOK
<1>2. heard' \in Out!Decoder
  <2>1. << >> \in Seq(Seq(Out!Byte))
    OBVIOUS
  <2> QED
    BY <2>1 DEF Out!TakePacket, Out!TypeOK, Out!Decoder
<1> QED
  BY <1>1, <1>2, SendBytes DEF Out!TakePacket, Out!TypeOK, AtByte

LEMMA SendTypes ==
  ASSUME Out!TypeOK, AtByte, Out!SendStart \/ Out!SendEscape \/ Out!SendByte \/ Out!SendEnd
  PROVE  Out!TypeOK' /\ AtByte'
<1>1. ASSUME NEW b \in Out!Byte, Out!Transmit(b)
      PROVE  heard' \in Out!Decoder /\ trdy' \in BOOLEAN
  BY <1>1, DecoderTypes DEF Out!Transmit, Out!TypeOK
<1>2. Out!Special \subseteq Out!Byte
  BY SendBytes DEF Out!Special, Out!Byte
<1>3. \A i \in 0 .. Len(buf) :
        /\ Out!LoopAt(i) \in {"escape", "byte", "end"}
        /\ Out!LoopAt(i) # "end" => i < Len(buf)
  BY DEF Out!LoopAt, Out!TypeOK
<1>4. CASE Out!SendStart
  BY <1>1, <1>2, <1>3, <1>4 DEF Out!SendStart, Out!TypeOK, AtByte, Out!Special
<1>5. CASE Out!SendEscape
  BY <1>1, <1>2, <1>5 DEF Out!SendEscape, Out!TypeOK, AtByte, Out!Special
<1>6. CASE Out!SendByte
  <2>1. nextByte + 1 \in 0 .. Len(buf) /\ buf[nextByte + 1] \in Out!Byte
    BY <1>6 DEF Out!SendByte, Out!TypeOK, AtByte
  <2> QED
    BY <1>1, <1>3, <1>6, <2>1 DEF Out!SendByte, Out!TypeOK, AtByte
<1>7. CASE Out!SendEnd
  <2>1. buf[1] \in Out!Byte /\ Copies \in Nat
    BY <1>7, SendBytes DEF Out!SendEnd, Out!TypeOK, AtByte
  <2>2. heard' \in Out!Decoder /\ trdy' \in BOOLEAN
    BY <1>1, <1>2, <1>7 DEF Out!SendEnd, Out!Special
  <2> QED
    BY <1>7, <2>1, <2>2 DEF Out!SendEnd, Out!TypeOK, AtByte
<1> QED
  BY <1>4, <1>5, <1>6, <1>7

LEMMA TypesKept ==
  ASSUME Out!TypeOK, AtByte, [Out!Next]_(Out!vars)
  PROVE  Out!TypeOK' /\ AtByte'
<1>1. CASE Out!UartShift
  BY <1>1 DEF Out!UartShift, Out!TypeOK, AtByte
<1>2. CASE UNCHANGED Out!vars
  BY <1>2 DEF Out!vars, Out!TypeOK, AtByte
<1> QED
  BY <1>1, <1>2, TakeTypes, SendTypes DEF Out!Next

LEMMA IdStep ==
  ASSUME Out!TypeOK, AtByte, IdInv, [Out!Next]_(Out!vars)
  PROVE  IdInv' /\ Out!IdFollows
<1>1. ASSUME NEW p \in Payload, Out!TakePacket(p)
      PROVE  IdInv' /\ Out!IdFollows
  <2>1. buf'[1] = packetId /\ packetId' = (packetId + 1) % Radix /\ packetId' \in Out!Byte
    BY <1>1, Header, DueIsByte DEF Out!TakePacket, IdInv
  <2>2. place = "pend" /\ place' = "start" /\ sentId' = sentId
    BY <1>1 DEF Out!TakePacket
  <2> QED
    BY <2>1, <2>2 DEF IdInv, Due, Out!IdFollows
<1>2. CASE Out!SendStart \/ Out!SendEscape \/ Out!SendByte \/ Out!UartShift \/ UNCHANGED Out!vars
  <2>1. UNCHANGED <<packetId, buf, sentId>> /\ (place' = "pend" <=> place = "pend")
    BY <1>2 DEF Out!SendStart, Out!SendEscape, Out!SendByte, Out!UartShift, Out!vars, Out!LoopAt
  <2> QED
    BY <2>1 DEF IdInv, Due, Out!IdFollows
<1>3. CASE Out!SendEnd /\ place' = "start"
  <2>1. UNCHANGED <<packetId, buf, sentId>> /\ place = "end"
    BY <1>3 DEF Out!SendEnd
  <2> QED
    BY <1>3, <2>1 DEF IdInv, Due, Out!IdFollows
<1>4. CASE Out!SendEnd /\ place' = "pend"
  <2>1. sentId' = buf[1] /\ buf[1] = Due /\ packetId = (Due + 1) % Radix /\ UNCHANGED packetId
    BY <1>4 DEF Out!SendEnd, IdInv
  <2>2. Due \in Out!Byte
    BY DueIsByte, SendBytes DEF Due, IdInv, Out!Byte
  <2>3. Due' = (Due + 1) % Radix
    BY <2>1, <2>2, SendBytes DEF Due, Out!Byte
  <2> QED
    BY <1>4, <2>1, <2>2, <2>3 DEF IdInv, Due, Out!IdFollows
<1> QED
  BY <1>1, <1>2, <1>3, <1>4 DEF Out!Next, Out!SendEnd

LEMMA ExtendSub ==
  ASSUME NEW S, NEW s \in Seq(S), NEW n \in Nat, n < Len(s)
  PROVE  Append(SubSeq(s, 1, n), s[n + 1]) = SubSeq(s, 1, n + 1)
<1>1. /\ SubSeq(s, 1, n) \in Seq(S) /\ Len(SubSeq(s, 1, n)) = n
      /\ \A i \in 1 .. n : SubSeq(s, 1, n)[i] = s[i]
  BY SubSeqProperties
<1>2. /\ SubSeq(s, 1, n + 1) \in Seq(S) /\ Len(SubSeq(s, 1, n + 1)) = n + 1
      /\ \A i \in 1 .. n + 1 : SubSeq(s, 1, n + 1)[i] = s[i]
  BY SubSeqProperties
<1>3. s[n + 1] \in S
  OBVIOUS
<1>4. ASSUME NEW q \in Seq(S), Len(q) = n, \A i \in 1 .. n : q[i] = s[i]
      PROVE  /\ Append(q, s[n + 1]) \in Seq(S)
             /\ Len(Append(q, s[n + 1])) = n + 1
             /\ \A i \in 1 .. n + 1 : Append(q, s[n + 1])[i] = s[i]
  BY <1>3, <1>4
<1>5. /\ Append(SubSeq(s, 1, n), s[n + 1]) \in Seq(S)
      /\ Len(Append(SubSeq(s, 1, n), s[n + 1])) = n + 1
      /\ \A i \in 1 .. n + 1 : Append(SubSeq(s, 1, n), s[n + 1])[i] = s[i]
  BY <1>1, <1>4
<1> QED
  BY <1>2, <1>5, SeqEqual

LEMMA OneMore ==
  ASSUME NEW x, NEW n \in Nat
  PROVE  Append([i \in 1 .. n |-> x], x) = [i \in 1 .. n + 1 |-> x]
<1>1. [i \in 1 .. n |-> x] \in Seq({x}) /\ [i \in 1 .. n + 1 |-> x] \in Seq({x})
  OBVIOUS
<1>2. Append([i \in 1 .. n |-> x], x) \in Seq({x})
  BY <1>1
<1>3. Len(Append([i \in 1 .. n |-> x], x)) = n + 1
  BY <1>1
<1>4. \A i \in 1 .. n + 1 : Append([j \in 1 .. n |-> x], x)[i] = x
  BY <1>1
<1> QED
  BY <1>1, <1>2, <1>3, <1>4, SeqEqual

(* What the remote side has made of the packet so far.  A byte that is     *)
(* special is announced, and no other one is.                              *)
Escaped == nextByte < Len(buf) /\ buf[nextByte + 1] \in Out!Special

InFrame ==
  /\ heard.open
  /\ heard.body = SubSeq(buf, 1, nextByte)
  /\ heard.escaped = (place = "byte" /\ Escaped)
  /\ place = "escape" => Escaped
  /\ place = "end" => nextByte = Len(buf)

FrameInv == Out!FramesAreThePacket /\ (place \in {"escape", "byte", "end"} => InFrame)

LEMMA FrameInit == Out!Init => FrameInv
<1> SUFFICES ASSUME Out!Init PROVE FrameInv
  OBVIOUS
<1>1. [c \in 1 .. 0 |-> buf] = << >>
  OBVIOUS
<1> QED
  BY <1>1 DEF Out!Init, FrameInv, Out!FramesAreThePacket, Out!DecoderStart

(* At a byte, send has just decided whether to announce it.                *)
LEMMA AtNext ==
  ASSUME Out!TypeOK, place' = Out!LoopAt(nextByte'), buf' = buf, nextByte' \in 0 .. Len(buf),
         heard' \in Out!Decoder,
         heard'.open, ~heard'.escaped, heard'.body = SubSeq(buf, 1, nextByte'),
         heard'.frames = [c \in 1 .. copy' |-> buf]
  PROVE  FrameInv'
<1>1. place' \in {"escape", "byte", "end"}
  BY DEF Out!LoopAt
<1>2. place' = "end" <=> nextByte' = Len(buf)
  BY DEF Out!LoopAt
<1>3. place' = "byte" => ~Escaped'
  BY DEF Out!LoopAt, Escaped
<1>4. place' = "escape" => Escaped'
  BY DEF Out!LoopAt, Escaped, Out!TypeOK
<1>5. heard'.escaped = (place' = "byte" /\ Escaped')
  <2>1. ~(place' = "byte" /\ Escaped')
    BY <1>3
  <2>2. heard' \in Out!Decoder
    OBVIOUS
  <2> QED
    BY <2>1, <2>2 DEF Out!Decoder
<1>6. InFrame'
  BY <1>2, <1>4, <1>5 DEF InFrame
<1> QED
  BY <1>1, <1>6 DEF FrameInv, Out!FramesAreThePacket

LEMMA FrameStep ==
  ASSUME Out!TypeOK, AtByte, FrameInv, [Out!Next]_(Out!vars)
  PROVE  FrameInv'
<1>0. heard' \in Out!Decoder
  BY TypesKept DEF Out!TypeOK
<1>1. ASSUME NEW p \in Payload, Out!TakePacket(p)
      PROVE  FrameInv'
  <2>1. [c \in 1 .. 0 |-> buf'] = << >>
    OBVIOUS
  <2> QED
    BY <1>1, <2>1 DEF Out!TakePacket, FrameInv, Out!FramesAreThePacket, Out!TypeOK, Out!Decoder
<1>2. CASE Out!SendStart
  <2>1. heard' = [heard EXCEPT !.open = TRUE, !.body = << >>]
      <3>1. ~heard.escaped
      BY <1>2 DEF Out!SendStart, FrameInv, Out!FramesAreThePacket
    <3> QED
      BY <1>2, <3>1, SendBytes DEF Out!SendStart, Out!Transmit, Out!DecodeByte
  <2>2. SubSeq(buf, 1, 0) = << >> /\ nextByte' = 0 /\ 0 \in 0 .. Len(buf)
    BY <1>2 DEF Out!SendStart, Out!TypeOK
  <2>3. /\ heard'.open /\ ~heard'.escaped /\ heard'.body = << >>
        /\ heard'.frames = heard.frames
    BY <1>2, <2>1 DEF Out!SendStart, Out!TypeOK, Out!Decoder, FrameInv, Out!FramesAreThePacket
  <2> QED
    BY <1>0, <1>2, <2>2, <2>3, AtNext DEF Out!SendStart, FrameInv, Out!FramesAreThePacket
<1>3. CASE Out!SendEscape
  <2>1. InFrame /\ ~heard.escaped /\ Escaped
    BY <1>3 DEF Out!SendEscape, FrameInv, InFrame
  <2>2. heard' = [heard EXCEPT !.escaped = TRUE]
    BY <1>3, <2>1, SendBytes DEF Out!SendEscape, Out!Transmit, Out!DecodeByte
  <2>3. UNCHANGED <<buf, nextByte, copy>> /\ place' = "byte"
    BY <1>3 DEF Out!SendEscape
  <2>4. /\ heard'.open = heard.open /\ heard'.escaped = TRUE
        /\ heard'.body = heard.body /\ heard'.frames = heard.frames
    BY <2>2 DEF Out!TypeOK, Out!Decoder
  <2>5. Escaped'
    BY <2>1, <2>3 DEF Escaped
  <2> QED
    BY <2>1, <2>3, <2>4, <2>5 DEF FrameInv, InFrame, Out!FramesAreThePacket
<1>4. CASE Out!SendByte
  <2> DEFINE b == buf[nextByte + 1]
  <2>1. /\ InFrame /\ nextByte < Len(buf) /\ nextByte \in Nat /\ buf \in Seq(Out!Byte)
        /\ heard \in Out!Decoder
        /\ heard.escaped = (b \in Out!Special)
    BY <1>4 DEF Out!SendByte, FrameInv, InFrame, Escaped, AtByte, Out!TypeOK
  <2>2. heard' = Out!DecodeByte(heard, b)
    BY <1>4 DEF Out!SendByte, Out!Transmit
  <2>3. /\ heard'.open = heard.open /\ heard'.escaped = FALSE
        /\ heard'.body = Append(heard.body, b) /\ heard'.frames = heard.frames
    <3> HIDE DEF b
    <3>1. CASE heard.escaped
      BY <2>1, <2>2, <3>1 DEF Out!DecodeByte, Out!Decoder
    <3>2. CASE ~heard.escaped
      <4>1. heard' = [heard EXCEPT !.body = Append(@, b)]
        BY <2>1, <2>2, <3>2 DEF Out!DecodeByte, Out!Special
      <4> QED
        BY <2>1, <3>2, <4>1 DEF Out!Decoder
    <3> QED
      BY <2>1, <3>1, <3>2 DEF Out!Decoder
  <2>4. Append(SubSeq(buf, 1, nextByte), b) = SubSeq(buf, 1, nextByte + 1)
    BY <2>1, ExtendSub
  <2>5. nextByte' = nextByte + 1 /\ nextByte' \in 0 .. Len(buf)
    BY <1>4, <2>1 DEF Out!SendByte
  <2>6. heard'.open /\ heard'.body = SubSeq(buf, 1, nextByte')
    BY <2>1, <2>3, <2>4, <2>5 DEF InFrame
  <2> QED
    BY <1>0, <1>4, <2>3, <2>5, <2>6, AtNext DEF Out!SendByte, FrameInv, Out!FramesAreThePacket
<1>5. CASE Out!SendEnd
  <2>1. /\ InFrame /\ ~heard.escaped /\ heard.body = buf
        /\ heard \in Out!Decoder /\ copy \in Nat /\ buf \in Seq(Out!Byte)
    <3>1. InFrame /\ ~heard.escaped /\ nextByte = Len(buf)
    BY <1>5 DEF Out!SendEnd, FrameInv, InFrame
  <3>2. heard \in Out!Decoder /\ copy \in Nat /\ buf \in Seq(Out!Byte)
    BY DEF Out!TypeOK
  <3>3. SubSeq(buf, 1, Len(buf)) = buf
    BY <3>2, SubSeqFull
  <3> QED
    BY <3>1, <3>2, <3>3 DEF InFrame
  <2>2. heard' = [heard EXCEPT !.open = FALSE, !.body = << >>, !.frames = Append(@, buf)]
    BY <1>5, <2>1, SendBytes DEF Out!SendEnd, Out!Transmit, Out!DecodeByte
  <2>3. ~heard'.open /\ ~heard'.escaped /\ heard'.frames = Append(heard.frames, buf)
    BY <2>1, <2>2 DEF Out!Decoder
  <2>4. Append([c \in 1 .. copy |-> buf], buf) = [c \in 1 .. copy + 1 |-> buf]
    BY <2>1, OneMore
  <2>5. copy' = copy + 1 /\ buf' = buf /\ place' \in {"start", "pend"}
    BY <1>5 DEF Out!SendEnd
  <2> QED
    BY <2>3, <2>4, <2>5 DEF FrameInv, Out!FramesAreThePacket
<1>6. CASE Out!UartShift \/ UNCHANGED Out!vars
  <2>1. UNCHANGED <<place, buf, nextByte, copy, heard>>
    BY <1>6 DEF Out!UartShift, Out!vars
  <2> QED
    BY <2>1 DEF FrameInv, Out!FramesAreThePacket, InFrame, Escaped
<1> QED
  BY <1>1, <1>2, <1>3, <1>4, <1>5, <1>6 DEF Out!Next

(* For any bytes, payloads and number of copies, the remote side finds in  *)
(* the stream exactly the copies sent so far, whatever special bytes are   *)
(* in the payload, in the identifier or in the length; and send never      *)
(* reads beyond the packet (bluetooth_helpers.c:29-62).                    *)
THEOREM WireIsFramedHolds == Out!Spec => []WireIsFramed
<1>1. FrameInv => Out!FramesAreThePacket
  BY DEF FrameInv
<1> QED
  BY <1>1, LinkInitial, TypesKept, FrameInit, FrameStep, PTL DEF Out!Spec, WireIsFramed, Out!WireIsFramed

(* Identifiers are consecutive for any number of byte values, any first    *)
(* identifier and any number of copies.                                    *)
THEOREM IdsAreConsecutiveHolds == Out!Spec => IdsAreConsecutive
<1>1. Out!Spec => [](Out!TypeOK /\ AtByte /\ IdInv)
  BY LinkInitial, TypesKept, IdStep, PTL DEF Out!Spec
<1>2. Out!TypeOK /\ AtByte /\ IdInv /\ [Out!Next]_(Out!vars) => [Out!IdFollows]_(Out!vars)
  BY IdStep
<1> QED
  BY <1>1, <1>2, PTL DEF Out!Spec, IdsAreConsecutive, Out!IdsAreConsecutive

-----------------------------------------------------------------------------
(* THE LINK, RECEIVER.  While packets are no longer than the buffer, it is *)
(* filled from its start: myStart stays 0 and myEnd keeps up with myLen,   *)
(* which is all that makes pushChar, NoRoom and mRead right.               *)
BufferInv ==
  /\ myStart = 0 /\ myEnd = myLen
  /\ myLen \in 0 .. BUF_SIZE
  /\ myBuf \in [0 .. BUF_SIZE - 1 -> DataByte \cup {NUL}]
  /\ \A i \in 0 .. myLen - 1 : myBuf[i] \in DataByte
  /\ ~outOfBounds
  /\ receiveQueue \in Seq(Seq(DataByte))
  /\ Len(receiveQueue) <= RECEIVE_QUEUE_LENGTH

ShortPackets == MaxBody <= BUF_SIZE

LEMMA SmallMod ==
  ASSUME NEW k \in Nat \ {0}, NEW i \in 0 .. k - 1
  PROVE  i % k = i
OBVIOUS

LEMMA Unwrapped ==
  ASSUME NEW start, start = 0, NEW n \in 0 .. BUF_SIZE
  PROVE  \A i \in 1 .. n : (start + i - 1) % BUF_SIZE = i - 1
<1>1. \A i \in 1 .. n : i - 1 \in 0 .. BUF_SIZE - 1 /\ start + i - 1 = i - 1
  BY InAssumption DEF In!SizeAssumption
<1> QED
  BY <1>1, SmallMod, InAssumption DEF In!SizeAssumption

(* The buffer's contents, once it is known where they start.               *)
LEMMA BufferRead ==
  ASSUME ShortPackets, BufferInv
  PROVE  /\ In!mRead = [i \in 1 .. myLen |-> myBuf[i - 1]]
         /\ In!mRead \in Seq(DataByte)
         /\ Len(In!mRead) = myLen
<1>1. In!mRead = [i \in 1 .. myLen |-> myBuf[i - 1]]
  <2>1. \A i \in 1 .. myLen : (myStart + i - 1) % BUF_SIZE = i - 1
    BY Unwrapped DEF BufferInv, ShortPackets
  <2> QED
    BY <2>1 DEF In!mRead
<1>2. \A i \in 1 .. myLen : myBuf[i - 1] \in DataByte
  BY DEF BufferInv
<1> QED
  BY <1>1, <1>2 DEF BufferInv

LEMMA BufferInit == ShortPackets /\ In!Init => BufferInv
BY InAssumption DEF In!Init, BufferInv, ShortPackets, In!SizeAssumption

LEMMA StartClears ==
  ASSUME ShortPackets, BufferInv, In!HandleStart
  PROVE  BufferInv' /\ In!Decoder!Start
<1>1. BufferInv'
  BY InAssumption DEF BufferInv, In!HandleStart, ShortPackets, In!SizeAssumption
<1>2. In!mRead' = << >>
  BY DEF In!HandleStart, In!mRead
<1> QED
  BY <1>1, <1>2 DEF In!HandleStart, In!Decoder!Start

LEMMA EndPosts ==
  ASSUME ShortPackets, BufferInv, In!HandleEnd
  PROVE  BufferInv' /\ In!Decoder!End
<1>1. In!mRead \in Seq(DataByte)
  BY BufferRead
<1>2. BufferInv'
  BY <1>1, InAssumption DEF BufferInv, In!HandleEnd, ShortPackets, In!SizeAssumption
<1>3. In!mRead' = In!mRead
  BY DEF In!HandleEnd, In!mRead
<1> QED
  BY <1>2, <1>3, InAssumption
     DEF In!HandleEnd, In!Decoder!End, BufferInv, ShortPackets, In!SizeAssumption

LEMMA DataIsKept ==
  ASSUME ShortPackets, BufferInv, NEW b \in DataByte, In!HandleData(b)
  PROVE  BufferInv' /\ In!Decoder!Keep(b)
<1>1. myLen < BUF_SIZE /\ myEnd < BUF_SIZE /\ ~In!NoRoom
  BY InAssumption DEF BufferInv, In!HandleData, In!NoRoom, ShortPackets, In!SizeAssumption
<1>2. /\ myBuf' = [myBuf EXCEPT ![myLen] = b]
      /\ myLen' = myLen + 1 /\ myEnd' = myEnd + 1
      /\ UNCHANGED <<myStart, isStarted, outOfBounds, receiveQueue>>
  BY <1>1 DEF In!HandleData, In!pushChar, BufferInv
<1>3. BufferInv'
  <2>1. myBuf' \in [0 .. BUF_SIZE - 1 -> DataByte \cup {NUL}]
    BY <1>1, <1>2 DEF BufferInv
  <2>2. \A i \in 0 .. myLen' - 1 : myBuf'[i] \in DataByte
    BY <1>1, <1>2, InAssumption DEF BufferInv, ShortPackets, In!SizeAssumption
  <2> QED
    BY <1>1, <1>2, <2>1, <2>2, InAssumption DEF BufferInv, ShortPackets, In!SizeAssumption
<1>4. In!mRead' = [i \in 1 .. myLen + 1 |-> IF i = myLen + 1 THEN b ELSE myBuf[i - 1]]
  <2>1. In!mRead' = [i \in 1 .. myLen' |-> myBuf'[i - 1]]
    <3>1. \A i \in 1 .. myLen' : (myStart' + i - 1) % BUF_SIZE = i - 1
      BY <1>3, Unwrapped DEF BufferInv, ShortPackets
    <3> QED
      BY <3>1 DEF In!mRead
  <2>2. \A i \in 1 .. myLen + 1 :
          myBuf'[i - 1] = IF i = myLen + 1 THEN b ELSE myBuf[i - 1]
    BY <1>1, <1>2, InAssumption DEF BufferInv, ShortPackets, In!SizeAssumption
  <2> QED
    BY <2>1, <2>2, <1>2
<1>5. In!mRead' = Append(In!mRead, b)
  <2>1. /\ In!mRead \in Seq(DataByte) /\ Len(In!mRead) = myLen /\ myLen \in Nat
        /\ \A i \in 1 .. myLen : In!mRead[i] = myBuf[i - 1]
    BY BufferRead DEF BufferInv
  <2>2. In!mRead' \in Seq(DataByte)
    <3>1. \A i \in 1 .. myLen : myBuf[i - 1] \in DataByte
      BY DEF BufferInv
    <3>2. \A i \in 1 .. myLen + 1 : (IF i = myLen + 1 THEN b ELSE myBuf[i - 1]) \in DataByte
      <4> SUFFICES ASSUME NEW i \in 1 .. myLen + 1
                   PROVE  (IF i = myLen + 1 THEN b ELSE myBuf[i - 1]) \in DataByte
        OBVIOUS
      <4>1. CASE i = myLen + 1
        BY <4>1
      <4>2. CASE i # myLen + 1
        BY <2>1, <3>1, <4>2
      <4> QED
        BY <4>1, <4>2
    <3> QED
      BY <1>4, <2>1, <3>2
  <2>3. Len(In!mRead') = myLen + 1 /\ Len(Append(In!mRead, b)) = myLen + 1
    BY <1>4, <2>1
  <2>4. \A i \in 1 .. myLen + 1 : In!mRead'[i] = Append(In!mRead, b)[i]
    BY <1>4, <2>1
  <2> QED
    BY <2>1, <2>2, <2>3, <2>4, SeqEqual
<1> QED
  BY <1>1, <1>2, <1>3, <1>5, BufferRead DEF In!HandleData, In!Decoder!Keep

LEMMA OthersKeep ==
  ASSUME ShortPackets, BufferInv,
         \/ \E b \in DataByte \cup {END_BYTE} : In!Discard(b)
         \/ In!Consume
         \/ UNCHANGED In!vars
  PROVE  BufferInv' /\ (In!Decoder!Consume \/ UNCHANGED In!Decoder!vars)
<1>1. UNCHANGED In!pb
  BY DEF In!Discard, In!Consume, In!vars
<1>2. In!mRead' = In!mRead /\ isStarted' = isStarted
  BY <1>1 DEF In!pb, In!mRead
<1>3. CASE In!Consume
  <2>1. receiveQueue' \in Seq(Seq(DataByte)) /\ Len(receiveQueue') <= RECEIVE_QUEUE_LENGTH
    BY <1>3, InAssumption DEF In!Consume, BufferInv, ShortPackets, In!SizeAssumption
  <2> QED
    BY <1>1, <1>2, <1>3, <2>1 DEF In!Consume, BufferInv, In!pb, In!Decoder!Consume
<1>4. CASE UNCHANGED receiveQueue
  BY <1>1, <1>2, <1>4 DEF BufferInv, In!pb, In!Decoder!vars
<1> QED
  BY <1>3, <1>4 DEF In!Discard, In!vars

(* Each step of receiveTask keeps the invariant and is a step of the       *)
(* decoder, or nothing to it.                                              *)
LEMMA LinkReceives ==
  ASSUME ShortPackets, BufferInv, [In!Next]_(In!vars)
  PROVE  BufferInv' /\ [In!Decoder!Next]_(In!Decoder!vars)
BY StartClears, EndPosts, DataIsKept, OthersKeep DEF In!Next, In!Decoder!Next

(* No byte is written beyond myBuf, for any size of the buffer and any     *)
(* stream, so long as the peer never sends more than BUF_SIZE bytes        *)
(* between START and END.  Nothing else keeps pushChar within myBuf.       *)
THEOREM ShortPacketsStayInBuffer ==
  ASSUME ShortPackets
  PROVE  In!Spec => []StaysInBuffer
<1>1. BufferInv => StaysInBuffer
  BY DEF BufferInv, StaysInBuffer, In!StaysInBuffer
<1> QED
  BY <1>1, BufferInit, LinkReceives, PTL DEF In!Spec

(* For every size of the buffer and of the queue and any bytes, receiveTask*)
(* decodes the stream as PacketDecoder says.                               *)
THEOREM ImplementsPacketDecoderHolds ==
  ASSUME ShortPackets
  PROVE  In!Spec => ImplementsPacketDecoder
<1>1. In!Init => In!Decoder!Init
  BY DEF In!Init, In!Decoder!Init, In!mRead
<1> QED
  BY <1>1, BufferInit, LinkReceives, PTL
     DEF In!Spec, ImplementsPacketDecoder, In!ImplementsPacketDecoder, In!Decoder!Spec

-----------------------------------------------------------------------------
(* THE START                                                               *)

(* It makes CallCount(b) calls; Rest is what is left before the k-th.      *)
CallCount(b) == IF b THEN 13 ELSE 11

Rest(b, k) == SubSeq(alt_main(b), k, Len(alt_main(b)))

(* The tasks that are ready then, and the most urgent of all.              *)
ReadyAt(b, k) ==
  IF k <= 3 THEN {}
  ELSE {LowestPrio - 1, LowestPrio} \cup {Tasks(b)[i] : i \in {j \in DOMAIN Tasks(b) : j < k - 6}}

FirstTask(b) == IF b THEN 1 ELSE 3

ComesTo(b, k) ==
  /\ k \in 1 .. CallCount(b) + 1 /\ todo = Rest(b, k)
  /\ k <= 2 => ~pie /\ frames = << >> /\ registering = "no" /\ alt_irq_active = {}
  /\ k >= 2 => ienable = alt_irq_active \cap alt_priority_mask
  /\ k >= 3 /\ frames = << >> => (pie <=> saved = << >>)
  /\ OSRdyTbl = ReadyAt(b, k)
  /\ OSRunning <=> k = CallCount(b) + 1
  /\ OSPrioCur = IF k >= CallCount(b) THEN FirstTask(b) ELSE 0

Sections ==
  /\ registering \in {"no", "handler", "enable", "enabled"}
  /\ saved = CASE registering = "no"                   -> << >>
               [] registering \in {"handler", "enabled"} -> <<TRUE>>
               [] registering = "enable"               -> <<TRUE, FALSE>>
  /\ registering # "no" => pie = FALSE /\ frames = << >> /\ Calls("register")
  /\ registering = "handler" => alt_irq[todo[1].irq] # "none"

(* The requests that may interrupt the n-th handler before it: those more  *)
(* urgent than all that are being handled.                                 *)
Urgent(n) == {i \in Irq : \A m \in 1 .. n - 1 : i < frames[m].irq}

FrameType ==
  [at : {"enter", "dispatch", "handler", "exit"}, active : SUBSET Irq, irq : Irq,
   open : BOOLEAN, mask : SUBSET Irq]

Nested ==
  /\ frames \in Seq(FrameType)
  /\ \A n \in 1 .. Len(frames) :
       LET f == frames[n]
       IN  /\ n < Len(frames) => f.open
           /\ f.open => f.at = "handler" /\ f.mask = Urgent(n)
           /\ f.at = "handler" => f.irq \in Urgent(n) \cap alt_irq_active
           /\ f.at = "dispatch" => f.active \subseteq Urgent(n) \cap alt_irq_active
  /\ frames # << >> => (pie <=> Inner.open)
  /\ alt_priority_mask = IF frames = << >> \/ Inner.open THEN Urgent(Len(frames) + 1)
                                                         ELSE Urgent(Len(frames))

Entered == IF frames # << >> /\ Inner.at = "enter" THEN Len(frames) - 1 ELSE Len(frames)

Handlers ==
  /\ alt_irq_active \subseteq {i \in Irq : alt_irq[i] # "none"}
  /\ DOMAIN alt_irq = Irq
  /\ request \subseteq Irq
  /\ OSIntNesting = IF OSRunning THEN Entered ELSE 0

BootInv ==
  /\ \E b \in BOOLEAN, k \in Nat : ComesTo(b, k)
  /\ Sections /\ Nested /\ Handlers

-----------------------------------------------------------------------------
(* The calls of the start, one by one.                                     *)
Ops == {"irq_init", "enable_interrupts", "os_init", "register", "create", "start", "first"}

Isrs == {"none", "alt_avalon_timer_sc_irq", "altera_avalon_jtag_uart_irq", "altera_avalon_uart_irq",
         "bluetoothIRQ"}

CallSet == [op : Ops, irq : Nat, isr : Isrs, prio : Nat]

LEMMA CallTypes ==
  /\ \A op \in Ops : Call(op) \in CallSet /\ Call(op).op = op
  /\ \A irq \in Nat, isr \in Isrs :
       /\ Register(irq, isr) \in CallSet /\ Register(irq, isr).op = "register"
       /\ Register(irq, isr).irq = irq /\ Register(irq, isr).isr = isr
  /\ \A prio \in Nat :
       Create(prio) \in CallSet /\ Create(prio).op = "create" /\ Create(prio).prio = prio
  <1>1. \A op : Call(op) = [op |-> op, irq |-> 0, isr |-> "none", prio |-> 0]
    BY DEF Call, TIMER
  <1>2. \A irq \in Nat, isr \in Isrs : Register(irq, isr) = [op |-> "register", irq |-> irq, isr |-> isr, prio |-> 0]
    <2> SUFFICES ASSUME NEW irq \in Nat, NEW isr \in Isrs
                 PROVE  Register(irq, isr) = [op |-> "register", irq |-> irq, isr |-> isr, prio |-> 0]
      OBVIOUS
    <2> DEFINE r == [op |-> "register", irq |-> irq, isr |-> "none", prio |-> 0]
    <2>1. [Call("register") EXCEPT !.irq = irq] = r
      BY DEF Call, TIMER
    <2>2. [r EXCEPT !.isr = isr] = [op |-> "register", irq |-> irq, isr |-> isr, prio |-> 0]
      OBVIOUS
    <2>. QED
      BY <2>1, <2>2 DEF Register
  <1>3. \A prio \in Nat : Create(prio) = [op |-> "create", irq |-> 0, isr |-> "none", prio |-> prio]
    BY DEF Create, Call, TIMER
  <1>4. \A op \in Ops : Call(op) \in CallSet /\ Call(op).op = op
    BY <1>1 DEF CallSet, Ops, Isrs
  <1>5. \A irq \in Nat, isr \in Isrs :
          /\ Register(irq, isr) \in CallSet /\ Register(irq, isr).op = "register"
          /\ Register(irq, isr).irq = irq /\ Register(irq, isr).isr = isr
    BY <1>2 DEF CallSet, Ops, Isrs
  <1>6. \A prio \in Nat :
          Create(prio) \in CallSet /\ Create(prio).op = "create" /\ Create(prio).prio = prio
    BY <1>3 DEF CallSet, Ops, Isrs
  <1>. QED
    BY <1>4, <1>5, <1>6

LEMMA Creations ==
  ASSUME NEW b \in BOOLEAN
  PROVE  LET prio == Tasks(b)
             s == [i \in DOMAIN prio |-> Create(prio[i])]
         IN  /\ prio \in Seq(Nat) /\ Len(prio) = CallCount(b) - 9 /\ DOMAIN prio = 1 .. Len(prio)
             /\ s \in Seq(CallSet) /\ Len(s) = Len(prio)
             /\ \A i \in 1 .. Len(prio) : s[i].op = "create" /\ s[i].prio = prio[i]
  <1> DEFINE prio == Tasks(b)
             s == [i \in DOMAIN prio |-> Create(prio[i])]
  <1>1. prio \in Seq(Nat) /\ Len(prio) = CallCount(b) - 9
    BY DEF Tasks, CallCount
  <1>2. DOMAIN prio = 1 .. Len(prio) /\ Len(prio) \in Nat
    BY <1>1
  <1> HIDE DEF prio
  <1>3. \A i \in 1 .. Len(prio) : prio[i] \in Nat
    BY <1>1
  <1>4. \A i \in 1 .. Len(prio) : s[i] = Create(prio[i])
    BY <1>2
  <1>5. \A i \in 1 .. Len(prio) : s[i] \in CallSet /\ s[i].op = "create" /\ s[i].prio = prio[i]
    BY <1>3, <1>4, CallTypes
  <1>6. s \in Seq(CallSet) /\ Len(s) = Len(prio)
    BY <1>2, <1>5
  <1>. QED
    BY <1>1, <1>2, <1>5, <1>6 DEF prio

(* What alt_main does, by position.                                        *)
LEMMA Plan ==
  ASSUME NEW b \in BOOLEAN
  PROVE  LET plan == alt_main(b)
             n == CallCount(b)
         IN  /\ plan \in Seq(CallSet) /\ Len(plan) = n
             /\ plan[1].op = "irq_init" /\ plan[2].op = "enable_interrupts" /\ plan[3].op = "os_init"
             /\ \A k \in {4, 5, 6, n - 2} :
                  /\ plan[k].op = "register" /\ plan[k].isr # "none"
                  /\ plan[k].irq \in {TIMER, JTAG_UART, UART_BLUETOOTH}
             /\ \A k \in 7 .. n - 3 : plan[k].op = "create" /\ plan[k].prio = Tasks(b)[k - 6]
             /\ plan[n - 1].op = "start" /\ plan[n].op = "first" /\ plan[n] = Call("first")
  <1> DEFINE prio == Tasks(b)
             c == [i \in DOMAIN prio |-> Create(prio[i])]
             r1 == Register(TIMER, "alt_avalon_timer_sc_irq")
             r2 == Register(JTAG_UART, "altera_avalon_jtag_uart_irq")
             r3 == Register(UART_BLUETOOTH, "altera_avalon_uart_irq")
             r4 == Register(UART_BLUETOOTH, "bluetoothIRQ")
             c1 == Call("irq_init")
             c2 == Call("enable_interrupts")
             c3 == Call("os_init")
             c4 == Call("start")
             c5 == Call("first")
             m == CallCount(b) - 9
  <1>1. /\ r1 \in CallSet /\ r1.op = "register" /\ r1.irq = TIMER /\ r1.isr # "none"
        /\ r2 \in CallSet /\ r2.op = "register" /\ r2.irq = JTAG_UART /\ r2.isr # "none"
        /\ r3 \in CallSet /\ r3.op = "register" /\ r3.irq = UART_BLUETOOTH /\ r3.isr # "none"
        /\ r4 \in CallSet /\ r4.op = "register" /\ r4.irq = UART_BLUETOOTH /\ r4.isr # "none"
    BY CallTypes DEF Isrs, TIMER, JTAG_UART, UART_BLUETOOTH
  <1>2. /\ c1 \in CallSet /\ c1.op = "irq_init" /\ c2 \in CallSet /\ c2.op = "enable_interrupts"
        /\ c3 \in CallSet /\ c3.op = "os_init" /\ c4 \in CallSet /\ c4.op = "start"
        /\ c5 \in CallSet /\ c5.op = "first"
    BY CallTypes DEF Ops
  <1>3. /\ c \in Seq(CallSet) /\ Len(c) = m /\ m \in Nat
        /\ \A i \in 1 .. m : c[i].op = "create" /\ c[i].prio = prio[i]
    <2>1. m \in Nat
      BY DEF CallCount
    <2>. QED
      BY <2>1, Creations
  <1>4. alt_main(b) = <<c1, c2>> \o <<c3>> \o <<r1, r2, r3>> \o (c \o <<r4, c4, c5>>)
    BY DEF alt_main, alt_irq_init, alt_sys_init, main
  <1> HIDE DEF c, r1, r2, r3, r4, c1, c2, c3, c4, c5, prio, m
  <1> DEFINE head == <<c1, c2>> \o <<c3>> \o <<r1, r2, r3>>
             tail == c \o <<r4, c4, c5>>
  <1>5. /\ head \in Seq(CallSet) /\ Len(head) = 6
        /\ head[1] = c1 /\ head[2] = c2 /\ head[3] = c3 /\ head[4] = r1 /\ head[5] = r2 /\ head[6] = r3
    <2>1. /\ <<c1, c2>> \in Seq(CallSet) /\ Len(<<c1, c2>>) = 2
          /\ <<c1, c2>>[1] = c1 /\ <<c1, c2>>[2] = c2
          /\ <<c3>> \in Seq(CallSet) /\ Len(<<c3>>) = 1 /\ <<c3>>[1] = c3
          /\ <<r1, r2, r3>> \in Seq(CallSet) /\ Len(<<r1, r2, r3>>) = 3
          /\ <<r1, r2, r3>>[1] = r1 /\ <<r1, r2, r3>>[2] = r2 /\ <<r1, r2, r3>>[3] = r3
      BY <1>1, <1>2
    <2> DEFINE one == <<c1, c2>>
               two == <<c3>>
               three == <<r1, r2, r3>>
               front == one \o two
    <2> HIDE DEF one, two, three
    <2>2. /\ one \in Seq(CallSet) /\ Len(one) = 2 /\ one[1] = c1 /\ one[2] = c2
          /\ two \in Seq(CallSet) /\ Len(two) = 1 /\ two[1] = c3
          /\ three \in Seq(CallSet) /\ Len(three) = 3
          /\ three[1] = r1 /\ three[2] = r2 /\ three[3] = r3
      BY <2>1 DEF one, two, three
    <2>3. /\ front \in Seq(CallSet) /\ Len(front) = 3
          /\ front[1] = c1 /\ front[2] = c2 /\ front[3] = c3
      <3>1. /\ front \in Seq(CallSet) /\ Len(front) = Len(one) + Len(two)
            /\ \A i \in 1 .. Len(one) + Len(two) :
                 front[i] = IF i <= Len(one) THEN one[i] ELSE two[i - Len(one)]
        BY <2>2, ConcatProperties
      <3> HIDE DEF front
      <3>. QED
        BY <2>2, <3>1
    <2> HIDE DEF front
    <2>4. /\ front \o three \in Seq(CallSet) /\ Len(front \o three) = 6
          /\ \A i \in 1 .. 6 : (front \o three)[i] = IF i <= 3 THEN front[i] ELSE three[i - 3]
      <3>1. /\ front \o three \in Seq(CallSet) /\ Len(front \o three) = Len(front) + Len(three)
            /\ \A i \in 1 .. Len(front) + Len(three) :
                 (front \o three)[i] = IF i <= Len(front) THEN front[i] ELSE three[i - Len(front)]
        BY <2>2, <2>3, ConcatProperties
      <3>. QED
        BY <2>2, <2>3, <3>1
    <2>5. head = front \o three
      BY DEF front, one, two, three
    <2> HIDE DEF head
    <2>. QED
      BY <2>2, <2>3, <2>4, <2>5
  <1>6. /\ tail \in Seq(CallSet) /\ Len(tail) = m + 3
        /\ \A i \in 1 .. m : tail[i] = c[i]
        /\ tail[m + 1] = r4 /\ tail[m + 2] = c4 /\ tail[m + 3] = c5
    <2>1. /\ <<r4, c4, c5>> \in Seq(CallSet) /\ Len(<<r4, c4, c5>>) = 3
          /\ <<r4, c4, c5>>[1] = r4 /\ <<r4, c4, c5>>[2] = c4 /\ <<r4, c4, c5>>[3] = c5
      BY <1>1, <1>2
    <2>. QED
      BY <1>3, <2>1, ConcatProperties
  <1> HIDE DEF head, tail
  <1>7. /\ alt_main(b) = head \o tail
    BY <1>4 DEF head, tail
  <1>8. /\ alt_main(b) \in Seq(CallSet) /\ Len(alt_main(b)) = m + 9
        /\ \A i \in 1 .. 6 : alt_main(b)[i] = head[i]
        /\ \A i \in 7 .. m + 9 : alt_main(b)[i] = tail[i - 6]
    <2>1. /\ head \o tail \in Seq(CallSet) /\ Len(head \o tail) = 6 + (m + 3)
          /\ \A i \in 1 .. 6 + (m + 3) : (head \o tail)[i] = IF i <= 6 THEN head[i] ELSE tail[i - 6]
      <3>1. /\ head \o tail \in Seq(CallSet) /\ Len(head \o tail) = Len(head) + Len(tail)
            /\ \A i \in 1 .. Len(head) + Len(tail) :
                 (head \o tail)[i] = IF i <= Len(head) THEN head[i] ELSE tail[i - Len(head)]
        BY <1>5, <1>6, ConcatProperties
      <3>. QED
        BY <1>3, <1>5, <1>6, <3>1
    <2>2. 6 + (m + 3) = m + 9
      BY <1>3
    <2>3. /\ \A i \in 1 .. 6 : i \in 1 .. 6 + (m + 3) /\ i <= 6
          /\ \A i \in 7 .. m + 9 : i \in 1 .. 6 + (m + 3) /\ ~(i <= 6)
      BY <1>3
    <2> DEFINE whole == head \o tail
    <2>4. /\ \A i \in 1 .. 6 : whole[i] = head[i]
          /\ \A i \in 7 .. m + 9 : whole[i] = tail[i - 6]
          /\ whole \in Seq(CallSet) /\ Len(whole) = m + 9
      <3>1. /\ whole \in Seq(CallSet) /\ Len(whole) = 6 + (m + 3)
            /\ \A i \in 1 .. 6 + (m + 3) : whole[i] = IF i <= 6 THEN head[i] ELSE tail[i - 6]
        BY <2>1
      <3> HIDE DEF whole
      <3>. QED
        BY <2>2, <2>3, <3>1
    <2>. QED
      BY <1>7, <2>4
  <1>9. CallCount(b) = m + 9
    BY DEF m, CallCount
  <1>10. \A i \in 7 .. m + 6 : alt_main(b)[i] = c[i - 6] /\ i - 6 \in 1 .. m
    <2>1. \A i \in 7 .. m + 6 : i \in 7 .. m + 9 /\ i - 6 \in 1 .. m
      BY <1>3
    <2>. QED
      BY <1>6, <1>8, <2>1
  <1>11. /\ alt_main(b)[m + 7] = r4 /\ alt_main(b)[m + 8] = c4 /\ alt_main(b)[m + 9] = c5
    BY <1>3, <1>6, <1>8
  <1>12. \A i \in 7 .. m + 6 : alt_main(b)[i].op = "create" /\ alt_main(b)[i].prio = prio[i - 6]
    BY <1>3, <1>10
  <1>13. /\ alt_main(b)[1] = c1 /\ alt_main(b)[2] = c2 /\ alt_main(b)[3] = c3
         /\ alt_main(b)[4] = r1 /\ alt_main(b)[5] = r2 /\ alt_main(b)[6] = r3
    BY <1>5, <1>8
  <1>14. \A i \in {4, 5, 6, m + 7} :
           /\ alt_main(b)[i].op = "register" /\ alt_main(b)[i].isr # "none"
           /\ alt_main(b)[i].irq \in {TIMER, JTAG_UART, UART_BLUETOOTH}
    BY <1>1, <1>11, <1>13
  <1>15. CallCount(b) - 2 = m + 7 /\ CallCount(b) - 3 = m + 6 /\ CallCount(b) - 1 = m + 8
    BY <1>3, <1>9
  <1>16. /\ alt_main(b)[1].op = "irq_init" /\ alt_main(b)[2].op = "enable_interrupts"
         /\ alt_main(b)[3].op = "os_init"
         /\ alt_main(b)[m + 8].op = "start" /\ alt_main(b)[m + 9].op = "first"
         /\ alt_main(b)[m + 9] = Call("first")
    BY <1>2, <1>11, <1>13 DEF c5
  <1>. QED
    BY <1>8, <1>9, <1>12, <1>14, <1>15, <1>16 DEF prio

LEMMA Left ==
  ASSUME NEW b \in BOOLEAN, NEW k \in 1 .. CallCount(b) + 1
  PROVE  /\ Rest(b, k) \in Seq(CallSet)
         /\ Len(Rest(b, k)) = CallCount(b) + 1 - k
         /\ k = CallCount(b) + 1 => Rest(b, k) = << >>
         /\ k <= CallCount(b) =>
              /\ Rest(b, k) # << >> /\ Rest(b, k)[1] = alt_main(b)[k]
              /\ Tail(Rest(b, k)) = Rest(b, k + 1)
  <1> DEFINE s == alt_main(b)
             n == CallCount(b)
  <1>1. s \in Seq(CallSet) /\ Len(s) = n /\ n \in Nat /\ n > 0
    BY Plan DEF CallCount
  <1> HIDE DEF s, n
  <1>2. \A j \in 1 .. n + 1 :
          /\ SubSeq(s, j, n) \in Seq(CallSet)
          /\ Len(SubSeq(s, j, n)) = n + 1 - j
          /\ \A i \in 1 .. n + 1 - j : SubSeq(s, j, n)[i] = s[j + i - 1]
    <2> SUFFICES ASSUME NEW j \in 1 .. n + 1
                 PROVE  /\ SubSeq(s, j, n) \in Seq(CallSet)
                        /\ Len(SubSeq(s, j, n)) = n + 1 - j
                        /\ \A i \in 1 .. n + 1 - j : SubSeq(s, j, n)[i] = s[j + i - 1]
      OBVIOUS
    <2>. QED
      BY <1>1, SubSeqProperties
  <1>3. k \in 1 .. n + 1 /\ \A j \in 1 .. n + 1 : Rest(b, j) = SubSeq(s, j, n)
    BY <1>1 DEF Rest, s, n
  <1>4. /\ Rest(b, k) \in Seq(CallSet) /\ Len(Rest(b, k)) = n + 1 - k
        /\ \A i \in 1 .. n + 1 - k : Rest(b, k)[i] = s[k + i - 1]
    BY <1>2, <1>3
  <1>5. CASE k = n + 1
    BY <1>1, <1>4, <1>5, EmptySeq DEF n
  <1>6. CASE k <= n
    <2>1. Rest(b, k) # << >> /\ Rest(b, k)[1] = s[k]
      <3>1. 1 \in 1 .. n + 1 - k /\ k + 1 - 1 = k /\ n + 1 - k # 0
        BY <1>1, <1>3, <1>6
      <3>2. Rest(b, k)[1] = s[k]
        BY <1>4, <3>1
      <3>. QED
        BY <1>4, <3>1, <3>2, EmptySeq
    <2>2. /\ Rest(b, k + 1) \in Seq(CallSet) /\ Len(Rest(b, k + 1)) = n - k
          /\ \A i \in 1 .. n - k : Rest(b, k + 1)[i] = s[k + i]
      <3>1. k + 1 \in 1 .. n + 1
        BY <1>1, <1>3, <1>6
      <3>2. Rest(b, k + 1) = SubSeq(s, k + 1, n) /\ n + 1 - (k + 1) = n - k
        BY <1>1, <1>3, <3>1
      <3>3. \A i \in 1 .. n + 1 - (k + 1) : SubSeq(s, k + 1, n)[i] = s[(k + 1) + i - 1]
        BY <1>2, <3>1
      <3>4. \A i \in 1 .. n - k : (k + 1) + i - 1 = k + i
        BY <1>1, <1>3
      <3>. QED
        BY <1>2, <3>1, <3>2, <3>3, <3>4
    <2>3. /\ Tail(Rest(b, k)) \in Seq(CallSet) /\ Len(Tail(Rest(b, k))) = n - k
          /\ \A i \in 1 .. n - k : Tail(Rest(b, k))[i] = s[k + i]
      <3>1. /\ Tail(Rest(b, k)) \in Seq(CallSet) /\ Len(Tail(Rest(b, k))) = n - k
            /\ \A i \in 1 .. n - k : Tail(Rest(b, k))[i] = Rest(b, k)[i + 1]
        BY <1>1, <1>3, <1>4, <1>6, <2>1, HeadTailProperties
      <3>2. \A i \in 1 .. n - k : i + 1 \in 1 .. n + 1 - k /\ k + (i + 1) - 1 = k + i
        BY <1>1, <1>3
      <3>. QED
        BY <1>4, <3>1, <3>2
    <2>4. Tail(Rest(b, k)) = Rest(b, k + 1)
      <3> DEFINE tail == Tail(Rest(b, k))
                 later == Rest(b, k + 1)
      <3>1. /\ tail \in Seq(CallSet) /\ later \in Seq(CallSet) /\ Len(tail) = Len(later)
            /\ \A i \in 1 .. Len(tail) : tail[i] = later[i]
        BY <2>2, <2>3
      <3> HIDE DEF tail, later
      <3>2. tail = later
        BY <3>1, SeqEqual
      <3>. QED
        BY <3>2 DEF tail, later
    <2>. QED
      BY <1>1, <1>3, <1>4, <1>6, <2>1, <2>4 DEF s, n
  <1>. QED
    BY <1>1, <1>3, <1>5, <1>6, <1>4 DEF n

(* Where the start is, by the call that comes next.                        *)
LEMMA NextCall ==
  ASSUME NEW b \in BOOLEAN, NEW k \in 1 .. CallCount(b) + 1, todo = Rest(b, k)
  PROVE  /\ todo # << >> <=> k <= CallCount(b)
         /\ todo # << >> =>
              /\ Tail(todo) = Rest(b, k + 1) /\ k + 1 \in 1 .. CallCount(b) + 1
              /\ todo[1].op = "irq_init" <=> k = 1
              /\ todo[1].op = "enable_interrupts" <=> k = 2
              /\ todo[1].op = "os_init" <=> k = 3
              /\ todo[1].op = "register" <=> k \in {4, 5, 6, CallCount(b) - 2}
              /\ todo[1].op = "create" <=> k \in 7 .. CallCount(b) - 3
              /\ todo[1].op = "start" <=> k = CallCount(b) - 1
              /\ todo[1].op = "first" <=> k = CallCount(b)
              /\ todo[1].op = "register" =>
                   todo[1].isr # "none" /\ todo[1].irq \in {TIMER, JTAG_UART, UART_BLUETOOTH}
              /\ todo[1].op = "create" => todo[1].prio = Tasks(b)[k - 6]
  <1> DEFINE n == CallCount(b)
             c == alt_main(b)[k]
  <1>1. n \in {11, 13} /\ k \in 1 .. n + 1
    BY DEF CallCount
  <1>2. /\ Len(todo) = n + 1 - k /\ (k = n + 1 => todo = << >>)
        /\ k <= n => todo # << >> /\ todo[1] = c /\ Tail(todo) = Rest(b, k + 1)
    BY Left
  <1>3. /\ k = 1 => c.op = "irq_init"
        /\ k = 2 => c.op = "enable_interrupts"
        /\ k = 3 => c.op = "os_init"
        /\ k \in {4, 5, 6, n - 2} =>
             c.op = "register" /\ c.isr # "none" /\ c.irq \in {TIMER, JTAG_UART, UART_BLUETOOTH}
        /\ k \in 7 .. n - 3 => c.op = "create" /\ c.prio = Tasks(b)[k - 6]
        /\ k = n - 1 => c.op = "start"
        /\ k = n => c.op = "first"
    <2>1. (k = 1 => c.op = "irq_init") /\ (k = 2 => c.op = "enable_interrupts") /\ (k = 3 => c.op = "os_init")
      BY Plan
    <2>2. k \in {4, 5, 6, n - 2} =>
            c.op = "register" /\ c.isr # "none" /\ c.irq \in {TIMER, JTAG_UART, UART_BLUETOOTH}
      <3>1. \A j \in {4, 5, 6, n - 2} :
              /\ alt_main(b)[j].op = "register" /\ alt_main(b)[j].isr # "none"
              /\ alt_main(b)[j].irq \in {TIMER, JTAG_UART, UART_BLUETOOTH}
        BY Plan
      <3>. QED
        BY <3>1
    <2>3. k \in 7 .. n - 3 => c.op = "create" /\ c.prio = Tasks(b)[k - 6]
      BY Plan
    <2>4. (k = n - 1 => c.op = "start") /\ (k = n => c.op = "first")
      BY Plan
    <2>. QED
      BY <2>1, <2>2, <2>3, <2>4
  <1> HIDE DEF n, c
  <1>4. \/ k \in {1, 2, 3, 4, 5, 6} \/ k \in 7 .. n - 3
        \/ k \in {n - 2, n - 1, n} \/ k = n + 1
    BY <1>1
  <1>5. k <= n => k + 1 \in 1 .. n + 1
    BY <1>1
  <1>6. k <= n =>
          /\ c.op = "irq_init" <=> k = 1
          /\ c.op = "enable_interrupts" <=> k = 2
          /\ c.op = "os_init" <=> k = 3
          /\ c.op = "register" <=> k \in {4, 5, 6, n - 2}
          /\ c.op = "create" <=> k \in 7 .. n - 3
          /\ c.op = "start" <=> k = n - 1
          /\ c.op = "first" <=> k = n
    <2>1. CASE k \in {1, 2, 3}
      BY <1>1, <1>3, <2>1
    <2>2. CASE k \in {4, 5, 6, n - 2}
      BY <1>1, <1>3, <2>2
    <2>3. CASE k \in 7 .. n - 3
      BY <1>1, <1>3, <2>3
    <2>4. CASE k \in {n - 1, n}
      BY <1>1, <1>3, <2>4
    <2>. QED
      BY <1>1, <1>4, <2>1, <2>2, <2>3, <2>4
  <1>7. todo # << >> <=> k <= n
    BY <1>1, <1>2
  <1>8. k <= n => (c.op = "register" => c.isr # "none" /\ c.irq \in {TIMER, JTAG_UART, UART_BLUETOOTH})
                  /\ (c.op = "create" => c.prio = Tasks(b)[k - 6])
    BY <1>3, <1>6
  <1>. QED
    BY <1>2, <1>5, <1>6, <1>7, <1>8 DEF n

LEMMA Single ==
  ASSUME NEW S, NEW s \in Seq(S), Len(s) = 1
  PROVE  s = <<s[1]>>
  OBVIOUS

LEMMA Pair ==
  ASSUME NEW S, NEW x \in S, NEW y \in S
  PROVE  Append(<<x>>, y) = <<x, y>>
  <1>1. <<x>> \in Seq(S) /\ Len(<<x>>) = 1 /\ <<x>>[1] = x
    OBVIOUS
  <1>2. <<x, y>> \in Seq(S) /\ Len(<<x, y>>) = 2 /\ <<x, y>>[1] = x /\ <<x, y>>[2] = y
    OBVIOUS
  <1> DEFINE s == <<x>>
             t == <<x, y>>
  <1> HIDE DEF s, t
  <1>3. s \in Seq(S) /\ Len(s) = 1 /\ s[1] = x
    BY <1>1 DEF s
  <1>4. t \in Seq(S) /\ Len(t) = 2 /\ t[1] = x /\ t[2] = y
    BY <1>2 DEF t
  <1>5. /\ Append(s, y) \in Seq(S) /\ Len(Append(s, y)) = 2
        /\ Append(s, y)[1] = x /\ Append(s, y)[2] = y
    <2>1. /\ Append(s, y) \in Seq(S) /\ Len(Append(s, y)) = Len(s) + 1
          /\ \A i \in 1 .. Len(s) : Append(s, y)[i] = s[i]
          /\ Append(s, y)[Len(s) + 1] = y
      BY <1>3, AppendProperties, ZenonT(60)
    <2>. QED
      BY <1>3, <2>1
  <1>6. \A i \in 1 .. 2 : i = 1 \/ i = 2
    OBVIOUS
  <1>7. Append(s, y) = t
    BY <1>4, <1>5, <1>6, SeqEqual
  <1>. QED
    BY <1>7 DEF s, t

LEMMA LastCall ==
  ASSUME NEW b \in BOOLEAN
  PROVE  Rest(b, CallCount(b)) = <<Call("first")>>
  <1> DEFINE n == CallCount(b)
             s == Rest(b, n)
  <1>1. n \in 1 .. n + 1 /\ n <= n /\ n + 1 - n = 1
    BY DEF CallCount
  <1>2. s \in Seq(CallSet) /\ Len(s) = 1 /\ s[1] = alt_main(b)[n]
    BY <1>1, Left
  <1>3. alt_main(b)[n] = Call("first")
    BY Plan
  <1> HIDE DEF s
  <1>4. s = <<s[1]>>
    BY <1>2
  <1>. QED
    BY <1>2, <1>3, <1>4 DEF s

-----------------------------------------------------------------------------
(* Sets of requests and of priorities.                                     *)
LEMMA Least ==
  ASSUME NEW S, S \subseteq Nat, S # {}
  PROVE  Min(S) \in S /\ \A q \in S : Min(S) <= q
  <1> DEFINE R == {ss \in Nat \X Nat : ss[1] < ss[2]}
  <1>1. IsWellFoundedOn(R, Nat)
    BY NatLessThanWellFounded DEF OpToRel
  <1>2. \E x \in S : \A y \in S : ~(<<y, x>> \in R)
    BY <1>1, WFMin
  <1>3. PICK x \in S : \A y \in S : ~(<<y, x>> \in R)
    BY <1>2
  <1>4. \A y \in S : ~(y < x)
    BY <1>3
  <1>5. x \in S /\ \A y \in S : x <= y
    BY <1>4
  <1>. QED
    BY <1>5 DEF Min

LEMMA AllReady ==
  ASSUME BootAssumption, NEW b \in BOOLEAN, NEW k \in Nat, k >= CallCount(b) - 2
  PROVE  /\ ReadyAt(b, k) = {Tasks(b)[i] : i \in DOMAIN Tasks(b)} \cup {LowestPrio - 1, LowestPrio}
         /\ Min(ReadyAt(b, k)) = FirstTask(b)
  <1>1. /\ DOMAIN Tasks(b) = 1 .. CallCount(b) - 9
        /\ {Tasks(b)[i] : i \in DOMAIN Tasks(b)} = IF b THEN {1, 2, 3, 4} ELSE {3, 4}
    <2>1. CASE b
      <3>1. Tasks(b) = <<2, 1, 4, 3>> /\ CallCount(b) = 13
        BY <2>1 DEF Tasks, CallCount
      <3>2. DOMAIN <<2, 1, 4, 3>> = 1 .. 4
        OBVIOUS
      <3>3. {<<2, 1, 4, 3>>[i] : i \in 1 .. 4} = {1, 2, 3, 4}
        <4>1. 1 .. 4 = {1, 2, 3, 4}
          OBVIOUS
        <4>. QED
          BY <4>1
      <3>4. DOMAIN Tasks(b) = 1 .. 4 /\ CallCount(b) - 9 = 4
        BY <3>1, <3>2
      <3>5. {Tasks(b)[i] : i \in DOMAIN Tasks(b)} = {1, 2, 3, 4}
        BY <3>1, <3>3, <3>4
      <3>. QED
        BY <2>1, <3>4, <3>5
    <2>2. CASE ~b
      <3>1. Tasks(b) = <<4, 3>> /\ CallCount(b) = 11
        BY <2>2 DEF Tasks, CallCount
      <3>2. DOMAIN <<4, 3>> = 1 .. 2
        OBVIOUS
      <3>3. {<<4, 3>>[i] : i \in 1 .. 2} = {3, 4}
        <4>1. 1 .. 2 = {1, 2}
          OBVIOUS
        <4>. QED
          BY <4>1
      <3>. QED
        BY <2>2, <3>1, <3>2, <3>3
    <2>. QED
      BY <2>1, <2>2
  <1>2. \A i \in DOMAIN Tasks(b) : i < k - 6
    BY <1>1 DEF CallCount
  <1>3. k > 3
    BY DEF CallCount
  <1>4. ReadyAt(b, k) = {Tasks(b)[i] : i \in DOMAIN Tasks(b)} \cup {LowestPrio - 1, LowestPrio}
    BY <1>2, <1>3 DEF ReadyAt
  <1> DEFINE S == ReadyAt(b, k)
  <1>5. S \subseteq Nat /\ FirstTask(b) \in S /\ \A q \in S : FirstTask(b) <= q
    <2>1. S = (IF b THEN {1, 2, 3, 4} ELSE {3, 4}) \cup {LowestPrio - 1, LowestPrio}
      BY <1>1, <1>4
    <2> HIDE DEF S
    <2>. QED
      BY <2>1 DEF BootAssumption, FirstTask
  <1> HIDE DEF S
  <1>6. Min(S) \in Nat /\ FirstTask(b) \in Nat /\ Min(S) <= FirstTask(b) /\ FirstTask(b) <= Min(S)
    BY <1>5, Least
  <1>7. Min(S) = FirstTask(b)
    BY <1>5, <1>6
  <1>. QED
    BY <1>4, <1>7 DEF S

(* What is before a frame decides what is more urgent than it.             *)
LEMMA SameUrgent ==
  ASSUME NEW n \in Nat, \A m \in 1 .. n - 1 : frames'[m] = frames[m]
  PROVE  Urgent(n)' = Urgent(n)
  BY DEF Urgent

LEMMA UrgentFirst == Urgent(1) = Irq
  BY DEF Urgent

-----------------------------------------------------------------------------
(* THE INTERRUPTS                                                          *)
LEMMA Innermost ==
  ASSUME Nested, frames # << >>
  PROVE  /\ Len(frames) \in Nat \ {0} /\ frames[Len(frames)] = Inner /\ Inner \in FrameType
         /\ frames \in Seq(FrameType)
  <1>1. frames \in Seq(FrameType) /\ Len(frames) \in Nat \ {0}
    BY EmptySeq DEF Nested
  <1>. QED
    BY <1>1 DEF Inner

(* The innermost frame becomes f.                                          *)
LEMMA TopChanges ==
  ASSUME Nested, frames # << >>, NEW f \in FrameType,
         frames' = [frames EXCEPT ![Len(frames)] = f], alt_irq_active' = alt_irq_active,
         f.open => f.at = "handler" /\ f.mask = Urgent(Len(frames)),
         f.at = "handler" => f.irq \in Urgent(Len(frames)) \cap alt_irq_active,
         f.at = "dispatch" => f.active \subseteq Urgent(Len(frames)) \cap alt_irq_active,
         pie' <=> f.open,
         alt_priority_mask' = IF f.open THEN {i \in Urgent(Len(frames)) : i < f.irq}
                                        ELSE Urgent(Len(frames))
  PROVE  Nested' /\ Inner' = f /\ Len(frames') = Len(frames) /\ frames' # << >>
  <1>0. PICK L \in Nat : L = Len(frames)
    BY Innermost
  <1>1. L \in Nat \ {0} /\ frames \in Seq(FrameType)
    BY <1>0, Innermost
  <1>2. /\ frames' \in Seq(FrameType) /\ Len(frames') = L
        /\ frames'[L] = f /\ \A n \in 1 .. L - 1 : frames'[n] = frames[n]
    BY <1>0, <1>1
  <1>3. frames' # << >> /\ Inner' = f
    BY <1>1, <1>2, EmptySeq DEF Inner
  <1>4. \A n \in 1 .. L : Urgent(n)' = Urgent(n)
    <2> SUFFICES ASSUME NEW n \in 1 .. L PROVE Urgent(n)' = Urgent(n)
      OBVIOUS
    <2>1. n \in Nat /\ \A m \in 1 .. n - 1 : frames'[m] = frames[m]
      BY <1>1, <1>2
    <2>. QED
      BY <2>1, SameUrgent
  <1>5. Urgent(L + 1)' = {i \in Urgent(L) : i < f.irq}
    <2>1. Urgent(L + 1)' = {i \in Irq : \A m \in 1 .. L : i < frames'[m].irq}
      <3>1. (L + 1) - 1 = L
        BY <1>1
      <3>. QED
        BY <3>1 DEF Urgent
    <2>2. \A i : (\A m \in 1 .. L : i < frames'[m].irq)
                  <=> (\A m \in 1 .. L - 1 : i < frames[m].irq) /\ i < f.irq
      BY <1>1, <1>2
    <2>. QED
      BY <2>1, <2>2 DEF Urgent
  <1>6. L \in 1 .. L /\ alt_priority_mask' = IF f.open THEN Urgent(L + 1)' ELSE Urgent(L)'
    <2>1. L \in 1 .. L
      BY <1>1
    <2>2. Urgent(L)' = Urgent(L)
      BY <1>4, <2>1
    <2>3. alt_priority_mask' = IF f.open THEN {i \in Urgent(L) : i < f.irq} ELSE Urgent(L)
      BY <1>0
    <2>. QED
      BY <1>5, <2>1, <2>2, <2>3
  <1>7. ASSUME NEW n \in 1 .. L
        PROVE  LET g == frames'[n]
               IN  /\ n < L => g.open
                   /\ g.open => g.at = "handler" /\ g.mask = Urgent(n)'
                   /\ g.at = "handler" => g.irq \in Urgent(n)' \cap alt_irq_active'
                   /\ g.at = "dispatch" => g.active \subseteq Urgent(n)' \cap alt_irq_active'
    <2>1. CASE n = L
      BY <1>0, <1>2, <1>4, <1>6, <2>1
    <2>2. CASE n # L
      <3>1. n \in 1 .. L - 1 /\ n < L
        BY <1>1, <2>2
      <3>. QED
        BY <1>0, <1>2, <1>4, <3>1 DEF Nested
    <2>. QED
      BY <2>1, <2>2
  <1>. QED
    BY <1>0, <1>2, <1>3, <1>6, <1>7 DEF Nested

(* What a step of a handler leaves alone, and what it must show.           *)
LEMMA HandlerKeeps ==
  ASSUME BootAssumption, BootInv, pie \/ frames # << >>,
         UNCHANGED <<todo, registering, saved, alt_irq, alt_irq_active, OSRunning, OSRdyTbl>>,
         Nested', ienable' = alt_irq_active \cap alt_priority_mask',
         frames' = << >> => pie', request' \subseteq Irq,
         OSPrioCur' = OSPrioCur \/ (OSRunning /\ OSPrioCur' = Min(OSRdyTbl)),
         OSIntNesting' = IF OSRunning THEN Entered' ELSE 0
  PROVE  BootInv'
  <1>1. PICK b \in BOOLEAN, k \in Nat : ComesTo(b, k)
    BY DEF BootInv
  <1>2. registering = "no" /\ saved = << >>
    BY DEF BootInv, Sections
  <1>3. k >= 3 /\ k \in Nat /\ CallCount(b) \in Nat
    BY <1>1 DEF ComesTo, CallCount
  <1>4. OSPrioCur' = OSPrioCur
    <2>1. CASE OSRunning /\ OSPrioCur' = Min(OSRdyTbl)
      <3>1. k = CallCount(b) + 1 /\ OSRdyTbl = ReadyAt(b, k)
        BY <1>1, <2>1 DEF ComesTo
      <3>2. k >= CallCount(b) - 2 /\ k >= CallCount(b)
        BY <1>3, <3>1
      <3>3. OSPrioCur' = FirstTask(b)
        BY <1>3, <2>1, <3>1, <3>2, AllReady
      <3>. QED
        BY <1>1, <3>2, <3>3 DEF ComesTo
    <2>. QED
      BY <2>1
  <1>5. ComesTo(b, k)'
    BY <1>1, <1>2, <1>3, <1>4 DEF ComesTo
  <1>6. Sections'
    BY <1>2 DEF Sections
  <1>7. Handlers'
    BY DEF BootInv, Handlers
  <1>. QED
    BY <1>5, <1>6, <1>7 DEF BootInv

(* What the invariant says while an interrupt is being handled.            *)
LEMMA InHandler ==
  ASSUME BootAssumption, BootInv, frames # << >>
  PROVE  /\ Nested /\ Handlers
         /\ ienable = alt_irq_active \cap alt_priority_mask
         /\ Len(frames) \in Nat \ {0} /\ Inner \in FrameType
         /\ Inner.open => Inner.at = "handler" /\ Inner.mask = Urgent(Len(frames))
         /\ Inner.at = "handler" => Inner.irq \in Urgent(Len(frames)) \cap alt_irq_active
         /\ Inner.at = "dispatch" => Inner.active \subseteq Urgent(Len(frames)) \cap alt_irq_active
         /\ pie <=> Inner.open
         /\ ~Inner.open => alt_priority_mask = Urgent(Len(frames))
  <1>1. PICK b \in BOOLEAN, k \in Nat : ComesTo(b, k)
    BY DEF BootInv
  <1>2. k >= 2
    BY <1>1 DEF ComesTo, CallCount
  <1>3. ienable = alt_irq_active \cap alt_priority_mask /\ Nested /\ Handlers
    BY <1>1, <1>2 DEF ComesTo, BootInv
  <1>4. Len(frames) \in Nat \ {0} /\ Inner \in FrameType /\ frames[Len(frames)] = Inner
    BY <1>3, Innermost
  <1>5. Len(frames) \in 1 .. Len(frames)
    BY <1>4
  <1>. QED
    BY <1>3, <1>4, <1>5 DEF Nested

LEMMA InterruptKeeps ==
  ASSUME BootAssumption, BootInv, Interrupt
  PROVE  BootInv'
  <1>1. Nested /\ pie /\ frames' = Append(frames, Frame) /\ ~pie'
        /\ UNCHANGED <<todo, registering, saved, ienable, request, alt_irq, alt_irq_active,
                       alt_priority_mask, OSRunning, OSIntNesting, OSRdyTbl, OSPrioCur>>
    BY DEF Interrupt, BootInv, startVars, irqVars, osVars
  <1>0. Len(frames) \in Nat
    BY <1>1 DEF Nested
  <1>2. PICK L \in Nat : L = Len(frames) /\ frames \in Seq(FrameType)
    BY <1>0, <1>1 DEF Nested
  <1>3. Frame \in FrameType /\ ~Frame.open /\ Frame.at = "enter"
    BY DEF Frame, FrameType, BootAssumption
  <1>4. /\ frames' \in Seq(FrameType) /\ Len(frames') = L + 1 /\ frames'[L + 1] = Frame
        /\ \A n \in 1 .. L : frames'[n] = frames[n]
    BY <1>1, <1>2, <1>3
  <1>5. frames' # << >> /\ Inner' = Frame
    BY <1>2, <1>4, EmptySeq DEF Inner
  <1>6. \A n \in 1 .. L + 1 : Urgent(n)' = Urgent(n)
    <2> SUFFICES ASSUME NEW n \in 1 .. L + 1 PROVE Urgent(n)' = Urgent(n)
      OBVIOUS
    <2>1. n \in Nat /\ \A m \in 1 .. n - 1 : frames'[m] = frames[m]
      BY <1>2, <1>4
    <2>. QED
      BY <2>1, SameUrgent
  <1>7. frames = << >> \/ (Inner.open /\ Inner.at = "handler" /\ L \in 1 .. L /\ frames[L] = Inner)
    BY <1>1, <1>2, Innermost DEF Nested
  <1>8. alt_priority_mask = Urgent(L + 1)
    BY <1>1, <1>2, <1>7 DEF Nested
  <1>9. ASSUME NEW n \in 1 .. L + 1
        PROVE  LET g == frames'[n]
               IN  /\ n < L + 1 => g.open
                   /\ g.open => g.at = "handler" /\ g.mask = Urgent(n)'
                   /\ g.at = "handler" => g.irq \in Urgent(n)' \cap alt_irq_active'
                   /\ g.at = "dispatch" => g.active \subseteq Urgent(n)' \cap alt_irq_active'
    <2>1. CASE n = L + 1
      BY <1>2, <1>3, <1>4, <2>1
    <2>2. CASE n # L + 1
      <3>1. n \in 1 .. L /\ (n = L \/ n < L)
        BY <1>2, <2>2
      <3>2. frames[n].open
        <4>1. CASE n = L
          <5>1. frames # << >>
            BY <1>2, <3>1
          <5>. QED
            BY <1>7, <4>1, <5>1
        <4>2. CASE n < L
          BY <1>1, <1>2, <3>1, <4>2 DEF Nested
        <4>. QED
          BY <3>1, <4>1, <4>2
      <3>3. frames'[n] = frames[n] /\ Urgent(n)' = Urgent(n)
        BY <1>4, <1>6, <3>1
      <3>. QED
        BY <1>1, <1>2, <3>1, <3>2, <3>3 DEF Nested
    <2>. QED
      BY <2>1, <2>2
  <1>10. Nested'
    <2>1. L + 1 \in 1 .. L + 1
      BY <1>2
    <2>. QED
      BY <1>1, <1>2, <1>3, <1>4, <1>5, <1>6, <1>8, <1>9, <2>1 DEF Nested
  <1>11. Entered' = L /\ Entered = L
    <2>1. Entered' = L
      BY <1>2, <1>3, <1>4, <1>5 DEF Entered
    <2>2. Entered = L
      BY <1>2, <1>7 DEF Entered
    <2>. QED
      BY <2>1, <2>2
  <1>12. ienable = alt_irq_active \cap alt_priority_mask
    <2>1. PICK b \in BOOLEAN, k \in Nat : ComesTo(b, k)
      BY DEF BootInv
    <2>2. k >= 2
      BY <1>1, <2>1 DEF ComesTo, CallCount
    <2>. QED
      BY <2>1, <2>2 DEF ComesTo
  <1>13. OSIntNesting = (IF OSRunning THEN Entered ELSE 0) /\ request \subseteq Irq
    BY DEF BootInv, Handlers
  <1>. QED
    BY <1>1, <1>5, <1>10, <1>11, <1>12, <1>13, HandlerKeeps

(* A step that changes the innermost frame only.                           *)
LEMMA FrameKeeps ==
  ASSUME BootAssumption, BootInv, frames # << >>, NEW f \in FrameType,
         frames' = [frames EXCEPT ![Len(frames)] = f],
         UNCHANGED <<todo, registering, saved, alt_irq, alt_irq_active, OSRunning, OSRdyTbl,
                     OSPrioCur>>,
         f.open => f.at = "handler" /\ f.mask = Urgent(Len(frames)),
         f.at = "handler" => f.irq \in Urgent(Len(frames)) \cap alt_irq_active,
         f.at = "dispatch" => f.active \subseteq Urgent(Len(frames)) \cap alt_irq_active,
         pie' <=> f.open,
         alt_priority_mask' = IF f.open THEN {i \in Urgent(Len(frames)) : i < f.irq}
                                        ELSE Urgent(Len(frames)),
         ienable' = alt_irq_active \cap alt_priority_mask', request' \subseteq Irq,
         f.at # "enter",
         OSIntNesting' = IF OSRunning THEN Len(frames) ELSE 0
  PROVE  BootInv'
  <1>1. Nested
    BY InHandler
  <1>2. Nested' /\ Inner' = f /\ Len(frames') = Len(frames) /\ frames' # << >>
    BY <1>1, TopChanges
  <1>3. Entered' = Len(frames)
    BY <1>2 DEF Entered
  <1>. QED
    BY <1>2, <1>3, HandlerKeeps

LEMMA EnterKeeps ==
  ASSUME BootAssumption, BootInv, OSIntEnter
  PROVE  BootInv'
  <1> DEFINE f == [Inner EXCEPT !.at = "dispatch", !.active = alt_irq_pending]
  <1>1. /\ frames # << >> /\ Inner.at = "enter"
        /\ frames' = [frames EXCEPT ![Len(frames)] = [@ EXCEPT !.at = "dispatch", !.active = alt_irq_pending]]
        /\ OSIntNesting' = IF OSRunning THEN OSIntNesting + 1 ELSE OSIntNesting
        /\ UNCHANGED <<todo, registering, saved, pie, ienable, request, alt_irq, alt_irq_active,
                       alt_priority_mask, OSRunning, OSRdyTbl, OSPrioCur>>
    BY DEF OSIntEnter, Stands, startVars, irqVars
  <1>2. /\ Inner \in FrameType /\ ~Inner.open /\ ~pie /\ alt_priority_mask = Urgent(Len(frames))
        /\ ienable = alt_irq_active \cap alt_priority_mask /\ request \subseteq Irq
        /\ Len(frames) \in Nat \ {0}
        /\ OSIntNesting = IF OSRunning THEN Entered ELSE 0
    BY <1>1, InHandler DEF Handlers
  <1>3. alt_irq_pending \subseteq Irq /\ alt_irq_pending \subseteq Urgent(Len(frames)) \cap alt_irq_active
    BY <1>2 DEF alt_irq_pending
  <1>4. f \in FrameType /\ ~f.open /\ f.at = "dispatch" /\ f.active = alt_irq_pending
    BY <1>2, <1>3 DEF FrameType
  <1>5. frames' = [frames EXCEPT ![Len(frames)] = f]
    BY <1>1 DEF Inner
  <1>6. OSIntNesting' = IF OSRunning THEN Len(frames) ELSE 0
    BY <1>1, <1>2 DEF Entered
  <1> HIDE DEF f
  <1>. QED
    BY <1>1, <1>2, <1>3, <1>4, <1>5, <1>6, FrameKeeps

LEMMA DispatchKeeps ==
  ASSUME BootAssumption, BootInv, alt_irq_handler
  PROVE  BootInv'
  <1> DEFINE f == [Inner EXCEPT !.at = "handler", !.irq = Min(Inner.active)]
  <1>1. /\ frames # << >> /\ Inner.at = "dispatch" /\ Inner.active # {}
        /\ frames' = [frames EXCEPT ![Len(frames)] = [@ EXCEPT !.at = "handler", !.irq = Min(Inner.active)]]
        /\ UNCHANGED <<todo, registering, saved, pie, ienable, request, alt_irq, alt_irq_active,
                       alt_priority_mask, OSRunning, OSRdyTbl, OSPrioCur, OSIntNesting>>
    BY DEF alt_irq_handler, Stands, startVars, irqVars, osVars
  <1>2. /\ Inner \in FrameType /\ ~Inner.open /\ ~pie /\ alt_priority_mask = Urgent(Len(frames))
        /\ ienable = alt_irq_active \cap alt_priority_mask /\ request \subseteq Irq
        /\ Inner.active \subseteq Urgent(Len(frames)) \cap alt_irq_active
        /\ OSIntNesting = IF OSRunning THEN Entered ELSE 0
    BY <1>1, InHandler DEF Handlers
  <1>3. Min(Inner.active) \in Inner.active
    <2>1. Inner.active \subseteq Nat
      BY <1>2 DEF FrameType, BootAssumption
    <2>. QED
      BY <1>1, <2>1, Least
  <1>4. /\ f \in FrameType /\ ~f.open /\ f.at = "handler"
        /\ f.irq \in Urgent(Len(frames)) \cap alt_irq_active
    <2>1. Min(Inner.active) \in Irq
      BY <1>2, <1>3 DEF FrameType
    <2>. QED
      BY <1>2, <1>3, <2>1 DEF FrameType
  <1>5. frames' = [frames EXCEPT ![Len(frames)] = f]
    BY <1>1 DEF Inner
  <1>6. OSIntNesting' = IF OSRunning THEN Len(frames) ELSE 0
    BY <1>1, <1>2 DEF Entered
  <1> HIDE DEF f
  <1>. QED
    BY <1>1, <1>2, <1>4, <1>5, <1>6, FrameKeeps

LEMMA OpenKeeps ==
  ASSUME BootAssumption, BootInv, alt_irq_interruptible
  PROVE  BootInv'
  <1> DEFINE f == [Inner EXCEPT !.open = TRUE, !.mask = alt_priority_mask]
  <1>1. /\ frames # << >> /\ Inner.at = "handler" /\ ~Inner.open /\ pie'
        /\ frames' = [frames EXCEPT ![Len(frames)] = [@ EXCEPT !.open = TRUE, !.mask = alt_priority_mask]]
        /\ alt_priority_mask' = {i \in Irq : i < Inner.irq}
        /\ ienable' = alt_irq_active \cap alt_priority_mask'
        /\ UNCHANGED <<todo, registering, saved, request, alt_irq, alt_irq_active,
                       OSRunning, OSRdyTbl, OSPrioCur, OSIntNesting>>
    BY DEF alt_irq_interruptible, Stands, startVars, osVars
  <1>2. /\ Inner \in FrameType /\ alt_priority_mask = Urgent(Len(frames))
        /\ Inner.irq \in Urgent(Len(frames)) \cap alt_irq_active
        /\ OSIntNesting = IF OSRunning THEN Entered ELSE 0
        /\ request \subseteq Irq /\ Nested
    BY <1>1, InHandler DEF Handlers
  <1>3. Urgent(Len(frames)) \subseteq Irq
    BY DEF Urgent
  <1>4. /\ f \in FrameType /\ f.open /\ f.at = "handler" /\ f.mask = Urgent(Len(frames))
        /\ f.irq = Inner.irq
    BY <1>1, <1>2, <1>3 DEF FrameType
  <1>5. frames' = [frames EXCEPT ![Len(frames)] = f]
    BY <1>1 DEF Inner
  <1>6. OSIntNesting' = IF OSRunning THEN Len(frames) ELSE 0
    BY <1>1, <1>2 DEF Entered
  <1>7. {i \in Irq : i < Inner.irq} = {i \in Urgent(Len(frames)) : i < Inner.irq}
    <2> SUFFICES ASSUME NEW i \in Irq, i < Inner.irq
                 PROVE  \A m \in 1 .. Len(frames) - 1 : i < frames[m].irq
      BY <1>3 DEF Urgent
    <2>1. \A m \in 1 .. Len(frames) - 1 : Inner.irq < frames[m].irq
      BY <1>2 DEF Urgent
    <2>2. \A m \in 1 .. Len(frames) - 1 : frames[m].irq \in Nat
      <3>1. frames \in Seq(FrameType) /\ Len(frames) \in Nat
        BY <1>2 DEF Nested
      <3>2. \A m \in 1 .. Len(frames) - 1 : frames[m] \in FrameType
        BY <3>1
      <3>. QED
        BY <3>2 DEF FrameType, BootAssumption
    <2>3. i \in Nat /\ Inner.irq \in Nat
      BY <1>2 DEF FrameType, BootAssumption
    <2>. QED
      BY <2>1, <2>2, <2>3
  <1> HIDE DEF f
  <1>. QED
    BY <1>1, <1>2, <1>4, <1>5, <1>6, <1>7, FrameKeeps

LEMMA CloseKeeps ==
  ASSUME BootAssumption, BootInv, alt_irq_non_interruptible
  PROVE  BootInv'
  <1> DEFINE f == [Inner EXCEPT !.open = FALSE, !.mask = {}]
  <1>1. /\ frames # << >> /\ Inner.at = "handler" /\ Inner.open /\ ~pie'
        /\ frames' = [frames EXCEPT ![Len(frames)] = [@ EXCEPT !.open = FALSE, !.mask = {}]]
        /\ alt_priority_mask' = Inner.mask
        /\ ienable' = Inner.mask \cap alt_irq_active
        /\ UNCHANGED <<todo, registering, saved, request, alt_irq, alt_irq_active,
                       OSRunning, OSRdyTbl, OSPrioCur, OSIntNesting>>
    BY DEF alt_irq_non_interruptible, Stands, startVars, osVars
  <1>2. /\ Inner \in FrameType /\ Inner.mask = Urgent(Len(frames))
        /\ Inner.irq \in Urgent(Len(frames)) \cap alt_irq_active
        /\ OSIntNesting = IF OSRunning THEN Entered ELSE 0
        /\ request \subseteq Irq
    BY <1>1, InHandler DEF Handlers
  <1>4. /\ f \in FrameType /\ ~f.open /\ f.at = "handler" /\ f.irq = Inner.irq
    BY <1>1, <1>2 DEF FrameType
  <1>5. frames' = [frames EXCEPT ![Len(frames)] = f]
    BY <1>1 DEF Inner
  <1>6. OSIntNesting' = IF OSRunning THEN Len(frames) ELSE 0
    BY <1>1, <1>2 DEF Entered
  <1> HIDE DEF f
  <1>. QED
    BY <1>1, <1>2, <1>4, <1>5, <1>6, FrameKeeps

LEMMA HandlerReturnKeeps ==
  ASSUME BootAssumption, BootInv, HandlerReturns
  PROVE  BootInv'
  <1> DEFINE active == request' \cap ienable
             at == IF active = {} THEN "exit" ELSE "dispatch"
             f == [Inner EXCEPT !.at = at, !.active = active, !.irq = TIMER]
  <1>1. /\ frames # << >> /\ Inner.at = "handler" /\ ~Inner.open
        /\ request' = request \ {Inner.irq}
        /\ frames' = [frames EXCEPT ![Len(frames)] =
                        [@ EXCEPT !.at = IF active = {} THEN "exit" ELSE "dispatch", !.active = active,
                                  !.irq = TIMER]]
        /\ UNCHANGED <<todo, registering, saved, pie, ienable, alt_irq, alt_irq_active,
                       alt_priority_mask, OSRunning, OSRdyTbl, OSPrioCur, OSIntNesting>>
    BY DEF HandlerReturns, Stands, startVars, irqVars, osVars
  <1>2. /\ Inner \in FrameType /\ ~pie /\ alt_priority_mask = Urgent(Len(frames))
        /\ ienable = alt_irq_active \cap alt_priority_mask
        /\ OSIntNesting = IF OSRunning THEN Entered ELSE 0
        /\ request \subseteq Irq
    BY <1>1, InHandler DEF Handlers
  <1>3. active \subseteq Irq /\ active \subseteq Urgent(Len(frames)) \cap alt_irq_active /\ request' \subseteq Irq
    BY <1>1, <1>2
  <1>5. frames' = [frames EXCEPT ![Len(frames)] = f]
    BY <1>1 DEF Inner
  <1>6. OSIntNesting' = IF OSRunning THEN Len(frames) ELSE 0
    BY <1>1, <1>2 DEF Entered
  <1>7. at \in {"exit", "dispatch"}
    OBVIOUS
  <1> HIDE DEF active, at
  <1>4. /\ f \in FrameType /\ ~f.open /\ f.at = at /\ f.active = active
    BY <1>1, <1>2, <1>3, <1>7 DEF FrameType, BootAssumption
  <1> HIDE DEF f
  <1>. QED
    BY <1>1, <1>2, <1>3, <1>4, <1>5, <1>6, <1>7, FrameKeeps

LEMMA ExitKeeps ==
  ASSUME BootAssumption, BootInv, OSIntExit
  PROVE  BootInv'
  <1>1. /\ frames # << >> /\ Inner.at = "exit" /\ frames' = Front(frames) /\ pie'
        /\ OSIntNesting' = IF OSRunning /\ OSIntNesting > 0 THEN OSIntNesting - 1 ELSE OSIntNesting
        /\ OSPrioCur' = IF OSRunning /\ OSIntNesting' = 0 THEN Min(OSRdyTbl) ELSE OSPrioCur
        /\ UNCHANGED <<todo, registering, saved, ienable, request, alt_irq, alt_irq_active,
                       alt_priority_mask, OSRunning, OSRdyTbl>>
    BY DEF OSIntExit, Stands, startVars, irqVars
  <1>2. /\ Nested /\ Inner \in FrameType /\ ~Inner.open /\ alt_priority_mask = Urgent(Len(frames))
        /\ ienable = alt_irq_active \cap alt_priority_mask
        /\ OSIntNesting = IF OSRunning THEN Entered ELSE 0
        /\ request \subseteq Irq /\ frames \in Seq(FrameType) /\ Len(frames) \in Nat \ {0}
    BY <1>1, InHandler DEF Handlers, Nested
  <1>3. PICK L \in Nat \ {0} : L = Len(frames)
    BY <1>2
  <1>4. /\ frames' \in Seq(FrameType) /\ Len(frames') = L - 1
        /\ \A n \in 1 .. L - 1 : frames'[n] = frames[n]
    <2>1. frames' = SubSeq(frames, 1, L - 1)
      BY <1>1, <1>3 DEF Front
    <2>2. \A i \in 1 .. L - 1 : frames[i] \in FrameType
      BY <1>2, <1>3
    <2>3. /\ SubSeq(frames, 1, L - 1) \in Seq(FrameType)
          /\ Len(SubSeq(frames, 1, L - 1)) = IF 1 <= L - 1 THEN L - 1 - 1 + 1 ELSE 0
          /\ \A i \in 1 .. L - 1 - 1 + 1 : SubSeq(frames, 1, L - 1)[i] = frames[1 + i - 1]
      BY <1>3, <2>2, SubSeqProperties
    <2>4. L - 1 - 1 + 1 = L - 1 /\ \A i \in 1 .. L - 1 : 1 + i - 1 = i
      BY <1>3
    <2>5. Len(SubSeq(frames, 1, L - 1)) = L - 1
      BY <1>3, <2>3
    <2>. QED
      BY <2>1, <2>3, <2>4, <2>5
  <1>5. \A n \in 1 .. L : Urgent(n)' = Urgent(n)
    <2> SUFFICES ASSUME NEW n \in 1 .. L PROVE Urgent(n)' = Urgent(n)
      OBVIOUS
    <2>1. n \in Nat /\ \A m \in 1 .. n - 1 : frames'[m] = frames[m]
      BY <1>3, <1>4
    <2>. QED
      BY <2>1, SameUrgent
  <1>6. \A n \in 1 .. L - 1 : n \in 1 .. L /\ frames'[n] = frames[n] /\ frames[n].open /\ frames[n].at = "handler"
    <2>1. \A n \in 1 .. L - 1 : n \in 1 .. L /\ n < L
      BY <1>3
    <2>. QED
      BY <1>2, <1>3, <1>4, <2>1 DEF Nested
  <1>7. frames' # << >> => Inner'.open /\ Inner'.at = "handler"
    <2> SUFFICES ASSUME frames' # << >> PROVE Inner'.open /\ Inner'.at = "handler"
      OBVIOUS
    <2>1. L - 1 \in 1 .. L - 1
      BY <1>3, <1>4, EmptySeq
    <2>2. Inner' = frames'[L - 1]
      BY <1>4 DEF Inner
    <2>. QED
      BY <1>6, <2>1, <2>2
  <1>8. Nested'
    <2>1. (L - 1) + 1 = L /\ L \in 1 .. L
      BY <1>3
    <2>2. alt_priority_mask' = Urgent(L)'
      BY <1>1, <1>2, <1>3, <1>5, <2>1
    <2>3. ASSUME NEW n \in 1 .. L - 1
          PROVE  LET g == frames'[n]
                 IN  /\ n < L - 1 => g.open
                     /\ g.open => g.at = "handler" /\ g.mask = Urgent(n)'
                     /\ g.at = "handler" => g.irq \in Urgent(n)' \cap alt_irq_active'
                     /\ g.at = "dispatch" => g.active \subseteq Urgent(n)' \cap alt_irq_active'
      BY <1>1, <1>2, <1>3, <1>5, <1>6 DEF Nested
    <2>. QED
      BY <1>1, <1>4, <1>7, <2>1, <2>2, <2>3 DEF Nested
  <1>9. Entered' = L - 1 /\ Entered = L
    <2>1. Entered' = L - 1
      BY <1>4, <1>7 DEF Entered
    <2>. QED
      BY <1>1, <1>3, <2>1 DEF Entered
  <1>10. OSIntNesting' = IF OSRunning THEN Entered' ELSE 0
    BY <1>1, <1>2, <1>3, <1>9
  <1>. QED
    BY <1>1, <1>2, <1>8, <1>10, HandlerKeeps

-----------------------------------------------------------------------------
(* THE CALLS                                                               *)
LEMMA ReadyGrows ==
  ASSUME NEW b \in BOOLEAN, NEW k \in 1 .. CallCount(b)
  PROVE  ReadyAt(b, k + 1) =
           IF k = 3 THEN {LowestPrio - 1, LowestPrio}
           ELSE IF k \in 7 .. CallCount(b) - 3 THEN ReadyAt(b, k) \cup {Tasks(b)[k - 6]}
           ELSE ReadyAt(b, k)
  <1> DEFINE prio == Tasks(b)
             n == CallCount(b)
             Sofar(j) == {prio[i] : i \in {h \in 1 .. n - 9 : h < j}}
  <1>1. DOMAIN prio = 1 .. n - 9 /\ n \in Nat /\ n >= 11
    <2>1. n \in Nat /\ n >= 11 /\ n - 9 \in Nat
      BY DEF CallCount
    <2>. QED
      BY <2>1, Creations
  <1>2. \A j \in Nat : j > 3 => ReadyAt(b, j) = {LowestPrio - 1, LowestPrio} \cup Sofar(j - 6)
    BY <1>1 DEF ReadyAt
  <1>3. \A j \in Nat : j <= 3 => ReadyAt(b, j) = {}
    BY DEF ReadyAt
  <1>4. k \in 1 .. n
    OBVIOUS
  <1> HIDE DEF prio, n
  <1>5. \A j \in Int : j <= 1 => Sofar(j) = {}
    BY <1>1
  <1>6. \A j \in Int : j > n - 9 => Sofar(j) = Sofar(n - 8)
    BY <1>1
  <1>7. \A j \in 1 .. n - 9 : Sofar(j + 1) = Sofar(j) \cup {prio[j]}
    <2> SUFFICES ASSUME NEW j \in 1 .. n - 9
                 PROVE  Sofar(j + 1) = Sofar(j) \cup {prio[j]}
      OBVIOUS
    <2>1. {h \in 1 .. n - 9 : h < j + 1} = {h \in 1 .. n - 9 : h < j} \cup {j}
      BY <1>1
    <2>. QED
      BY <2>1
  <1> HIDE DEF Sofar
  <1>8. CASE k <= 2
    <2>1. k \in Nat /\ k + 1 \in Nat /\ k <= 3 /\ k + 1 <= 3 /\ k # 3 /\ ~(k \in 7 .. n - 3)
      BY <1>1, <1>4, <1>8
    <2>2. ReadyAt(b, k) = {} /\ ReadyAt(b, k + 1) = {}
      BY <1>3, <2>1
    <2>. QED
      BY <2>1, <2>2 DEF n
  <1>9. CASE k \in {3, 4, 5, 6}
    <2>1. k \in Nat /\ k + 1 \in Nat /\ k + 1 > 3 /\ (k + 1) - 6 <= 1 /\ k - 6 <= 1
          /\ k - 6 \in Int /\ (k + 1) - 6 \in Int /\ ~(k \in 7 .. n - 3)
      BY <1>1, <1>4, <1>9
    <2>2. Sofar((k + 1) - 6) = {} /\ Sofar(k - 6) = {}
      BY <1>5, <2>1
    <2>3. ReadyAt(b, k + 1) = {LowestPrio - 1, LowestPrio}
      BY <1>2, <2>1, <2>2
    <2>4. k # 3 => ReadyAt(b, k) = {LowestPrio - 1, LowestPrio}
      <3>1. k # 3 => k > 3
        BY <1>9
      <3>. QED
        BY <1>2, <2>1, <2>2, <3>1
    <2>. QED
      BY <2>1, <2>3, <2>4 DEF n
  <1>10. CASE k \in 7 .. n - 3
    <2>1. k - 6 \in 1 .. n - 9 /\ (k + 1) - 6 = (k - 6) + 1 /\ k > 3 /\ k # 3
      BY <1>1, <1>10
    <2>. QED
      BY <1>1, <1>2, <1>7, <1>10, <2>1 DEF n, prio
  <1>11. CASE k \in n - 2 .. n
    <2>1. k - 6 > n - 9 /\ (k + 1) - 6 > n - 9 /\ k > 3 /\ ~(k \in 7 .. n - 3) /\ k # 3
      BY <1>1, <1>11
    <2>2. Sofar(k - 6) = Sofar((k + 1) - 6)
      BY <1>1, <1>4, <1>6, <2>1
    <2>3. k \in Nat /\ k + 1 \in Nat /\ k + 1 > 3
      BY <1>4, <2>1
    <2>4. ReadyAt(b, k + 1) = ReadyAt(b, k)
      BY <1>2, <2>1, <2>2, <2>3
    <2>. QED
      BY <2>1, <2>4 DEF n
  <1>. QED
    BY <1>1, <1>4, <1>8, <1>9, <1>10, <1>11

(* Where the start is when it makes a call.                                *)
LEMMA AtCall ==
  ASSUME BootAssumption, BootInv, NEW op \in Ops, Calls(op)
  PROVE  /\ \E b \in BOOLEAN :
              \E k \in 1 .. CallCount(b) :
                /\ ComesTo(b, k) /\ Tail(todo) = Rest(b, k + 1)
                /\ op = "irq_init" => k = 1
                /\ op = "enable_interrupts" => k = 2
                /\ op = "os_init" => k = 3
                /\ op = "register" => k \in {4, 5, 6, CallCount(b) - 2}
                /\ op = "create" => k \in 7 .. CallCount(b) - 3 /\ todo[1].prio = Tasks(b)[k - 6]
                /\ op = "start" => k = CallCount(b) - 1
                /\ op = "first" => k = CallCount(b)
         /\ op = "register" =>
              todo[1].isr # "none" /\ todo[1].irq \in {TIMER, JTAG_UART, UART_BLUETOOTH}
         /\ ~OSRunning /\ OSIntNesting = 0 /\ frames = << >> /\ alt_priority_mask = Irq
         /\ op # "register" => registering = "no" /\ saved = << >>
         /\ Nested /\ Handlers /\ Sections
  <1>1. PICK b \in BOOLEAN, k \in Nat : ComesTo(b, k)
    BY DEF BootInv
  <1>2. frames = << >> /\ todo # << >> /\ todo[1].op = op
    BY DEF Calls
  <1>3. k \in 1 .. CallCount(b) + 1 /\ todo = Rest(b, k) /\ CallCount(b) \in Nat
    BY <1>1 DEF ComesTo, CallCount
  <1>4. k \in 1 .. CallCount(b) /\ Tail(todo) = Rest(b, k + 1)
    <2>1. k <= CallCount(b) /\ Tail(todo) = Rest(b, k + 1)
      BY <1>2, <1>3, NextCall
    <2>. QED
      BY <1>3, <2>1
  <1>5. /\ op = "irq_init" => k = 1
        /\ op = "enable_interrupts" => k = 2
        /\ op = "os_init" => k = 3
        /\ op = "register" => k \in {4, 5, 6, CallCount(b) - 2}
        /\ op = "create" => k \in 7 .. CallCount(b) - 3 /\ todo[1].prio = Tasks(b)[k - 6]
        /\ op = "start" => k = CallCount(b) - 1
        /\ op = "first" => k = CallCount(b)
        /\ op = "register" =>
             todo[1].isr # "none" /\ todo[1].irq \in {TIMER, JTAG_UART, UART_BLUETOOTH}
    BY <1>2, <1>3, NextCall
  <1>6. ~OSRunning
    BY <1>1, <1>3, <1>4 DEF ComesTo
  <1>7. Nested /\ Handlers /\ Sections
    BY DEF BootInv
  <1>8. OSIntNesting = 0
    BY <1>6, <1>7 DEF Handlers
  <1>9. alt_priority_mask = Irq
    <2>1. Len(frames) + 1 = 1
      BY <1>2
    <2>. QED
      BY <1>2, <1>7, <2>1, UrgentFirst DEF Nested
  <1>10. op # "register" => registering = "no" /\ saved = << >>
    BY <1>2, <1>7 DEF Sections, Calls
  <1>. QED
    BY <1>1, <1>2, <1>4, <1>5, <1>6, <1>7, <1>8, <1>9, <1>10

(* What a step of the start must show.                                     *)
LEMMA CallKeeps ==
  ASSUME NEW b \in BOOLEAN, NEW k \in Nat, ComesTo(b, k)', Sections', Handlers',
         frames' = << >>, alt_priority_mask' = Irq
  PROVE  BootInv'
  <1>1. Urgent(1)' = Irq
    BY DEF Urgent
  <1>2. Nested'
    <2>1. Len(frames') = 0 /\ 0 + 1 = 1 /\ frames' \in Seq(FrameType)
      OBVIOUS
    <2>. QED
      BY <1>1, <2>1 DEF Nested
  <1>. QED
    BY <1>2 DEF BootInv

LEMMA StartKeeps ==
  ASSUME BootAssumption, BootInv,
         \/ altera_nios2_qsys_irq_init \/ alt_irq_cpu_enable_interrupts \/ OSInit
         \/ OSTaskCreateExt \/ OSStart \/ OSStartHighRdy
  PROVE  BootInv'
  <1>1. PICK op \in Ops \ {"register"} :
          /\ Calls(op) /\ Done
          /\ \/ op = "irq_init" /\ altera_nios2_qsys_irq_init
             \/ op = "enable_interrupts" /\ alt_irq_cpu_enable_interrupts
             \/ op = "os_init" /\ OSInit
             \/ op = "create" /\ OSTaskCreateExt
             \/ op = "start" /\ OSStart
             \/ op = "first" /\ OSStartHighRdy
    BY DEF altera_nios2_qsys_irq_init, alt_irq_cpu_enable_interrupts, OSInit, OSTaskCreateExt,
           OSStart, OSStartHighRdy, Ops
  <1>2. PICK b \in BOOLEAN :
          \E k \in 1 .. CallCount(b) :
            /\ ComesTo(b, k) /\ Tail(todo) = Rest(b, k + 1)
            /\ op = "irq_init" => k = 1
            /\ op = "enable_interrupts" => k = 2
            /\ op = "os_init" => k = 3
            /\ op = "create" => k \in 7 .. CallCount(b) - 3 /\ todo[1].prio = Tasks(b)[k - 6]
            /\ op = "start" => k = CallCount(b) - 1
            /\ op = "first" => k = CallCount(b)
    BY <1>1, AtCall
  <1>3. PICK k \in 1 .. CallCount(b) :
          /\ ComesTo(b, k) /\ Tail(todo) = Rest(b, k + 1)
          /\ op = "irq_init" => k = 1
          /\ op = "enable_interrupts" => k = 2
          /\ op = "os_init" => k = 3
          /\ op = "create" => k \in 7 .. CallCount(b) - 3 /\ todo[1].prio = Tasks(b)[k - 6]
          /\ op = "start" => k = CallCount(b) - 1
          /\ op = "first" => k = CallCount(b)
    BY <1>2
  <1>4. /\ ~OSRunning /\ OSIntNesting = 0 /\ frames = << >> /\ alt_priority_mask = Irq
        /\ registering = "no" /\ saved = << >> /\ Handlers
    BY <1>1, AtCall
  <1>5. /\ CallCount(b) \in {11, 13} /\ k \in Nat /\ k + 1 \in Nat
        /\ k + 1 \in 1 .. CallCount(b) + 1 /\ todo' = Rest(b, k + 1)
    BY <1>1, <1>3 DEF Done, CallCount
  <1>6. /\ registering' = "no" /\ saved' = << >> /\ frames' = << >> /\ alt_priority_mask' = Irq
        /\ OSIntNesting' = 0
        /\ alt_irq' = alt_irq /\ alt_irq_active' = alt_irq_active /\ request' = request
    BY <1>1, <1>4 DEF altera_nios2_qsys_irq_init, alt_irq_cpu_enable_interrupts, OSInit,
      OSTaskCreateExt, OSStart, OSStartHighRdy, irqVars, osVars, OS_InitMisc
  <1>7. Sections' /\ Handlers'
    <2>1. Entered' = 0
      BY <1>6 DEF Entered
    <2>2. Sections'
      BY <1>6 DEF Sections
    <2>. QED
      BY <1>4, <1>6, <2>1, <2>2 DEF Handlers
  <1>8. OSRunning' <=> k + 1 = CallCount(b) + 1
    BY <1>1, <1>3, <1>4, <1>5 DEF altera_nios2_qsys_irq_init, alt_irq_cpu_enable_interrupts, OSInit,
      OSTaskCreateExt, OSStart, OSStartHighRdy, irqVars, osVars, OS_InitMisc, Ops
  <1>9. OSRdyTbl' = ReadyAt(b, k + 1)
    <2>1. ReadyAt(b, k + 1) =
            IF k = 3 THEN {LowestPrio - 1, LowestPrio}
            ELSE IF k \in 7 .. CallCount(b) - 3 THEN ReadyAt(b, k) \cup {Tasks(b)[k - 6]}
            ELSE ReadyAt(b, k)
      BY ReadyGrows
    <2>2. OSRdyTbl = ReadyAt(b, k)
      BY <1>3 DEF ComesTo
    <2>3. CASE op = "os_init"
      BY <1>1, <1>3, <2>1, <2>3 DEF OSInit, OS_InitTaskStat, OS_InitTaskIdle, OS_InitRdyList
    <2>4. CASE op = "create"
      <3>1. OSRdyTbl' = OSRdyTbl \cup {todo[1].prio}
        BY <1>1, <2>4 DEF OSTaskCreateExt
      <3>2. k \in 7 .. CallCount(b) - 3 /\ todo[1].prio = Tasks(b)[k - 6] /\ k # 3
        BY <1>3, <2>4
      <3>. QED
        BY <2>1, <2>2, <3>1, <3>2
    <2>5. CASE op \notin {"os_init", "create"}
      <3>1. OSRdyTbl' = OSRdyTbl
        BY <1>1, <2>5 DEF altera_nios2_qsys_irq_init, alt_irq_cpu_enable_interrupts, OSStart,
          OSStartHighRdy, osVars
      <3>2. k # 3 /\ k \notin 7 .. CallCount(b) - 3
        BY <1>1, <1>3, <1>5, <2>5
      <3>. QED
        BY <2>1, <2>2, <3>1, <3>2
    <2>. QED
      BY <2>3, <2>4, <2>5
  <1>10. OSPrioCur' = IF k + 1 >= CallCount(b) THEN FirstTask(b) ELSE 0
    <2>1. OSPrioCur = (IF k >= CallCount(b) THEN FirstTask(b) ELSE 0) /\ OSRdyTbl = ReadyAt(b, k)
      BY <1>3 DEF ComesTo
    <2>2. CASE op = "start"
      <3>1. k >= CallCount(b) - 2 /\ k + 1 >= CallCount(b)
        BY <1>3, <1>5, <2>2
      <3>2. Min(OSRdyTbl) = FirstTask(b)
        BY <1>5, <2>1, <3>1, AllReady
      <3>. QED
        BY <1>1, <2>2, <3>1, <3>2 DEF OSStart
    <2>3. CASE op = "first"
      BY <1>1, <1>3, <1>5, <2>1, <2>3 DEF OSStartHighRdy
    <2>4. CASE op \notin {"start", "first"}
      <3>1. k + 1 < CallCount(b) /\ k < CallCount(b)
        BY <1>1, <1>3, <1>5, <2>4
      <3>2. OSPrioCur' = 0
        BY <1>1, <1>4, <1>5, <2>1, <2>4, <3>1 DEF altera_nios2_qsys_irq_init,
          alt_irq_cpu_enable_interrupts, OSInit, OSTaskCreateExt, osVars
      <3>. QED
        BY <1>5, <3>1, <3>2
    <2>. QED
      BY <2>2, <2>3, <2>4
  <1>11. k + 1 >= 2 /\ ienable' = alt_irq_active' \cap alt_priority_mask'
    <2>1. CASE op = "irq_init"
      BY <1>1, <1>3, <1>5, <1>6, <2>1 DEF altera_nios2_qsys_irq_init, ComesTo
    <2>2. CASE op # "irq_init"
      <3>1. k >= 2 /\ ienable' = ienable
        BY <1>1, <1>3, <1>5, <2>2 DEF alt_irq_cpu_enable_interrupts, OSInit, OSTaskCreateExt,
          OSStart, OSStartHighRdy
      <3>. QED
        BY <1>3, <1>4, <1>5, <1>6, <3>1 DEF ComesTo
    <2>. QED
      BY <2>1, <2>2
  <1>12. k + 1 <= 2 => ~pie' /\ alt_irq_active' = {}
    <2> SUFFICES ASSUME k + 1 <= 2 PROVE ~pie' /\ alt_irq_active' = {}
      OBVIOUS
    <2>1. k = 1 /\ op = "irq_init"
      BY <1>1, <1>3, <1>5
    <2>. QED
      BY <1>1, <1>3, <1>6, <2>1 DEF altera_nios2_qsys_irq_init, ComesTo
  <1>13. k + 1 >= 3 => pie'
    <2> SUFFICES ASSUME k + 1 >= 3 PROVE pie'
      OBVIOUS
    <2>1. k >= 2 /\ op # "irq_init"
      BY <1>3, <1>5
    <2>2. CASE op \in {"enable_interrupts", "first"}
      BY <1>1, <2>2 DEF alt_irq_cpu_enable_interrupts, OSStartHighRdy
    <2>3. CASE op \notin {"enable_interrupts", "first"}
      <3>1. k >= 3 /\ pie' = pie
        BY <1>1, <1>3, <1>5, <2>1, <2>3 DEF OSInit, OSTaskCreateExt, OSStart
      <3>. QED
        BY <1>3, <1>4, <3>1 DEF ComesTo
    <2>. QED
      BY <2>2, <2>3
  <1>14. ComesTo(b, k + 1)'
    BY <1>5, <1>6, <1>8, <1>9, <1>10, <1>11, <1>12, <1>13 DEF ComesTo
  <1>. QED
    BY <1>5, <1>6, <1>7, <1>14, CallKeeps

LEMMA RegisterStep ==
  ASSUME BootAssumption, BootInv, alt_iic_isr_register \/ alt_irq_enable \/ RegisterLeaves
  PROVE  BootInv'
  <1>1. Calls("register") /\ "register" \in Ops
    BY DEF alt_iic_isr_register, alt_irq_enable, RegisterLeaves, Ops
  <1>2. PICK b \in BOOLEAN :
          \E k \in 1 .. CallCount(b) :
            /\ ComesTo(b, k) /\ Tail(todo) = Rest(b, k + 1) /\ k \in {4, 5, 6, CallCount(b) - 2}
    BY <1>1, AtCall
  <1>3. PICK k \in 1 .. CallCount(b) :
          ComesTo(b, k) /\ Tail(todo) = Rest(b, k + 1) /\ k \in {4, 5, 6, CallCount(b) - 2}
    BY <1>2
  <1>4. /\ ~OSRunning /\ OSIntNesting = 0 /\ frames = << >> /\ alt_priority_mask = Irq
        /\ Handlers /\ Sections /\ todo[1].isr # "none"
    BY <1>1, AtCall
  <1>5. todo[1].irq \in Irq
    <2>1. todo[1].irq \in {TIMER, JTAG_UART, UART_BLUETOOTH}
      BY <1>1, AtCall
    <2>. QED
      BY <2>1 DEF BootAssumption
  <1>6. /\ CallCount(b) \in {11, 13} /\ k \in Nat /\ k >= 4 /\ k + 1 \in 1 .. CallCount(b) + 1
        /\ k + 1 < CallCount(b)
    <2>1. CallCount(b) \in {11, 13}
      BY DEF CallCount
    <2>. QED
      BY <1>3, <2>1
  <1>7. /\ pie <=> saved = << >>
        /\ ienable = alt_irq_active \cap Irq /\ OSRdyTbl = ReadyAt(b, k) /\ OSPrioCur = 0
        /\ todo = Rest(b, k)
    BY <1>3, <1>4, <1>6 DEF ComesTo
  <1>8. /\ frames' = << >> /\ alt_priority_mask' = Irq /\ request' = request
        /\ UNCHANGED <<OSRunning, OSIntNesting, OSRdyTbl, OSPrioCur>>
    BY <1>4 DEF alt_iic_isr_register, alt_irq_enable, RegisterLeaves, irqVars, osVars
  <1>9. Entered' = 0
    BY <1>8 DEF Entered
  <1>10. \A j \in Nat : /\ j >= 4 /\ j \in 1 .. CallCount(b) + 1 /\ j < CallCount(b)
                        /\ todo' = Rest(b, j) /\ ReadyAt(b, j) = ReadyAt(b, k)
                        /\ ienable' = alt_irq_active' \cap Irq
                        /\ pie' <=> saved' = << >>
                        => ComesTo(b, j)'
    BY <1>4, <1>6, <1>7, <1>8 DEF ComesTo
  <1>11. /\ alt_irq_active' \subseteq {i \in Irq : alt_irq'[i] # "none"} /\ DOMAIN alt_irq' = Irq
         => Handlers'
    BY <1>4, <1>8, <1>9 DEF Handlers
  <1>12. CASE alt_iic_isr_register
    <2>1. /\ registering = "no" /\ registering' = "handler" /\ saved' = Append(saved, pie) /\ pie' = FALSE
          /\ alt_irq' = [alt_irq EXCEPT ![todo[1].irq] = todo[1].isr]
          /\ UNCHANGED <<todo, ienable, alt_irq_active>>
      BY <1>12 DEF alt_iic_isr_register, alt_irq_disable_all
    <2>2. saved = << >> /\ pie
      BY <1>4, <1>7, <2>1 DEF Sections
    <2>3. saved' = <<TRUE>>
      BY <2>1, <2>2
    <2>4. ComesTo(b, k)'
      BY <1>6, <1>7, <1>10, <2>1, <2>3
    <2>5. alt_irq'[todo[1].irq] # "none" /\ Handlers'
      BY <1>4, <1>5, <1>11, <2>1 DEF Handlers
    <2>6. Sections'
      BY <1>1, <1>8, <2>1, <2>3, <2>5 DEF Sections, Calls
    <2>. QED
      BY <1>6, <1>8, <2>4, <2>5, <2>6, CallKeeps
  <1>13. CASE alt_irq_enable
    <2>1. /\ registering = "handler" /\ registering' = "enable" /\ saved' = Append(saved, pie) /\ pie' = FALSE
          /\ alt_irq_active' = alt_irq_active \cup {todo[1].irq} /\ ienable' = alt_irq_active'
          /\ UNCHANGED <<todo, alt_irq>>
      BY <1>13 DEF alt_irq_enable, alt_irq_disable_all
    <2>2. saved = <<TRUE>> /\ pie = FALSE /\ alt_irq[todo[1].irq] # "none"
      BY <1>4, <1>7, <2>1 DEF Sections
    <2>3. saved' = <<TRUE, FALSE>>
      <3>1. Append(<<TRUE>>, FALSE) = <<TRUE, FALSE>>
        BY Pair
      <3>2. saved' = Append(<<TRUE>>, FALSE)
        BY <2>1, <2>2, Zenon
      <3>. QED
        BY <3>1, <3>2, Zenon
    <2>4. Handlers' /\ ienable' = alt_irq_active' \cap Irq
      BY <1>4, <1>5, <1>11, <2>1, <2>2 DEF Handlers
    <2>5. ComesTo(b, k)'
      BY <1>6, <1>7, <1>10, <2>1, <2>3, <2>4
    <2>6. Sections'
      BY <1>1, <1>8, <2>1, <2>3 DEF Sections, Calls
    <2>. QED
      BY <1>6, <1>8, <2>4, <2>5, <2>6, CallKeeps
  <1>14. CASE RegisterLeaves
    <2>1. /\ saved' = Front(saved) /\ pie' = Last(saved) /\ UNCHANGED <<ienable, alt_irq, alt_irq_active>>
          /\ \/ registering = "enable" /\ registering' = "enabled" /\ todo' = todo
             \/ registering = "enabled" /\ registering' = "no" /\ todo' = Rest(b, k + 1)
      BY <1>3, <1>14 DEF RegisterLeaves, alt_irq_enable_all, irqVars, Done
    <2>2. Handlers'
      BY <1>4, <1>11, <2>1 DEF Handlers
    <2>3. CASE registering = "enable"
      <3>1. saved = <<TRUE, FALSE>>
        BY <1>4, <2>3 DEF Sections
      <3>2. Front(<<TRUE, FALSE>>) = <<TRUE>> /\ Last(<<TRUE, FALSE>>) = FALSE
        <4> DEFINE s == <<TRUE, FALSE>>
        <4>1. s \in Seq(BOOLEAN) /\ Len(s) = 2 /\ s[1] = TRUE /\ s[2] = FALSE
          OBVIOUS
        <4> HIDE DEF s
        <4>2. Front(s) = SubSeq(s, 1, 1) /\ Last(s) = FALSE
          BY <4>1 DEF Front, Last
        <4>3. /\ SubSeq(s, 1, 1) \in Seq(BOOLEAN) /\ Len(SubSeq(s, 1, 1)) = 1
              /\ SubSeq(s, 1, 1)[1] = TRUE
          BY <4>1
        <4> DEFINE t == SubSeq(s, 1, 1)
        <4>4. t = <<t[1]>>
          BY <4>3, Single
        <4>5. t = <<TRUE>>
          BY <4>3, <4>4
        <4>. QED
          BY <4>2, <4>5 DEF s
      <3>3. saved' = <<TRUE>> /\ pie' = FALSE /\ registering' = "enabled" /\ todo' = todo
        BY <2>1, <2>3, <3>1, <3>2
      <3>4. ComesTo(b, k)'
        BY <1>6, <1>7, <1>10, <2>1, <3>3
      <3>5. Sections'
        BY <1>1, <1>8, <3>3 DEF Sections, Calls
      <3>. QED
        BY <1>6, <1>8, <2>2, <3>4, <3>5, CallKeeps
    <2>4. CASE registering = "enabled"
      <3>1. saved = <<TRUE>>
        BY <1>4, <2>4 DEF Sections
      <3>2. Front(<<TRUE>>) = << >> /\ Last(<<TRUE>>) = TRUE
        BY DEF Front, Last
      <3>3. saved' = << >> /\ pie' /\ registering' = "no" /\ todo' = Rest(b, k + 1)
        BY <2>1, <2>4, <3>1, <3>2
      <3>4. ReadyAt(b, k + 1) = ReadyAt(b, k)
        <4>1. k # 3 /\ ~(k \in 7 .. CallCount(b) - 3)
          BY <1>3, <1>6
        <4>. QED
          BY <4>1, ReadyGrows
      <3>5. ComesTo(b, k + 1)'
        <4>1. k + 1 \in Nat /\ k + 1 >= 4
          BY <1>6
        <4>. QED
          BY <1>6, <1>7, <1>10, <2>1, <3>3, <3>4, <4>1
      <3>6. Sections'
        BY <3>3 DEF Sections
      <3>7. k + 1 \in Nat
        BY <1>6
      <3>. QED
        BY <1>8, <2>2, <3>5, <3>6, <3>7, CallKeeps
    <2>. QED
      BY <2>1, <2>3, <2>4
  <1>. QED
    BY <1>12, <1>13, <1>14

LEMMA RequestKeeps ==
  ASSUME BootInv, NEW i \in Irq, DeviceRequests(i)
  PROVE  BootInv'
  <1>1. /\ request' = request \cup {i}
        /\ UNCHANGED <<todo, registering, saved, pie, ienable, alt_irq, alt_irq_active,
                       alt_priority_mask, frames, OSRunning, OSIntNesting, OSRdyTbl, OSPrioCur>>
    BY DEF DeviceRequests, startVars, irqVars, osVars
  <1>2. PICK b \in BOOLEAN, k \in Nat : ComesTo(b, k)
    BY DEF BootInv
  <1>3. ComesTo(b, k)'
    BY <1>1, <1>2 DEF ComesTo
  <1>4. Sections'
    BY <1>1 DEF BootInv, Sections, Calls
  <1>5. Nested'
    BY <1>1 DEF BootInv, Nested, Inner, Urgent
  <1>6. Handlers'
    BY <1>1 DEF BootInv, Handlers, Entered, Inner
  <1>. QED
    BY <1>3, <1>4, <1>5, <1>6 DEF BootInv

LEMMA BootInvStutter ==
  ASSUME BootInv, UNCHANGED bootVars
  PROVE  BootInv'
  <1>1. UNCHANGED <<todo, registering, saved, pie, ienable, request, alt_irq, alt_irq_active,
                    alt_priority_mask, frames, OSRunning, OSIntNesting, OSRdyTbl, OSPrioCur>>
    BY DEF bootVars
  <1>2. PICK b \in BOOLEAN, k \in Nat : ComesTo(b, k)
    BY DEF BootInv
  <1>3. ComesTo(b, k)'
    BY <1>1, <1>2 DEF ComesTo
  <1>4. Sections'
    BY <1>1 DEF BootInv, Sections, Calls
  <1>5. Nested'
    BY <1>1 DEF BootInv, Nested, Inner, Urgent
  <1>6. Handlers'
    BY <1>1 DEF BootInv, Handlers, Entered, Inner
  <1>. QED
    BY <1>3, <1>4, <1>5, <1>6 DEF BootInv

LEMMA BootInvInit ==
  ASSUME BootAssumption, BootInit
  PROVE  BootInv
  <1>1. PICK b \in BOOLEAN : todo = alt_main(b)
    BY DEF BootInit
  <1>2. alt_main(b) = Rest(b, 1)
    <2>1. /\ alt_main(b) \in Seq(CallSet) /\ Len(alt_main(b)) = CallCount(b) /\ CallCount(b) \in Nat
          /\ CallCount(b) >= 1
      BY Plan DEF CallCount
    <2> DEFINE s == alt_main(b)
    <2>2. Rest(b, 1) = SubSeq(s, 1, Len(s))
      BY DEF Rest
    <2> HIDE DEF s
    <2>. QED
      BY <2>1, <2>2 DEF s
  <1>3. ReadyAt(b, 1) = {} /\ 1 \in 1 .. CallCount(b) + 1 /\ 1 # CallCount(b) + 1 /\ ~(1 >= CallCount(b))
    BY DEF ReadyAt, CallCount
  <1>4. ComesTo(b, 1)
    BY <1>1, <1>2, <1>3 DEF BootInit, ComesTo
  <1>5. Sections
    BY DEF BootInit, Sections
  <1>6. Nested
    <2>1. Len(<< >>) + 1 = 1 /\ << >> \in Seq(FrameType)
      OBVIOUS
    <2>. QED
      BY <2>1, UrgentFirst DEF BootInit, Nested
  <1>7. Handlers
    BY DEF BootInit, Handlers
  <1>. QED
    BY <1>4, <1>5, <1>6, <1>7 DEF BootInv

LEMMA BootInvNext ==
  ASSUME BootAssumption, BootInv, [BootNext]_bootVars
  PROVE  BootInv'
  <1>1. CASE \/ altera_nios2_qsys_irq_init \/ alt_irq_cpu_enable_interrupts \/ OSInit
             \/ OSTaskCreateExt \/ OSStart \/ OSStartHighRdy
    BY <1>1, StartKeeps
  <1>2. CASE alt_iic_isr_register \/ alt_irq_enable \/ RegisterLeaves
    BY <1>2, RegisterStep
  <1>3. CASE \E i \in Irq : DeviceRequests(i)
    BY <1>3, RequestKeeps
  <1>4. CASE Interrupt
    BY <1>4, InterruptKeeps
  <1>5. CASE OSIntEnter
    BY <1>5, EnterKeeps
  <1>6. CASE alt_irq_handler
    BY <1>6, DispatchKeeps
  <1>7. CASE alt_irq_interruptible
    BY <1>7, OpenKeeps
  <1>8. CASE alt_irq_non_interruptible
    BY <1>8, CloseKeeps
  <1>9. CASE HandlerReturns
    BY <1>9, HandlerReturnKeeps
  <1>10. CASE OSIntExit
    BY <1>10, ExitKeeps
  <1>11. CASE UNCHANGED bootVars
    BY <1>11, BootInvStutter
  <1>. QED
    BY <1>1, <1>2, <1>3, <1>4, <1>5, <1>6, <1>7, <1>8, <1>9, <1>10, <1>11 DEF BootNext

-----------------------------------------------------------------------------
(* WHAT IT MEANS                                                           *)
LEMMA EnteredCounts ==
  ASSUME Nested
  PROVE  Cardinality(Within({"dispatch", "handler", "exit"})) = Entered
  <1>1. PICK L \in Nat : L = Len(frames) /\ frames \in Seq(FrameType)
    <2>1. frames \in Seq(FrameType) /\ Len(frames) \in Nat
      BY DEF Nested
    <2>. QED
      BY <2>1
  <1>2. \A n \in 1 .. L : n < L => frames[n].at = "handler"
    BY <1>1 DEF Nested
  <1>3. DOMAIN frames = 1 .. L /\ \A n \in 1 .. L : frames[n].at \in {"enter", "dispatch", "handler", "exit"}
    <2>1. \A n \in 1 .. L : frames[n] \in FrameType
      BY <1>1
    <2>. QED
      BY <1>1, <2>1 DEF FrameType
  <1>4. Entered \in Nat /\ Within({"dispatch", "handler", "exit"}) = 1 .. Entered
    <2>1. CASE L = 0
      <3>1. frames = << >>
        BY <1>1, <2>1, EmptySeq
      <3>. QED
        BY <1>1, <1>3, <2>1, <3>1 DEF Entered, Within
    <2>2. CASE L # 0
      <3>1. frames # << >> /\ L \in 1 .. L /\ Inner = frames[L]
        BY <1>1, <2>2, EmptySeq DEF Inner
      <3>2. CASE Inner.at = "enter"
        <4>1. Entered = L - 1 /\ L - 1 \in Nat
          BY <1>1, <2>2, <3>1, <3>2 DEF Entered
        <4>2. \A n \in 1 .. L : frames[n].at \in {"dispatch", "handler", "exit"} <=> n \in 1 .. L - 1
          BY <1>1, <1>2, <3>1, <3>2
        <4>. QED
          BY <1>1, <1>3, <4>1, <4>2 DEF Within
      <3>3. CASE Inner.at # "enter"
        <4>1. Entered = L
          BY <1>1, <3>1, <3>3 DEF Entered
        <4>2. \A n \in 1 .. L : frames[n].at \in {"dispatch", "handler", "exit"}
          BY <1>1, <1>2, <1>3, <3>1, <3>3
        <4>. QED
          BY <1>1, <1>3, <4>1, <4>2 DEF Within
      <3>. QED
        BY <3>2, <3>3
    <2>. QED
      BY <2>1, <2>2
  <1>5. Cardinality(1 .. Entered) = Entered
    <2> DEFINE e == Entered
    <2>1. e \in Nat
      BY <1>4
    <2> HIDE DEF e
    <2>2. Cardinality(1 .. e) = IF 1 > e THEN 0 ELSE e - 1 + 1
      BY <2>1, FS_Interval
    <2>3. Cardinality(1 .. e) = e
      BY <2>1, <2>2
    <2>. QED
      BY <2>3 DEF e
  <1>. QED
    BY <1>4, <1>5

LEMMA BootInvImplies ==
  ASSUME BootAssumption, BootInv
  PROVE  BootIsSound
  <1>1. PICK b \in BOOLEAN, k \in Nat : ComesTo(b, k)
    BY DEF BootInv
  <1>2. PICK L \in Nat : L = Len(frames) /\ frames \in Seq(FrameType) /\ DOMAIN frames = 1 .. L
    <2>1. frames \in Seq(FrameType) /\ Len(frames) \in Nat /\ DOMAIN frames = 1 .. Len(frames)
      BY DEF BootInv, Nested
    <2>. QED
      BY <2>1
  <1>3. k \in 1 .. CallCount(b) + 1 /\ todo = Rest(b, k) /\ CallCount(b) \in Nat /\ CallCount(b) > 3
    BY <1>1 DEF ComesTo, CallCount
  <1>4. \A n \in 1 .. L :
          /\ n < L => frames[n].at = "handler" /\ frames[n].open
          /\ frames[n].at = "handler" => frames[n].irq \in Urgent(n) \cap alt_irq_active
    BY <1>2 DEF BootInv, Nested
  <1>5. \A n \in Within({"handler"}) : n \in 1 .. L /\ frames[n].at = "handler"
    BY <1>2 DEF Within
  <1>6. \A n \in Within({"handler"}) : alt_irq[frames[n].irq] # "none"
    BY <1>4, <1>5 DEF BootInv, Handlers
  <1>7. \A n \in DOMAIN frames : n < Len(frames) => frames[n].at = "handler" /\ frames[n].open
    BY <1>2, <1>4
  <1>8. \A n \in Within({"handler"}), m \in DOMAIN frames :
          m < n => frames[n].irq < frames[m].irq
    <2> SUFFICES ASSUME NEW n \in Within({"handler"}), NEW m \in DOMAIN frames, m < n
                 PROVE  frames[n].irq < frames[m].irq
      OBVIOUS
    <2>1. n \in 1 .. L /\ m \in 1 .. n - 1 /\ frames[n].irq \in Urgent(n)
      BY <1>2, <1>4, <1>5
    <2>. QED
      BY <2>1 DEF Urgent
  <1>9. frames = << >> /\ (todo = << >> \/ todo[1].op \notin {"irq_init", "enable_interrupts"}) =>
          /\ pie <=> saved = << >>
          /\ ienable = alt_irq_active /\ alt_priority_mask = Irq
    <2> SUFFICES ASSUME frames = << >>,
                        todo = << >> \/ todo[1].op \notin {"irq_init", "enable_interrupts"}
                 PROVE  /\ pie <=> saved = << >>
                        /\ ienable = alt_irq_active /\ alt_priority_mask = Irq
      OBVIOUS
    <2>1. k \notin {1, 2}
      <3>1. CASE todo = << >>
        <4>1. ~(k <= CallCount(b))
          BY <1>3, <3>1, NextCall
        <4>. QED
          BY <1>3, <4>1
      <3>2. CASE todo # << >>
        BY <1>3, <3>2, NextCall
      <3>. QED
        BY <3>1, <3>2
    <2>2. k >= 3 /\ k >= 2
      BY <1>3, <2>1
    <2>3. alt_priority_mask = Irq
      <3>1. Len(frames) + 1 = 1
        OBVIOUS
      <3>. QED
        BY <3>1, UrgentFirst DEF BootInv, Nested
    <2>4. alt_irq_active \subseteq Irq
      BY DEF BootInv, Handlers
    <2>. QED
      BY <1>1, <2>2, <2>3, <2>4 DEF ComesTo
  <1>10. OSIntNesting = IF OSRunning THEN Cardinality(Within({"dispatch", "handler", "exit"})) ELSE 0
    BY EnteredCounts DEF BootInv, Handlers
  <1>11. ~OSRunning /\ todo # <<Call("first")>> => OSPrioCur = 0
    <2> SUFFICES ASSUME ~OSRunning, k >= CallCount(b)
                 PROVE  todo = <<Call("first")>>
      BY <1>1, <1>3 DEF ComesTo
    <2>1. k = CallCount(b)
      BY <1>1, <1>3 DEF ComesTo
    <2>. QED
      BY <1>3, <2>1, LastCall
  <1>12. OSRunning =>
           \E bluetooth \in BOOLEAN :
             /\ OSRdyTbl = {Tasks(bluetooth)[i] : i \in DOMAIN Tasks(bluetooth)}
                             \cup {LowestPrio - 1, LowestPrio}
             /\ OSPrioCur = IF bluetooth THEN 1 ELSE 3
    <2> SUFFICES ASSUME OSRunning
                 PROVE  /\ OSRdyTbl = {Tasks(b)[i] : i \in DOMAIN Tasks(b)} \cup {LowestPrio - 1, LowestPrio}
                        /\ OSPrioCur = FirstTask(b)
      BY DEF FirstTask
    <2>1. k >= CallCount(b) - 2 /\ k >= CallCount(b)
      BY <1>1, <1>3 DEF ComesTo
    <2>. QED
      BY <1>1, <2>1, AllReady DEF ComesTo
  <1>. QED
    BY <1>6, <1>7, <1>8, <1>9, <1>10, <1>11, <1>12 DEF BootIsSound

(* BootInv, inductive: the start makes its calls in their order, whatever  *)
(* comes in between; a critical section of alt_iic_isr_register is left as *)
(* it was entered; and the interrupts being handled are nested, each with  *)
(* the mask that its frame saved.                                          *)
THEOREM BootInductive ==
  ASSUME BootAssumption
  PROVE  BootSpec => []BootInv
  <1>1. BootInit => BootInv
    BY BootInvInit
  <1>2. BootInv /\ [BootNext]_bootVars => BootInv'
    BY BootInvNext
  <1>. QED
    BY <1>1, <1>2, PTL DEF BootSpec

(* However interrupts fall into the start: only registered handlers run,   *)
(* the more urgent within the less urgent (alt_irq_interruptible); the     *)
(* kernel counts none before OSRunning and all after it (os_core.c:623,    *)
(* 659), so that nothing is switched before OSStart; alt_iic_isr_register  *)
(* leaves interrupts as it found them; and the first task to run is the    *)
(* most urgent that main has created.                                      *)
THEOREM BootIsSoundHolds ==
  ASSUME BootAssumption
  PROVE  BootSpec => []BootIsSound
  <1>1. BootInv => BootIsSound
    BY BootInvImplies
  <1>. QED
    BY <1>1, BootInductive, PTL
=============================================================================
