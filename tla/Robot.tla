-------------------------------- MODULE Robot --------------------------------
(***************************************************************************)
(* The mapping robot's software: the Bluetooth interrupt handler, the four *)
(* tasks of main.c and bluetooth_helpers.c, the three message queues that  *)
(* join them, the heap and the motor register, under the kernel's          *)
(* preemptive scheduling by fixed priorities.                              *)
(*                                                                         *)
(* A task takes a step only if no more urgent task is ready.  The handler  *)
(* and the clock tick run between any two steps.  Queues behave as         *)
(* MsgQueue says (UcosQueue shows that the kernel's do); every queue of    *)
(* the program has a single consumer, so it is named after its consumer.   *)
(* The sweep of task1 (StepperSweep), the sending of a packet (PacketSender)*)
(* and the limit of the PacketBuffer (PacketReceiver) are not repeated.    *)
(*                                                                         *)
(* Definitions named X_<fault> are faulty variants of X; nothing in the    *)
(* specification uses them.                                                *)
(***************************************************************************)
EXTENDS Integers, Sequences, FiniteSets

CONSTANTS
  Command,       \* the data bytes, one per letter after "c |= 0x20"
  START, END,    \* START_BYTE and END_BYTE
  NULL,
  Buffer,        \* the LenBuffers that malloc can hand out
  QueueLength,   \* BYTE_, RECEIVE_ and SEND_QUEUE_LENGTH, by consumer
  BtTimeout,     \* BT_CMD_TIMEOUT in ticks
  LidarDelay,    \* the 20 ms of lidar_read in ticks
  InitialDrive,  \* what the motor register may hold when the processor starts
  MaxBytes       \* bound: the bytes that arrive

Task == {"receiveTask", "sendTask", "task2", "task1"}
Consumer == Task \ {"task1"}

ASSUME LengthAssumption == QueueLength \in [Consumer -> Nat \ {0}]
ASSUME TimeAssumption == BtTimeout \in Nat \ {0} /\ LidarDelay \in Nat \ {0}
ASSUME NullAssumption == NULL \notin Buffer /\ NULL \notin Command \cup {START, END}
ASSUME ByteAssumption == START \notin Command /\ END \notin Command /\ START # END

VARIABLES
  status,      \* "run"; in OSQPend "wait", "expired" or "given"; asleep in
               \* OSTimeDly, "delay", or in a library call, "held"
  pc,          \* where a task stands in its loop
  queue,       \* the messages stored in the queue of each consumer
  hand,        \* the byte or LenBuffer a task got from its queue or from malloc
  timer,       \* OSTCBDly
  open, body,  \* receiveTask's PacketBuffer, as in PacketDecoder
  next,        \* the index i of task2's loop, counted from 1
  motora, motorb,
  dcReg,       \* motora and motorb of the DC motor driver
  sendCount,
  loaded,      \* sendCount as sendTask or task1 has read it
  heap,        \* the allocated LenBuffers
  data,        \* their bytes
  lost,        \* history: allocated LenBuffers that were posted to a full queue
  quiet,       \* history: ticks task2 has waited since it obeyed a packet
  rxBytes      \* bytes received so far

kernelVars == <<status, queue, timer>>
packetVars == <<open, body>>
driveVars  == <<next, motora, motorb, dcReg, quiet>>
countVars  == <<sendCount, loaded>>
heapVars   == <<heap, data, lost>>
vars == <<kernelVars, pc, hand, packetVars, driveVars, countVars, heapVars, rxBytes>>

(* The codes of main.c for the two motors, which occupy disjoint bits, and *)
(* what each command asks for; other letters are ignored.                  *)
MOTORA_CW  == 2
MOTORA_CCW == 3
MOTORB_CW  == 8
MOTORB_CCW == 12

Codes ==
  [f |-> [a |-> MOTORA_CW,  b |-> MOTORB_CW],
   b |-> [a |-> MOTORA_CCW, b |-> MOTORB_CCW],
   l |-> [a |-> MOTORA_CW,  b |-> MOTORB_CCW],
   r |-> [a |-> MOTORA_CCW, b |-> MOTORB_CW],
   s |-> [a |-> 0,          b |-> 0]]

(* The DC motor driver's reading of the two bits of a motor.               *)
MOTOR_STATE == {"cw", "ccw", "brake"}
Drive == [a : MOTOR_STATE, b : MOTOR_STATE]
Stop == [a |-> "brake", b |-> "brake"]

(* The bounds of the model: what the register may hold at reset, and how  *)
(* many bytes the remote side sends.                                       *)
ASSUME BoundAssumption == InitialDrive \subseteq Drive /\ MaxBytes \in Nat

MotorState(bits) ==
  CASE bits = 3 -> "cw"
    [] bits = 2 -> "ccw"
    [] OTHER    -> "brake"

Decode(writedata) ==
  [a |-> MotorState(writedata % 4), b |-> MotorState((writedata \div 4) % 4)]

Labels ==
  [receiveTask |-> {"pend", "got", "handle"},
   sendTask    |-> {"pend", "got", "count", "free"},
   task2       |-> {"pend", "got", "obey", "timeout"},
   task1       |-> {"start", "range", "alloc", "load", "count", "post"}]

TypeOK ==
  /\ status \in [Task -> {"run", "wait", "expired", "given", "delay", "held"}]
  /\ DOMAIN pc = Task /\ \A t \in Task : pc[t] \in Labels[t]
  /\ DOMAIN queue = Consumer
  /\ \A c \in Consumer : Len(queue[c]) <= QueueLength[c]
  /\ hand["receiveTask"] \in Command \cup {START, END, NULL}
  /\ \A t \in Task \ {"receiveTask"} : hand[t] \in Buffer \cup {NULL}
  /\ timer \in [Task -> Nat]
  /\ open \in BOOLEAN /\ body \in Seq(Command)
  /\ next \in Nat \ {0}
  /\ motora \in {0, MOTORA_CW, MOTORA_CCW} /\ motorb \in {0, MOTORB_CW, MOTORB_CCW}
  /\ dcReg \in Drive
  /\ sendCount \in Int /\ loaded \in [{"sendTask", "task1"} -> Int]
  /\ heap \subseteq Buffer /\ lost \subseteq heap
  /\ data \in [Buffer -> Seq(Command)]
  /\ quiet \in 0 .. BtTimeout /\ rxBytes \in 0 .. MaxBytes

(* initBluetooth has made the queues, main has made the tasks ready and    *)
(* registered the handler; the motor register keeps what it held before.   *)
Init ==
  /\ status = [t \in Task |-> "run"]
  /\ pc = [t \in Task |-> IF t = "task1" THEN "start" ELSE "pend"]
  /\ queue = [c \in Consumer |-> << >>]
  /\ hand = [t \in Task |-> NULL]
  /\ timer = [t \in Task |-> 0]
  /\ open = FALSE /\ body = << >>
  /\ next = 1
  /\ motora = 0 /\ motorb = 0
  /\ dcReg \in InitialDrive
  /\ sendCount = 0 /\ loaded = [t \in {"sendTask", "task1"} |-> 0]
  /\ heap = {} /\ data = [b \in Buffer |-> << >>] /\ lost = {}
  /\ quiet = 0
  /\ rxBytes = 0

-----------------------------------------------------------------------------
(* THE KERNEL                                                              *)

(* main.c:51-55: the smaller the number, the more urgent.                  *)
Priority_Reversed(t) ==
  [receiveTask |-> 4, sendTask |-> 3, task2 |-> 2, task1 |-> 1][t]

Priority(t) ==
  [receiveTask |-> 1, sendTask |-> 2, task2 |-> 3, task1 |-> 4][t]

Ready(t) == status[t] \notin {"wait", "delay", "held"}

Runs(t) == Ready(t) /\ \A u \in Task : Ready(u) => Priority(t) <= Priority(u)

(* Task t executes its own code at the label l.                            *)
At(t, l) == status[t] = "run" /\ pc[t] = l /\ Runs(t)

Goto(t, l) == pc' = [pc EXCEPT ![t] = l]

Waiting(c) == status[c] \in {"wait", "expired"}

Accepts_OneMore(c) == Waiting(c) \/ Len(queue[c]) <= QueueLength[c]

Accepts(c) == Waiting(c) \/ Len(queue[c]) < QueueLength[c]

(* OSQPost to the queue of consumer c, by a caller that leaves `locals' in *)
(* the hands of the tasks.  When the queue is full nothing is posted.      *)
OSQPost(c, m, locals) ==
  \/ /\ Waiting(c)
     /\ status' = [status EXCEPT ![c] = "given"]
     /\ hand' = [locals EXCEPT ![c] = m]
     /\ timer' = [timer EXCEPT ![c] = 0]
     /\ UNCHANGED queue
  \/ /\ ~Waiting(c)
     /\ Accepts(c)
     /\ queue' = [queue EXCEPT ![c] = Append(@, m)]
     /\ hand' = locals
     /\ UNCHANGED <<status, timer>>
  \/ /\ ~Accepts(c)
     /\ hand' = locals
     /\ UNCHANGED kernelVars

PendTimeout_Never(c) == 0

PendTimeout(c) == IF c = "task2" THEN BtTimeout ELSE 0

(* OSQPend: a message is stored; none is, and the task waits; the rest of  *)
(* OSQPend after the wait.                                                 *)
PendTake(c) ==
  /\ At(c, "pend")
  /\ queue[c] # << >>
  /\ hand' = [hand EXCEPT ![c] = Head(queue[c])]
  /\ queue' = [queue EXCEPT ![c] = Tail(@)]
  /\ Goto(c, "got")
  /\ UNCHANGED <<status, timer, packetVars, driveVars, countVars, heapVars, rxBytes>>

PendBlock(c) ==
  /\ At(c, "pend")
  /\ queue[c] = << >>
  /\ status' = [status EXCEPT ![c] = "wait"]
  /\ timer' = [timer EXCEPT ![c] = PendTimeout(c)]
  /\ UNCHANGED <<queue, pc, hand, packetVars, driveVars, countVars, heapVars, rxBytes>>

PendReturn(c) ==
  /\ Runs(c)
  /\ \/ status[c] = "given" /\ Goto(c, "got")
     \/ status[c] = "expired" /\ Goto(c, "timeout")
  /\ status' = [status EXCEPT ![c] = "run"]
  /\ UNCHANGED <<queue, timer, hand, packetVars, driveVars, countVars, heapVars, rxBytes>>

OSQPend(c) == PendTake(c) \/ PendBlock(c) \/ PendReturn(c)

(* The status of t when its timer runs out.                                *)
Expire_PendersOnly(t) == IF status[t] = "wait" THEN "expired" ELSE status[t]

Expire(t) == IF status[t] = "wait" THEN "expired" ELSE "run"

OSTimeTick ==
  /\ \E t \in Task : timer[t] > 0
  /\ timer' = [t \in Task |-> IF timer[t] > 0 THEN timer[t] - 1 ELSE 0]
  /\ status' = [t \in Task |-> IF timer[t] = 1 THEN Expire(t) ELSE status[t]]
  /\ quiet' = IF status["task2"] = "wait" /\ quiet < BtTimeout
                THEN quiet + 1 ELSE quiet
  /\ UNCHANGED <<queue, pc, hand, packetVars, next, motora, motorb, dcReg,
                 countVars, heapVars, rxBytes>>

(* A library call, printf or malloc, in which the task may have to wait:   *)
(* for the JTAG UART to drain, or for the lock of the heap.                *)
MayBeHeld(t) ==
  /\ status' \in {status, [status EXCEPT ![t] = "held"]}
  /\ UNCHANGED <<queue, timer>>

Resume(t) ==
  /\ status[t] = "held"
  /\ status' = [status EXCEPT ![t] = "run"]
  /\ UNCHANGED <<queue, timer, pc, hand, packetVars, driveVars, countVars,
                 heapVars, rxBytes>>

(* malloc, of the LenBuffer and of its bytes; which free block it returns  *)
(* does not matter.                                                        *)
Free == CHOOSE b \in Buffer : b \notin heap

Malloc(b) ==
  /\ heap # Buffer
  /\ b = Free
  /\ heap' = heap \cup {b}

(* free; the bytes of a freed block are lost.                              *)
free(b) ==
  /\ heap' = heap \ {b}
  /\ data' = [data EXCEPT ![b] = << >>]

-----------------------------------------------------------------------------
(* bluetooth_helpers.c                                                     *)

(* A byte has arrived; the byte 0xFF never gets past the handler.          *)
bluetoothIRQ(b) ==
  /\ rxBytes < MaxBytes
  /\ rxBytes' = rxBytes + 1
  /\ OSQPost("receiveTask", b, hand)
  /\ UNCHANGED <<pc, packetVars, driveVars, countVars, heapVars>>

(* receiveTask logs the byte and then handles it: START_BYTE, data,        *)
(* END_BYTE of an open packet, END_BYTE outside one.                       *)
receiveLog ==
  /\ At("receiveTask", "got")
  /\ MayBeHeld("receiveTask")
  /\ Goto("receiveTask", "handle")
  /\ UNCHANGED <<hand, packetVars, driveVars, countVars, heapVars, rxBytes>>

receiveHandle(byte) ==
  /\ At("receiveTask", "handle")
  /\ hand["receiveTask"] = byte
  /\ Goto("receiveTask", "pend")
  /\ UNCHANGED <<driveVars, countVars, rxBytes>>

ByteHandled == [hand EXCEPT !["receiveTask"] = NULL]

receiveStart ==
  /\ receiveHandle(START)
  /\ open' = TRUE
  /\ body' = << >>
  /\ hand' = ByteHandled
  /\ UNCHANGED <<kernelVars, heapVars>>

receiveData ==
  /\ \E c \in Command : receiveHandle(c)
  /\ body' = IF open THEN Append(body, hand["receiveTask"]) ELSE body
  /\ hand' = ByteHandled
  /\ UNCHANGED <<kernelVars, open, heapVars>>

receiveEnd ==
  /\ receiveHandle(END)
  /\ open
  /\ open' = FALSE
  /\ \E b \in Buffer :
       /\ Malloc(b)
       /\ data' = [data EXCEPT ![b] = body]
       /\ OSQPost("task2", b, ByteHandled)
       /\ lost' = IF Accepts("task2") THEN lost ELSE lost \cup {b}
  /\ UNCHANGED body

receiveStrayEnd ==
  /\ receiveHandle(END)
  /\ ~open
  /\ hand' = ByteHandled
  /\ UNCHANGED <<kernelVars, packetVars, heapVars>>

(* sendTask: "--sendCount" reads and then writes; the packet is sent three *)
(* times (PacketSender) and freed.                                         *)
sendLoad ==
  /\ At("sendTask", "got")
  /\ loaded' = [loaded EXCEPT !["sendTask"] = sendCount]
  /\ Goto("sendTask", "count")
  /\ UNCHANGED <<kernelVars, hand, packetVars, driveVars, sendCount, heapVars, rxBytes>>

sendUncount ==
  /\ At("sendTask", "count")
  /\ sendCount' = loaded["sendTask"] - 1
  /\ Goto("sendTask", "free")
  /\ UNCHANGED <<kernelVars, hand, packetVars, driveVars, loaded, heapVars, rxBytes>>

sendFree ==
  /\ At("sendTask", "free")
  /\ free(hand["sendTask"])
  /\ hand' = [hand EXCEPT !["sendTask"] = NULL]
  /\ Goto("sendTask", "pend")
  /\ UNCHANGED <<kernelVars, packetVars, driveVars, countVars, lost, rxBytes>>

-----------------------------------------------------------------------------
(* main.c                                                                  *)

dc_driver_write(state) == dcReg' = Decode(state)

(* handle_bluetooth_input: the globals, then the register.                 *)
handle_bluetooth_input_UnknownStops(c) ==
  LET code == IF c \in DOMAIN Codes THEN Codes[c] ELSE Codes["s"]
  IN  /\ motora' = code.a
      /\ motorb' = code.b
      /\ dc_driver_write(motora' + motorb')

handle_bluetooth_input(c) ==
  \/ /\ c \in DOMAIN Codes
     /\ motora' = Codes[c].a
     /\ motorb' = Codes[c].b
     /\ dc_driver_write(motora' + motorb')
  \/ /\ c \notin DOMAIN Codes
     /\ UNCHANGED <<motora, motorb, dcReg>>

(* task2: a timeout; a packet, whose first byte may be logged; a byte of   *)
(* it; its end.                                                            *)
task2Timeout_StopsNothing ==
  /\ At("task2", "timeout")
  /\ Goto("task2", "pend")
  /\ UNCHANGED <<kernelVars, hand, packetVars, driveVars, countVars, heapVars, rxBytes>>

task2Timeout ==
  /\ At("task2", "timeout")
  /\ handle_bluetooth_input("s")
  /\ Goto("task2", "pend")
  /\ UNCHANGED <<kernelVars, hand, packetVars, next, quiet, countVars, heapVars, rxBytes>>

Slice == data[hand["task2"]]

task2Log ==
  /\ At("task2", "got")
  /\ IF Slice # << >> THEN MayBeHeld("task2") ELSE UNCHANGED kernelVars
  /\ Goto("task2", "obey")
  /\ UNCHANGED <<hand, packetVars, driveVars, countVars, heapVars, rxBytes>>

task2Byte ==
  /\ At("task2", "obey")
  /\ next <= Len(Slice)
  /\ handle_bluetooth_input(Slice[next])
  /\ next' = next + 1
  /\ UNCHANGED <<kernelVars, pc, hand, packetVars, quiet, countVars, heapVars, rxBytes>>

task2Free_KeepsIndex ==
  /\ At("task2", "obey")
  /\ next > Len(Slice)
  /\ free(hand["task2"])
  /\ hand' = [hand EXCEPT !["task2"] = NULL]
  /\ quiet' = 0
  /\ Goto("task2", "pend")
  /\ UNCHANGED <<kernelVars, packetVars, next, motora, motorb, dcReg, countVars,
                 lost, rxBytes>>

task2Free ==
  /\ At("task2", "obey")
  /\ next > Len(Slice)
  /\ free(hand["task2"])
  /\ hand' = [hand EXCEPT !["task2"] = NULL]
  /\ next' = 1
  /\ quiet' = 0
  /\ Goto("task2", "pend")
  /\ UNCHANGED <<kernelVars, packetVars, motora, motorb, dcReg, countVars, lost,
                 rxBytes>>

(* task1: the brake, then for ever lidar_read and a packet with the range. *)
task1Brake ==
  /\ At("task1", "start")
  /\ dc_driver_write(0)
  /\ Goto("task1", "range")
  /\ UNCHANGED <<kernelVars, hand, packetVars, next, motora, motorb, quiet,
                 countVars, heapVars, rxBytes>>

(* lidar_read: the command is sent and the task sleeps, or sending fails   *)
(* and 0 is returned at once.                                              *)
task1Range ==
  /\ At("task1", "range")
  /\ \/ /\ status' = [status EXCEPT !["task1"] = "delay"]
        /\ timer' = [timer EXCEPT !["task1"] = LidarDelay]
     \/ UNCHANGED <<status, timer>>
  /\ Goto("task1", "alloc")
  /\ UNCHANGED <<queue, hand, packetVars, driveVars, countVars, heapVars, rxBytes>>

task1Alloc ==
  /\ At("task1", "alloc")
  /\ \E b \in Buffer :
       /\ Malloc(b)
       /\ hand' = [hand EXCEPT !["task1"] = b]
  /\ Goto("task1", "load")
  /\ UNCHANGED <<kernelVars, packetVars, driveVars, countVars, data, lost, rxBytes>>

(* "++sendCount" reads and then writes.                                    *)
task1Load ==
  /\ At("task1", "load")
  /\ loaded' = [loaded EXCEPT !["task1"] = sendCount]
  /\ Goto("task1", "count")
  /\ UNCHANGED <<kernelVars, hand, packetVars, driveVars, sendCount, heapVars, rxBytes>>

task1Count ==
  /\ At("task1", "count")
  /\ sendCount' = loaded["task1"] + 1
  /\ Goto("task1", "post")
  /\ UNCHANGED <<kernelVars, hand, packetVars, driveVars, loaded, heapVars, rxBytes>>

task1Post_Frees ==
  /\ At("task1", "post")
  /\ OSQPost("sendTask", hand["task1"], [hand EXCEPT !["task1"] = NULL])
  /\ free(hand["task1"])
  /\ Goto("task1", "range")
  /\ UNCHANGED <<packetVars, driveVars, countVars, lost, rxBytes>>

task1Post ==
  /\ At("task1", "post")
  /\ OSQPost("sendTask", hand["task1"], [hand EXCEPT !["task1"] = NULL])
  /\ lost' = IF Accepts("sendTask") THEN lost ELSE lost \cup {hand["task1"]}
  /\ Goto("task1", "range")
  /\ UNCHANGED <<packetVars, driveVars, countVars, heap, data, rxBytes>>

-----------------------------------------------------------------------------
receiveTask ==
  receiveLog \/ receiveStart \/ receiveData \/ receiveEnd \/ receiveStrayEnd

sendTask == sendLoad \/ sendUncount \/ sendFree

task2 == task2Timeout \/ task2Log \/ task2Byte \/ task2Free

task1 ==
  task1Brake \/ task1Range \/ task1Alloc \/ task1Load \/ task1Count \/ task1Post

Next ==
  \/ \E b \in Command \cup {START, END} : bluetoothIRQ(b)
  \/ OSTimeTick
  \/ \E c \in Consumer : OSQPend(c)
  \/ \E t \in Task : Resume(t)
  \/ receiveTask \/ sendTask \/ task2 \/ task1

Spec == Init /\ [][Next]_vars

(* The clock keeps ticking, the processor never halts, so that the task    *)
(* the scheduler has chosen goes on, and no library call waits for ever    *)
(* (the JTAG UART's own timeout sees to it).  Bytes need not arrive.       *)
(* task1 is preempted again and again, by task2's timeouts at least; that  *)
(* it does get on in between, for a tick lasts thousands of instructions,  *)
(* is strong fairness.                                                     *)
Fairness ==
  /\ WF_vars(OSTimeTick)
  /\ \A c \in Consumer : WF_vars(OSQPend(c))
  /\ \A t \in Task : WF_vars(Resume(t))
  /\ WF_vars(receiveTask)
  /\ WF_vars(sendTask)
  /\ WF_vars(task2)
  /\ SF_vars(task1)

FairSpec == Spec /\ Fairness

-----------------------------------------------------------------------------
(* PROPERTIES                                                              *)

(* task1 posts only when sendTask already waits, so a range is handed over *)
(* directly: sendQueue never stores one, is never full, and no range is    *)
(* lost (main.c:114).  It is the priorities that make this so.             *)
SendQueueNeverStores == queue["sendTask"] = << >>

(* sendCount (main.c:88) is changed by two tasks, without a lock, by       *)
(* read-modify-write.  It nevertheless always counts the packets task1 has *)
(* announced and sendTask has not yet taken off.                           *)
Announced ==
  (IF pc["task1"] = "post" THEN 1 ELSE 0)
  + Len(queue["sendTask"])
  + (IF status["sendTask"] = "given" \/ pc["sendTask"] \in {"got", "count"} THEN 1 ELSE 0)

SendCountExact == sendCount = Announced

(* Ranges are handed over one by one and counted, without room in the      *)
(* queue and without a lock, by the priorities alone.                      *)
HandOverExact == SendQueueNeverStores /\ SendCountExact

(* How many hold a pointer to a LenBuffer: a task's local or a queue.      *)
References(b) ==
  Cardinality({t \in Task \ {"receiveTask"} : hand[t] = b})
  + Cardinality({p \in {"task2", "sendTask"}
                        \X (1 .. QueueLength["task2"] + QueueLength["sendTask"]) :
                   p[2] <= Len(queue[p[1]]) /\ queue[p[1]][p[2]] = b})

(* Every LenBuffer has exactly one owner as long as it is allocated.  So   *)
(* none is used after free or freed twice (main.c:193,                     *)
(* bluetooth_helpers.c:77), and the only ones nobody will free are those   *)
(* posted to a full queue (bluetooth_helpers.c:130); and every variable is *)
(* of its type.                                                            *)
OneOwner ==
  /\ TypeOK
  /\ \A b \in Buffer : References(b) = IF b \in heap \ lost THEN 1 ELSE 0

(* The watchdog of main.c:158-161: whenever task2 has waited BT_CMD_TIMEOUT *)
(* ticks without obeying a packet and waits again, the motors are stopped, *)
(* whatever was left in the register before and however a late packet      *)
(* raced the timeout.                                                      *)
SilenceStopsMotors ==
  status["task2"] = "wait" /\ quiet = BtTimeout => dcReg = Stop

(* The robot keeps its promise to the driver: accepted packets are obeyed  *)
(* in order and completely, and the motors stop on their own only after a  *)
(* moment with nothing left to obey, or when task1 starts.                 *)
Obeying == status["task2"] # "given" /\ pc["task2"] \in {"got", "obey"}

Contents(buffers) == [i \in DOMAIN buffers |-> data[buffers[i]]]

(* What each command means to the driver of the robot: the motors turn the *)
(* same way to go straight on, against each other to turn on the spot.     *)
Meaning ==
  [f |-> [a |-> "ccw", b |-> "ccw"],
   b |-> [a |-> "cw",  b |-> "cw"],
   l |-> [a |-> "ccw", b |-> "cw"],
   r |-> [a |-> "cw",  b |-> "ccw"],
   s |-> Stop]

Obeyed(c, drive) == IF c \in DOMAIN Meaning THEN Meaning[c] ELSE drive

Accepted ==
  (IF status["task2"] = "given" THEN <<Slice>> ELSE << >>) \o Contents(queue["task2"])

Current == IF Obeying THEN SubSeq(Slice, next, Len(Slice)) ELSE << >>

Silent == pc["task2"] = "timeout"

Wanted == Decode(motora + motorb)

Braked == pc["task1"] # "start"

Promise ==
  INSTANCE RemoteDrive WITH
    accepted <- Accepted,
    current  <- Current,
    silent   <- Silent,
    Effect   <- Obeyed,
    wanted   <- Wanted,
    motors   <- dcReg,
    braked   <- Braked,
    Room     <- QueueLength["task2"] + 1

ImplementsRemoteDrive == Promise!Spec

(* Once no more bytes arrive the motors stop and stay stopped.             *)
MotorsEventuallyStop == <>[](dcReg = Stop)

(* Reading ranges at the lowest priority, task1 still comes round for      *)
(* ever, unless bytes keep arriving faster than they are handled.          *)
LidarNeverStarves == []<>(pc["task1"] = "range") /\ []<>(pc["task1"] = "load")
=============================================================================
