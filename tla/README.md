# Verification of the mapping robot

TLA+ models, TLC runs and TLAPS proofs for the software of the mapping robot and the
hardware it talks to: a Nios II processor on an FPGA that drives two DC motors as a
remote control over Bluetooth asks, and turns a range finder to and fro with a
stepper motor, sending each range back. The application runs on the kernel
MicroC/OS-II and on Altera's HAL, both of which are in the repository and are
modelled as well.

Source paths below are relative to the root of the repository;
`app/` is short for `software/MappingRobotSoftware/`, `bsp/` for
`software/MappingRobotSoftware_bsp/`, `K/` for `bsp/UCOSII/src/`, `H/` for
`bsp/HAL/src/`, `D/` for `bsp/drivers/src/`, `S/` for
`niosII_system/synthesis/submodules/`.

## 1. The system

### Components, state, operations

| component | where | state | operations |
|---|---|---|---|
| interrupt handler | `app/bluetooth_helpers.c:148` | none of its own | one byte per interrupt, posted to `byteQueue` |
| packet receiver, `receiveTask` (priority 1) | `app/bluetooth_helpers.c:84`, `packet_buffer.c` | `PacketBuffer` | bytes between START and END become a `LenBuffer` posted to `receiveQueue` |
| packet sender, `sendTask` (priority 2) | `app/bluetooth_helpers.c:29-81` | `packetId`, the packet at hand | header, framing, escaping, three copies of each packet on `sendQueue` |
| driving, `task2` (priority 3) | `app/main.c:123-197` | `motora`, `motorb` | obeys packets byte by byte; stops the motors when none comes for `BT_CMD_TIMEOUT` |
| mapping, `task1` (priority 4) | `app/main.c:92-122` | `steps`, `direction` | reads a range, posts it, asks for two half-steps |
| range finder over I2C | `app/LIDAR.c`, `I2C.c` | two pins | command, 20 ms, two registers |
| DC motor driver | `dc_driver.vhd` | a state per motor | register write |
| stepper motor driver | `stepper_driver.vhd` | `num_step`, `step_divisor`, `cur_step` | register writes, one half-step per divider cycle |
| message queues, scheduler | `K/os_q.c`, `os_core.c`, `os_time.c` | rings, wait lists, ready list, task control blocks | `OSQPend`, `OSQPost`, ..., `OSTimeTick`, `OS_Sched` |
| task services | `K/os_task.c`, `os_core.c` | tables of priorities and control blocks | create, delete, suspend, resume, change of priority |
| semaphores, mailboxes, mutexes, flags | `K/os_sem.c`, `os_mbox.c`, `os_mutex.c`, `os_flag.c` | control blocks, free lists, lists of nodes | create, pend, post, accept, abort, set, flush, delete, query |
| partitions, names, timers, statistics | `K/os_mem.c`, `os_core.c`, `os_tmr.c`, `os_task.c` | free lists, buffers, wheel, counters | get and put, name set and get, start and stop, readings |
| serial driver | `D/altera_avalon_uart_*.c`, `S/niosII_system_uart_bluetooth.v` | two rings, control register, flags | read, write, interrupt |
| JTAG UART driver (`printf`) | `D/altera_avalon_jtag_uart_*.c` | two rings, flags, host's idle time | read, write, close, ioctl, interrupt, alarm |
| C library locks | `K/alt_malloc_lock.c`, `alt_env_lock.c` | semaphore, owner, count | lock, unlock, nested |
| files | `H/alt_open.c`, `alt_close.c`, ... | table of descriptors | open, close, ioctl, fcntl, accesses |
| clock and time | `H/alt_tick.c`, `alt_alarm_start.c`, `alt_settod.c`, ..., `alt_usleep.c` | ticks, list of alarms, time of day | start, stop, tick, set, sleep |
| start-up, interrupts | `H/alt_main.c`, `alt_irq_handler.c`, ..., `app/main.c` | handlers, enabled interrupts, nesting | register, enable, dispatch, `OSStart` |
| flash, SPI, I2C controller, `terasic_lib` | `D/altera_avalon_epcs_*`, `epcs_commands.c`, `altera_avalon_spi.c`, `i2c_opencores.c`, `app/terasic_lib/` | the chips and the controllers' registers | commands, transfers, tests |

### Interaction

    remote --bytes--> UART --interrupt--> bluetoothIRQ --byteQueue--> receiveTask
                                                                          |
           DC motors <--register-- task2 <--------receiveQueue------------+
                                     (OSQPend with a timeout)
    lidar <--I2C-- task1 --sendQueue--> sendTask --TXDATA--> UART --> remote
    stepper <--register--+

Shared memory besides the queues: the heap (a `LenBuffer` is allocated by one
task and freed by another), `sendCount` (two writers, no lock) and debug flags.
Scheduling is preemptive by fixed priority; the interrupt handlers and the clock
tick preempt everything. `printf` goes through the HAL's descriptors to the JTAG
UART's driver, which sleeps on event flags; `malloc` takes the heap's lock, a
semaphore. Both may hold a task up, which is all that `Robot` keeps of them.

### What is hard

* timeouts that race posts in the kernel (`os_q.c:449`, `os_core.c:904`), and the
  same race in `task2`'s watchdog;
* unprotected read-modify-writes and ignored results of `OSQPost`, which are right
  only because of the priorities;
* ownership of heap blocks across tasks and queues, and queues that overflow;
* a byte stream that starts, stops and is cut anywhere;
* kernel services in two critical sections with something between them
  (`os_task.c:357`, `os_q.c:140`), priorities that inheritance changes while they are
  keys of tables, nodes of wait lists on stacks;
* rings shared by tasks and handlers without a critical section, interrupts that are
  switched on and off by both;
* counters that wrap: ticks, microseconds, identifiers;
* hardware that goes on by itself: two assignments to one signal at one clock
  edge, a register or a chip that survives a reset of the processor, a controller that
  is one clock later than the poll.

`PROJECT.json` lists every hazard at its line with the properties that cover it.

### What makes each part correct

Kernel: tables agree with each other and with what the tasks are doing; the most
urgent ready task runs; nobody waits for what is there; a wait ends by exactly one of
message, timeout, abort, deletion; a mutex has one owner, at the right priority.
Drivers: no byte is lost, repeated or misplaced; who sleeps is due to be woken; what a
call returns is of its own transfer. Application: ranges and commands are handed over
in order, each heap block has one owner, the motors stop when the remote side is silent,
the sweep does not drift, a range is whole and fresh.

## 2. The modules

| module | what it is | run |
|---|---|---|
| `MsgQueue` | the promise of a message queue: first in first out, each message received once, a wait ends by a message or by its timeout | `program` |
| `UcosQueue` | the kernel's queue, scheduler and timer as they are written; shown to implement `MsgQueue` | `program` |
| `UcosQueueProofs` | proofs of all safety properties of `UcosQueue`, the refinement included | |
| `UcosCore` | control blocks, ready list, wait lists, scheduler, tick: what the modules of the services extend | |
| `UcosTasks` | the task services | `services` |
| `UcosTasksProofs` | proofs about them: the kernel's tables, and who has the processor | |
| `UcosEvents` | semaphores, mailboxes, queues, waits for several events, mutexes | `ucos_events` |
| `UcosEventsProofs` | proofs of all properties of `UcosEvents` | |
| `UcosFlags` | event flags, and what drivers use of the kernel besides: semaphores that are not deleted, steps of their own | `hal`, `jtag` |
| `UcosFlagsProofs` | lemmas about the calls of `UcosFlags`: each keeps the kernel's tables sound, and what it does to each task | |
| `UcosMem`, `UcosTimers`, `UcosStat` | partitions and names; timers; statistics | `services` |
| `UartDriver` | the serial driver with its interrupt handler, on `UcosFlags` | `hal`, `uart_full` |
| `HalLocks` | the C library's locks beside them | `hal` |
| `DriverProofs` | proofs of all safety properties of `UartDriver` and `HalLocks` | |
| `JtagUart` | the JTAG UART's driver, handler, alarm, FIFOs and host, on `UcosFlags` | `jtag`, `jtag_host`, `jtag_close` |
| `JtagProofs` | proofs of all safety properties of `JtagUart` | |
| `HalFiles`, `HalClock`, `HalTime`, `HalBoot` | descriptors; alarms; time of day and sleeps; start-up and interrupts | `services`; `HalFiles` also `files_excl` |
| `EpcsFlash`, `SpiMaster`, `TerasicFlash` | serial flash and its driver; one command on its bus; the flash test above | `services` |
| `I2CCore`, `Accelerometer` | the I2C controller with its driver; the accelerometer's functions | `services` |
| `PacketDecoder` | what receiving a packet means | `program` |
| `PacketReceiver` | `receiveTask` with the `PacketBuffer`; shown to implement `PacketDecoder` | `program` |
| `PacketSender` | `sendTask` and `send`, with the remote side's decoder | `program` |
| `RemoteDrive` | the promise to whoever drives the robot | `robot` |
| `Robot` | the four tasks, the interrupt handler, three queues, heap, motor register; shown to implement `RemoteDrive` | `robot`, `robot_live` |
| `RobotProofs` | proofs of all safety properties of `Robot`, of its link (`PacketSender`, `PacketReceiver`) and of the start (`HalBoot`), the refinements included | |
| `StepperSweep` | the stepper driver, clock edge by clock edge, and `task1`'s loop around it | `program` |
| `I2CLink` | what `I2C.c` promises: one event on the bus for each elementary call; the transfers built from them | `program` |
| `I2CBus` | `I2C.c` port access by port access, with a device; shown to implement `I2CLink` | `program` |
| `RangeFinder` | `LIDAR.c` over the calls of `I2C.c`, with the sensor, on the wires of `I2CBus` | `program` |
| `Task1Proofs` | proofs of all safety properties of `StepperSweep`, `RangeFinder` and `I2CBus`, the refinement of `I2CLink` included | |
| `MC...` | instances for TLC. `MCBluetooth`, `MCTask1`, `MCProgram` (the two and `UcosQueue`) and `MCServices` put parts side by side that share nothing: a behaviour of theirs is one of one part | |

Every module names its faulty variants `X_<fault>`: they replace `X` to show that
a property notices the fault, and no specification uses them.

### UcosQueue

One action per critical section (`OS_ENTER_CRITICAL` .. `OS_EXIT_CRITICAL`):
`OSQPendTake`, `OSQPendBlock` and `OSQPendReturn` are the two ways into `OSQPend`
and its second half; `OSQPostToWaiter`, `OSQPostToQueue`, `OSQPostFull` the three
outcomes of `OSQPost`; `OSTimeTick`, `OSTimeDly`, `OSTimeDlyReturn`. A task acts
only while it is the most urgent ready one; posts and ticks may come at any time,
as from a handler, which covers posts by tasks too. `OSTimeTick` is one step
although it takes a critical section per task: a handler is not interrupted by
another one here, as the Nios II port runs handlers with interrupts off. `pc` says
whether a task is in its own code, in `OSQPend` or in `OSTimeDly`. `perr` and
`pmsg` keep what the last `OSQPend` returned, `inFlight` the messages accepted and
not yet received; they are only looked at. The other operations of queues, aborts,
suspension and waits for several events are in `UcosEvents`, where a queue's ring is a
sequence; here the ring is the code's, pointer by pointer.

### UcosCore, UcosTasks, UcosEvents, UcosFlags

`UcosCore` has the state all services share under the code's names (`OSTCBPrioTbl`,
`OSRdyTbl`, `OSEventTbl`, `OSLockNesting`, `OSPrioCur`, `OSTCBCur`; of a control block
`Stat`, `StatPend`, `Dly`, `EventPtr`). A critical section is a step. The call of
`OS_Sched` that ends most services is another (`sched` remembers that it is due), so an
interrupt fits between; a handler is one step up to `OSIntExit`. Bit masks of the ready
list and wait lists are sets of priorities. Tasks are told apart from their priorities,
which change.

`UcosTasks`: `OSTaskCreate` in its steps (reserve the priority, take a control block,
link it, or undo), `OSTaskDel` in its two, of the calling task or of any other wherever
that one stands, `OSTaskDelReq`, `OSTaskSuspend`, `OSTaskResume`, `OSTaskChangePrio` at any
time, `OSTimeDly`, `OSTimeDlyResume`, the lock of the scheduler, and a semaphore to wait for.
`stale` has the entries of wait lists that nobody waits behind: `OSTaskChangePrio`
makes one when another task is moved between its wake-up or timeout and its return: the control block
still names the event, and the new priority enters its list. A post
may find it later, as the code does. `orphans` has what a task deleted inside
`OSTaskCreate` had taken. Three things are left out, which the module's header names: handlers
that suspend or resume tasks; that somebody takes the priority which the running task has just
left, with the scheduler locked; and what follows when a post finds a stale entry
of a priority that has no task, since the kernel then uses a null pointer.

`UcosEvents`: control blocks go through a common free list, so that a
mailbox may come back as a queue while tasks hold its old pointer. Every service that
changes state is an action; a call whose checks fail changes nothing and is left out, unless it does
change something (`OSQCreate` without a queue block, `OSEventPendMulti` with a wrong
type). `OSMutexPend` raises the owner where it is: ready, waiting or sleeping. A mutex may be
deleted with tasks waiting for it; these are in `bereft` until they return, since they are told
that they own what is no longer there. `forgotten` has the tasks that `OSTaskResume` leaves
unready, because their wait for several events ended while they were suspended. Tasks keep to the
notes in `os_mutex.c` on owners, and to four things more, without which the code fails, listed at
`MayWait`: a task that has returned from a wait for several events takes no mutex before a wait for one; a
task in `OSMutexPend` is not suspended; `OS_DEL_ALWAYS` finds the owner ready to run;
`OS_DEL_NO_PEND` does not find it at the raised priority. `AnyTime = TRUE` drops all of this and
`MutexExact` fails (a sleeping owner is made ready by the raise, a raised owner whose waiter times
out stays raised, a deletion leaves the raised priority).

`UcosFlags`: a node is on its task's stack, linked until the task runs again. Flags are
consumed when the task runs, not when they are posted; hence all users of a group wait
for flags that are set, or all for clear ones: with both, a consumer can strand a waiter.

### UcosMem, UcosTimers, UcosStat

`UcosMem` follows the links through the free blocks, which users overwrite with anything
while they hold them. Its other half, the names, copies strings character by character into
a buffer that a control block keeps when it becomes something else. `UcosTimers` has the wheel,
its doubly linked spokes and `OSTmr_Task`, one timer a step. In `UcosStat` a tick has a few
slots, each the application's or the idle task's, and a stack of three words is written
and given up while it is searched.

### UartDriver, HalLocks, JtagUart

The drivers' code is followed statement by statement where an interrupt can come
between (`at` says where a task stands); `alt_irq_disable_all` to `alt_irq_enable_all` is
one step. Roles (`role`) say what each task does: read, write, poll, use event flags in any
way, take the heap's or the environment's lock. Bytes are numbered modulo `Wrap`, so that
one that is lost, repeated or misplaced shows. The peer is `Paced` in run `hal`: it sends
no more than the ring has room for; without it the driver loses a bufferful, which is what
run `uart_full` shows. `rx_start` takes the value `BUF_LEN` for a moment, as the code's
`(++rx_start) & MASK` does when it is compiled without optimisation. The environment's
lock must not be nested (section 3, "Seen while modelling").

`JtagUart` reads each index that the handler moves once and uses the copy, as the code
does. Its host is absent or present (`ac`) and comes and goes; the count of idle seconds
saturates at `MaxInactive`. A close may begin at any time. `CallsReturn` leaves out the one that
keeps a writer from the processor before it has enabled its interrupt (`KeepsWriterOut`), and reads
from a host that sends nothing (`SilentHost`); run `jtag_close` is about the former.

### HalFiles, HalClock, HalTime, HalBoot

`HalFiles`: each write to an entry of the table (`dev`, `fd_flags`) and each step of a
search is a step of its own, under the lock or not as in the code. `alt_fd_lock` searches one
entry too few: `unseen` has the pairs of the descriptor that got the device to itself and
the last one, open on it too, at which it did not look. `ExclusiveButForLast` allows these pairs only; what
the comment says, `ExclusiveMeansAlone`, fails in run `files_excl`. `HalClock` keeps
the doubly linked list and every alarm's time and `rollover` modulo `W`; callbacks start and stop
any alarms while `alt_tick` walks the list. If one stops the alarm after its own the walk comes to an
alarm that points to itself and does not end, and `cut` says so: `AlarmsOnTime` is stated of ticks
whose walk ends, and claims that it fails to end in no other case. `HalTime` has the products and quotients of
microseconds with their widths as parameters. `HalBoot` is the sequence of calls from reset to
`OSStart`, with interrupts at any point and handlers that let more urgent ones in.

### EpcsFlash, SpiMaster, TerasicFlash, I2CCore, Accelerometer

`EpcsFlash`: a command is a list of transactions on the bus, each a step; the processor may
restart between any two, and the chip keeps its bytes, its busy bit and its address mode.
A byte is the set of its one-bits, so that programming without erasing shows.
`SpiMaster` is one transaction, register by register. `TerasicFlash` is the layer above:
`Flash_Write` for any range, and `FLASH_Verify` on flashes with a worn cell.
`I2CCore` is synchronous: one step is one clock edge, for the core's registers and for the
driver's access. The bit controller and the bus are its environment, which may take the
bus away. `Accelerometer`: transfers that are given up leave bytes in two FIFOs.

### PacketReceiver, PacketSender

One action per path through `receiveTask`'s loop body; bytes are members of a small
set, `BUF_SIZE` is a constant. A write behind `myBuf` is recorded in `outOfBounds`
and the model stops there, since what follows is up to the compiler's layout.
`PacketSender` takes one step per byte written to `TXDATA`, each after polling TRDY.
Bytes are numbers below `Radix`, so that identifiers wrap and meet the special bytes.
`heard` is the remote side: whether it is inside a packet, after an escape, and the bytes it
has so far. `MCBluetooth` puts the two directions side by side, as `In` and `Out`.

### Robot

A step of a task is enabled only if the task is the most urgent ready one, so that
preemption happens between any two steps. Queues behave as `MsgQueue` promises. Every
queue has one consumer and is named after it. `status` says where a task sleeps:
`OSQPend` (`wait`), `OSTimeDly` (`delay`), or a library call (`held`, for `printf`
with a full JTAG buffer or a `malloc` that meets the heap's lock). `++sendCount` and
`--sendCount` are two steps each, a load and a store. `lidar_read` either sleeps 20 ms
or returns at once, as when the sensor does not acknowledge (`RangeFinder`). The motors' codes
are decoded as `dc_driver.vhd` does it, while `RemoteDrive` is told what the commands
mean; pins of the bridge are left out. Command bytes are
letters without case, because of `c |= 0x20`. `lost`, `quiet` and `rxBytes` are
histories. Left out: the LEDs; `echoTask`, which is never created; the sweep
(`StepperSweep`); what `sendTask` puts on the wire (`PacketSender`); the bound of the
`PacketBuffer` (`PacketReceiver`).

### StepperSweep

One action per clock edge. Signals change together; where the process assigns
`num_step` twice the later assignment counts, which is how a write can be lost.
`position`, `asked` and `lost` are histories: `lost` counts what writes in the very cycle of a
step asked for, in either direction, as the later assignment drops it. `task1`'s loop is a
write, then `LidarCycles` clock cycles or more, or none if the sensor fails. The model
follows `stepper_driver.vhd` at the root of the repository. The copy under `S/` is older:
it differs in the initial speed and step count and in the sense of rotation. With its
initial speed (8.4 million cycles a step, 168 ms at 50 MHz) `CatchesUp` would not hold.

### I2CLink, I2CBus, RangeFinder

`I2CBus` turns each of `i2c_start`, `i2c_stop`, `i2c_write`, `i2c_read` into the list of
its port accesses, in the order of the code, and carries them out one per step
(`WriteSCL`, `WriteSDA`, `WriteDirection`, `PollSCL`, `ReadBit`, `ReadAck`). The device is
external: it reacts to the edges it sees on the two lines, acknowledges or not, and sends
any byte. `calls` is what is left of a transfer, `noted` what the device has noted during
a call. The transfers are those whose calls are in order (`InOrder` in `I2CLink`): a byte
is read after an address to read from and after each byte read and acknowledged, and at no
other time; the functions of `I2C.c`, called as `LIDAR.c` calls them, make no others. One thing is visible in the model and no property excludes it: between the clock of
the eighth bit and `SDA_DIR_IN` the pin still drives that bit, against a device that
already pulls SDA low to acknowledge. SCL is low then, so no meaning is attached to SDA
(`NobodyOverridden` is about SCL high).

`RangeFinder` works on calls instead of ports. `pc` says which function of `LIDAR.c` task1 is in,
`calls` what is left of it. Measurements are numbered modulo 3, the two registers hold
bytes that tell measurement and half, so that a mixture would show. The sensor is external;
that it refuses its address while it measures is what `lidar_read_fast` relies on, and
`RangeIsFresh` depends on it. The calls are carried out on the wires of
`I2CBus`; in place of `lidar_read` a caller may make any transfer `I2C.c` offers.

## 3. The runs

| run | checks | instance | distinct states |
|---|---|---|---|
| `program` | of `UcosQueue`: waiters, messages and refinement of `MsgQueue`; timed waits end. Of the link: framing, identifiers, progress of the sender; the receiver's refinement of `PacketDecoder`. Of `task1`: arc, even turning, fresh ranges, refinement of `I2CLink`, progress | 2 tasks, one with a timeout of 2 ticks and one without, 2 slots, 3 messages; `BUF_SIZE` 3, bodies up to 3, 6 byte values of which 3 are special, identifiers wrap; 3 writes per sweep, `READ_DELAY` 2, 8 bytes the device may send, 6 kinds of transfer | 133 505 |
| `packet_receiver_long` | finding: `StaysInBuffer` fails | bodies one byte longer than the buffer | |
| `robot` | counting, ownership, watchdog, refinement of `RemoteDrive` | 6 bytes, 1 command, byte queue 2, others 1, 4 buffers | 855 045 |
| `robot_live` | motors stop for good, lidar goes on | 4 bytes, a command and a letter that is none | 267 890 |
| `services` | fourteen parts side by side, below | below | 1 643 784 |
| `files_excl` | finding: `ExclusiveMeansAlone` fails | as `services` | |
| `ucos_events` | tables, strandings, mutexes | 2 tasks and the idle task, 2 events of any kind, 1 message, one slot, waits for both events | 455 608 |
| `hal` | bytes, sleepers, locks, tables | 2 tasks and the idle task in 10 pairs of roles, rings of 3 | 497 365 |
| `jtag` | bytes, sleepers, calls return | rings of 3, FIFOs of 1, host comes and goes, 6 pairs of roles | 211 625 |
| `jtag_host` | finding: `OnlyWithoutHost` fails | as `jtag` | |
| `jtag_close` | finding: `CloseReturns` fails | as `jtag` | |
| `uart_full` | finding: `FullStopsReceive` fails | as `hal`, the peer not paced | |

The parts of `services`, each with its own share of the states: `UcosTasks` 1 050 520 (two
control blocks besides the idle task's, priorities 1 to 3, a semaphore, delays of one
tick), `UcosMem` 61 737 (2 users, 2 partitions of 2 and 3 blocks), its names 8 871
(2 callers, names of 1 to 3 characters), `UcosTimers` 180 128 (3 timers, 2 spokes, time
modulo 4), `UcosStat` 63 757, `HalFiles` 84 077 (2 openers, 5 descriptors), `HalClock`
45 806 (3 alarms, time modulo 4), `HalTime` 95 412 (3 ticks a second, products modulo
128), `HalBoot` 4 456, `EpcsFlash` 4 041, `SpiMaster` 122, `TerasicFlash` 19 800,
`I2CCore` 5 453, `Accelerometer` 19 486. The properties of `services` are conjunctions
with one conjunct for each part.

**Bounds.** `program`, the queue: three messages and two slots fill the ring, wrap both pointers
and leave one message in flight besides; two tasks give every order of urgency between a
waiter with and one without a timeout. `robot`: six bytes are three empty packets, one
being obeyed, one stored, one that finds the receive queue of length 1 full; they also
overflow the byte queue of length 2. `MaxBytes`, `MaxBody`, `MaxLost` and `MaxSignals`
bound the input, never what the program does with it. `Buffer` is large enough that
`malloc` succeeds, as the code assumes. `program`, `task1`'s loop, keeps the proportions of the code: the
start-up turn outlasts several calls of `lidar_read`, two half-steps fit into one; the
I2C model has all eight bits of a byte and every transfer starts from what the one before
has left. `ucos_events`: two events are enough for a control block to come back as another
kind while a task holds its old pointer; one of `MaxQs` queue blocks lets `OSQCreate` run
out of them. With waits for single events through `OSEventPendMulti` besides, it has 1 472 966
states and passes too. An instance with three tasks and mutexes alone, for chains of inheritance,
has 1 402 395 states and passes too. `hal` and `jtag`: rings of three slots hold two bytes,
so that they are empty, neither, and full; numbers wrap above the ring's length. The pairs of
roles put writer against writer, reader against reader, and either against the other kinds;
a writer and a reader of the JTAG UART together are too many states, and share nothing but
the handler. `HalTime`: up to `MaxTick` the product in `alt_settod.c:84` wraps, as it does in
the code after 71 minutes; `TimeOfDayIsKept` is stated for clocks that were set before that, and
without this premise it fails. `UcosTasks` with two semaphores, without `OSTaskDelReq` and
without nesting of the scheduler's lock, has 2 211 568 states and passes too.

**Fairness.** `UcosQueue`: the tick comes, and a ready task that is the most urgent
goes on (weak fairness); posts need not come. `PacketSender`: the transmitter empties,
and `sendTask` goes on. `Robot`: the tick comes, the chosen task goes on, a library
wait ends; bytes need not come. `task1` gets strong fairness: `task2`'s timeouts
preempt it again and again, but a tick lasts many instructions, so that it does get on
in between. `StepperSweep`: the clock runs and `task1` is not kept out for ever. In
`program` the parts are as fair as they are alone; each half of `task1` has the same, weak, fairness; the sensor hears what is said,
since it acts on `task1`'s clock, but nothing makes it acknowledge or finish measuring.
`JtagUart`: the processor runs, interrupts that are requested are served, the clock goes on,
and a host that shows itself again and again takes what there is; whether it sends is left open. The other modules state
no fairness and are checked for safety. Deadlock is checked in every run except
`packet_receiver_long`, where the model stops behind the end of the array.

**Findings.** `packet_receiver_long`: `pushChar` cannot notice a full buffer, the branch
"No room in buffer!" is dead and the byte goes behind the array. `jtag_host`:
`WRITE_RDY` is left set by bytes sent while nobody waited; the next write that finds the ring
full takes it, has written nothing, and returns -EIO, "Host not connected", to a `printf`
whose host is there. `uart_full`: a reader enables the receiver's interrupt at the end of its
call although the handler has filled the ring and disabled it meanwhile; the next byte makes
the ring look empty, and its contents are lost. (`hal` shows that this is the only way:
while the peer sends no more than there is room for, every byte arrives in order.)
`files_excl`: `alt_fd_lock` stops one entry short of the last descriptor and grants `TIOCEXCL` while
this one is open on the same device. `jtag_close`: `close` polls until the ring is
empty. A more urgent task that calls it while a writer stands between moving `tx_in` and enabling
the interrupt keeps the writer out, and nobody empties the ring while the host is there.

**Seen while modelling.** Where a parameter is named, setting it shows the behaviour; the
rest is visible in the actions.

*Application.* `num_step` is not the "Number of steps remaining" (`stepper_driver.vhd:50`)
once a write has met a step's clock edge. The "20ms delay built-in" of `lidar_read`
(`main.c:103`) is missing when the sensor refuses the command. `lidar_read_fast` never sends
the command its comment speaks of; nothing calls it. `MOTORA_CW` and its fellows
(`main.c:61-64`) name the opposite of the state `dc_driver.vhd:74-82` enters; all four are
swapped alike, so the robot drives as meant. The loops marked "clock stretching" (`I2C.c:291`)
read back an output register and never wait. `sendTask` escapes special bytes,
`receiveTask` does not take escapes out.

*Serial driver.* "If there was an error, discard the data" (`altera_avalon_uart_init.c:157`)
returns without reading `RXDATA`: the damaged byte is stored at the next interrupt. Before
`main` registers `bluetoothIRQ` the driver's own handler may fill its ring and leave the
receiver's interrupt disabled in the device, which `alt_irq_register` does not change.

*Locks.* `__env_lock` tests the event's group of waiters instead of the count: a nested
lock that nobody waits for waits for its own owner. `malloc`'s lock tests the count and
is right.

*HAL.* With the JTAG UART
on descriptors 0 to 2, `TIOCEXCL` always fails for it. A callback that stops the alarm
after its own makes `alt_tick` walk a list that does not end (`cut`). An alarm with the delay 2^32 - 1
rings at once. `alt_settod` multiplies in 32 bits what `alt_gettod` divides in 64.
`usleep` may return up to a tick early; a busy wait for an exact multiple of INT_MAX/16 µs
turns 2^32 times. `alt_irq_handler` would not end if a request vanished before it looks.
A flash write beyond the end returns success; a restart with an EPCQ256 leaves it in
4-byte mode until the next operation; a chip still busy at a restart is taken for none.

*terasic_lib, I2C core.* `FLASH_Verify` leaves the flash open when its buffer cannot be
allocated (`flash.c:309`). `Flash_Open` does not check its `malloc`. The test pattern
repeats every 256 bytes. A call that loses the bus returns `I2C_ACK`, as the driver does not
look at the AL bit; `I2C_init` clears an interrupt while the core is disabled, which ignores
it; `I2C_start` without acknowledgement leaves the bus without STOP; a speed above a fifth of the
clock gives the prescaler 0xFFFF. A read of the accelerometer that timed out may leave bytes
for the next one.

*Kernel.* `OSTaskChangePrio` may put a task that waits no longer into a wait list again (`stale`), where a
later post finds it: it readies a task that did not wait, or, if the priority has no task,
uses a null pointer. `OSTimeDly` and `OSTaskSuspend` do not look at `OSLockNesting`. If another task takes
the priority that the running one has left with the scheduler locked, `OS_Sched` does not
switch. A task deleted inside `OSTaskCreate` by another leaves its priority reserved and its control
block lost for ever (`orphans`). `OSEventPendMulti`: when the wait of a suspended task ends,
bits of it stay in `OSTCBStat`, `OSTaskResume` takes them for a wait (`os_task.c:816`), and the
task never becomes ready (`forgotten`); an early return
for a wrong type leaves the control block changed. Mutexes: see `AnyTime` in section 2;
besides, the waiters of a mutex that is deleted are told
`OS_ERR_NONE`, "The call was successful and your task owns the mutex" (`os_mutex.c`), and own nothing (`bereft`). Flags: a post between the wake-up and the
consumption is erased, two tasks may consume the same flag. `OSEventNameSet` and
`OSEventNameGet` test the type before the critical section. `OSCPUUsage`: this program never calls
`OSStatInit`; the first reading covers up to three windows. `OSTaskStkChk` reads the stack outside the
critical section. A timer started while a signal is pending rings that many updates early.

## 4. The proofs

`UcosQueueProofs`, for any set of priorities, messages, queue size and timeouts. The
inductive invariant `IInv` is the type invariant, `TaskInv` (for each task, what its
control block and its membership in the lists may be while it is in its own code, in
`OSQPend` or in `OSTimeDly`) and `StoreInv` (the ring's two indices differ by the number
of entries; each accepted message is in exactly one slot or control block, each slot
elsewhere is dead). The stated properties are not inductive by themselves: that a post
finds a waiter ready to be woken needs what `TaskInv` says of `Stat` and `Dly`. From `IInv`
follow `NoStrandedMessage`, `NoStaleTimer`, `WaitListExact`, `BlockedCanWake` (the last
three with the type invariant are `WaitersConsistent`, which the run checks),
`ExactlyOnce`, and step by step the refinement of `MsgQueue`.

`RobotProofs`, for any alphabet, queue lengths, delays and number of buffers. `task1`
runs only while `sendTask` sleeps, and `sendTask` sleeps nowhere but in `OSQPend`; so from
the post that wakes it to its next `OSQPend`, `task1` stands in front of `lidar_read`.
`SenderInv` says this (`LidarWaitsForSender`, `SenderSleepsInPend`) together with the value
of `sendCount` in each phase; `SendQueueNeverStores` and `SendCountExact`, together
`HandOverExact`, follow. `RobotInv` is the type invariant with `Ownership` (each allocated
buffer is in one queue slot or in one task's hand) and `Watchdog`: while `task2` waits with its
timer running, the motors stand or `quiet` has grown by exactly what the timer has run.
`OneOwner` and `SilenceStopsMotors` follow. `ImplementsRemoteDrive` takes a lemma for each
step of the promise: a packet that `RemoteDrive` has accepted is in `task2`'s queue or
hand as it was, because nobody else owns its buffer.

`Task1Proofs`, the sweep, for any `TotalSteps`, speed and delay: `SweepInv` counts what has been
asked in the sweep under way, and that half-steps asked for are taken, still to be taken or lost;
`WithinArc` follows.
`FieldTurnsEvenly` needs only that the coils are at one of the eight half-steps.
`SweepsAsAlone` carries both over to `MCTask1`, where the range finder has its turns, too.

`Task1Proofs`, the wires, for any transfers in order, bytes the device sends, and `READ_DELAY`:
`BusInv` says, after each access to a port, where the device stands. A call of `I2C.c` has
not begun, has come to its k-th access (`StartAt`, `StopAt`, `Clocking` and `Answers`,
`Sampling` and `Sent`), or is about to return; each place fixes the two lines, the device's
mode, the number of bits it has heard or sent, and that these are the leading bits of the byte
at hand. That an event comes exactly once for a call and with the right byte
(`ImplementsI2CLink`) is not inductive without it: what an edge means depends on the state of
the device, and this in turn on all edges since START. `CallerInv` says for `lidar_read` which
calls the sensor has not heard yet, and what it is doing meanwhile: it listens, measures, or
has the register selected whose byte is asked for; a byte that has been read is
of the latest measurement. The sensor hears a call when the device notes its event, before
the function returns; `CallerInv` counts from the former. The two are inductive together
(`Task1Inductive`); `ReadingIsSound` and `ImplementsI2CLink` follow.

`RobotProofs`, the link, for any bytes, payloads, sizes and number of copies. Sender: `FrameInv`
says what the remote side has made of the bytes up to the one `send` stands at (the body so
far is the packet's first bytes, an escape is pending exactly between an announcement and
its byte), from which `WireIsFramed` follows; `IdInv` ties `packetId` to the first byte of
the packet at hand and to the packet before it, from which `IdsAreConsecutive` follows.
Receiver: `BufferInv` says that `receiveTask` always leaves the ring at its beginning and within `BUF_SIZE`;
`ImplementsPacketDecoder` and `ShortPacketsStayInBuffer` hold under `ShortPackets` (no more
than `BUF_SIZE` bytes between START and END), the condition that run `packet_receiver_long`
drops.

`RobotProofs`, the start, for any set of requests and any `LowestPrio`, with any depth of nested
interrupts: `BootInv` says which call of the start comes next and what is set up by then
(`ComesTo`: the tasks that are ready, whether the processor takes interrupts, that it lets in
just the registered ones the mask allows), what `alt_iic_isr_register` has done and which contexts
it has saved (`Sections`), and, frame by frame, that an interrupt being handled is one that all
frames below it let in and that the mask a frame has saved is the one to restore (`Nested`). The
mask at the innermost frame depends on all the others, so `BootIsSound`, which looks only at
registered handlers, counts and order, is not inductive without it. Nothing an interrupt does
moves the start: a handler's step keeps `ComesTo` because the ready list does not change, so
that `OSIntExit` finds the same most urgent task. It assumes `BootAssumption`: requests are
numbered from 0 and there is room for the tasks' priorities below the idle task's.

`UcosTasksProofs`, for any control blocks, priorities, semaphores and delays. `Tables`
says that priorities and control blocks point at each other, that what is between two critical
sections is in one task's hands (a priority that `OSTaskCreateExt` has reserved, a control
block that `OS_TCBInit` has taken or `OSTaskDel` is about to give back) or was in those of a task deleted
meanwhile (`orphans`), what a task's status can be at each place of its code, and
that ready list and wait lists follow the status, but for the entries in `stale`. `Cpu` says which task may have the processor:
the one at `OSPrioCur`, unless it has moved or deleted itself and `OS_Sched` is due; only a task
in its own code holds the scheduler's lock, and a task that deletes itself holds it once.
Neither half is inductive alone: that a task whose wait returns is ready, and may clear its
status, needs that it runs only as the most urgent ready one; that the most urgent ready
priority has a task needs that lists and tables agree. Two lemmas are where this is
delicate: a change of priority puts a task into the lists its control block names, also one
which has been woken, whose entry is then stale; and a deletion may meet its victim inside any
service, whose place in the code, reserved priority and control block go with it. `RunsMostUrgent` and `TablesExact` follow.

`UcosEventsProofs`, for any tasks, events, messages, queue sizes, timeouts and priorities of
mutexes, when tasks keep to the notes in `os_mutex.c` and to the four conditions at `MayWait`
(`AnyTime` is `FALSE`, as in the run). `EventsInv` has four parts. `TasksInv` says for each place of a
task's code what its control block and the wait lists may hold: in which lists it is, whether
its wait has been ended and by what, what `OSEventPendMulti` may have left behind, and that the ready
list follows, but for a task in `forgotten`. `OwnInv`: whose a mutex is, that a task in `bereft` owns
none, that an owner waits for nothing, which priority a task has
and that nobody else can have it; a waiter more urgent than the owner's own priority is in the list
only if the owner has been raised. `StoreInv`: an event with something to give has no waiters, and each
control block is free, in use or in the hands of one call. `CpuInv`: who has the processor. When a
mutex is posted and nobody waits, its owner goes on with its own priority while
`OSPrioCur` is still the raised one (`Stale`); then that priority has no task until the next switch.
No part is inductive alone: that the list of a mutex names tasks of their
own needs that priorities differ; this needs that a raised owner is at the mutex's reserved
priority and no other task can come there; and this needs what the owner may be waiting for.
`TablesExact`, `NobodyStranded` and `MutexExact` follow.

`UcosFlagsProofs`, for any tasks, priorities, groups, flags and timeouts. `KernelSound` makes
`FlagWaitersExact` and `NobodyStranded` inductive: priorities and control blocks point at
each other, a task's status says what it waits for and nothing else, nodes are of the wait
they stand for, the wait lists of semaphores hold those who wait for them, all who wait for
flags wait for one polarity, and the running task is ready unless it is about to call
`OS_Sched`. There is a lemma for each service: it keeps `KernelSound`, and what it does to each
task.

`DriverProofs`, for any number of tasks in any of the roles, size of the rings and number of
bytes told apart. `DriverInv` has three parts. `Turns`: where each task stands and what
it may wait for there; between its wait for a semaphore and its post a task holds it,
counting the one to which the kernel has handed it and which has not run yet; owner and count
of a lock are those of the holder. `Rings`: the transient index (`rx_start` is
`BUF_LEN`) occurs only while one reader is between the store and the mask; what
lies in a ring follows the last byte taken from it; a writer that is about to put a byte still
finds room. `DueExact`: for each place on the way to sleep and in it, why the task will be woken
(the ring is still empty and the interrupt enabled, or the flag is set already). They
are inductive only together: that a byte is not overwritten needs that there is one
reader, that the sleeper is woken needs what the handler does with the ring. `TablesExact`,
`LockIsExclusive`, `SleepersAreDue` and, for a peer that is `Paced`, `BytesInOrder` follow.

`JtagProofs`, for any number of tasks in any of the roles, size of the rings and FIFOs, number of
bytes told apart, timeouts and host. `JtagInv` has three parts, as `DriverInv` has, inductive
only together. `Turns` is about the semaphores and rests on the same lemmas about the kernel.
`Rings` follows a byte from the host through FIFO and ring to the reader, and back; it says of a
task that has copied an index (`seen`) that the handler has only added since to what a
reader saw, or to the room a writer saw; and that the receive interrupt is off only
while the ring is full or until some reader that has taken bytes turns it on again
(`EnableExact`), which a reader does after it has given its lock back. `DueExact` says for
each place on the way to sleep why the task will be woken: the copy of the index is still the
index, or the flag has been set since. `BytesInOrder` and `SleepersAreDue` follow.

Assumptions: only the named ones on the constants. TLC evaluates them in every run.
`RolesAssumption` (`UartDriver`) says that the flags of the driver are used by the driver alone,
and that those who use flags wait for one polarity, without which `NobodyStranded` is false;
`RolesAssumption` (`JtagUart`) lists the roles and nothing else;
`BasePrioAssumption`, and `FirstAssumption` (`UcosTasks`) for the tasks that `main` has created,
that priorities differ, which `OSTaskCreate` ensures; `KindsAssumption` (`UcosEvents`) that the
control blocks `main` has taken are each of one kind, queues no more than `OS_MAX_QS`; `MutexAssumption`
that a mutex gets a priority above those of all tasks, or `OSMutexPend` tells of it (`os_mutex.c:382`); `LockRolesAssumption`
(`HalLocks`) that the environment's lock is not nested (section 3); `TransferAssumption` (`I2CBus`)
that transfers are in order, which excludes a caller who gives one of the functions that write an
odd address, or one that reads after bytes it has not acknowledged; `ByteAssumption` (`RangeFinder`)
that bytes are 0 to 255.

Left to TLC: liveness (`TimedWaitEnds`, `EveryPacketIsSent`, `MotorsEventuallyStop`,
`LidarNeverStarves`, `CatchesUp`, `LidarReadReturns`, `CallsReturn`) and ENABLED; the kernel's
timers, memory, names and statistics, the files and clocks of the HAL, the flash, the I2C core and
the accelerometer (`services`).

## 5. What is not modelled, and the plan

Not modelled, as there is nothing to check: the generated interconnect, the PLL, the SDRAM
controller and the wiring of the top level; formatted output, profiling and signals of the
HAL; the constants of `os_dbg.c`. Not compiled in this configuration: the serial driver's
`ioctl`, the small JTAG driver, the timestamp timer. Below what the models see: caches
and the loading of sections; shift registers and baud rate of the UART; the bit controller of
the I2C core, whose acknowledgements `I2CCore` takes from its environment; the controller in
front of the accelerometer, which the repository does not have. Left out of modelled
parts: pins and write counter of `dc_driver.vhd`; writes to `step_divisor`, as the program
makes none; the LEDs, which show four flags of four contexts for debugging; `echoTask`, which
is never created; `OSFlagPendGetFlagsRdy`, which reads one field.

Too large, and left smaller: `robot` and `robot_live` in one run; the names with all
four kinds of objects at once; `HalFiles` with a sixth descriptor and all modes (more than 6.8
million states); a flash whose contents carry over from call to call (`TerasicFlash`
restores them between calls).

Next: proofs about the other parts of `services`.
