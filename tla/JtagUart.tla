------------------------------ MODULE JtagUart ------------------------------
(***************************************************************************)
(* The driver of the JTAG UART (drivers/src/altera_avalon_jtag_uart_*.c),  *)
(* to which printf writes, on the kernel it runs on: tasks write, read and *)
(* close, taking turns with two semaphores and sleeping on event flags;    *)
(* the interrupt handler moves bytes between the rings and the device's    *)
(* FIFOs; an alarm looks every second for a sign of the host's life.       *)
(*                                                                         *)
(* No critical section protects the rings: a task reads the index that the *)
(* handler moves once, then copies.  Each such read is a step.  The bytes  *)
(* of each direction are numbered modulo Wrap and counted while they are   *)
(* under way.                                                              *)
(***************************************************************************)
EXTENDS UcosFlags, Sequences

CONSTANTS
  BasePrio,      \* the tasks' priorities
  Roles,         \* what the tasks may do
  BufLen,        \* ALTERA_AVALON_JTAG_UART_BUF_LEN
  FifoLen,       \* the depth of the device's FIFOs
  Threshold,     \* the write FIFO interrupts when it holds no more than this
  Wrap,          \* how many bytes are told apart
  DefaultTimeout,
  MaxInactive,   \* counts of idle seconds from here on are not told apart
  Timeouts       \* arguments of TIOCSTIMEOUT

ASSUME JtagAssumption ==
  /\ {"READ_RDY", "WRITE_RDY", "TIMEOUT"} \subseteq Flag
  /\ BufLen \in Nat \ {0, 1} /\ FifoLen \in Nat \ {0} /\ Threshold \in 0 .. FifoLen - 1
  /\ Wrap \in Nat \ {0, 1}
  /\ MaxInactive \in Nat /\ {DefaultTimeout} \cup Timeouts \subseteq 0 .. MaxInactive + 1

(* Every task has a priority of its own (OSTaskCreate refuses one that is  *)
(* taken: os_task.c).                                                      *)
ASSUME BasePrioAssumption ==
  /\ BasePrio \in [TCB -> AnyPrio] /\ BasePrio[Idle] = IdlePrio
  /\ \A t, u \in TCB : BasePrio[t] = BasePrio[u] => t = u

Does == {"read", "poll", "write", "try", "ioctl", "none"}

ASSUME RolesAssumption == Roles \subseteq [TCB -> [does : Does, len : Nat, sleeps : BOOLEAN]]

VARIABLES
  left,                    \* how many bytes a task still wants to read or write
  done,                    \* it has read or written some
  seen,                    \* its copy of the handler's index
  rx_in, rx_out, rx_buf,   \* the ring of received bytes
  tx_in, tx_out, tx_buf,   \* the ring of bytes to send
  irq_enable,              \* the interrupts enabled, RE and WE
  host_inactive, timeout,  \* seconds without the host, and how many make it absent
  rfifo, wfifo,            \* the device's FIFOs
  ac,                      \* the host has shown that it is there, since the last second
  lastRead, toRead,        \* history: the last byte to a reader, and how many should follow
  lastSent, toSend         \* history: the last byte to the host, and how many should follow

callVars == <<at, left, done, seen>>
rxVars   == <<rx_in, rx_out, rx_buf>>
txVars   == <<tx_in, tx_out, tx_buf>>
byteVars == <<lastRead, toRead, lastSent, toSend>>
wireVars == <<host_inactive, timeout, ac, rfifo, wfifo>>
driverVars == <<cnt, role, callVars, rxVars, txVars, irq_enable, byteVars, wireVars>>
vars == <<coreVars, flagVars, driverVars>>

NONE    == Wrap             \* no byte
Forever == MaxInactive + 1  \* INT_MAX - 1
Slot    == 0 .. BufLen - 1

TypeOK ==
  /\ CoreTypeOK({"task", "flag", "pend"})
  /\ FlagsTypeOK
  /\ cnt \in [Event -> {0, 1}]
  /\ role \in [TCB -> [does : Does, len : Nat, sleeps : BOOLEAN]]
  /\ at \in [TCB -> {"out", "rread", "rcopy", "rpend", "rtest", "rpost", "renable", "wread",
                      "wcopy", "wenable", "wpend", "wtest", "wpost", "close"}]
  /\ left \in [TCB -> Nat] /\ done \in [TCB -> BOOLEAN] /\ seen \in [TCB -> Slot]
  /\ {rx_in, rx_out, tx_in, tx_out} \subseteq Slot
  /\ rx_buf \in [Slot -> 0 .. NONE] /\ tx_buf \in [Slot -> 0 .. NONE]
  /\ irq_enable \subseteq {"RE", "WE"}
  /\ host_inactive \in 0 .. MaxInactive /\ timeout \in 0 .. Forever
  /\ Len(rfifo) <= FifoLen /\ Len(wfifo) <= FifoLen
  /\ ac \in BOOLEAN
  /\ {lastRead, lastSent} \subseteq 0 .. Wrap - 1 /\ {toRead, toSend} \subseteq Nat

(* altera_avalon_jtag_uart_init has run, and main has started the tasks.   *)
Init ==
  /\ CoreInit(TCB, BasePrio, {})
  /\ pc = [t \in TCB |-> "task"]
  /\ role \in Roles
  /\ FlagsInit
  /\ cnt = [e \in Event |-> 1]
  /\ at = [t \in TCB |-> "out"] /\ left = [t \in TCB |-> 0]
  /\ done = [t \in TCB |-> FALSE] /\ seen = [t \in TCB |-> 0]
  /\ rx_in = 0 /\ rx_out = 0 /\ tx_in = 0 /\ tx_out = 0
  /\ rx_buf = [i \in Slot |-> NONE] /\ tx_buf = [i \in Slot |-> NONE]
  /\ irq_enable = {"RE"}
  /\ host_inactive = 0 /\ timeout = DefaultTimeout
  /\ rfifo = <<>> /\ wfifo = <<>>
  /\ ac \in BOOLEAN
  /\ lastRead = 0 /\ toRead = 0 /\ lastSent = 0 /\ toSend = 0

-----------------------------------------------------------------------------
(* Definitions named X_<fault> are faulty variants of X; nothing uses them. *)

Ring(i)   == i % BufLen
Used(in, out) == Ring(in + BufLen - out)
Least(m, n)   == IF m < n THEN m ELSE n
ByteNo(i) == i % Wrap

(* Bytes are put into a ring from some slot on, or leave it: what a slot   *)
(* holds then no longer matters.                                           *)
PutInto(buf, slot, bytes) ==
  [i \in Slot |-> IF Used(i, slot) < Len(bytes) THEN bytes[Used(i, slot) + 1] ELSE buf[i]]
FirstOf(buf, slot, n)   == [i \in 1 .. n |-> buf[Ring(slot + i - 1)]]
WithoutOf(buf, slot, n) == PutInto(buf, slot, [i \in 1 .. n |-> NONE])

Reader(t) == role[t].does \in {"read", "poll"}
Writer(t) == role[t].does \in {"write", "try"}
Blocks(t) == role[t].does \in {"read", "write"}  \* without O_NONBLOCK

(* A call that begins takes its lock; one that ends forgets its variables. *)
StartCall(t, from, lock) ==
  /\ Step(t, "out", from)
  /\ \E len \in 1 .. role[t].len : left' = [left EXCEPT ![t] = len]
  /\ done' = [done EXCEPT ![t] = FALSE]
  /\ OSSemPend(t, lock)
  /\ UNCHANGED <<flagVars, seen, rxVars, txVars, irq_enable, byteVars>>

Unlock(t, lock) ==
  /\ OSSemPost(t, lock)
  /\ left' = [left EXCEPT ![t] = 0]
  /\ seen' = [seen EXCEPT ![t] = 0]
  /\ UNCHANGED <<flagVars, rxVars, txVars, irq_enable, byteVars>>

(* A step that only reads, a critical section that enables an interrupt,   *)
(* and ALT_FLAG_PEND.                                                      *)
Look == UNCHANGED <<coreVars, flagVars, cnt, left, done, rxVars, txVars, irq_enable, byteVars>>

Enable(I) ==
  /\ irq_enable' = irq_enable \cup I
  /\ UNCHANGED <<coreVars, flagVars, cnt, left, seen, rxVars, txVars, byteVars>>

Sleep(t, flag) ==
  /\ AltFlagPend(t, {flag, "TIMEOUT"})
  /\ UNCHANGED <<cnt, left, done, seen, rxVars, txVars, irq_enable, byteVars>>

-----------------------------------------------------------------------------
(* altera_avalon_jtag_uart_write                                           *)

TxRoom_NoSlotFree(in, out) == IF in < out THEN out - 1 - in ELSE BufLen - in

(* How many bytes the code copies at once, given the handler's index: one  *)
(* slot stays free.                                                        *)
TxRoom(in, out) ==
  IF in < out THEN out - 1 - in ELSE IF out > 0 THEN BufLen - in ELSE BufLen - 1 - in

ReadTxOut(t) ==
  /\ Step(t, "wread", "wcopy")
  /\ seen' = [seen EXCEPT ![t] = tx_out]
  /\ Look

CopyIn(t) ==
  LET n == Least(TxRoom(tx_in, seen[t]), left[t])
  IN  /\ Step(t, "wcopy", IF 0 < n /\ n < left[t] THEN "wread" ELSE "wenable")
      /\ tx_buf' = PutInto(tx_buf, tx_in, [i \in 1 .. n |-> ByteNo(lastSent + toSend + i)])
      /\ tx_in' = Ring(tx_in + n)
      /\ toSend' = toSend + n
      /\ left' = [left EXCEPT ![t] = @ - n]
      /\ done' = [done EXCEPT ![t] = @ \/ n > 0]
      /\ UNCHANGED <<coreVars, flagVars, cnt, seen, rxVars, tx_out, irq_enable, lastRead, toRead, lastSent>>

EnableWrite(t) ==
  /\ Step(t, "wenable", IF left[t] > 0 /\ Blocks(t) THEN "wpend" ELSE "wpost")
  /\ Enable({"WE"})
  /\ UNCHANGED done

TestTxOut_GoesOn(t) ==
  /\ Step(t, "wtest", "wread")
  /\ UNCHANGED seen
  /\ Look

(* After the sleep: has anything been sent?                                *)
TestTxOut(t) ==
  /\ Step(t, "wtest", IF seen[t] = tx_out THEN "wpost" ELSE "wread")
  /\ UNCHANGED seen
  /\ Look

Write(t) ==
  \/ ReadTxOut(t) \/ CopyIn(t) \/ EnableWrite(t) \/ TestTxOut(t)
  \/ Step(t, "wpend", "wtest") /\ Sleep(t, "WRITE_RDY")
  \/ Step(t, "wpost", "out") /\ Unlock(t, write_lock) /\ done' = [done EXCEPT ![t] = FALSE]

-----------------------------------------------------------------------------
(* altera_avalon_jtag_uart_read                                            *)

RxReady(in, out) == IF in >= out THEN in - out ELSE BufLen - out

ReadRxIn(t) ==
  /\ Step(t, "rread", "rcopy")
  /\ seen' = [seen EXCEPT ![t] = rx_in]
  /\ Look

CopyOut(t) ==
  LET n == Least(RxReady(seen[t], rx_out), left[t])
  IN  /\ Step(t, "rcopy", IF 0 < n /\ n < left[t] THEN "rread"
                          ELSE IF n > 0 \/ done[t] \/ ~Blocks(t) THEN "rpost" ELSE "rpend")
      /\ lastRead' = IF n > 0 THEN rx_buf[Ring(rx_out + n - 1)] ELSE lastRead
      /\ toRead' = toRead - n
      /\ rx_buf' = WithoutOf(rx_buf, rx_out, n)
      /\ rx_out' = Ring(rx_out + n)
      /\ left' = [left EXCEPT ![t] = @ - n]
      /\ done' = [done EXCEPT ![t] = @ \/ n > 0]
      /\ UNCHANGED <<coreVars, flagVars, cnt, seen, rx_in, txVars, irq_enable, lastSent, toSend>>

TestRxIn(t) ==
  /\ Step(t, "rtest", IF seen[t] = rx_in THEN "rpost" ELSE "rread")
  /\ UNCHANGED seen
  /\ Look

UnlockRead_NoEnable(t) ==
  /\ Step(t, "rpost", "out")
  /\ Unlock(t, read_lock)
  /\ done' = [done EXCEPT ![t] = FALSE]

(* The lock is given back before the interrupt is enabled.                 *)
UnlockRead(t) ==
  /\ Step(t, "rpost", IF done[t] THEN "renable" ELSE "out")
  /\ Unlock(t, read_lock)
  /\ UNCHANGED done

Read(t) ==
  \/ ReadRxIn(t) \/ CopyOut(t) \/ TestRxIn(t) \/ UnlockRead(t)
  \/ Step(t, "rpend", "rtest") /\ Sleep(t, "READ_RDY")
  \/ Step(t, "renable", "out") /\ Enable({"RE"}) /\ done' = [done EXCEPT ![t] = FALSE]

-----------------------------------------------------------------------------
(* altera_avalon_jtag_uart_close spins until the ring is empty or the host *)
(* absent, and altera_avalon_jtag_uart_ioctl.                              *)

StartClose(t) ==
  /\ Step(t, "out", "close")
  /\ Writer(t)
  /\ UNCHANGED seen
  /\ Look

Close(t) ==
  /\ Step(t, "close", "out")
  /\ tx_out = tx_in \/ host_inactive >= timeout \/ ~Blocks(t)
  /\ UNCHANGED seen
  /\ Look

(* TIOCSTIMEOUT; TIOCGCONNECTED changes nothing.                           *)
altera_avalon_jtag_uart_ioctl(t) ==
  /\ InTask(t)
  /\ role[t].does = "ioctl"
  /\ \E arg \in Timeouts : timeout' = IF arg >= 2 THEN arg ELSE Forever
  /\ UNCHANGED <<coreVars, flagVars, cnt, role, callVars, rxVars, txVars, irq_enable>>
  /\ UNCHANGED <<byteVars, host_inactive, ac, rfifo, wfifo>>

-----------------------------------------------------------------------------
(* The handler, for as long as the device asks for it: what it takes from  *)
(* the read FIFO and puts into the write FIFO.                             *)
RI == "RE" \in irq_enable /\ rfifo # <<>>
WI == "WE" \in irq_enable /\ Len(wfifo) <= Threshold

Taken == IF RI THEN Least(Len(rfifo), BufLen - 1 - Used(rx_in, rx_out)) ELSE 0
Space == FifoLen - Len(wfifo)
Sent  == IF WI THEN Least(Space, Used(tx_in, tx_out)) ELSE 0

(* What it turns off: RE when bytes are left that the ring has no room     *)
(* for, WE when there is room left in the FIFO and nothing to send.        *)
TurnedOff ==
  (IF RI /\ Taken < Len(rfifo) THEN {"RE"} ELSE {})
    \cup (IF WI /\ Sent < Space THEN {"WE"} ELSE {})

Posted == (IF Taken > 0 THEN {"READ_RDY"} ELSE {}) \cup (IF Sent > 0 THEN {"WRITE_RDY"} ELSE {})

PostFromHandler(flags) ==
  IF flags = {} THEN UNCHANGED <<prioVars, stateVars, waitVars, flagVars>>
                ELSE OSFlagPost(events, flags, TRUE)

altera_avalon_jtag_uart_irq ==
  /\ RI \/ WI
  /\ rx_buf' = PutInto(rx_buf, rx_in, SubSeq(rfifo, 1, Taken))
  /\ rx_in' = Ring(rx_in + Taken)
  /\ rfifo' = SubSeq(rfifo, Taken + 1, Len(rfifo))
  /\ wfifo' = wfifo \o FirstOf(tx_buf, tx_out, Sent)
  /\ tx_buf' = WithoutOf(tx_buf, tx_out, Sent)
  /\ tx_out' = Ring(tx_out + Sent)
  /\ irq_enable' = irq_enable \ TurnedOff
  /\ PostFromHandler(Posted)
  /\ OSIntExit
  /\ UNCHANGED <<cnt, role, callVars, rx_out, tx_in, byteVars, host_inactive, timeout, ac>>

(* Every second, by the clock's interrupt.                                 *)
altera_avalon_jtag_uart_timeout ==
  /\ ac' = FALSE
  /\ host_inactive' = IF ac THEN 0 ELSE Least(host_inactive + 1, MaxInactive)
  /\ PostFromHandler(IF ~ac /\ host_inactive' >= timeout THEN {"TIMEOUT"} ELSE {})
  /\ OSIntExit
  /\ UNCHANGED <<cnt, role, callVars, rxVars, txVars, irq_enable, byteVars>>
  /\ UNCHANGED <<timeout, rfifo, wfifo>>

(* The host: a program on the PC, which may come and go.  Whatever it does *)
(* shows the device that it is there.                                      *)
HostSends ==
  /\ \E t \in TCB : Reader(t)
  /\ Len(rfifo) < FifoLen
  /\ rfifo' = Append(rfifo, ByteNo(lastRead + toRead + 1))
  /\ toRead' = toRead + 1
  /\ UNCHANGED <<wfifo, lastRead, lastSent, toSend>>

HostTakes ==
  /\ wfifo # <<>>
  /\ lastSent' = Head(wfifo)
  /\ wfifo' = Tail(wfifo)
  /\ toSend' = toSend - 1
  /\ UNCHANGED <<rfifo, lastRead, toRead>>

HostPolls == ~ac /\ UNCHANGED <<rfifo, wfifo, byteVars>>

Host ==
  /\ HostSends \/ HostTakes \/ HostPolls
  /\ ac' = TRUE
  /\ UNCHANGED <<coreVars, flagVars, cnt, role, callVars, rxVars, txVars, irq_enable, host_inactive, timeout>>

-----------------------------------------------------------------------------
Begin(t) ==
  \/ Reader(t) /\ StartCall(t, "rread", read_lock)
  \/ Writer(t) /\ StartCall(t, "wread", write_lock)
  \/ StartClose(t)

(* What the processor does for a task once a call has begun.               *)
Program(t) ==
  \/ (Read(t) \/ Write(t) \/ Close(t)) /\ UNCHANGED <<role, wireVars>>
  \/ FlagReturn(t) /\ UNCHANGED driverVars
  \/ OSSemPendEnds(t) /\ UNCHANGED <<role, callVars, rxVars, txVars, irq_enable, byteVars, wireVars>>
  \/ OS_Sched(t) /\ UNCHANGED <<flagVars, driverVars>>

Pause(t) == Step(t, "out", "out") /\ role[t].sleeps /\ TaskSleeps(t)

Next ==
  \/ \E t \in TCB \ {Idle} : Begin(t) /\ UNCHANGED <<role, wireVars>>
  \/ \E t \in TCB : altera_avalon_jtag_uart_ioctl(t) \/ Program(t)
  \/ \E t \in TCB \ {Idle} : Pause(t) /\ UNCHANGED <<flagVars, driverVars>>
  \/ ClockTicks /\ UNCHANGED <<flagVars, driverVars>>
  \/ altera_avalon_jtag_uart_irq
  \/ altera_avalon_jtag_uart_timeout
  \/ Host
  \/ Running(Idle) /\ UNCHANGED vars  \* OS_TaskIdle

(* The processor runs, its interrupts are served, the clock goes on, and a *)
(* host that shows itself again and again takes what there is.             *)
Fairness ==
  /\ WF_vars(\E t \in TCB : Program(t))
  /\ WF_vars(altera_avalon_jtag_uart_irq)
  /\ WF_vars(altera_avalon_jtag_uart_timeout)
  /\ WF_vars(ClockTicks /\ UNCHANGED <<flagVars, driverVars>>)
  /\ SF_vars(ac /\ HostTakes /\ Host)

Spec == Init /\ [][Next]_vars /\ Fairness

-----------------------------------------------------------------------------
(* PROPERTIES                                                              *)

(* The state is well-typed; what a ring and its FIFO hold is what was sent *)
(* and has not arrived, in order and with none missing, though no critical *)
(* section protects them.                                                  *)
BytesInOrder ==
  LET Follow(last, count, bytes) ==
        Len(bytes) = count /\ \A i \in 1 .. count : bytes[i] = ByteNo(last + i)
  IN  /\ TypeOK
      /\ Follow(lastRead, toRead, FirstOf(rx_buf, rx_out, Used(rx_in, rx_out)) \o rfifo)
      /\ Follow(lastSent, toSend, wfifo \o FirstOf(tx_buf, tx_out, Used(tx_in, tx_out)))

(* A task that sleeps in the driver is due to be woken: a reader because   *)
(* the next byte interrupts, or because a task that read before it is on   *)
(* its way to enable that; a writer because room in the FIFO interrupts.   *)
SleepersAreDue ==
  \A t \in TCB : WaitsForFlags(t) =>
    /\ Reader(t) => /\ rx_in = rx_out
                    /\ "RE" \in irq_enable \/ \E u \in TCB \ {t} : at[u] = "renable"
    /\ Writer(t) => Ring(tx_in + 1) = tx_out /\ "WE" \in irq_enable

InRead(t) == at[t] \in {"rread", "rcopy", "rpend", "rtest", "rpost", "renable"}
Urgent == CHOOSE t \in TCB : \A u \in TCB : BasePrio[t] <= BasePrio[u]

(* The close of a task more urgent than a writer that has not yet enabled  *)
(* the interrupt for what it has put into the ring.                        *)
KeepsWriterOut ==
  /\ at[Urgent] = "close" /\ "WE" \notin irq_enable
  /\ \E t \in TCB : at[t] \in {"wread", "wcopy", "wenable"}

(* The host shows itself again and again, and sends nothing to a task that *)
(* waits to read.                                                          *)
SilentHost == []<>ac /\ <>[](InRead(Urgent) /\ rx_in = rx_out /\ rfifo = <<>>)

(* The most urgent task's calls return: writes whether or not the host is  *)
(* there (altera_avalon_jtag_uart_write.c:137-184); reads unless the host  *)
(* is there and silent; and closes                                         *)
(* (altera_avalon_jtag_uart_init.c:247), but for the one that spins while  *)
(* it keeps the writer out that it waits for.  All this unless an ioctl    *)
(* has turned the timeout off.                                             *)
CallsReturn ==
  \/ at[Urgent] # "out" ~> at[Urgent] = "out" \/ timeout = Forever \/ KeepsWriterOut
  \/ SilentHost

(* A close waits for the data to be emptied "unless a timeout from         *)
(* host-activity occurs" (altera_avalon_jtag_uart_init.c:228-230): so it   *)
(* ends when the host takes what it gets, and when it is not there.        *)
CloseReturns ==
  at[Urgent] = "close" ~> at[Urgent] = "out" \/ timeout = Forever

(* A write that waited and has written nothing gives up, with -EIO "Host   *)
(* not connected", only if the host is absent as TIOCGCONNECTED tells it.  *)
OnlyWithoutHost ==
  [][\A t \in TCB : at[t] = "wtest" /\ at'[t] = "wpost" /\ ~done[t] => host_inactive >= timeout]_vars
=============================================================================
