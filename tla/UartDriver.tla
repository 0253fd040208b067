----------------------------- MODULE UartDriver -----------------------------
(***************************************************************************)
(* The driver of the serial ports (drivers/src/altera_avalon_uart_init.c,  *)
(* _read.c, _write.c) on the kernel it runs on: tasks that read and write  *)
(* take turns with two semaphores, sleep on the flags READ_RDY and         *)
(* WRITE_RDY, and share two ring buffers and a copy of the control         *)
(* register with the interrupt handler.                                    *)
(*                                                                         *)
(* Init gives each task a role: one that reads or writes and waits for it, *)
(* one that does so with O_NONBLOCK ("poll", "try"), one that uses event   *)
(* flags in every way os_flag.c allows, but waits only for flags that are  *)
(* set, or for clear ones, or one for a module that extends this one       *)
(* ("heap", "env": see HalLocks).  The wire's bytes are numbered modulo    *)
(* Wrap, so that one that is lost or misplaced shows.                      *)
(***************************************************************************)
EXTENDS UcosFlags

CONSTANTS
  BasePrio,    \* the tasks' priorities
  Roles,       \* what the tasks may do
  OtherSteps,  \* where a task may stand in code that uses these modules
  BufLen,      \* ALT_AVALON_UART_BUF_LEN
  Wrap,        \* how many bytes are told apart
  Paced        \* the peer never sends more than the receive buffer can take

ASSUME UartAssumption ==
  /\ {"READ_RDY", "WRITE_RDY"} \subseteq Flag
  /\ BufLen \in Nat \ {0, 1} /\ Wrap \in Nat /\ Wrap > BufLen + 1 /\ Paced \in BOOLEAN

(* Every task has a priority of its own (OSTaskCreate refuses one that is  *)
(* taken: os_task.c).                                                      *)
ASSUME BasePrioAssumption ==
  /\ BasePrio \in [TCB -> AnyPrio] /\ BasePrio[Idle] = IdlePrio
  /\ \A t, u \in TCB : BasePrio[t] = BasePrio[u] => t = u

VARIABLES
  left,                       \* how many bytes it still wants to read or write
  got,                        \* the read under way has a byte
  rx_start, rx_end, rx_buf,   \* the ring of received bytes
  tx_start, tx_end, tx_buf,   \* the ring of bytes to send
  ctrl,                       \* the control register: the interrupts enabled
  rxdata, rxerror,            \* the device: a byte that waits, damaged or not
  trdy,                       \* the device can take a byte to send
  received, lastRead,         \* history: the last byte from the wire, and to a reader
  written, lastSent           \* history: the last byte from a writer, and to the wire

callVars == <<at, left, got>>
rxVars   == <<rx_start, rx_end, rx_buf, lastRead>>
txVars   == <<tx_start, tx_end, tx_buf, written>>
wireVars == <<rxdata, rxerror, trdy, received, lastSent>>
driverVars == <<cnt, role, callVars, rxVars, txVars, ctrl, wireVars>>
vars == <<coreVars, flagVars, driverVars>>

ReadSteps  == {"rloop", "rmask", "renable", "rpend", "rpost", "rlast"}
WriteSteps == {"wloop", "wenable", "wpend", "wagain", "wput", "wpost", "wlast"}
Does == {"set", "clear", "read", "poll", "write", "try", "heap", "env", "none"}
NONE == Wrap  \* no byte

(* The driver's flags are its own, and all who use flags wait for one      *)
(* polarity.                                                               *)
ASSUME RolesAssumption ==
  \A r \in Roles :
    /\ r \in [TCB -> [does : Does, len : Nat]]
    /\ \/ \A t \in TCB : r[t].does \in {"set", "none"}
       \/ \A t \in TCB : r[t].does \in {"clear", "none"}
       \/ \A t \in TCB : r[t].does \notin {"set", "clear"}

TypeOK ==
  /\ CoreTypeOK({"task", "flag", "pend"})
  /\ FlagsTypeOK
  /\ cnt \in [Event -> {0, 1}]
  /\ role \in [TCB -> [does : Does, len : Nat]]
  /\ at \in [TCB -> {"out"} \cup ReadSteps \cup WriteSteps \cup OtherSteps]
  /\ left \in [TCB -> Nat]
  /\ got \in [TCB -> BOOLEAN]
  /\ rx_start \in 0 .. BufLen /\ {rx_end, tx_start, tx_end} \subseteq 0 .. BufLen - 1
  /\ rx_buf \in [0 .. BufLen - 1 -> 0 .. NONE] /\ tx_buf \in [0 .. BufLen - 1 -> 0 .. NONE]
  /\ ctrl \subseteq {"RRDY", "TRDY"}
  /\ rxdata \in 0 .. NONE /\ rxerror \in BOOLEAN /\ trdy \in BOOLEAN
  /\ {received, lastRead, written, lastSent} \subseteq 0 .. Wrap - 1

(* altera_avalon_uart_init has run, and main has started the tasks.        *)
Init ==
  /\ CoreInit(TCB, BasePrio, {})
  /\ pc = [t \in TCB |-> "task"]
  /\ role \in Roles
  /\ FlagsInit
  /\ cnt = [e \in Event |-> 1]
  /\ at = [t \in TCB |-> "out"] /\ left = [t \in TCB |-> 0]
  /\ got = [t \in TCB |-> FALSE]
  /\ rx_start = 0 /\ rx_end = 0 /\ tx_start = 0 /\ tx_end = 0
  /\ rx_buf = [i \in 0 .. BufLen - 1 |-> NONE] /\ tx_buf = [i \in 0 .. BufLen - 1 |-> NONE]
  /\ ctrl = {"RRDY"}
  /\ rxdata = NONE /\ rxerror = FALSE /\ trdy = TRUE
  /\ received = 0 /\ lastRead = 0 /\ written = 0 /\ lastSent = 0

-----------------------------------------------------------------------------
(* Definitions named X_<fault> are faulty variants of X; nothing uses them. *)

Masked(i) == i % BufLen          \* i & ALT_AVALON_UART_BUF_MSK
Follower(byte) == (byte + 1) % Wrap

Reader(t) == role[t].does \in {"read", "poll"}
Writer(t) == role[t].does \in {"write", "try"}
Blocks(t) == role[t].does \in {"read", "write"}

(* The call's local variables are not used any more.                       *)
CallEnds(t) ==
  /\ left' = [left EXCEPT ![t] = 0]
  /\ got' = [got EXCEPT ![t] = FALSE]

PendReturn(t) ==
  /\ OSSemPendEnds(t)
  /\ UNCHANGED <<role, callVars, rxVars, txVars, ctrl, wireVars>>

Enable_Overwrites(I) ==
  /\ ctrl' = I
  /\ UNCHANGED <<coreVars, flagVars, cnt, left, got, rxVars, txVars>>

(* A critical section in which interrupts are enabled in the device.       *)
Enable(I) ==
  /\ ctrl' = ctrl \cup I
  /\ UNCHANGED <<coreVars, flagVars, cnt, left, got, rxVars, txVars>>

-----------------------------------------------------------------------------
(* altera_avalon_uart_read                                                 *)

StartRead(t) ==
  /\ Step(t, "out", "rloop")
  /\ Reader(t)
  /\ \E len \in 1 .. role[t].len : left' = [left EXCEPT ![t] = len]
  /\ OSSemPend(t, read_lock)
  /\ UNCHANGED <<flagVars, got, rxVars, txVars, ctrl>>

(* A byte is taken.  The build stores the index before it masks it.        *)
TakeByte(t) ==
  /\ Step(t, "rloop", "rmask")
  /\ left[t] > 0
  /\ rx_start # rx_end
  /\ lastRead' = rx_buf[rx_start]
  /\ rx_start' = rx_start + 1
  /\ rx_buf' = [rx_buf EXCEPT ![rx_start] = NONE]
  /\ left' = [left EXCEPT ![t] = @ - 1]
  /\ got' = [got EXCEPT ![t] = TRUE]
  /\ UNCHANGED <<coreVars, flagVars, cnt, rx_end, txVars, ctrl>>

MaskStart(t) ==
  /\ Step(t, "rmask", "rloop")
  /\ rx_start' = Masked(rx_start)
  /\ UNCHANGED <<coreVars, flagVars, cnt, left, got, rx_end, rx_buf, lastRead, txVars, ctrl>>

(* The loop ends with at least one byte, or without, if it must not block; *)
(* or the task is going to sleep.                                          *)
EndLoop(t) ==
  /\ \/ /\ Step(t, "rloop", "rpost")
        /\ IF got[t] THEN left[t] = 0 \/ rx_start = rx_end ELSE ~Blocks(t) /\ rx_start = rx_end
     \/ /\ Step(t, "rloop", "renable")
        /\ ~got[t] /\ Blocks(t) /\ rx_start = rx_end
  /\ UNCHANGED <<coreVars, flagVars, cnt, left, got, rxVars, txVars, ctrl>>

SleepRead(t) ==
  /\ Step(t, "rpend", "rloop")
  /\ AltFlagPend(t, {"READ_RDY"})
  /\ UNCHANGED <<cnt, left, got, rxVars, txVars, ctrl>>

UnlockRead(t) ==
  /\ Step(t, "rpost", "rlast")
  /\ OSSemPost(t, read_lock)
  /\ CallEnds(t)
  /\ UNCHANGED <<flagVars, rxVars, txVars, ctrl>>

Read(t) ==
  \/ TakeByte(t) \/ MaskStart(t) \/ EndLoop(t)
  \/ Step(t, "renable", "rpend") /\ Enable({"RRDY"})
  \/ SleepRead(t) \/ UnlockRead(t)
  \/ Step(t, "rlast", "out") /\ Enable({"RRDY"})

-----------------------------------------------------------------------------
(* altera_avalon_uart_write                                                *)

StartWrite(t) ==
  /\ Step(t, "out", "wloop")
  /\ Writer(t)
  /\ \E len \in 1 .. role[t].len : left' = [left EXCEPT ![t] = len]
  /\ OSSemPend(t, write_lock)
  /\ UNCHANGED <<flagVars, got, rxVars, txVars, ctrl>>

Full == Masked(tx_end + 1) = tx_start

(* The loop ends, goes on with a free slot or without, and returns from    *)
(* the sleep to a free slot or to sleep again.                             *)
TestFull(t) ==
  /\ \/ Step(t, "wloop", "wpost") /\ (left[t] = 0 \/ (Full /\ ~Blocks(t)))
     \/ Step(t, "wloop", "wput") /\ left[t] > 0 /\ ~Full
     \/ Step(t, "wloop", "wenable") /\ left[t] > 0 /\ Full /\ Blocks(t)
     \/ Step(t, "wagain", "wput") /\ ~Full
     \/ Step(t, "wagain", "wpend") /\ Full
  /\ UNCHANGED <<coreVars, flagVars, cnt, left, got, rxVars, txVars, ctrl>>

SleepWrite_Once(t) ==
  /\ Step(t, "wpend", "wput")
  /\ AltFlagPend(t, {"WRITE_RDY"})
  /\ UNCHANGED <<cnt, left, got, rxVars, txVars, ctrl>>

SleepWrite(t) ==
  /\ Step(t, "wpend", "wagain")
  /\ AltFlagPend(t, {"WRITE_RDY"})
  /\ UNCHANGED <<cnt, left, got, rxVars, txVars, ctrl>>

PutByte(t) ==
  /\ Step(t, "wput", "wloop")
  /\ written' = Follower(written)
  /\ tx_buf' = [tx_buf EXCEPT ![tx_end] = written']
  /\ tx_end' = Masked(tx_end + 1)
  /\ left' = [left EXCEPT ![t] = @ - 1]
  /\ UNCHANGED <<coreVars, flagVars, cnt, got, rxVars, tx_start, ctrl>>

UnlockWrite(t) ==
  /\ Step(t, "wpost", "wlast")
  /\ OSSemPost(t, write_lock)
  /\ CallEnds(t)
  /\ UNCHANGED <<flagVars, rxVars, txVars, ctrl>>

Write(t) ==
  \/ TestFull(t)
  \/ Step(t, "wenable", "wpend") /\ Enable({"TRDY"})
  \/ SleepWrite(t) \/ PutByte(t) \/ UnlockWrite(t)
  \/ Step(t, "wlast", "out") /\ Enable({"TRDY"})

-----------------------------------------------------------------------------
(* The handler.  rxirq and txirq are called for what the status register   *)
(* shows, whether or not its interrupt is enabled.                         *)

(* Whether rxirq stores the byte that waits: not when it came damaged.     *)
Stores == rxdata # NONE /\ ~rxerror
Sends  == trdy /\ tx_start # tx_end

(* The flags that the two post, each to tasks that wait for it alone.      *)
Posted_AfterStore ==  \* the ring is looked at once it holds the byte
  (IF Stores /\ Masked(rx_end + 1) = rx_start THEN {"READ_RDY"} ELSE {})
    \cup (IF Sends /\ Full THEN {"WRITE_RDY"} ELSE {})

Posted ==
  (IF Stores /\ rx_end = rx_start THEN {"READ_RDY"} ELSE {})
    \cup (IF Sends /\ Full THEN {"WRITE_RDY"} ELSE {})

altera_avalon_uart_rxirq ==
  /\ IF Stores
       THEN /\ rx_buf' = [rx_buf EXCEPT ![rx_end] = rxdata]
            /\ rx_end' = Masked(rx_end + 1)
            /\ rxdata' = NONE
       ELSE UNCHANGED <<rx_buf, rx_end, rxdata>>
  /\ rxerror' = FALSE

altera_avalon_uart_txirq ==
  IF Sends
    THEN /\ lastSent' = tx_buf[tx_start]
         /\ tx_buf' = [tx_buf EXCEPT ![tx_start] = NONE]
         /\ tx_start' = Masked(tx_start + 1)
         /\ trdy' = FALSE
    ELSE UNCHANGED <<lastSent, tx_buf, tx_start, trdy>>

(* What the two leave in the control register: no interrupt for a byte     *)
(* when the ring is full, none for room in the device when there is        *)
(* nothing to send.                                                        *)
Control ==
  LET rx == IF Stores /\ Masked(rx_end' + 1) = rx_start THEN {"RRDY"} ELSE {}
      tx == IF trdy /\ tx_start' = tx_end THEN {"TRDY"} ELSE {}
  IN  ((IF Sends THEN ctrl \cup {"TRDY"} ELSE ctrl) \ rx) \ tx

altera_avalon_uart_irq ==
  /\ ("RRDY" \in ctrl /\ rxdata # NONE) \/ ("TRDY" \in ctrl /\ trdy)
  /\ altera_avalon_uart_rxirq
  /\ altera_avalon_uart_txirq
  /\ ctrl' = Control
  /\ IF Posted # {}
       THEN OSFlagPost(events, Posted, TRUE)
       ELSE UNCHANGED <<prioVars, stateVars, waitVars, flagVars>>
  /\ OSIntExit
  /\ UNCHANGED <<cnt, role, callVars, rx_start, lastRead, tx_end, written, received>>

(* The wire brings a byte; one before has been fetched.  The peer may be   *)
(* one that never sends more than the ring can take.                       *)
Arrive ==
  /\ rxdata = NONE
  /\ \E t \in TCB : Reader(t)
  /\ Paced => Masked(rx_end + 1) # Masked(rx_start)
  /\ received' = Follower(received)
  /\ rxdata' = received'
  /\ rxerror' \in BOOLEAN
  /\ UNCHANGED <<coreVars, flagVars, cnt, role, callVars, rxVars, txVars, ctrl, trdy, lastSent>>

Shifted ==
  /\ ~trdy
  /\ trdy' = TRUE
  /\ UNCHANGED <<coreVars, flagVars, cnt, role, callVars, rxVars, txVars, ctrl>>
  /\ UNCHANGED <<rxdata, rxerror, received, lastSent>>
-----------------------------------------------------------------------------
(* A task that uses event flags, of any group, in any way: it calls a      *)
(* service that may make others ready, or one after which OS_Sched does    *)
(* not follow, or waits.                                                   *)
WaitsOf(t) == {w \in Waits : /\ w.set = (role[t].does = "set") /\ w.flags # {}
                             /\ w.all => Cardinality(w.flags) > 1}

SomePost == \E g \in Group, flags \in (SUBSET Flag) \ {{}}, set \in BOOLEAN : OSFlagPost(g, flags, set)

AnyCall(t) ==
  \/ /\ InTask(t)
     /\ \/ SomePost /\ ThenSched(t, OSRdyTbl' # OSRdyTbl) /\ UNCHANGED pc
        \/ \E w \in WaitsOf(t) : OSFlagAccept(w.grp, w) /\ UNCHANGED coreVars
        \/ /\ \/ \E p \in Prio : OSTaskSuspend(p) /\ ThenSched(t, OSTCBPrioTbl[p] = t)
              \/ \E p \in Prio : OSTaskResume(p) /\ ThenSched(t, OSRdyTbl' # OSRdyTbl)
              \/ \E ticks \in Ticks : OSTimeDly(t, ticks) /\ ThenSched(t, TRUE)
           /\ UNCHANGED <<pc, flagVars>>
  \/ OSFlagCreate(t)
  \/ \E g \in Group : OSFlagDel(t, g)
  \/ \E w \in WaitsOf(t), timeout \in Ticks \cup {0} : OSFlagPend(t, w, timeout)

IsAny(t) == role[t].does \in {"set", "clear"}

(* The handlers of other devices: the clock, and one that posts flags.     *)
OtherInterrupt ==
  /\ \E t \in TCB : IsAny(t)
  /\ SomePost \/ (OSTimeTick /\ UNCHANGED flagVars)
  /\ OSIntExit
  /\ UNCHANGED driverVars

(* What the processor does for a task when no call is begun.               *)
Program(t) ==
  \/ (Read(t) \/ Write(t)) /\ UNCHANGED <<role, wireVars>>
  \/ FlagReturn(t) /\ UNCHANGED driverVars
  \/ PendReturn(t)
  \/ OS_Sched(t) /\ UNCHANGED <<flagVars, driverVars>>

Next ==
  \/ \E t \in TCB \ {Idle} : (StartRead(t) \/ StartWrite(t)) /\ UNCHANGED <<role, wireVars>>
  \/ \E t \in TCB \ {Idle} : IsAny(t) /\ AnyCall(t) /\ UNCHANGED driverVars
  \/ \E t \in TCB : Program(t)
  \/ altera_avalon_uart_irq
  \/ OtherInterrupt
  \/ Arrive
  \/ Shifted
  \/ Running(Idle) /\ UNCHANGED vars  \* OS_TaskIdle

Spec == Init /\ [][Next]_vars

-----------------------------------------------------------------------------
(* PROPERTIES                                                              *)

Used(start, end) == (end + BufLen - start) % BufLen

(* What a ring holds is what came in and has not gone out, in order and    *)
(* with none missing: neither the transient index of a reader, nor a stale *)
(* flag, nor an interrupt between a test and what follows it, loses a byte *)
(* or sends one twice.                                                     *)
BytesInOrder ==
  LET n      == Used(Masked(rx_start), rx_end)
      m      == Used(tx_start, tx_end)
      before == IF rxdata = NONE THEN received ELSE (received + Wrap - 1) % Wrap
  IN  /\ (lastRead + n) % Wrap = before
      /\ \A i \in 1 .. n : rx_buf[Masked(rx_start + i - 1)] = (lastRead + i) % Wrap
      /\ (lastSent + m) % Wrap = written
      /\ \A i \in 1 .. m : tx_buf[Masked(tx_start + i - 1)] = (lastSent + i) % Wrap

(* A task that sleeps in the driver is due to be woken: a reader only when *)
(* the ring is empty and the next byte will interrupt, a writer only when  *)
(* the ring is full and room in the device will.                           *)
SleepersAreDue ==
  \A t \in TCB : WaitsForFlags(t) =>
    /\ role[t].does = "read" => rx_start = rx_end /\ "RRDY" \in ctrl
    /\ role[t].does = "write" => Full /\ "TRDY" \in ctrl

(* A byte is stored only where there is room for it: when the ring is full *)
(* the interrupt is off, and it is on again only when a byte has been      *)
(* taken out (altera_avalon_uart_init.c:189-190).  The code does not keep  *)
(* this when the peer is not Paced: the calls of read turn the interrupt   *)
(* on again whether or not the ring has filled since                       *)
(* (altera_avalon_uart_read.c:201-204, 234-237).                           *)
FullStopsReceive ==
  [][rx_end' # rx_end => Masked(rx_end + 1) # Masked(rx_start)]_<<rx_start, rx_end>>
=============================================================================
