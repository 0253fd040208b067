------------------------------- MODULE HalBoot -------------------------------
(***************************************************************************)
(* The start of the program and its interrupts: alt_main, OSInit,          *)
(* alt_sys_init and main up to OSStart, with the interrupts that come      *)
(* meanwhile (HAL/src/alt_irq_handler.c and what it uses).                 *)
(*                                                                         *)
(* The start is the sequence of the calls that matter here; a call is a    *)
(* step, but for alt_iic_isr_register.  A device may request at any time,  *)
(* and after a restart under the debugger the processor may still have     *)
(* interrupts enabled one by one.  A handler may let more urgent           *)
(* interrupts in (alt_irq_interruptible).                                  *)
(*                                                                         *)
(* Definitions named X_<fault> are faulty variants of X; nothing in the    *)
(* specification uses them.                                                *)
(***************************************************************************)
EXTENDS Integers, SequencesExt

CONSTANTS
  Irq,         \* the requests of the processor, by number; the least goes first
  LowestPrio   \* OS_LOWEST_PRIO, the idle task's

(* The requests that are used.                                             *)
TIMER == 0
JTAG_UART == 1
UART_BLUETOOTH == 2

(* What the constants are; a module that uses this one assumes it.         *)
BootAssumption ==
  /\ {TIMER, JTAG_UART, UART_BLUETOOTH} \subseteq Irq /\ Irq \subseteq Nat
  /\ LowestPrio \in Nat /\ LowestPrio > 5

VARIABLES
  todo,               \* the calls that the start has still to make
  registering,        \* inside alt_iic_isr_register: what it has done
  saved,              \* the contexts of the critical sections it is in
  pie,                \* the processor takes interrupts
  ienable,            \* the requests that it takes
  request,            \* the requests of the devices
  alt_irq,            \* the handlers
  alt_irq_active, alt_priority_mask,
  frames,             \* the interrupts that are being handled, the last innermost
  OSRunning, OSIntNesting,
  OSRdyTbl,           \* the priorities that are ready
  OSPrioCur

bootVars ==
  <<todo, registering, saved, pie, ienable, request, alt_irq, alt_irq_active,
    alt_priority_mask, frames, OSRunning, OSIntNesting, OSRdyTbl, OSPrioCur>>
startVars  == <<todo, registering, saved>>
irqVars    == <<alt_irq, alt_irq_active, alt_priority_mask>>
osVars == <<OSRunning, OSIntNesting, OSRdyTbl, OSPrioCur>>

-----------------------------------------------------------------------------
(* THE CALLS                                                               *)

Call(op)           == [op |-> op, irq |-> TIMER, isr |-> "none", prio |-> 0]
Register(irq, isr) == [Call("register") EXCEPT !.irq = irq, !.isr = isr]
Create(prio)       == [Call("create") EXCEPT !.prio = prio]

(* The controller, then the processor.                                     *)
alt_irq_init == <<Call("irq_init"), Call("enable_interrupts")>>

(* The drivers that have an interrupt, in their order.                     *)
alt_sys_init ==
  <<Register(TIMER, "alt_avalon_timer_sc_irq"),
    Register(JTAG_UART, "altera_avalon_jtag_uart_irq"),
    Register(UART_BLUETOOTH, "altera_avalon_uart_irq")>>

(* The tasks of the program; the Bluetooth ones if initBluetooth succeeds. *)
Tasks(bluetooth) == IF bluetooth THEN <<2, 1, 4, 3>> ELSE <<4, 3>>

main(bluetooth) ==
  LET prio == Tasks(bluetooth)
  IN  [i \in DOMAIN prio |-> Create(prio[i])]
        \o <<Register(UART_BLUETOOTH, "bluetoothIRQ"), Call("start"), Call("first")>>

alt_main(bluetooth) ==
  alt_irq_init \o <<Call("os_init")>> \o alt_sys_init \o main(bluetooth)

BootInit ==
  /\ \E bluetooth \in BOOLEAN : todo = alt_main(bluetooth)
  /\ registering = "no" /\ saved = << >>
  /\ pie = FALSE
  /\ ienable \in {{}, Irq}
  /\ request = {}
  /\ alt_irq = [i \in Irq |-> "none"]
  /\ alt_irq_active = {} /\ alt_priority_mask = Irq
  /\ frames = << >>
  /\ OSRunning = FALSE /\ OSIntNesting = 0
  /\ OSRdyTbl = {} /\ OSPrioCur = 0

(* The start runs when no interrupt does.                                  *)
Calls(op) == frames = << >> /\ todo # << >> /\ todo[1].op = op

Done == todo' = Tail(todo)

altera_nios2_qsys_irq_init ==
  /\ Calls("irq_init") /\ Done
  /\ ienable' = {}
  /\ UNCHANGED <<registering, saved, pie, request, irqVars, frames, osVars>>

alt_irq_cpu_enable_interrupts ==
  /\ Calls("enable_interrupts") /\ Done
  /\ pie' = TRUE
  /\ UNCHANGED <<registering, saved, ienable, request, irqVars, frames, osVars>>

(* OSInit.                                                                 *)
OS_InitMisc == OSIntNesting' = 0 /\ OSRunning' = FALSE

OS_InitRdyList == {}
OS_InitTaskIdle(ready) == ready \cup {LowestPrio}
OS_InitTaskStat(ready) == ready \cup {LowestPrio - 1}

OSInit ==
  /\ Calls("os_init") /\ Done
  /\ OS_InitMisc
  /\ OSPrioCur' = 0
  /\ OSRdyTbl' = OS_InitTaskStat(OS_InitTaskIdle(OS_InitRdyList))
  /\ UNCHANGED <<registering, saved, pie, ienable, request, irqVars, frames>>

(* alt_irq_disable_all and alt_irq_enable_all.                             *)
alt_irq_disable_all == saved' = Append(saved, pie) /\ pie' = FALSE

alt_irq_enable_all_Always == saved' = Front(saved) /\ pie' = TRUE

alt_irq_enable_all == saved' = Front(saved) /\ pie' = Last(saved)

(* alt_iic_isr_register: the handler, then alt_irq_enable with a critical  *)
(* section of its own, ...                                                 *)
alt_iic_isr_register ==
  /\ Calls("register")
  /\ registering = "no" /\ registering' = "handler"
  /\ alt_irq_disable_all
  /\ alt_irq' = [alt_irq EXCEPT ![todo[1].irq] = todo[1].isr]
  /\ UNCHANGED <<todo, ienable, request, alt_irq_active, alt_priority_mask, frames, osVars>>

alt_irq_enable ==
  /\ Calls("register")
  /\ registering = "handler" /\ registering' = "enable"
  /\ alt_irq_disable_all
  /\ alt_irq_active' = alt_irq_active \cup {todo[1].irq}
  /\ ienable' = alt_irq_active'
  /\ UNCHANGED <<todo, request, alt_irq, alt_priority_mask, frames, osVars>>

(* ... and both are left.                                                  *)
RegisterLeaves ==
  /\ Calls("register") /\ registering \in {"enable", "enabled"}
  /\ alt_irq_enable_all
  /\ \/ /\ registering = "enable" /\ registering' = "enabled"
        /\ UNCHANGED todo
     \/ /\ registering = "enabled" /\ registering' = "no"
        /\ Done
  /\ UNCHANGED <<ienable, request, irqVars, frames, osVars>>

(* OSTaskCreateExt before the kernel runs: no OS_Sched.                    *)
OSTaskCreateExt ==
  /\ Calls("create") /\ Done
  /\ OSRdyTbl' = OSRdyTbl \cup {todo[1].prio}
  /\ OSPrioCur' = IF OSRunning THEN Min(OSRdyTbl') ELSE OSPrioCur
  /\ UNCHANGED <<registering, saved, pie, ienable, request, irqVars, frames, OSRunning,
                 OSIntNesting>>

(* OSStart: OS_SchedNew, with interrupts on; ...                           *)
OSStart ==
  /\ Calls("start") /\ Done
  /\ OSPrioCur' = Min(OSRdyTbl)
  /\ UNCHANGED <<registering, saved, pie, ienable, request, irqVars, frames, OSRunning,
                 OSIntNesting, OSRdyTbl>>

(* ... OSStartHighRdy, with interrupts off, which ends in OSStartTsk.      *)
OSStartHighRdy ==
  /\ Calls("first") /\ Done
  /\ OSRunning' = TRUE
  /\ pie' = TRUE
  /\ UNCHANGED <<registering, saved, ienable, request, irqVars, frames, OSIntNesting,
                 OSRdyTbl, OSPrioCur>>

-----------------------------------------------------------------------------
(* INTERRUPTS                                                              *)

alt_irq_pending == request \cap ienable

DeviceRequests(i) ==
  /\ i \notin request /\ request' = request \cup {i}
  /\ UNCHANGED <<startVars, pie, ienable, irqVars, frames, osVars>>

(* A frame: where its alt_irq_handler stands, the requests that it found   *)
(* active, the one it handles and, if its handler is interruptible, the    *)
(* mask to restore.                                                        *)
Frame == [at |-> "enter", active |-> {}, irq |-> TIMER, open |-> FALSE, mask |-> {}]

Inner == frames[Len(frames)]
Stands(at) == frames # << >> /\ Inner.at = at

Interrupt ==
  /\ pie /\ alt_irq_pending # {}
  /\ pie' = FALSE
  /\ frames' = Append(frames, Frame)
  /\ UNCHANGED <<startVars, ienable, request, irqVars, osVars>>

OSIntEnter_Always ==
  /\ Stands("enter")
  /\ OSIntNesting' = OSIntNesting + 1
  /\ frames' = [frames EXCEPT ![Len(frames)] =
                  [@ EXCEPT !.at = "dispatch", !.active = alt_irq_pending]]
  /\ UNCHANGED <<startVars, pie, ienable, request, irqVars, OSRunning, OSRdyTbl, OSPrioCur>>

OSIntEnter ==
  /\ Stands("enter")
  /\ OSIntNesting' = IF OSRunning THEN OSIntNesting + 1 ELSE OSIntNesting
  /\ frames' = [frames EXCEPT ![Len(frames)] =
                  [@ EXCEPT !.at = "dispatch", !.active = alt_irq_pending]]
  /\ UNCHANGED <<startVars, pie, ienable, request, irqVars, OSRunning, OSRdyTbl, OSPrioCur>>

(* alt_irq_handler: the handler of the most urgent request is called ...   *)
alt_irq_handler ==
  /\ Stands("dispatch") /\ Inner.active # {}
  /\ frames' = [frames EXCEPT ![Len(frames)] =
                  [@ EXCEPT !.at = "handler", !.irq = Min(Inner.active)]]
  /\ UNCHANGED <<startVars, pie, ienable, request, irqVars, osVars>>

(* ... lets more urgent ones in, if it wants ...                           *)
alt_irq_interruptible ==
  /\ Stands("handler") /\ ~Inner.open
  /\ frames' = [frames EXCEPT ![Len(frames)] =
                  [@ EXCEPT !.open = TRUE, !.mask = alt_priority_mask]]
  /\ alt_priority_mask' = {i \in Irq : i < Inner.irq}
  /\ ienable' = alt_irq_active \cap alt_priority_mask'
  /\ pie' = TRUE
  /\ UNCHANGED <<startVars, request, alt_irq, alt_irq_active, osVars>>

alt_irq_non_interruptible ==
  /\ Stands("handler") /\ Inner.open
  /\ pie' = FALSE
  /\ alt_priority_mask' = Inner.mask
  /\ ienable' = Inner.mask \cap alt_irq_active
  /\ frames' = [frames EXCEPT ![Len(frames)] = [@ EXCEPT !.open = FALSE, !.mask = {}]]
  /\ UNCHANGED <<startVars, request, alt_irq, alt_irq_active, osVars>>

(* ... has the device take its request back, and the next one is looked    *)
(* for.                                                                    *)
HandlerReturns ==
  /\ Stands("handler") /\ ~Inner.open
  /\ request' = request \ {Inner.irq}
  /\ frames' = LET active == request' \cap ienable
               IN  [frames EXCEPT ![Len(frames)] =
                      [@ EXCEPT !.at = IF active = {} THEN "exit" ELSE "dispatch",
                                !.active = active, !.irq = TIMER]]
  /\ UNCHANGED <<startVars, pie, ienable, irqVars, osVars>>

(* OSIntExit switches to the most urgent task, and the processor returns.  *)
OSIntExit ==
  /\ Stands("exit")
  /\ frames' = Front(frames)
  /\ pie' = TRUE
  /\ OSIntNesting' = IF OSRunning /\ OSIntNesting > 0 THEN OSIntNesting - 1 ELSE OSIntNesting
  /\ OSPrioCur' = IF OSRunning /\ OSIntNesting' = 0 THEN Min(OSRdyTbl) ELSE OSPrioCur
  /\ UNCHANGED <<startVars, ienable, request, irqVars, OSRunning, OSRdyTbl>>

BootNext ==
  \/ altera_nios2_qsys_irq_init \/ alt_irq_cpu_enable_interrupts
  \/ OSInit
  \/ alt_iic_isr_register \/ alt_irq_enable \/ RegisterLeaves
  \/ OSTaskCreateExt \/ OSStart \/ OSStartHighRdy
  \/ \E i \in Irq : DeviceRequests(i)
  \/ Interrupt \/ OSIntEnter \/ alt_irq_handler
  \/ alt_irq_interruptible \/ alt_irq_non_interruptible \/ HandlerReturns
  \/ OSIntExit

BootSpec == BootInit /\ [][BootNext]_bootVars

-----------------------------------------------------------------------------
(* PROPERTIES                                                              *)

Within(at) == {n \in DOMAIN frames : frames[n].at \in at}

(* However interrupts fall into the start: no handler is called that is    *)
(* not registered, each only within less urgent ones, and every request    *)
(* that has a handler is let in again when nothing is being handled; the   *)
(* critical sections of a registration are kept; the kernel counts the     *)
(* interrupts it is in, and none before it runs, when nothing is switched  *)
(* (os_core.c:623, 659); and the first task to run is the most urgent of   *)
(* those that main has created.                                            *)
BootIsSound ==
  /\ \A n \in Within({"handler"}) : alt_irq[frames[n].irq] # "none"
  /\ \A n \in DOMAIN frames : n < Len(frames) =>
       frames[n].at = "handler" /\ frames[n].open
  /\ \A n \in Within({"handler"}), m \in DOMAIN frames :
       m < n => frames[n].irq < frames[m].irq
  /\ frames = << >> /\ (todo = << >> \/ todo[1].op \notin {"irq_init", "enable_interrupts"}) =>
       /\ pie <=> saved = << >>
       /\ ienable = alt_irq_active /\ alt_priority_mask = Irq
  /\ OSIntNesting = IF OSRunning THEN Cardinality(Within({"dispatch", "handler", "exit"})) ELSE 0
  /\ ~OSRunning /\ todo # <<Call("first")>> => OSPrioCur = 0
  /\ OSRunning =>
       \E bluetooth \in BOOLEAN :
         /\ OSRdyTbl = {Tasks(bluetooth)[i] : i \in DOMAIN Tasks(bluetooth)}
                         \cup {LowestPrio - 1, LowestPrio}
         /\ OSPrioCur = IF bluetooth THEN 1 ELSE 3
=============================================================================
