------------------------------ MODULE MCProgram ------------------------------
(***************************************************************************)
(* Three things that the program rests on and that share nothing, side by  *)
(* side: a behaviour is one of the kernel's queue (UcosQueue), of the      *)
(* Bluetooth link (MCBluetooth) or of task1's loop (MCTask1), while the    *)
(* other two stay as they begin.  The queue has two slots and two tasks:   *)
(* the urgent one pends with a timeout, the other for ever; both may also  *)
(* delay.                                                                  *)
(***************************************************************************)
EXTENDS UcosQueue, MCBluetooth, MCTask1

CONSTANTS m1, m2, m3

VARIABLE piece   \* "queue", "link" or "loop"

MCTask == {1, 2}
MCMessage == {m1, m2, m3}
MCTimeout == [t \in MCTask |-> IF t = 1 THEN 2 ELSE 0]
MCDelayTicks == {1, 2}

programVars == <<piece, vars, linkVars, halfVars>>

ProgramInit ==
  /\ piece \in {"queue", "link", "loop"}
  /\ Init /\ LinkInit /\ HalfInit
  /\ piece # "link" => way = "in"
  /\ piece # "loop" => half = "sweep"

InQueue(A) == piece = "queue" /\ A /\ UNCHANGED <<piece, linkVars, halfVars>>
InLink(A)  == piece = "link" /\ A /\ UNCHANGED <<piece, vars, halfVars>>
InLoop(A)  == piece = "loop" /\ A /\ UNCHANGED <<piece, vars, linkVars>>

ProgramNext == InQueue(Next) \/ InLink(LinkNext) \/ InLoop(HalfNext)

(* Each part is as fair as it is by itself.                                *)
QueueFairness ==
  /\ WF_programVars(InQueue(OSTimeTick))
  /\ \A t \in Task : /\ WF_programVars(InQueue(OSQPendReturn(t)))
                     /\ WF_programVars(InQueue(OSTimeDlyReturn(t)))

LinkFairness ==
  /\ WF_programVars(InLink(Sends /\ Out!UartShift))
  /\ WF_programVars(InLink(Sends /\ (Out!SendStart \/ Out!SendEscape \/ Out!SendByte
                                        \/ Out!SendEnd)))

LoopFairness ==
  WF_programVars(InLoop(Sweeps)) /\ WF_programVars(InLoop(Turns)) /\ WF_programVars(InLoop(Moves))

ProgramSpec ==
  ProgramInit /\ [][ProgramNext]_programVars /\ QueueFairness /\ LinkFairness /\ LoopFairness
=============================================================================
