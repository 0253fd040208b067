---------------------------- MODULE RemoteDrive ----------------------------
(***************************************************************************)
(* What the robot promises to whoever drives it: packets it has accepted   *)
(* are obeyed in order, byte for byte; of their own accord the motors stop *)
(* only after a moment at which no accepted packet was left to obey, or    *)
(* once, when the mapping task starts and applies the brake.               *)
(***************************************************************************)
EXTENDS Integers, Sequences

CONSTANTS
  Command,       \* the command bytes
  Drive,         \* the states of the two motors
  Stop,          \* both motors stopped
  Effect(_, _),  \* the motors after a command, given the motors before
  Room           \* the packets that can be accepted and not yet begun

VARIABLES
  accepted,  \* complete packets, not yet begun
  current,   \* the bytes left of the packet being obeyed
  silent,    \* the robot has given up waiting and is about to stop
  wanted,    \* what the last command or the last silence asked of the motors
  motors,    \* the motors
  braked     \* the start-up brake has been applied

vars == <<accepted, current, silent, wanted, motors, braked>>

Init ==
  /\ accepted = << >>
  /\ current = << >>
  /\ silent = FALSE
  /\ wanted = Stop
  /\ motors \in Drive
  /\ braked = FALSE

Accept ==
  /\ Len(accepted) < Room
  /\ accepted' \in Seq(Seq(Command))
  /\ Len(accepted') = Len(accepted) + 1
  /\ SubSeq(accepted', 1, Len(accepted)) = accepted
  /\ UNCHANGED <<current, silent, wanted, motors, braked>>

Begin ==
  /\ current = << >>
  /\ ~silent
  /\ accepted # << >>
  /\ current' = Head(accepted)
  /\ accepted' = Tail(accepted)
  /\ UNCHANGED <<silent, wanted, motors, braked>>

(* A byte that is no command leaves the motors alone.                      *)
Obey ==
  /\ current # << >>
  /\ wanted' = Effect(Head(current), wanted)
  /\ motors' = Effect(Head(current), motors)
  /\ current' = Tail(current)
  /\ UNCHANGED <<accepted, silent, braked>>

GiveUp ==
  /\ current = << >>
  /\ accepted = << >>
  /\ silent' = TRUE
  /\ UNCHANGED <<accepted, current, wanted, motors, braked>>

FallSilent ==
  /\ silent
  /\ silent' = FALSE
  /\ wanted' = Stop
  /\ motors' = Stop
  /\ UNCHANGED <<accepted, current, braked>>

Brake ==
  /\ ~braked
  /\ braked' = TRUE
  /\ motors' = Stop
  /\ UNCHANGED <<accepted, current, silent, wanted>>

Next == Accept \/ Begin \/ Obey \/ GiveUp \/ FallSilent \/ Brake

Spec == Init /\ [][Next]_vars
=============================================================================
