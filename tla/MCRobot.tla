------------------------------ MODULE MCRobot ------------------------------
(***************************************************************************)
(* Robot with short queues and delays and few letters.                     *)
(* The cfg's have buffers enough that malloc does not fail: a packet takes *)
(* two bytes at least, and there is one range at a time.                   *)
(***************************************************************************)
EXTENDS Robot

MCQueueLength ==
  [c \in Consumer |-> CASE c = "receiveTask" -> 2 [] c = "task2" -> 1 [] c = "sendTask" -> 1]

MCInitialDrive == {Stop, [a |-> "cw", b |-> "ccw"]}
MCRunning == {[a |-> "cw", b |-> "ccw"]}

=============================================================================
