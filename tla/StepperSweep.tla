---------------------------- MODULE StepperSweep ----------------------------
(***************************************************************************)
(* The stepper motor's driver and the sweep of the range finder that it    *)
(* makes.                                                                  *)
(*                                                                         *)
(* The driver (stepper_driver.vhd) is a counter of steps, a divider that   *)
(* paces them, and the half-step sequence of the two coils.  Every signal  *)
(* takes its new value at the clock edge; of two assignments to a signal   *)
(* the later one in the process counts.  The speed is that of the          *)
(* configuration: the program never writes the speed's register.           *)
(*                                                                         *)
(* The sweep is task1's loop over lidar_read, seen at the driver's clock.  *)
(* lidar_read takes LidarCycles cycles or more, or no time worth counting  *)
(* when the sensor does not answer.                                        *)
(*                                                                         *)
(* Definitions named X_<fault> are faulty variants of X; nothing in the    *)
(* specification uses them.                                                *)
(***************************************************************************)
EXTENDS Integers, Sequences

CONSTANTS
  InitialSteps,  \* num_step after configuration
  InitialSpeed   \* step_speed after configuration

ASSUME StepsAssumption == InitialSteps \in Int
ASSUME SpeedAssumption == InitialSpeed \in Nat

VARIABLES
  num_step,      \* "Number of steps remaining", but see lost
  step_divisor,
  step_speed,
  cur_step,
  position,      \* history: half-steps taken, forward less backward
  asked,         \* history: half-steps asked for
  lost           \* history: half-steps asked for by writes that had no effect

driverVars == <<num_step, step_divisor, step_speed, cur_step, position, asked, lost>>

STEP_NUMBER == <<"a", "b", "c", "d", "e", "f", "g", "h">>

StepIndex(step) == CHOOSE i \in 1 .. 8 : STEP_NUMBER[i] = step

(* The step n places further on.                                           *)
Turned(step, n) == STEP_NUMBER[((StepIndex(step) + n - 1) % 8) + 1]

(* The current in the coils: off, or on with either polarity.              *)
Coils_SixLikeE(step) ==
  [a |-> <<1, 0>>,  b |-> <<1, 1>>,   c |-> <<0, 1>>,  d |-> <<-1, 1>>,
   e |-> <<-1, 0>>, f |-> <<-1, 0>>,  g |-> <<0, -1>>, h |-> <<1, -1>>][step]

Coils(step) ==
  [a |-> <<1, 0>>,  b |-> <<1, 1>>,   c |-> <<0, 1>>,  d |-> <<-1, 1>>,
   e |-> <<-1, 0>>, f |-> <<-1, -1>>, g |-> <<0, -1>>, h |-> <<1, -1>>][step]

DriverInit ==
  /\ num_step = InitialSteps
  /\ step_divisor = 0
  /\ step_speed = InitialSpeed
  /\ cur_step = "a"
  /\ position = 0
  /\ asked = InitialSteps
  /\ lost = 0

Steps == num_step # 0 /\ step_divisor = 0

Toward == IF num_step < 0 THEN -1 ELSE 1

(* The divider runs only while there are steps to take.                    *)
Divide_TwiceAsSlow ==
  step_divisor' = IF num_step = 0 THEN step_divisor
                  ELSE IF step_divisor = 0 THEN 2 * step_speed + 2
                  ELSE step_divisor - 1

Divide ==
  step_divisor' = IF num_step = 0 THEN step_divisor
                  ELSE IF step_divisor = 0 THEN step_speed
                  ELSE step_divisor - 1

Step ==
  /\ Steps
  /\ num_step' = num_step - Toward
  /\ cur_step' = Turned(cur_step, Toward)
  /\ position' = position + Toward

Rest == ~Steps /\ UNCHANGED <<num_step, cur_step, position>>

(* A clock edge at which nothing is written.                               *)
EdgeIdle ==
  /\ Divide
  /\ Step \/ Rest
  /\ UNCHANGED <<step_speed, asked, lost>>

(* A clock edge at which n is written to the step counter.  The assignment *)
(* of a step taken at the same edge overrides the addition.                *)
EdgeSteps(n) ==
  /\ Divide
  /\ \/ Step /\ lost' = lost + n
     \/ ~Steps /\ num_step' = num_step + n /\ UNCHANGED <<cur_step, position, lost>>
  /\ asked' = asked + n
  /\ UNCHANGED step_speed

-----------------------------------------------------------------------------
(* task1                                                                   *)

CONSTANTS
  TotalSteps,   \* totalSteps of task1
  LidarCycles,  \* the 20 ms of lidar_read, in clock cycles
  MaxLost       \* bound: the half-steps lost in either direction

ASSUME SweepAssumption ==
  TotalSteps \in Nat /\ LidarCycles \in Nat \ {0} /\ MaxLost \in Nat

VARIABLES
  steps, direction,  \* the locals of task1
  wait               \* the cycles lidar_read still takes

sweepVars == <<driverVars, steps, direction, wait>>

SweepInit ==
  /\ DriverInit
  /\ steps = TotalSteps
  /\ direction = 2
  /\ wait = LidarCycles

(* task1 is in lidar_read, or is kept from the processor by other tasks.   *)
Wait ==
  /\ EdgeIdle
  /\ wait' = IF wait > 0 THEN wait - 1 ELSE 0
  /\ UNCHANGED <<steps, direction>>

(* The end of task1's loop: one write, and the turn at the end of a sweep; *)
(* then lidar_read again, which takes its time or fails at once.           *)
Rotate_NeverRewinds ==
  /\ wait = 0
  /\ EdgeSteps(direction)
  /\ lost' \in -MaxLost .. MaxLost
  /\ steps' = steps - 1
  /\ direction' = IF steps = 0 THEN -direction ELSE direction
  /\ wait' \in {LidarCycles, 0}

Rotate ==
  /\ wait = 0
  /\ EdgeSteps(direction)
  /\ lost' \in -MaxLost .. MaxLost
  /\ IF steps = 0
       THEN steps' = TotalSteps /\ direction' = -direction
       ELSE steps' = steps - 1 /\ UNCHANGED direction
  /\ wait' \in {LidarCycles, 0}

SweepNext == Wait \/ Rotate

SweepSpec == SweepInit /\ [][SweepNext]_sweepVars

(* The clock runs, and task1 is not kept from the processor for ever.      *)
FairSweepSpec == SweepSpec /\ WF_sweepVars(SweepNext) /\ WF_sweepVars(Rotate)

-----------------------------------------------------------------------------
(* PROPERTIES                                                              *)

(* Each step moves the current of exactly one coil by one notch, to or     *)
(* from zero, so that the field turns by an eighth of its circle; steps of *)
(* one sign always turn it the same way round (stepper_driver.vhd:80-156). *)
Field == <<Coils(cur_step)[1], Coils(cur_step)[2]>>

Cross(u, v) == u[1] * v[2] - u[2] * v[1]

FieldTurnsEvenly ==
  [][/\ {Field'[1] - Field[1], Field'[2] - Field[2]} \in {{0, 1}, {0, -1}}
     /\ Field' # <<0, 0>>
     /\ Cross(Field, Field') = Toward]_cur_step

(* The sensor sweeps to and fro over one and the same arc: what task1 asks *)
(* for never leaves the 2 (totalSteps + 1) half-steps forward of where the *)
(* driver goes by itself, however often it turns (main.c:94-121).  Only    *)
(* lost writes move the arc.                                               *)
WithinArc ==
  position + num_step + lost \in
    InitialSteps .. InitialSteps + 2 * (TotalSteps + 1)

(* Once the sensor answers every time, the motor catches up: from some     *)
(* moment on it has come to rest before task1 asks for more, and so every  *)
(* half-step asked for is added to those to take (stepper_driver.vhd:68,   *)
(* where a step taken at the same edge overrides the addition).  The motor *)
(* then moves during the first part of each lidar_read.                    *)
AnswersFromNowOn == [][steps' # steps => wait' = LidarCycles]_sweepVars

Reached == position + num_step

CatchesUp ==
  <>AnswersFromNowOn =>
    /\ <>[](wait = 0 => num_step = 0)
    /\ <>[][Reached' - Reached = asked' - asked]_sweepVars
=============================================================================
