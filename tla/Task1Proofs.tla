----------------------------- MODULE Task1Proofs -----------------------------
(***************************************************************************)
(* The two halves of task1's loop: proofs.                                 *)
(*                                                                         *)
(* That the sweep does not drift, for any number of steps per sweep, any   *)
(* speed, and whether or not the sensor answers: the invariant counts what *)
(* task1 has asked for in the sweep under way; with the post-decrement of  *)
(* main.c:118 both directions make totalSteps + 1 writes.                  *)
(*                                                                         *)
(* That the accesses of I2C.c's ports amount to the events they stand for, *)
(* and that a range is one measurement, for any set of transfers in the    *)
(* order of I2C.c's functions, any bytes of a device and any number of     *)
(* tries: the invariant says, after each access of each call, how far the  *)
(* device has followed (BusInv), and what the calls that the sensor has    *)
(* not yet heard will find there (CallerInv).                              *)
(***************************************************************************)
EXTENDS MCTask1, SequenceTheorems, TLAPS

-----------------------------------------------------------------------------
(* THE SWEEP                                                               *)

Counters ==
  /\ num_step \in Int /\ position \in Int /\ lost \in Int /\ asked \in Int
  /\ steps \in 0 .. TotalSteps
  /\ direction \in {-2, 2}

AskedInSweep ==
  asked = InitialSteps
          + (IF direction = 2 THEN 2 * (TotalSteps - steps) ELSE 2 * (steps + 1))

(* Half-steps go from num_step to position, or are lost whole.             *)
Conserved == position + num_step + lost = asked

SweepInv == Counters /\ AskedInSweep /\ Conserved

LEMMA SweepInvInit == SweepInit => SweepInv
BY StepsAssumption, SweepAssumption
   DEF SweepInit, DriverInit, SweepInv, Counters, AskedInSweep, Conserved

(* A clock edge moves half-steps from num_step to position, or leaves both.*)
LEMMA EdgeMoves ==
  ASSUME Counters, Step \/ Rest
  PROVE  /\ num_step' \in Int /\ position' \in Int
         /\ position' + num_step' = position + num_step
BY DEF Counters, Step, Rest, Toward

LEMMA WaitKeeps ==
  ASSUME SweepInv, Wait
  PROVE  SweepInv'
<1>1. UNCHANGED <<asked, lost, steps, direction>>
  BY DEF Wait, EdgeIdle
<1>2. /\ num_step' \in Int /\ position' \in Int
      /\ position' + num_step' = position + num_step
  BY EdgeMoves DEF Wait, EdgeIdle, SweepInv
<1>3. Counters' /\ AskedInSweep'
  BY <1>1, <1>2 DEF SweepInv, Counters, AskedInSweep
<1>4. num_step \in Int /\ position \in Int /\ lost \in Int /\ asked \in Int
  BY DEF SweepInv, Counters
<1>5. position + num_step + lost = asked
  BY DEF SweepInv, Conserved
<1>6. Conserved'
  BY <1>5, <1>1, <1>2, <1>4 DEF Conserved
<1> QED
  BY <1>3, <1>6 DEF SweepInv

LEMMA RotateKeeps ==
  ASSUME SweepInv, Rotate
  PROVE  SweepInv'
<1>1. Counters
  BY DEF SweepInv
<1>2. asked' = asked + direction
  BY DEF Rotate, EdgeSteps
<1>3. /\ num_step' \in Int /\ position' \in Int /\ lost' \in Int
      /\ position' + num_step' + lost' = position + num_step + lost + direction
  <2>1. CASE Step /\ lost' = lost + direction
    BY <1>1, <2>1, EdgeMoves DEF Counters
  <2>3. CASE ~Steps /\ num_step' = num_step + direction
             /\ UNCHANGED <<cur_step, position, lost>>
    BY <1>1, <2>3 DEF Counters
  <2> QED
    BY <2>1, <2>3 DEF Rotate, EdgeSteps
<1>4. Counters'
  BY <1>1, <1>2, <1>3, SweepAssumption DEF Rotate, Counters
<1>5. AskedInSweep'
  BY <1>1, <1>2, StepsAssumption, SweepAssumption
     DEF Rotate, SweepInv, Counters, AskedInSweep
<1>6. Conserved'
  BY <1>2, <1>3 DEF SweepInv, Conserved
<1> QED
  BY <1>4, <1>5, <1>6 DEF SweepInv

THEOREM SweepInductive == SweepSpec => []SweepInv
<1>1. ASSUME SweepInv, [SweepNext]_sweepVars PROVE SweepInv'
  <2>1. CASE UNCHANGED sweepVars
    BY <1>1, <2>1 DEF sweepVars, driverVars, SweepInv, Counters, AskedInSweep, Conserved
  <2> QED
    BY <1>1, <2>1, WaitKeeps, RotateKeeps DEF SweepNext
<1> QED
  BY <1>1, SweepInvInit, PTL DEF SweepSpec

(* The sweep keeps to its arc for ever, but for what lost writes shift it. *)
THEOREM WithinArcHolds == SweepSpec => []WithinArc
<1>1. SweepInv => WithinArc
  BY StepsAssumption, SweepAssumption
     DEF SweepInv, Counters, AskedInSweep, Conserved, WithinArc
<1> QED
  BY <1>1, SweepInductive, PTL

-----------------------------------------------------------------------------
(* The half-steps in their order, which is a circle.                       *)
Half == 1 .. 8

LEMMA IndexOfStep == \A i \in Half : StepIndex(STEP_NUMBER[i]) = i
<1> TAKE i \in Half
<1>1. \A j \in Half : STEP_NUMBER[j] = STEP_NUMBER[i] => j = i
  BY DEF STEP_NUMBER, Half
<1> QED
  BY <1>1 DEF StepIndex, Half

LEMMA Neighbours ==
  ASSUME NEW i \in Half
  PROVE  /\ Turned(STEP_NUMBER[i], 1) = STEP_NUMBER[IF i = 8 THEN 1 ELSE i + 1]
         /\ Turned(STEP_NUMBER[i], -1) = STEP_NUMBER[IF i = 1 THEN 8 ELSE i - 1]
BY IndexOfStep DEF Turned, Half

Flux(step) == <<Coils(step)[1], Coils(step)[2]>>

LEMMA Fluxes ==
  /\ Flux(STEP_NUMBER[1]) = <<1, 0>>  /\ Flux(STEP_NUMBER[2]) = <<1, 1>>
  /\ Flux(STEP_NUMBER[3]) = <<0, 1>>  /\ Flux(STEP_NUMBER[4]) = <<-1, 1>>
  /\ Flux(STEP_NUMBER[5]) = <<-1, 0>> /\ Flux(STEP_NUMBER[6]) = <<-1, -1>>
  /\ Flux(STEP_NUMBER[7]) = <<0, -1>> /\ Flux(STEP_NUMBER[8]) = <<1, -1>>
BY DEF Flux, Coils, STEP_NUMBER

Even(u, v, way) ==
  /\ {v[1] - u[1], v[2] - u[2]} \in {{0, 1}, {0, -1}}
  /\ v # <<0, 0>>
  /\ Cross(u, v) = way

LEMMA OneHalfStep ==
  ASSUME NEW i \in Half, NEW way \in {1, -1}
  PROVE  Even(Flux(STEP_NUMBER[i]), Flux(Turned(STEP_NUMBER[i], way)), way)
<1>1. CASE way = 1
  <2>1. Turned(STEP_NUMBER[i], way) = STEP_NUMBER[IF i = 8 THEN 1 ELSE i + 1]
    BY <1>1, Neighbours
  <2> QED
    BY <1>1, <2>1, Fluxes DEF Even, Cross, Half
<1>2. CASE way = -1
  <2>1. Turned(STEP_NUMBER[i], way) = STEP_NUMBER[IF i = 1 THEN 8 ELSE i - 1]
    BY <1>2, Neighbours
  <2> QED
    BY <1>2, <2>1, Fluxes DEF Even, Cross, Half
<1> QED
  BY <1>1, <1>2

OnCircle == \E i \in Half : cur_step = STEP_NUMBER[i]

LEMMA CircleClosed ==
  ASSUME OnCircle, NEW way \in {1, -1}, cur_step' = Turned(cur_step, way)
  PROVE  OnCircle'
BY Neighbours DEF OnCircle, Half

(* The only step that turns the field.                                     *)
LEMMA OnlyStepTurns ==
  ASSUME [SweepNext]_sweepVars
  PROVE  UNCHANGED cur_step \/ cur_step' = Turned(cur_step, Toward)
BY DEF SweepNext, Wait, Rotate, EdgeIdle, EdgeSteps, Step, Rest, sweepVars, driverVars

(* Every half-step turns the field by an eighth of its circle, in the      *)
(* direction of the steps asked for.                                       *)
THEOREM FieldTurnsEvenlyHolds == SweepSpec => FieldTurnsEvenly
<1>1. SweepInit => OnCircle
  BY DEF SweepInit, DriverInit, OnCircle, Half, STEP_NUMBER
<1>2. OnCircle /\ [SweepNext]_sweepVars => OnCircle'
  BY OnlyStepTurns, CircleClosed DEF Toward, OnCircle
<1>3. ASSUME OnCircle, [SweepNext]_sweepVars, cur_step' # cur_step 
      PROVE  Even(Field, Field', Toward)
  <2>1. PICK i \in Half : cur_step = STEP_NUMBER[i]
    BY <1>3 DEF OnCircle
  <2>2. cur_step' = Turned(STEP_NUMBER[i], Toward) /\ Toward \in {1, -1}
    BY <1>3, <2>1, OnlyStepTurns DEF Toward
  <2>3. Field = Flux(STEP_NUMBER[i]) /\ Field' = Flux(Turned(STEP_NUMBER[i], Toward))
    BY <2>1, <2>2 DEF Field, Flux
  <2> QED
    BY <2>2, <2>3, OneHalfStep
<1>4. OnCircle /\ [SweepNext]_sweepVars =>
        [/\ {Field'[1] - Field[1], Field'[2] - Field[2]} \in {{0, 1}, {0, -1}}
         /\ Field' # <<0, 0>>
         /\ Cross(Field, Field') = Toward]_cur_step
  BY <1>3 DEF Even
<1> QED
  BY <1>1, <1>2, <1>4, PTL DEF SweepSpec, FieldTurnsEvenly

(* The sweep of a behaviour of task1 is one of StepperSweep's, so          *)
(* that both hold there too.                                               *)
THEOREM SweepsAsAlone == HalfSpec => SweepSpec
<1>1. HalfInit => SweepInit
  BY DEF HalfInit
<1>2. [HalfNext]_halfVars => [SweepNext]_sweepVars
  BY DEF HalfNext, Sweeps, Reads, halfVars, sweepVars
<1> QED
  BY <1>1, <1>2, PTL DEF HalfSpec, SweepSpec

-----------------------------------------------------------------------------
(* THE WIRES                                                               *)

(* The calls left of a transfer: what s asks for, when the first of them   *)
(* would be the address of a device just in case f.                        *)
AddressAt(s, f, i) == IF i = 1 THEN f ELSE s[i - 1].op = "start"

Reading(s, f, i) ==
  \/ s[i].op = "write" /\ s[i].byte % 2 = 1 /\ AddressAt(s, f, i)
  \/ s[i].op = "read" /\ s[i].ack

Ordered(s, f) ==
  /\ s \in Seq(Finder!Request) /\ s # << >> /\ s[Len(s)].op = "stop"
  /\ \A i \in 1 .. Len(s) - 1 :
       /\ s[i].op # "stop"
       /\ s[i + 1].op = "read" <=> Reading(s, f, i)
       /\ s[i + 1].op = "write" => s[i].op \in {"start", "write"}

(* What a call finds on the wires when it begins.                          *)
Listens == mode = "hear" /\ bits = 0 /\ shift = 0 /\ ~pull
Silent  == mode = "off" /\ ~pull
Free    == scl = 1 /\ sdaDir = 1 /\ sdaOut = 1 /\ Silent

Fit(op) ==
  CASE op = "start" -> (scl = 0 /\ (Listens \/ Silent)) \/ Free
    [] op = "stop"  -> scl = 0 /\ (Listens \/ Silent)
    [] op = "write" -> scl = 0 /\ Listens
    [] op = "read"  -> scl = 0 /\ mode = "talk" /\ bits = 0 /\ (pull <=> Finder!Bus!Bit(shift, 1) = 0)

Awaits(s, f) == IF s = << >> THEN Fit("start") ELSE Fit(Head(s).op) /\ Ordered(s, f)

Between == call = NONE /\ todo = << >> /\ noted = << >> /\ Awaits(calls, first)

(* The first i bits of b.                                                  *)
Prefix(b, i) == IF i = 0 THEN 0 ELSE b \div Finder!Bus!Mask[i]

(* What is left of a sequence after k of its elements.                     *)
After(s, k) == [n \in 1 .. Len(s) - k |-> s[k + n]]

(* A call is under way, k of its accesses made.                            *)
Under(op, k) ==
  /\ call # NONE /\ call.op = op
  /\ Ordered(<<call>> \o calls, first)
  /\ todo = After(Finder!Bus!Accesses(call), k)

Driven(v) == sdaDir = 1 /\ sdaOut = v

StartAt(k) ==
  /\ Under("start", k)
  /\ k <= 3 => noted = << >>
  /\ k <= 2 => Fit("start")
  /\ k = 1 => sdaDir = 1
  /\ k \in {2, 3} => Driven(1)
  /\ k = 3 => scl = 1 /\ ~pull /\ mode \in {"off", "hear"}
  /\ k = 4 => scl = 1 /\ Driven(0) /\ Listens /\ first /\ noted = <<call>>

StopAt(k) ==
  /\ Under("stop", k)
  /\ noted = << >>
  /\ k <= 2 => Fit("stop")
  /\ k = 1 => sdaDir = 1
  /\ k \in {2, 3} => Driven(0)
  /\ k = 3 => scl = 1 /\ ~pull /\ mode \in {"off", "hear"}

WriteBegins == Under("write", 0) /\ noted = << >> /\ Fit("write")

(* j of the accesses have been made for the bit after the i-th.            *)
Heard(n) == mode = "hear" /\ bits = n /\ shift = Prefix(call.byte, n)

Clocking(i, j) ==
  /\ Under("write", 1 + 5 * i + j)
  /\ noted = << >> /\ ~pull /\ sdaDir = 1
  /\ IF j <= 2 THEN scl = 0 /\ Heard(i) ELSE scl = 1 /\ Heard(i + 1)
  /\ j = 2 => sdaOut = Finder!Bus!Bit(call.byte, i + 1)

Answers(k) ==
  /\ Under("write", k)
  /\ noted = <<[call EXCEPT !.ack = pull]>>
  /\ mode = IF pull THEN "ack" ELSE "off"
  /\ shift = call.byte
  /\ scl = IF k \in {43, 44, 45} THEN 1 ELSE 0
  /\ k >= 42 => sdaDir = 0
  /\ k = 45 => (bAck <=> pull)

ReadBegins(k) ==
  /\ Under("read", k)
  /\ noted = << >> /\ Data = 0 /\ Fit("read")
  /\ k = 1 => sdaDir = 0

Sampling(i, j) ==
  /\ Under("read", 2 + 4 * i + j)
  /\ noted = << >> /\ sdaDir = 0
  /\ mode = "talk"
  /\ pull <=> Finder!Bus!Bit(shift, i + 1) = 0
  /\ IF j = 0 THEN scl = 0 /\ bits = i ELSE scl = 1 /\ bits = i + 1
  /\ Data = Prefix(shift, IF j = 3 THEN i + 1 ELSE i)

Sent(k) ==
  /\ Under("read", k)
  /\ ~pull
  /\ k <= 37 => scl = 0 /\ mode = "sent" /\ shift = Data /\ noted = << >>
  /\ k >= 36 => sdaDir = 1
  /\ k >= 37 => sdaOut = IF call.ack THEN 0 ELSE 1
  /\ k >= 38 => /\ scl = 1 /\ noted = <<[call EXCEPT !.byte = Data]>>
                /\ mode = IF call.ack THEN "more" ELSE "off"

(* The call stands for the one event that the device has noted.            *)
Ended ==
  /\ noted = <<Finder!Bus!Outcome>>
  /\ IF Finder!Refused(Finder!Bus!Outcome) THEN scl = 0 /\ Silent ELSE Awaits(calls, first)

LastAccess ==
  /\ call # NONE /\ call.op = "read" /\ todo = After(Finder!Bus!Accesses(call), 40)
  /\ scl = 0 /\ sdaDir = 1 /\ Ended

Returns == call # NONE /\ todo = << >> /\ Ended

WireTypeOK ==
  /\ calls \in Seq(Finder!Request) /\ call \in Finder!Request \cup {NONE}
  /\ scl \in {0, 1} /\ sdaOut \in {0, 1} /\ sdaDir \in {0, 1}
  /\ Data \in 0 .. 255 /\ bAck \in BOOLEAN
  /\ mode \in {"off", "hear", "ack", "talk", "sent", "more"}
  /\ first \in BOOLEAN /\ pull \in BOOLEAN
  /\ bits \in 0 .. 8 /\ shift \in 0 .. 255

Working ==
  \/ \E k \in 0 .. 4 : StartAt(k)
  \/ \E k \in 0 .. 3 : StopAt(k)
  \/ WriteBegins
  \/ \E i \in 0 .. 7, j \in 0 .. 4 : Clocking(i, j)
  \/ \E k \in 41 .. 45 : Answers(k)
  \/ \E k \in 0 .. 1 : ReadBegins(k)
  \/ \E i \in 0 .. 7, j \in 0 .. 3 : Sampling(i, j)
  \/ \E k \in 34 .. 39 : Sent(k)
  \/ LastAccess

BusInv == WireTypeOK /\ (Between \/ Working \/ Returns)
-----------------------------------------------------------------------------
(* The calls that the sensor has not yet heard.                            *)
Unheard == IF call # NONE /\ noted = << >> THEN <<call>> \o calls ELSE calls

Accepted == ok /\ (noted # << >> => ~Finder!Refused(noted[1]))

CommandCalls == <<Finder!Start, Finder!Write(196), Finder!Write(0), Finder!Write(4), Finder!Stop>>

ReadCalls(reg) ==
  <<Finder!Start, Finder!Write(196), Finder!Write(reg), Finder!Start, Finder!Write(197),
    Finder!Read(FALSE), Finder!Stop>>

(* n calls of the command are left.                                        *)
Commanding(n) ==
  /\ Unheard = After(CommandCalls, 5 - n)
  /\ n = 4 => hearing = "address"
  /\ n = 3 => hearing = "register"
  /\ n = 2 => hearing = "data" /\ register = 0
  /\ n = 0 => hearing = "free"

Requesting(n, reg) ==
  /\ Unheard = After(ReadCalls(reg), 7 - n)
  /\ n = 6 => hearing = "address"
  /\ n = 5 => hearing = "register"
  /\ n \in {2, 3, 4} => register = reg
  /\ n = 4 => hearing = "data"
  /\ n = 3 => hearing = "address"
  /\ n = 2 => hearing = "reading"
  /\ n = 0 => hearing = "free"

(* What a read in progress brings of the measurement held.                 *)
Brings(n, value, byte) ==
  n <= 1 => IF call # NONE /\ call.op = "read" THEN noted[1].byte = byte ELSE value = byte

Fresh == range = <<Finder!UpperByte(latest), Finder!LowerByte(latest)>> /\ hearing = "free"

LidarInv ==
  /\ Finder!LidarTypeOK
  /\ latest = IF measuring THEN (held + 1) % 3 ELSE held
  /\ stand \in {"idle", "pause"} => call = NONE /\ calls = << >>
  /\ stand = "command" => count = 0
  /\ stand = "command" /\ Accepted => \E n \in 0 .. 5 : Commanding(n)
  /\ stand = "pause" /\ count = 0 => hearing = "free"
  /\ stand = "upper" /\ Accepted =>
       \E n \in 0 .. 7 : /\ Requesting(n, 15)
                         /\ n <= 5 => ~measuring
                         /\ Brings(n, upper, Finder!UpperByte(held))
  /\ stand = "lower" /\ Accepted =>
       \E n \in 0 .. 7 : /\ Requesting(n, 16)
                         /\ ~measuring /\ upper = Finder!UpperByte(held)
                         /\ Brings(n, lower, Finder!LowerByte(held))
  /\ stand = "idle" /\ range # NONE => Fresh
  /\ stand = "pause" /\ count > 0 /\ range # NONE => Fresh

CallerInv ==
  IF user = "lidar_read"
    THEN LidarInv
    ELSE /\ user = "transfers" /\ stand = "idle" /\ range = NONE
         /\ Finder!LidarTypeOK
-----------------------------------------------------------------------------
(* Sequences.                                                              *)

(* What a function on 1 .. n is as a sequence.                             *)
LEMMA IsSeq ==
  ASSUME NEW S, NEW n \in Nat, NEW f \in [1 .. n -> S]
  PROVE  f \in Seq(S) /\ Len(f) = n
  <1>1. f \in Seq(S)
    BY SeqDef
  <1>2. Len(f) \in Nat /\ DOMAIN f = 1 .. Len(f)
    BY <1>1, LenProperties
  <1>3. 1 .. n = 1 .. Len(f)
    BY <1>2
  <1>4. \A m \in Nat : 1 .. n = 1 .. m => n = m
    OBVIOUS
  <1>. QED
    BY <1>1, <1>2, <1>3, <1>4

LEMMA Joined ==
  ASSUME NEW S, NEW s \in Seq(S), NEW t \in Seq(S)
  PROVE  /\ s \o t \in Seq(S) /\ Len(s \o t) = Len(s) + Len(t)
         /\ \A i \in 1 .. Len(s) : (s \o t)[i] = s[i]
         /\ \A i \in 1 .. Len(t) : (s \o t)[Len(s) + i] = t[i]
  <1>1. /\ s \o t \in Seq(S) /\ Len(s \o t) = Len(s) + Len(t)
        /\ \A i \in 1 .. Len(s) + Len(t) :
             (s \o t)[i] = IF i <= Len(s) THEN s[i] ELSE t[i - Len(s)]
    BY ConcatProperties
  <1>2. Len(s) \in Nat /\ Len(t) \in Nat
    BY LenProperties
  <1>3. ASSUME NEW i \in 1 .. Len(s) PROVE (s \o t)[i] = s[i]
    BY <1>1, <1>2
  <1>4. ASSUME NEW i \in 1 .. Len(t) PROVE (s \o t)[Len(s) + i] = t[i]
    <2>1. Len(s) + i \in 1 .. Len(s) + Len(t) /\ ~(Len(s) + i <= Len(s)) /\ (Len(s) + i) - Len(s) = i
      BY <1>2
    <2>. QED
      BY <1>1, <2>1
  <1>. QED
    BY <1>1, <1>3, <1>4

(* The rest of a sequence, element by element.                             *)
LEMMA AfterStep ==
  ASSUME NEW S, NEW s \in Seq(S), NEW k \in 0 .. Len(s)
  PROVE  /\ After(s, 0) = s
         /\ After(s, k) = << >> <=> k = Len(s)
         /\ k < Len(s) => /\ Head(After(s, k)) = s[k + 1]
                          /\ Tail(After(s, k)) = After(s, k + 1)
  <1>1. After(s, k) \in Seq(S) /\ Len(After(s, k)) = Len(s) - k
    BY DEF After
  <1>2. After(s, 0) = s
    BY DEF After
  <1>3. After(s, k) = << >> <=> k = Len(s)
    BY <1>1
  <1>4. ASSUME k < Len(s) PROVE Head(After(s, k)) = s[k + 1] /\ Tail(After(s, k)) = After(s, k + 1)
    <2>1. After(s, k) # << >>
      BY <1>1, <1>4
    <2>2. Head(After(s, k)) = s[k + 1]
      BY <1>1, <1>4, <2>1 DEF After
    <2>3. Tail(After(s, k)) \in Seq(S) /\ Len(Tail(After(s, k))) = Len(s) - k - 1
      BY <1>1, <2>1
    <2>4. After(s, k + 1) \in Seq(S) /\ Len(After(s, k + 1)) = Len(s) - k - 1
      BY <1>4 DEF After
    <2>5. \A n \in 1 .. Len(s) - k - 1 : Tail(After(s, k))[n] = After(s, k + 1)[n]
      <3>1. TAKE n \in 1 .. Len(s) - k - 1
      <3>2. Tail(After(s, k))[n] = After(s, k)[n + 1]
        BY <1>1, <2>1
      <3>3. After(s, k)[n + 1] = s[k + (n + 1)] /\ After(s, k + 1)[n] = s[k + 1 + n]
        BY <1>4 DEF After
      <3>4. k \in Int /\ n \in Int
        OBVIOUS
      <3>5. k + (n + 1) = k + 1 + n
        BY <3>4
      <3>. QED
        BY <3>2, <3>3, <3>5
    <2>6. Tail(After(s, k)) = After(s, k + 1)
      BY <2>3, <2>4, <2>5, SeqEqual
    <2>. QED
      BY <2>2, <2>6
  <1>. QED
    BY <1>2, <1>3, <1>4

-----------------------------------------------------------------------------
(* The accesses of a call.                                                 *)
Port == ({"dir", "sda", "scl"} \X {0, 1}) \cup ({"poll", "bit", "ack"} \X {1})

LEMMA BitIs == \A b \in 0 .. 255, i \in 1 .. 8 : Finder!Bus!Bit(b, i) \in {0, 1}
  <1>1. \A i \in 1 .. 8 : Finder!Bus!Mask[i] \in Nat \ {0}
    BY DEF Finder!Bus!Mask
  <1>2. \A n \in Nat : n % 2 \in {0, 1}
    OBVIOUS
  <1>3. \A b \in Nat, m \in Nat \ {0} : b \div m \in Nat
    OBVIOUS
  <1>. QED
    BY <1>1, <1>2, <1>3 DEF Finder!Bus!Bit

LEMMA FixedAccesses ==
  /\ Finder!Bus!i2c_start \in Seq(Port) /\ Len(Finder!Bus!i2c_start) = 5
  /\ Finder!Bus!i2c_stop \in Seq(Port) /\ Len(Finder!Bus!i2c_stop) = 4
  BY DEF Port, Finder!Bus!i2c_start, Finder!Bus!i2c_stop, Finder!Bus!SDA_DIR_OUT,
         Finder!Bus!SDA_LOW, Finder!Bus!SDA_HIGH, Finder!Bus!SCL_LOW, Finder!Bus!SCL_HIGH

(* The lists of accesses, as sequences of port accesses.                   *)
LEMMA ClockedIs ==
  ASSUME NEW b \in 0 .. 255
  PROVE  /\ Finder!Bus!Clocked(b) \in Seq(Port) /\ Len(Finder!Bus!Clocked(b)) = 40
         /\ \A i \in 0 .. 7, j \in 0 .. 4 :
              Finder!Bus!Clocked(b)[5 * i + j + 1] = Finder!Bus!OneClocked(b, i + 1)[j + 1]
  <1>1. \A i \in 1 .. 8, j \in 1 .. 5 : Finder!Bus!OneClocked(b, i)[j] \in Port
    BY BitIs, SMTT(60)
    DEF Port, Finder!Bus!OneClocked, Finder!Bus!SCL_LOW, Finder!Bus!SCL_HIGH, Finder!Bus!SCL_READ
  <1>2. \A k \in 1 .. 40 : ((k - 1) \div 5) + 1 \in 1 .. 8 /\ ((k - 1) % 5) + 1 \in 1 .. 5
    OBVIOUS
  <1>3. Finder!Bus!Clocked(b) \in [1 .. 40 -> Port]
    BY <1>1, <1>2 DEF Finder!Bus!Clocked
  <1>4. \A i \in 0 .. 7, j \in 0 .. 4 :
          Finder!Bus!Clocked(b)[5 * i + j + 1] = Finder!Bus!OneClocked(b, i + 1)[j + 1]
    <2>1. TAKE i \in 0 .. 7, j \in 0 .. 4
    <2>2. /\ 5 * i + j + 1 \in 1 .. 40 /\ (5 * i + j + 1) - 1 = 5 * i + j
          /\ (5 * i + j) \div 5 = i /\ (5 * i + j) % 5 = j
      OBVIOUS
    <2>. QED
      BY <2>2 DEF Finder!Bus!Clocked
  <1>5. Finder!Bus!Clocked(b) \in Seq(Port) /\ Len(Finder!Bus!Clocked(b)) = 40
    <2>1. \A f \in [1 .. 40 -> Port] : f \in Seq(Port) /\ Len(f) = 40
      BY IsSeq
    <2>. QED
      BY <1>3, <2>1
  <1>. QED
    BY <1>4, <1>5

LEMMA SampledIs ==
  /\ Finder!Bus!Sampled \in Seq(Port) /\ Len(Finder!Bus!Sampled) = 32
  /\ \A i \in 0 .. 7 : /\ Finder!Bus!Sampled[4 * i + 1] = <<"scl", 1>>
                       /\ Finder!Bus!Sampled[4 * i + 2] = <<"poll", 1>>
                       /\ Finder!Bus!Sampled[4 * i + 3] = <<"bit", 1>>
                       /\ Finder!Bus!Sampled[4 * i + 4] = <<"scl", 0>>
  <1> DEFINE turn == <<Finder!Bus!SCL_HIGH, Finder!Bus!SCL_READ, Finder!Bus!GET_BIT, Finder!Bus!SCL_LOW>>
  <1>1. /\ turn[1] = <<"scl", 1>> /\ turn[2] = <<"poll", 1>>
        /\ turn[3] = <<"bit", 1>> /\ turn[4] = <<"scl", 0>>
    BY DEF Finder!Bus!SCL_LOW, Finder!Bus!SCL_HIGH, Finder!Bus!SCL_READ, Finder!Bus!GET_BIT
  <1> HIDE DEF turn
  <1>2. Finder!Bus!Sampled = [k \in 1 .. 32 |-> turn[((k - 1) % 4) + 1]]
    BY DEF Finder!Bus!Sampled, turn
  <1>3. \A k \in 1 .. 32 : ((k - 1) % 4) + 1 \in 1 .. 4
    OBVIOUS
  <1>4. Finder!Bus!Sampled \in [1 .. 32 -> Port]
    BY <1>1, <1>2, <1>3 DEF Port
  <1>5. \A i \in 0 .. 7, j \in 1 .. 4 : Finder!Bus!Sampled[4 * i + j] = turn[j]
    <2>1. TAKE i \in 0 .. 7, j \in 1 .. 4
    <2>2. 4 * i + j \in 1 .. 32 /\ ((4 * i + j - 1) % 4) + 1 = j
      OBVIOUS
    <2>. QED
      BY <1>2, <2>2
  <1>6. Finder!Bus!Sampled \in Seq(Port) /\ Len(Finder!Bus!Sampled) = 32
    BY <1>4, IsSeq
  <1>7. \A i \in 0 .. 7 : /\ Finder!Bus!Sampled[4 * i + 1] = turn[1]
                         /\ Finder!Bus!Sampled[4 * i + 2] = turn[2]
                         /\ Finder!Bus!Sampled[4 * i + 3] = turn[3]
                         /\ Finder!Bus!Sampled[4 * i + 4] = turn[4]
    BY <1>5
  <1>. QED
    BY <1>1, <1>6, <1>7

(* Each access of a byte written, by its number.                           *)
LEMMA WriteAccesses ==
  ASSUME NEW b \in 0 .. 255
  PROVE  /\ Finder!Bus!i2c_write(b) \in Seq(Port) /\ Len(Finder!Bus!i2c_write(b)) = 46
         /\ Finder!Bus!i2c_write(b)[1] = <<"dir", 1>>
         /\ \A i \in 0 .. 7 : /\ Finder!Bus!i2c_write(b)[5 * i + 2] = <<"scl", 0>>
                              /\ Finder!Bus!i2c_write(b)[5 * i + 3] = <<"sda", Finder!Bus!Bit(b, i + 1)>>
                              /\ Finder!Bus!i2c_write(b)[5 * i + 4] = <<"scl", 1>>
                              /\ Finder!Bus!i2c_write(b)[5 * i + 5] = <<"poll", 1>>
                              /\ Finder!Bus!i2c_write(b)[5 * i + 6] = <<"scl", 0>>
         /\ Finder!Bus!i2c_write(b)[42] = <<"dir", 0>>
         /\ Finder!Bus!i2c_write(b)[43] = <<"scl", 1>>
         /\ Finder!Bus!i2c_write(b)[44] = <<"poll", 1>>
         /\ Finder!Bus!i2c_write(b)[45] = <<"ack", 1>>
         /\ Finder!Bus!i2c_write(b)[46] = <<"scl", 0>>
  <1> DEFINE front == <<Finder!Bus!SDA_DIR_OUT>>
             end == <<Finder!Bus!SDA_DIR_IN, Finder!Bus!SCL_HIGH, Finder!Bus!SCL_READ,
                      Finder!Bus!GET_ACK, Finder!Bus!SCL_LOW>>
             one(i) == Finder!Bus!OneClocked(b, i)
             mid == Finder!Bus!Clocked(b)
             all == Finder!Bus!i2c_write(b)
  <1>1. front \in Seq(Port) /\ Len(front) = 1 /\ front[1] = <<"dir", 1>>
    BY DEF Port, Finder!Bus!SDA_DIR_OUT
  <1>2. /\ end \in Seq(Port) /\ Len(end) = 5
        /\ end[1] = <<"dir", 0>> /\ end[2] = <<"scl", 1>> /\ end[3] = <<"poll", 1>>
        /\ end[4] = <<"ack", 1>> /\ end[5] = <<"scl", 0>>
    BY DEF Port, Finder!Bus!SDA_DIR_IN, Finder!Bus!SCL_HIGH, Finder!Bus!SCL_READ,
           Finder!Bus!GET_ACK, Finder!Bus!SCL_LOW
  <1>3. \A i \in 1 .. 8 : /\ one(i)[1] = <<"scl", 0>> /\ one(i)[2] = <<"sda", Finder!Bus!Bit(b, i)>>
                          /\ one(i)[3] = <<"scl", 1>> /\ one(i)[4] = <<"poll", 1>>
                          /\ one(i)[5] = <<"scl", 0>>
    BY DEF Finder!Bus!OneClocked, Finder!Bus!SCL_HIGH, Finder!Bus!SCL_READ, Finder!Bus!SCL_LOW
  <1>4. /\ mid \in Seq(Port) /\ Len(mid) = 40
        /\ \A i \in 0 .. 7, j \in 0 .. 4 : mid[5 * i + j + 1] = one(i + 1)[j + 1]
    BY ClockedIs
  <1>5. all = front \o mid \o end
    BY DEF Finder!Bus!i2c_write
  <1> HIDE DEF front, end, mid, one, all
  <1>6. /\ front \o mid \in Seq(Port) /\ Len(front \o mid) = 1 + 40
        /\ \A n \in 1 .. 1 : (front \o mid)[n] = front[n]
        /\ \A n \in 1 .. 40 : (front \o mid)[1 + n] = mid[n]
    <2>. front \in Seq(Port) /\ mid \in Seq(Port)
      BY <1>1, <1>4
    <2>1. /\ front \o mid \in Seq(Port) /\ Len(front \o mid) = Len(front) + Len(mid)
          /\ \A n \in 1 .. Len(front) : (front \o mid)[n] = front[n]
          /\ \A n \in 1 .. Len(mid) : (front \o mid)[Len(front) + n] = mid[n]
      BY Joined
    <2>. QED
      BY <1>1, <1>4, <2>1
  <1>7. /\ all \in Seq(Port) /\ Len(all) = 41 + 5
        /\ \A n \in 1 .. 41 : all[n] = (front \o mid)[n]
        /\ \A n \in 1 .. 5 : all[41 + n] = end[n]
    <2>1. Len(front \o mid) = 41
      BY <1>6
    <2>. front \o mid \in Seq(Port) /\ end \in Seq(Port)
      BY <1>2, <1>6
    <2>2. /\ all \in Seq(Port) /\ Len(all) = Len(front \o mid) + Len(end)
          /\ \A n \in 1 .. Len(front \o mid) : all[n] = (front \o mid)[n]
          /\ \A n \in 1 .. Len(end) : all[Len(front \o mid) + n] = end[n]
      BY <1>5, Joined
    <2>. QED
      BY <1>2, <2>1, <2>2
  <1>8. all[1] = <<"dir", 1>>
    <2>1. 1 \in 1 .. 41 /\ 1 \in 1 .. 1
      OBVIOUS
    <2>2. all[1] = (front \o mid)[1]
      BY <1>7, <2>1, Zenon
    <2>3. (front \o mid)[1] = front[1]
      BY <1>6, <2>1, Zenon
    <2>. QED
      BY <1>1, <2>2, <2>3
  <1>9. \A i \in 0 .. 7, j \in 0 .. 4 : all[5 * i + j + 2] = one(i + 1)[j + 1]
    <2>1. TAKE i \in 0 .. 7, j \in 0 .. 4
    <2>2. 5 * i + j + 1 \in 1 .. 40 /\ 5 * i + j + 2 \in 1 .. 41 /\ 5 * i + j + 2 = 1 + (5 * i + j + 1)
      OBVIOUS
    <2>3. all[5 * i + j + 2] = (front \o mid)[5 * i + j + 2]
      BY <2>2, <1>7
    <2>4. (front \o mid)[1 + (5 * i + j + 1)] = mid[5 * i + j + 1]
      BY <2>2, <1>6
    <2>5. mid[5 * i + j + 1] = one(i + 1)[j + 1]
      BY <1>4
    <2>. QED
      BY <2>2, <2>3, <2>4, <2>5
  <1>10. \A i \in 0 .. 7 : /\ all[5 * i + 2] = one(i + 1)[1] /\ all[5 * i + 3] = one(i + 1)[2]
                           /\ all[5 * i + 4] = one(i + 1)[3] /\ all[5 * i + 5] = one(i + 1)[4]
                           /\ all[5 * i + 6] = one(i + 1)[5]
    <2>1. TAKE i \in 0 .. 7
    <2>2. /\ all[5 * i + 0 + 2] = one(i + 1)[0 + 1] /\ all[5 * i + 1 + 2] = one(i + 1)[1 + 1]
          /\ all[5 * i + 2 + 2] = one(i + 1)[2 + 1] /\ all[5 * i + 3 + 2] = one(i + 1)[3 + 1]
          /\ all[5 * i + 4 + 2] = one(i + 1)[4 + 1]
      BY <1>9
    <2>. QED
      BY <2>2
  <1>11. /\ all[42] = end[1] /\ all[43] = end[2] /\ all[44] = end[3]
         /\ all[45] = end[4] /\ all[46] = end[5]
    <2>1. /\ all[41 + 1] = end[1] /\ all[41 + 2] = end[2] /\ all[41 + 3] = end[3]
          /\ all[41 + 4] = end[4] /\ all[41 + 5] = end[5]
      BY <1>7
    <2>. QED
      BY <2>1
  <1>12. \A i \in 0 .. 7 : i + 1 \in 1 .. 8
    OBVIOUS
  <1>13. \A i \in 0 .. 7 : /\ all[5 * i + 2] = <<"scl", 0>>
                           /\ all[5 * i + 3] = <<"sda", Finder!Bus!Bit(b, i + 1)>>
                           /\ all[5 * i + 4] = <<"scl", 1>>
                           /\ all[5 * i + 5] = <<"poll", 1>>
                           /\ all[5 * i + 6] = <<"scl", 0>>
    BY <1>3, <1>10, <1>12
  <1>14. /\ all[42] = <<"dir", 0>> /\ all[43] = <<"scl", 1>> /\ all[44] = <<"poll", 1>>
         /\ all[45] = <<"ack", 1>> /\ all[46] = <<"scl", 0>>
    BY <1>2, <1>11
  <1>15. all \in Seq(Port) /\ Len(all) = 46
    BY <1>7
  <1>. QED
    BY <1>8, <1>13, <1>14, <1>15 DEF all

(* Each access of a byte read.                                             *)
LEMMA ReadAccesses ==
  ASSUME NEW a \in BOOLEAN
  PROVE  /\ Finder!Bus!i2c_read(a) \in Seq(Port) /\ Len(Finder!Bus!i2c_read(a)) = 41
         /\ Finder!Bus!i2c_read(a)[1] = <<"dir", 0>>
         /\ Finder!Bus!i2c_read(a)[2] = <<"scl", 0>>
         /\ \A i \in 0 .. 7 : /\ Finder!Bus!i2c_read(a)[4 * i + 3] = <<"scl", 1>>
                              /\ Finder!Bus!i2c_read(a)[4 * i + 4] = <<"poll", 1>>
                              /\ Finder!Bus!i2c_read(a)[4 * i + 5] = <<"bit", 1>>
                              /\ Finder!Bus!i2c_read(a)[4 * i + 6] = <<"scl", 0>>
         /\ Finder!Bus!i2c_read(a)[35] = <<"scl", 0>>
         /\ Finder!Bus!i2c_read(a)[36] = <<"dir", 1>>
         /\ Finder!Bus!i2c_read(a)[37] = <<"sda", IF a THEN 0 ELSE 1>>
         /\ Finder!Bus!i2c_read(a)[38] = <<"scl", 1>>
         /\ Finder!Bus!i2c_read(a)[39] = <<"poll", 1>>
         /\ Finder!Bus!i2c_read(a)[40] = <<"scl", 0>>
         /\ Finder!Bus!i2c_read(a)[41] = <<"sda", 0>>
  <1> DEFINE front == <<Finder!Bus!SDA_DIR_IN, Finder!Bus!SCL_LOW>>
             end == <<Finder!Bus!SCL_LOW, Finder!Bus!SDA_DIR_OUT,
                      IF a THEN Finder!Bus!SDA_LOW ELSE Finder!Bus!SDA_HIGH,
                      Finder!Bus!SCL_HIGH, Finder!Bus!SCL_READ, Finder!Bus!SCL_LOW, Finder!Bus!SDA_LOW>>
             mid == Finder!Bus!Sampled
             all == Finder!Bus!i2c_read(a)
  <1>1. front \in Seq(Port) /\ Len(front) = 2 /\ front[1] = <<"dir", 0>> /\ front[2] = <<"scl", 0>>
    BY DEF Port, Finder!Bus!SDA_DIR_IN, Finder!Bus!SCL_LOW
  <1>2. /\ end \in Seq(Port) /\ Len(end) = 7
        /\ end[1] = <<"scl", 0>> /\ end[2] = <<"dir", 1>> /\ end[3] = <<"sda", IF a THEN 0 ELSE 1>>
        /\ end[4] = <<"scl", 1>> /\ end[5] = <<"poll", 1>> /\ end[6] = <<"scl", 0>>
        /\ end[7] = <<"sda", 0>>
    BY DEF Port, Finder!Bus!SDA_DIR_OUT, Finder!Bus!SCL_HIGH, Finder!Bus!SCL_READ,
           Finder!Bus!SCL_LOW, Finder!Bus!SDA_LOW, Finder!Bus!SDA_HIGH
  <1>4. /\ mid \in Seq(Port) /\ Len(mid) = 32
        /\ \A i \in 0 .. 7 : /\ mid[4 * i + 1] = <<"scl", 1>> /\ mid[4 * i + 2] = <<"poll", 1>>
                             /\ mid[4 * i + 3] = <<"bit", 1>> /\ mid[4 * i + 4] = <<"scl", 0>>
    BY SampledIs
  <1>5. all = front \o mid \o end
    BY DEF Finder!Bus!i2c_read
  <1> HIDE DEF front, end, mid, all
  <1>6. /\ front \o mid \in Seq(Port) /\ Len(front \o mid) = 2 + 32
        /\ \A n \in 1 .. 2 : (front \o mid)[n] = front[n]
        /\ \A n \in 1 .. 32 : (front \o mid)[2 + n] = mid[n]
    <2>. front \in Seq(Port) /\ mid \in Seq(Port)
      BY <1>1, <1>4
    <2>1. /\ front \o mid \in Seq(Port) /\ Len(front \o mid) = Len(front) + Len(mid)
          /\ \A n \in 1 .. Len(front) : (front \o mid)[n] = front[n]
          /\ \A n \in 1 .. Len(mid) : (front \o mid)[Len(front) + n] = mid[n]
      BY Joined
    <2>. QED
      BY <1>1, <1>4, <2>1
  <1>7. /\ all \in Seq(Port) /\ Len(all) = 34 + 7
        /\ \A n \in 1 .. 34 : all[n] = (front \o mid)[n]
        /\ \A n \in 1 .. 7 : all[34 + n] = end[n]
    <2>1. Len(front \o mid) = 34
      BY <1>6
    <2>. front \o mid \in Seq(Port) /\ end \in Seq(Port)
      BY <1>2, <1>6
    <2>2. /\ all \in Seq(Port) /\ Len(all) = Len(front \o mid) + Len(end)
          /\ \A n \in 1 .. Len(front \o mid) : all[n] = (front \o mid)[n]
          /\ \A n \in 1 .. Len(end) : all[Len(front \o mid) + n] = end[n]
      BY <1>5, Joined
    <2>. QED
      BY <1>2, <2>1, <2>2
  <1>8. all[1] = <<"dir", 0>> /\ all[2] = <<"scl", 0>>
    <2>1. {1, 2} \subseteq 1 .. 34 /\ {1, 2} \subseteq 1 .. 2
      OBVIOUS
    <2>2. all[1] = (front \o mid)[1] /\ all[2] = (front \o mid)[2]
      BY <1>7, <2>1, Zenon
    <2>3. (front \o mid)[1] = front[1] /\ (front \o mid)[2] = front[2]
      BY <1>6, <2>1, Zenon
    <2>. QED
      BY <1>1, <2>2, <2>3
  <1>9. \A i \in 0 .. 7, j \in 1 .. 4 : all[4 * i + j + 2] = mid[4 * i + j]
    <2>1. TAKE i \in 0 .. 7, j \in 1 .. 4
    <2>2. 4 * i + j \in 1 .. 32 /\ 4 * i + j + 2 \in 1 .. 34 /\ 4 * i + j + 2 = 2 + (4 * i + j)
      OBVIOUS
    <2>3. all[4 * i + j + 2] = (front \o mid)[4 * i + j + 2]
      BY <2>2, <1>7
    <2>4. (front \o mid)[2 + (4 * i + j)] = mid[4 * i + j]
      BY <2>2, <1>6
    <2>. QED
      BY <2>2, <2>3, <2>4
  <1>10. \A i \in 0 .. 7 : /\ all[4 * i + 3] = mid[4 * i + 1] /\ all[4 * i + 4] = mid[4 * i + 2]
                           /\ all[4 * i + 5] = mid[4 * i + 3] /\ all[4 * i + 6] = mid[4 * i + 4]
    <2>1. TAKE i \in 0 .. 7
    <2>2. /\ all[4 * i + 1 + 2] = mid[4 * i + 1] /\ all[4 * i + 2 + 2] = mid[4 * i + 2]
          /\ all[4 * i + 3 + 2] = mid[4 * i + 3] /\ all[4 * i + 4 + 2] = mid[4 * i + 4]
      BY <1>9
    <2>. QED
      BY <2>2
  <1>11. /\ all[35] = end[1] /\ all[36] = end[2] /\ all[37] = end[3] /\ all[38] = end[4]
         /\ all[39] = end[5] /\ all[40] = end[6] /\ all[41] = end[7]
    <2>1. /\ all[34 + 1] = end[1] /\ all[34 + 2] = end[2] /\ all[34 + 3] = end[3]
          /\ all[34 + 4] = end[4] /\ all[34 + 5] = end[5] /\ all[34 + 6] = end[6]
          /\ all[34 + 7] = end[7]
      BY <1>7
    <2>. QED
      BY <2>1
  <1>12. \A i \in 0 .. 7 : /\ all[4 * i + 3] = <<"scl", 1>> /\ all[4 * i + 4] = <<"poll", 1>>
                           /\ all[4 * i + 5] = <<"bit", 1>> /\ all[4 * i + 6] = <<"scl", 0>>
    BY <1>4, <1>10
  <1>14. /\ all[35] = <<"scl", 0>> /\ all[36] = <<"dir", 1>>
         /\ all[37] = <<"sda", IF a THEN 0 ELSE 1>> /\ all[38] = <<"scl", 1>>
         /\ all[39] = <<"poll", 1>> /\ all[40] = <<"scl", 0>> /\ all[41] = <<"sda", 0>>
    BY <1>2, <1>11
  <1>15. all \in Seq(Port) /\ Len(all) = 41
    BY <1>7
  <1>. QED
    BY <1>8, <1>12, <1>14, <1>15 DEF all

-----------------------------------------------------------------------------
(* One access: what is left to do, and what it does to the wires.          *)
ClockTo(v) ==
  /\ scl' = v
  /\ \/ scl = 0 /\ v = 1 /\ Finder!Bus!OnRise
     \/ scl = 1 /\ v = 0 /\ Finder!Bus!OnFall
     \/ scl = v /\ UNCHANGED <<mode, first, bits, shift, pull, noted>>
  /\ UNCHANGED <<sdaOut, sdaDir, Data, bAck>>

DataTo(v) ==
  /\ sdaOut' = v
  /\ Finder!Bus!SDABecomes(v, sdaDir)
  /\ UNCHANGED <<scl, sdaDir, Data, bAck>>

DirectionTo(v) ==
  /\ sdaDir' = v
  /\ Finder!Bus!SDABecomes(sdaOut, v)
  /\ UNCHANGED <<scl, sdaOut, Data, bAck>>

Polls ==
  scl = 1 /\ UNCHANGED <<scl, sdaOut, sdaDir, Data, bAck, mode, first, bits, shift, pull, noted>>

GetsBit ==
  /\ Data' = (2 * Data + Finder!Bus!SDA) % 256
  /\ UNCHANGED <<scl, sdaOut, sdaDir, bAck, mode, first, bits, shift, pull, noted>>

GetsAck ==
  /\ bAck' = (Finder!Bus!SDA = 0)
  /\ UNCHANGED <<scl, sdaOut, sdaDir, Data, mode, first, bits, shift, pull, noted>>

(* What an access does to the ports and the device, by its kind.           *)
LEMMA AccessMade ==
  ASSUME NEW s \in Seq(Port), NEW k \in 0 .. Len(s) - 1,
         todo = After(s, k), Finder!Bus!PortAccess
  PROVE  /\ todo' = After(s, k + 1)
         /\ UNCHANGED <<calls, call, result>>
         /\ \A v \in {0, 1} : s[k + 1] = <<"scl", v>> => ClockTo(v)
         /\ \A v \in {0, 1} : s[k + 1] = <<"sda", v>> => DataTo(v)
         /\ \A v \in {0, 1} : s[k + 1] = <<"dir", v>> => DirectionTo(v)
         /\ s[k + 1] = <<"poll", 1>> => Polls
         /\ s[k + 1] = <<"bit", 1>> => GetsBit
         /\ s[k + 1] = <<"ack", 1>> => GetsAck
  <1>1. Head(todo) = s[k + 1] /\ Tail(todo) = After(s, k + 1)
    BY AfterStep
  <1>2. todo' = Tail(todo) /\ UNCHANGED <<calls, call, result>>
    BY DEF Finder!Bus!PortAccess, Finder!Bus!WriteSCL, Finder!Bus!WriteSDA, Finder!Bus!WriteDirection,
           Finder!Bus!PollSCL, Finder!Bus!ReadBit, Finder!Bus!ReadAck, Finder!Bus!Access, Finder!Bus!callerVars
  <1>3. \A v \in {0, 1} : s[k + 1] = <<"scl", v>> => ClockTo(v)
    BY <1>1 DEF ClockTo, Finder!Bus!Value, Finder!Bus!deviceVars,
           Finder!Bus!PortAccess, Finder!Bus!WriteSCL, Finder!Bus!WriteSDA, Finder!Bus!WriteDirection,
           Finder!Bus!PollSCL, Finder!Bus!ReadBit, Finder!Bus!ReadAck, Finder!Bus!Access
  <1>4. \A v \in {0, 1} : s[k + 1] = <<"sda", v>> => DataTo(v)
    BY <1>1 DEF DataTo, Finder!Bus!Value, Finder!Bus!deviceVars,
           Finder!Bus!PortAccess, Finder!Bus!WriteSCL, Finder!Bus!WriteSDA, Finder!Bus!WriteDirection,
           Finder!Bus!PollSCL, Finder!Bus!ReadBit, Finder!Bus!ReadAck, Finder!Bus!Access
  <1>5. \A v \in {0, 1} : s[k + 1] = <<"dir", v>> => DirectionTo(v)
    BY <1>1 DEF DirectionTo, Finder!Bus!Value, Finder!Bus!deviceVars,
           Finder!Bus!PortAccess, Finder!Bus!WriteSCL, Finder!Bus!WriteSDA, Finder!Bus!WriteDirection,
           Finder!Bus!PollSCL, Finder!Bus!ReadBit, Finder!Bus!ReadAck, Finder!Bus!Access
  <1>6. /\ s[k + 1] = <<"poll", 1>> => Polls
        /\ s[k + 1] = <<"bit", 1>> => GetsBit
        /\ s[k + 1] = <<"ack", 1>> => GetsAck
    BY <1>1 DEF Polls, GetsBit, GetsAck, Finder!Bus!Value, Finder!Bus!deviceVars,
           Finder!Bus!PortAccess, Finder!Bus!WriteSCL, Finder!Bus!WriteSDA, Finder!Bus!WriteDirection,
           Finder!Bus!PollSCL, Finder!Bus!ReadBit, Finder!Bus!ReadAck, Finder!Bus!Access
  <1>. QED
    BY <1>1, <1>2, <1>3, <1>4, <1>5, <1>6

-----------------------------------------------------------------------------
(* The order of the calls.                                                 *)
LEMMA RequestIs ==
  ASSUME NEW c \in Finder!Request
  PROVE  /\ c.op \in {"start", "stop", "write", "read"}
         /\ c.op = "start" => c = [op |-> "start", byte |-> 0, ack |-> FALSE]
         /\ c.op = "stop" => c = [op |-> "stop", byte |-> 0, ack |-> FALSE]
         /\ c.op = "write" => c.byte \in 0 .. 255 /\ c = [op |-> "write", byte |-> c.byte, ack |-> FALSE]
         /\ c.op = "read" => c.ack \in BOOLEAN /\ c = [op |-> "read", byte |-> 0, ack |-> c.ack]
         /\ c.byte \in 0 .. 255 /\ c.ack \in BOOLEAN
         /\ c \in Finder!Event
         /\ c # NONE
  <1>1. BusByte = 0 .. 255 /\ NONE \notin Finder!Event
    BY FinderAssumption DEF Finder!ByteAssumption
  <1>2. \/ c = [op |-> "start", byte |-> 0, ack |-> FALSE]
        \/ c = [op |-> "stop", byte |-> 0, ack |-> FALSE]
        \/ \E b \in BusByte : c = [op |-> "write", byte |-> b, ack |-> FALSE]
        \/ \E a \in BOOLEAN : c = [op |-> "read", byte |-> 0, ack |-> a]
    BY DEF Finder!Request, Finder!Start, Finder!Stop, Finder!Write, Finder!Read
  <1>31. CASE c = [op |-> "start", byte |-> 0, ack |-> FALSE]
    <2>1. 0 \in BusByte
      BY <1>1
    <2>2. c \in Finder!Event
      BY <1>31, <2>1 DEF Finder!Event
    <2>3. c.op = "start" /\ c.byte = 0 /\ c.ack = FALSE
      BY <1>31
    <2>4. c.byte \in 0 .. 255 /\ c.ack \in BOOLEAN
      <3>1. 0 \in 0 .. 255
        OBVIOUS
      <3>. QED
        BY <2>3, <3>1, Zenon
    <2>5. c # NONE
      BY <1>1, <2>2
    <2>. QED
      BY <1>31, <2>2, <2>3, <2>4, <2>5
  <1>32. CASE c = [op |-> "stop", byte |-> 0, ack |-> FALSE]
    <2>1. 0 \in BusByte
      BY <1>1
    <2>2. c \in Finder!Event
      BY <1>32, <2>1 DEF Finder!Event
    <2>3. c.op = "stop" /\ c.byte = 0 /\ c.ack = FALSE
      BY <1>32
    <2>4. c.byte \in 0 .. 255 /\ c.ack \in BOOLEAN
      <3>1. 0 \in 0 .. 255
        OBVIOUS
      <3>. QED
        BY <2>3, <3>1, Zenon
    <2>5. c # NONE
      BY <1>1, <2>2
    <2>. QED
      BY <1>32, <2>2, <2>3, <2>4, <2>5
  <1>4. ASSUME NEW b \in BusByte, c = [op |-> "write", byte |-> b, ack |-> FALSE]
        PROVE  c.op = "write" /\ c.byte = b /\ c.ack = FALSE /\ c \in Finder!Event
    BY <1>4 DEF Finder!Event
  <1>5. ASSUME NEW a \in BOOLEAN, c = [op |-> "read", byte |-> 0, ack |-> a]
        PROVE  c.op = "read" /\ c.byte = 0 /\ c.ack = a /\ c \in Finder!Event
    <2>1. 0 \in BusByte
      BY <1>1
    <2>. QED
      BY <1>5, <2>1 DEF Finder!Event
  <1>6. CASE \E b \in BusByte : c = [op |-> "write", byte |-> b, ack |-> FALSE]
    <2>1. PICK b \in BusByte : c = [op |-> "write", byte |-> b, ack |-> FALSE]
      BY <1>6
    <2>2. c.op = "write" /\ c.byte = b /\ c.ack = FALSE /\ c \in Finder!Event
      BY <1>4, <2>1
    <2>. QED
      BY <1>1, <2>1, <2>2
  <1>7. CASE \E a \in BOOLEAN : c = [op |-> "read", byte |-> 0, ack |-> a]
    <2>1. PICK a \in BOOLEAN : c = [op |-> "read", byte |-> 0, ack |-> a]
      BY <1>7
    <2>2. c.op = "read" /\ c.byte = 0 /\ c.ack = a /\ c \in Finder!Event
      BY <1>5, <2>1
    <2>. QED
      BY <1>1, <2>1, <2>2
  <1>. QED
    BY <1>2, <1>31, <1>32, <1>6, <1>7

(* A call and those after it, element by element.                          *)
LEMMA FirstOf ==
  ASSUME NEW c \in Finder!Request, NEW s \in Seq(Finder!Request)
  PROVE  /\ <<c>> \o s \in Seq(Finder!Request) /\ Len(<<c>> \o s) = Len(s) + 1
         /\ (<<c>> \o s)[1] = c
         /\ \A i \in 1 .. Len(s) : (<<c>> \o s)[i + 1] = s[i]
         /\ Len(s) \in Nat
  <1>. <<c>> \in Seq(Finder!Request)
    OBVIOUS
  <1>1. /\ <<c>> \o s \in Seq(Finder!Request) /\ Len(<<c>> \o s) = Len(<<c>>) + Len(s)
        /\ \A i \in 1 .. Len(<<c>>) : (<<c>> \o s)[i] = <<c>>[i]
        /\ \A i \in 1 .. Len(s) : (<<c>> \o s)[Len(<<c>>) + i] = s[i]
    BY Joined
  <1>2. Len(s) \in Nat /\ Len(<<c>>) = 1 /\ <<c>>[1] = c /\ 1 \in 1 .. 1
    OBVIOUS
  <1>3. (<<c>> \o s)[1] = c
    BY <1>1, <1>2
  <1>4. ASSUME NEW i \in 1 .. Len(s) PROVE (<<c>> \o s)[i + 1] = s[i]
    <2>1. (<<c>> \o s)[1 + i] = s[i]
      BY <1>1, <1>2
    <2>2. i + 1 = 1 + i
      OBVIOUS
    <2>. QED
      BY <2>1, <2>2
  <1>. QED
    BY <1>1, <1>2, <1>3, <1>4

(* What the order says of the call at the head, and of those after it.     *)
LEMMA OrderedRest ==
  ASSUME NEW c \in Finder!Request, NEW s \in Seq(Finder!Request), NEW f, Ordered(<<c>> \o s, f)
  PROVE  /\ c.op = "stop" <=> s = << >>
         /\ s # << >> =>
              /\ Ordered(s, c.op = "start")
              /\ Head(s).op = "read" <=> \/ c.op = "write" /\ c.byte % 2 = 1 /\ f
                                         \/ c.op = "read" /\ c.ack
              /\ Head(s).op = "write" => c.op \in {"start", "write"}
  <1> DEFINE all == <<c>> \o s
  <1>1. /\ all \in Seq(Finder!Request) /\ Len(all) = Len(s) + 1 /\ Len(s) \in Nat
        /\ all[1] = c
        /\ \A i \in 1 .. Len(s) : all[i + 1] = s[i]
    BY FirstOf
  <1>2. /\ all[Len(all)].op = "stop"
        /\ \A i \in 1 .. Len(all) - 1 :
             /\ all[i].op # "stop"
             /\ all[i + 1].op = "read" <=> Reading(all, f, i)
             /\ all[i + 1].op = "write" => all[i].op \in {"start", "write"}
    BY DEF Ordered
  <1> HIDE DEF all
  <1>3. CASE s = << >>
    <2>1. Len(s) = 0
      BY <1>3
    <2>2. Len(all) = 1
      BY <1>1, <2>1
    <2>. QED
      BY <1>1, <1>2, <1>3, <2>2
  <1>4. CASE s # << >>
    <2>1. Len(s) \in Nat \ {0}
      BY <1>4
    <2>2. 1 \in 1 .. Len(s) /\ Len(all) - 1 = Len(s) /\ 1 + 1 = 2
      BY <1>1, <2>1
    <2>3. Head(s) = s[1] /\ all[2] = s[1]
      BY <1>1, <1>4, <2>1, <2>2
    <2>4. c.op # "stop"
      BY <1>1, <1>2, <2>2
    <2>5. /\ s[1].op = "read" <=> Reading(all, f, 1)
          /\ s[1].op = "write" => c.op \in {"start", "write"}
      BY <1>1, <1>2, <2>2, <2>3
    <2>6. Reading(all, f, 1) <=> \/ c.op = "write" /\ c.byte % 2 = 1 /\ f
                                 \/ c.op = "read" /\ c.ack
      BY <1>1 DEF Reading, AddressAt
    <2>7. s[Len(s)].op = "stop"
      <3>1. all[Len(s) + 1] = s[Len(s)]
        BY <1>1, <2>1
      <3>. QED
        BY <1>1, <1>2, <3>1
    <2>8. ASSUME NEW i \in 1 .. Len(s) - 1
          PROVE  /\ s[i].op # "stop"
                 /\ s[i + 1].op = "read" <=> Reading(s, c.op = "start", i)
                 /\ s[i + 1].op = "write" => s[i].op \in {"start", "write"}
      <3>1. i \in 1 .. Len(s) /\ i + 1 \in 1 .. Len(s) /\ i + 1 \in 1 .. Len(all) - 1
        BY <1>1, <2>1
      <3>2. all[i + 1] = s[i] /\ all[i + 1 + 1] = s[i + 1]
        BY <1>1, <3>1
      <3>3. /\ s[i].op # "stop"
            /\ s[i + 1].op = "read" <=> Reading(all, f, i + 1)
            /\ s[i + 1].op = "write" => s[i].op \in {"start", "write"}
        BY <1>2, <3>1, <3>2
      <3>4. AddressAt(all, f, i + 1) <=> AddressAt(s, c.op = "start", i)
        <4>1. i + 1 # 1 /\ (i + 1) - 1 = i
          OBVIOUS
        <4>2. CASE i = 1
          BY <1>1, <4>1, <4>2 DEF AddressAt
        <4>3. CASE i # 1
          <5>1. i - 1 \in 1 .. Len(s) /\ (i - 1) + 1 = i
            BY <3>1, <4>3
          <5>2. all[(i - 1) + 1] = s[i - 1]
            BY <1>1, <5>1
          <5>. QED
            BY <4>1, <4>3, <5>1, <5>2 DEF AddressAt
        <4>. QED
          BY <4>2, <4>3
      <3>5. Reading(all, f, i + 1) <=> Reading(s, c.op = "start", i)
        BY <3>2, <3>4 DEF Reading
      <3>. QED
        BY <3>3, <3>5
    <2>9. Ordered(s, c.op = "start")
      BY <1>4, <2>7, <2>8 DEF Ordered
    <2>. QED
      BY <1>4, <2>3, <2>4, <2>5, <2>6, <2>9
  <1>. QED
    BY <1>3, <1>4

LEMMA OrderedAnyway ==
  ASSUME NEW s \in Seq(Finder!Request), NEW f, NEW g, Ordered(s, f), Head(s).op # "write"
  PROVE  Ordered(s, g)
  <1>1. s # << >> /\ s[1] = Head(s) /\ Len(s) \in Nat \ {0}
    BY DEF Ordered
  <1>2. \A i \in 1 .. Len(s) - 1 : Reading(s, f, i) <=> Reading(s, g, i)
    BY <1>1 DEF Reading, AddressAt
  <1>. QED
    BY <1>2 DEF Ordered

(* A transfer between START and STOP is in order.                          *)
LEMMA FramedOrdered ==
  ASSUME NEW t \in Seq(Finder!Request), NEW f,
         Finder!InOrder(<<Finder!Start>> \o t \o <<Finder!Stop>>)
  PROVE  /\ <<Finder!Start>> \o t \o <<Finder!Stop>> \in Seq(Finder!Request)
         /\ Ordered(<<Finder!Start>> \o t \o <<Finder!Stop>>, f)
         /\ Head(<<Finder!Start>> \o t \o <<Finder!Stop>>).op = "start"
         /\ <<Finder!Start>> \o t \o <<Finder!Stop>> # << >>
  <1> DEFINE all == <<Finder!Start>> \o t \o <<Finder!Stop>>
             front == <<Finder!Start>> \o t
  <1>1. Finder!Start \in Finder!Request /\ Finder!Stop \in Finder!Request
    BY DEF Finder!Request
  <1>2. front \in Seq(Finder!Request) /\ Len(front) = Len(t) + 1 /\ front[1] = Finder!Start /\ Len(t) \in Nat
    BY <1>1, FirstOf
  <1>3. /\ <<Finder!Stop>> \in Seq(Finder!Request) /\ Len(<<Finder!Stop>>) = 1
        /\ <<Finder!Stop>>[1] = Finder!Stop
    BY <1>1
  <1>4. all = front \o <<Finder!Stop>>
    OBVIOUS
  <1>. HIDE DEF all, front
  <1>5. /\ all \in Seq(Finder!Request) /\ Len(all) = Len(front) + Len(<<Finder!Stop>>)
        /\ \A i \in 1 .. Len(front) : all[i] = front[i]
        /\ \A i \in 1 .. Len(<<Finder!Stop>>) : all[Len(front) + i] = <<Finder!Stop>>[i]
    <2>. front \in Seq(Finder!Request) /\ <<Finder!Stop>> \in Seq(Finder!Request)
      BY <1>2, <1>3
    <2>. QED
      BY <1>4, Joined
  <1>6. Len(all) = Len(t) + 2 /\ 1 \in 1 .. Len(front)
    BY <1>2, <1>3, <1>5
  <1>7. all[1] = Finder!Start
    BY <1>2, <1>5, <1>6
  <1>8. all[Len(all)] = Finder!Stop
    <2>1. 1 \in 1 .. Len(<<Finder!Stop>>)
      BY <1>3
    <2>2. all[Len(front) + 1] = Finder!Stop
      BY <1>3, <1>5, <2>1
    <2>. QED
      BY <1>3, <1>5, <2>2
  <1>9. all # << >> /\ Head(all) = all[1]
    BY <1>2, <1>5, <1>6
  <1>10. Finder!Start.op = "start" /\ Finder!Stop.op = "stop"
    BY DEF Finder!Start, Finder!Stop
  <1>11. \A i \in 1 .. Len(all) - 1 :
           Finder!Selects(all, i) <=> (all[i].op = "write" /\ all[i].byte % 2 = 1 /\ AddressAt(all, f, i))
    <2>1. TAKE i \in 1 .. Len(all) - 1
    <2>2. CASE i = 1
      BY <1>7, <1>10, <2>2 DEF Finder!Selects
    <2>3. CASE i # 1
      <3>1. i > 1 /\ i - 1 \in 1 .. Len(all)
        BY <1>2, <1>6, <2>3
      <3>2. all[i - 1] \in Finder!Request
        BY <1>5, <3>1
      <3>3. all[i - 1] = Finder!Start <=> all[i - 1].op = "start"
        BY <1>10, <3>2, RequestIs DEF Finder!Start
      <3>. QED
        BY <2>3, <3>1, <3>3 DEF Finder!Selects, AddressAt
    <2>. QED
      BY <2>2, <2>3
  <1>12. Ordered(all, f)
    <2>1. Finder!InOrder(all)
      BY DEF all
    <2>2. \A i \in 1 .. Len(all) - 1 :
            /\ all[i].op # "stop"
            /\ all[i + 1].op = "read" <=> Finder!Selects(all, i) \/ (all[i].op = "read" /\ all[i].ack)
            /\ all[i + 1].op = "write" => all[i].op \in {"start", "write"}
      BY <2>1 DEF Finder!InOrder
    <2>3. \A i \in 1 .. Len(all) - 1 :
            Reading(all, f, i) <=> Finder!Selects(all, i) \/ (all[i].op = "read" /\ all[i].ack)
      BY <1>11 DEF Reading
    <2>. QED
      BY <1>5, <1>8, <1>9, <1>10, <2>2, <2>3 DEF Ordered
  <1>. QED
    BY <1>5, <1>7, <1>9, <1>10, <1>12 DEF all

-----------------------------------------------------------------------------
(* What no access changes: the registers and the device keep their types.  *)
Room == scl = 0 /\ mode \in {"hear", "talk"} => bits < 8

LEMMA LineIs == WireTypeOK => Finder!Bus!SDA \in {0, 1}
  BY DEF WireTypeOK, Finder!Bus!SDA

LEMMA IsTruth == \A a, b : (a = b) \in BOOLEAN
  BY Zenon

LEMMA Doubled == \A a \in 0 .. 255, b \in {0, 1} : (2 * a + b) % 256 \in 0 .. 255
  OBVIOUS

DeviceTypeOK ==
  /\ mode \in {"off", "hear", "ack", "talk", "sent", "more"}
  /\ first \in BOOLEAN /\ pull \in BOOLEAN
  /\ bits \in 0 .. 8 /\ shift \in 0 .. 255

LEMMA DeviceStepTypes ==
  ASSUME WireTypeOK
  PROVE  /\ Room /\ scl = 0 /\ Finder!Bus!OnRise => DeviceTypeOK'
         /\ Finder!Bus!OnFall => DeviceTypeOK'
         /\ Finder!Bus!SeesStart => DeviceTypeOK'
         /\ Finder!Bus!SeesStop => DeviceTypeOK'
         /\ UNCHANGED <<mode, first, bits, shift, pull, noted>> => DeviceTypeOK'
  <1>1. DeviceTypeOK
    BY DEF WireTypeOK, DeviceTypeOK
  <1>2. UNCHANGED <<mode, first, bits, shift, pull, noted>> => DeviceTypeOK'
    BY <1>1 DEF DeviceTypeOK
  <1>3. Finder!Bus!SeesStart => DeviceTypeOK'
    <2>1. ASSUME Finder!Bus!SeesStart PROVE first' \in BOOLEAN /\ pull' \in BOOLEAN
      BY <2>1, Zenon DEF Finder!Bus!SeesStart
    <2>2. ASSUME Finder!Bus!SeesStart PROVE mode' = "hear" /\ bits' \in 0 .. 8 /\ shift' \in 0 .. 255
      BY <2>2 DEF Finder!Bus!SeesStart
    <2>. QED
      BY <2>1, <2>2 DEF DeviceTypeOK
  <1>4. Finder!Bus!SeesStop => DeviceTypeOK'
    <2>1. ASSUME Finder!Bus!SeesStop PROVE first' \in BOOLEAN /\ pull' \in BOOLEAN
      BY <1>1, <2>1, Zenon DEF Finder!Bus!SeesStop, DeviceTypeOK
    <2>2. ASSUME Finder!Bus!SeesStop PROVE mode' = "off" /\ bits' \in 0 .. 8 /\ shift' \in 0 .. 255
      BY <1>1, <2>2 DEF Finder!Bus!SeesStop, DeviceTypeOK
    <2>. QED
      BY <2>1, <2>2 DEF DeviceTypeOK
  <1>5. ASSUME Room, scl = 0, Finder!Bus!OnRise PROVE DeviceTypeOK'
    <2>1. CASE Finder!Bus!HearBit
      <3>1. shift' \in 0 .. 255
        BY <1>1, <2>1, LineIs, Doubled DEF Finder!Bus!HearBit, DeviceTypeOK
      <3>2. bits' \in 0 .. 8
        BY <1>1, <1>5, <2>1 DEF Finder!Bus!HearBit, DeviceTypeOK, Room
      <3>. QED
        BY <1>1, <2>1, <3>1, <3>2 DEF Finder!Bus!HearBit, DeviceTypeOK
    <2>2. CASE Finder!Bus!BitSent
      <3>1. bits' \in 0 .. 8
        BY <1>1, <1>5, <2>2 DEF Finder!Bus!BitSent, DeviceTypeOK, Room
      <3>. QED
        BY <1>1, <2>2, <3>1 DEF Finder!Bus!BitSent, DeviceTypeOK
    <2>3. CASE Finder!Bus!HearAck
      BY <1>1, <2>3 DEF Finder!Bus!HearAck, DeviceTypeOK
    <2>. QED
      BY <1>1, <1>2, <1>5, <2>1, <2>2, <2>3 DEF Finder!Bus!OnRise, Finder!Bus!deviceVars
  <1>6. ASSUME Finder!Bus!OnFall PROVE DeviceTypeOK'
    <2>1. CASE Finder!Bus!ByteHeard
      BY <1>1, <2>1 DEF Finder!Bus!ByteHeard, DeviceTypeOK
    <2>2. CASE Finder!Bus!HearNext
      <3>1. first' \in BOOLEAN /\ pull' \in BOOLEAN
        BY <2>2, Zenon DEF Finder!Bus!HearNext
      <3>. QED
        BY <2>2, <3>1 DEF Finder!Bus!HearNext, DeviceTypeOK
    <2>3. CASE Finder!Bus!Talk
      <3>1. first' \in BOOLEAN
        BY <2>3, Zenon DEF Finder!Bus!Talk
      <3>2. PICK b \in AnyByte : shift' = b /\ pull' = (Finder!Bus!Bit(b, 1) = 0)
        BY <2>3 DEF Finder!Bus!Talk
      <3>3. pull' \in BOOLEAN
        BY <3>2, IsTruth, Zenon
      <3>4. shift' \in 0 .. 255
        BY <3>2, FinderAssumption DEF Finder!Bus!AnswerAssumption
      <3>. QED
        BY <2>3, <3>1, <3>3, <3>4 DEF Finder!Bus!Talk, DeviceTypeOK
    <2>4. CASE Finder!Bus!SendBit
      <3>1. pull' \in BOOLEAN
        BY <2>4, IsTruth, Zenon DEF Finder!Bus!SendBit
      <3>. QED
        BY <1>1, <2>4, <3>1 DEF Finder!Bus!SendBit, DeviceTypeOK
    <2>5. CASE Finder!Bus!ByteSent
      <3>1. pull' \in BOOLEAN
        BY <2>5, Zenon DEF Finder!Bus!ByteSent
      <3>. QED
        BY <1>1, <2>5, <3>1 DEF Finder!Bus!ByteSent, DeviceTypeOK
    <2>. QED
      BY <1>1, <1>2, <1>6, <2>1, <2>2, <2>3, <2>4, <2>5 DEF Finder!Bus!OnFall, Finder!Bus!deviceVars
  <1>. QED
    BY <1>2, <1>3, <1>4, <1>5, <1>6

(* No access spoils the types.                                             *)
LEMMA TypeAccess ==
  ASSUME WireTypeOK, Room, NEW s \in Seq(Port), NEW k \in 0 .. Len(s) - 1,
         todo = After(s, k), Finder!Bus!PortAccess
  PROVE  WireTypeOK'
  <1>1. /\ UNCHANGED <<calls, call, result>>
        /\ \A v \in {0, 1} : s[k + 1] = <<"scl", v>> => ClockTo(v)
        /\ \A v \in {0, 1} : s[k + 1] = <<"sda", v>> => DataTo(v)
        /\ \A v \in {0, 1} : s[k + 1] = <<"dir", v>> => DirectionTo(v)
        /\ s[k + 1] = <<"poll", 1>> => Polls
        /\ s[k + 1] = <<"bit", 1>> => GetsBit
        /\ s[k + 1] = <<"ack", 1>> => GetsAck
    BY AccessMade
  <1>2. s[k + 1] \in Port
    BY ElementOfSeq
  <1>3. calls' \in Seq(Finder!Request) /\ call' \in Finder!Request \cup {NONE}
    BY <1>1 DEF WireTypeOK
  <1>4. ASSUME NEW v \in {0, 1}, ClockTo(v) PROVE WireTypeOK'
    <2>1. DeviceTypeOK'
      BY <1>4, DeviceStepTypes DEF ClockTo
    <2>. QED
      BY <1>3, <1>4, <2>1 DEF ClockTo, WireTypeOK, DeviceTypeOK
  <1>5. ASSUME NEW v \in {0, 1}, DataTo(v) PROVE WireTypeOK'
    <2>1. DeviceTypeOK'
      BY <1>5, DeviceStepTypes DEF DataTo, Finder!Bus!SDABecomes, Finder!Bus!deviceVars
    <2>. QED
      BY <1>3, <1>5, <2>1 DEF DataTo, WireTypeOK, DeviceTypeOK
  <1>6. ASSUME NEW v \in {0, 1}, DirectionTo(v) PROVE WireTypeOK'
    <2>1. DeviceTypeOK'
      BY <1>6, DeviceStepTypes DEF DirectionTo, Finder!Bus!SDABecomes, Finder!Bus!deviceVars
    <2>. QED
      BY <1>3, <1>6, <2>1 DEF DirectionTo, WireTypeOK, DeviceTypeOK
  <1>7. CASE Polls
    BY <1>3, <1>7 DEF Polls, WireTypeOK
  <1>8. CASE GetsBit
    <2>1. Data' \in 0 .. 255
      BY <1>8, LineIs, Doubled, ZenonT(60) DEF GetsBit, WireTypeOK
    <2>. QED
      BY <1>3, <1>8, <2>1 DEF GetsBit, WireTypeOK
  <1>9. CASE GetsAck
    <2>1. bAck' \in BOOLEAN
      BY <1>9, IsTruth, Zenon DEF GetsAck
    <2>. QED
      BY <1>3, <1>9, <2>1 DEF GetsAck, WireTypeOK
  <1>10. \/ \E v \in {0, 1} : s[k + 1] \in {<<"scl", v>>, <<"sda", v>>, <<"dir", v>>}
         \/ s[k + 1] \in {<<"poll", 1>>, <<"bit", 1>>, <<"ack", 1>>}
    BY <1>2 DEF Port
  <1>. QED
    BY <1>1, <1>4, <1>5, <1>6, <1>7, <1>8, <1>9, <1>10

-----------------------------------------------------------------------------
(* A call under way.                                                       *)
LinkStep == noted' = noted \/ \E e \in Finder!Event : Finder!Hear(e)

LEMMA AccessesOf ==
  ASSUME NEW c \in Finder!Request
  PROVE  /\ c.op = "start" => Finder!Bus!Accesses(c) = Finder!Bus!i2c_start
         /\ c.op = "stop" => Finder!Bus!Accesses(c) = Finder!Bus!i2c_stop
         /\ c.op = "write" => Finder!Bus!Accesses(c) = Finder!Bus!i2c_write(c.byte)
         /\ c.op = "read" => Finder!Bus!Accesses(c) = Finder!Bus!i2c_read(c.ack)
         /\ Finder!Bus!Accesses(c) \in Seq(Port)
  <1>1. /\ c.op = "start" => Finder!Bus!Accesses(c) = Finder!Bus!i2c_start
        /\ c.op = "stop" => Finder!Bus!Accesses(c) = Finder!Bus!i2c_stop
        /\ c.op = "write" => Finder!Bus!Accesses(c) = Finder!Bus!i2c_write(c.byte)
        /\ c.op = "read" => Finder!Bus!Accesses(c) = Finder!Bus!i2c_read(c.ack)
    BY DEF Finder!Bus!Accesses
  <1>2. c.op \in {"start", "stop", "write", "read"} /\ c.byte \in 0 .. 255 /\ c.ack \in BOOLEAN
    BY RequestIs
  <1>3. Finder!Bus!i2c_write(c.byte) \in Seq(Port)
    BY <1>2, WriteAccesses
  <1>4. Finder!Bus!i2c_read(c.ack) \in Seq(Port)
    BY <1>2, ReadAccesses
  <1>. QED
    BY <1>1, <1>2, <1>3, <1>4, FixedAccesses

LEMMA CallUnderWay ==
  ASSUME WireTypeOK, call # NONE
  PROVE  call \in Finder!Request /\ calls \in Seq(Finder!Request) /\ Finder!Bus!Accesses(call) \in Seq(Port)
  BY AccessesOf DEF WireTypeOK

LEMMA Advance ==
  ASSUME WireTypeOK, NEW op, NEW k \in Nat, Under(op, k),
         todo' = After(Finder!Bus!Accesses(call), k + 1), UNCHANGED <<calls, call, result>>,
         first' = first \/ op # "write"
  PROVE  Under(op, k + 1)'
  <1>1. call \in Finder!Request /\ calls \in Seq(Finder!Request)
    BY CallUnderWay DEF Under
  <1>2. Ordered(<<call>> \o calls, first')
    <2>1. CASE first' = first
      BY <2>1 DEF Under
    <2>2. CASE op # "write"
      <3>1. /\ <<call>> \o calls \in Seq(Finder!Request) /\ Len(<<call>> \o calls) = Len(calls) + 1
            /\ (<<call>> \o calls)[1] = call /\ Len(calls) \in Nat
        BY <1>1, FirstOf
      <3>2. Head(<<call>> \o calls) = call
        BY <3>1
      <3>. QED
        BY <2>2, <3>1, <3>2, OrderedAnyway DEF Under
    <2>. QED
      BY <2>1, <2>2
  <1>. QED
    BY <1>2 DEF Under

LEMMA FitWhen ==
  /\ scl = 0 /\ Listens => Fit("start") /\ Fit("stop") /\ Fit("write")
  /\ scl = 0 /\ Silent => Fit("start") /\ Fit("stop")
  /\ Free => Fit("start")
  /\ scl = 0 /\ mode = "talk" /\ bits = 0 /\ (pull <=> Finder!Bus!Bit(shift, 1) = 0) => Fit("read")
  BY DEF Fit

(* A START: from each access to the next.                                  *)
LEMMA StartPhase ==
  ASSUME WireTypeOK, NEW k \in 0 .. 4, StartAt(k), Finder!Bus!PortAccess
  PROVE  Room /\ LinkStep /\ (IF k < 4 THEN StartAt(k + 1)' ELSE Returns')
  <1> DEFINE acc == Finder!Bus!Accesses(call)
  <1>1. /\ call # NONE /\ call.op = "start" /\ call \in Finder!Request /\ calls \in Seq(Finder!Request)
        /\ acc = Finder!Bus!i2c_start /\ acc \in Seq(Port) /\ Len(acc) = 5
        /\ todo = After(acc, k) /\ Ordered(<<call>> \o calls, first)
    BY CallUnderWay, AccessesOf, FixedAccesses DEF StartAt, Under
  <1>2. /\ acc[1] = <<"dir", 1>> /\ acc[2] = <<"sda", 1>> /\ acc[3] = <<"scl", 1>>
        /\ acc[4] = <<"sda", 0>> /\ acc[5] = <<"scl", 0>>
    BY <1>1 DEF Finder!Bus!i2c_start, Finder!Bus!SDA_DIR_OUT,
         Finder!Bus!SDA_LOW, Finder!Bus!SDA_HIGH, Finder!Bus!SCL_LOW, Finder!Bus!SCL_HIGH
  <1> HIDE DEF acc
  <1>3. /\ todo' = After(acc, k + 1)
        /\ UNCHANGED <<calls, call, result>>
        /\ \A v \in {0, 1} : acc[k + 1] = <<"scl", v>> => ClockTo(v)
        /\ \A v \in {0, 1} : acc[k + 1] = <<"sda", v>> => DataTo(v)
        /\ \A v \in {0, 1} : acc[k + 1] = <<"dir", v>> => DirectionTo(v)
    <2>1. k \in 0 .. Len(acc) - 1 /\ acc \in Seq(Port) /\ todo = After(acc, k)
      BY <1>1
    <2>. QED
      BY <2>1, AccessMade
  <1>4. Under("start", k + 1)'
    BY <1>3, Advance DEF StartAt, acc
  <1>5. Room
    BY DEF Room, StartAt, Fit, Listens, Silent, Free
  <1>6. CASE k = 0
    <2>1. DirectionTo(1)
      BY <1>2, <1>3, <1>6
    <2>2. UNCHANGED <<mode, first, bits, shift, pull, noted>> /\ Fit("start") /\ noted = << >>
      BY <1>6, <2>1 DEF DirectionTo, StartAt, Fit, Listens, Silent, Free, Finder!Bus!SDABecomes,
           Finder!Bus!SDA, Finder!Bus!deviceVars
    <2>3. StartAt(1)'
      BY <1>4, <1>6, <2>1, <2>2 DEF DirectionTo, StartAt, Fit, Listens, Silent, Free
    <2>. QED
      BY <1>5, <1>6, <2>2, <2>3 DEF LinkStep
  <1>7. CASE k = 1
    <2>1. DataTo(1)
      BY <1>2, <1>3, <1>7
    <2>2. UNCHANGED <<mode, first, bits, shift, pull, noted>> /\ Fit("start") /\ noted = << >> /\ sdaDir = 1
      BY <1>7, <2>1 DEF DataTo, StartAt, Fit, Listens, Silent, Free, Finder!Bus!SDABecomes,
           Finder!Bus!SDA, Finder!Bus!deviceVars
    <2>3. StartAt(2)'
      BY <1>4, <1>7, <2>1, <2>2 DEF DataTo, StartAt, Fit, Listens, Silent, Free, Driven
    <2>. QED
      BY <1>5, <1>7, <2>2, <2>3 DEF LinkStep
  <1>8. CASE k = 2
    <2>1. ClockTo(1)
      BY <1>2, <1>3, <1>8
    <2>2. noted = << >> /\ Driven(1) /\ ~pull /\ mode \in {"off", "hear"}
      BY <1>8 DEF StartAt, Fit, Listens, Silent, Free, Driven
    <2>3. noted' = noted /\ pull' = pull /\ mode' = mode
      BY <2>1, <2>2
      DEF ClockTo, Finder!Bus!OnRise, Finder!Bus!HearBit, Finder!Bus!BitSent, Finder!Bus!HearAck,
           Finder!Bus!deviceVars
    <2>4. StartAt(3)'
      BY <1>4, <1>8, <2>1, <2>2, <2>3 DEF ClockTo, StartAt, Driven
    <2>. QED
      BY <1>5, <1>8, <2>3, <2>4 DEF LinkStep
  <1>9. CASE k = 3
    <2>1. DataTo(0)
      BY <1>2, <1>3, <1>9
    <2>2. noted = << >> /\ Driven(1) /\ scl = 1
      BY <1>9 DEF StartAt
    <2>3. Finder!Bus!SeesStart
      BY <2>1, <2>2 DEF DataTo, Driven, Finder!Bus!SDABecomes, Finder!Bus!SDA
    <2>4. noted' = <<call>>
      <3>1. noted' = Append(<< >>, [op |-> "start", byte |-> 0, ack |-> FALSE])
        BY <2>2, <2>3 DEF Finder!Bus!SeesStart, Finder!Bus!Note
      <3>2. call = [op |-> "start", byte |-> 0, ack |-> FALSE]
        BY <1>1, RequestIs
      <3>. QED
        BY <3>1, <3>2
    <2>5. Finder!Hear(call)
      BY <1>1, <1>3, <2>2, <2>4 DEF Finder!Hear
    <2>6. Listens' /\ first'
      BY <2>3 DEF Finder!Bus!SeesStart, Listens
    <2>7. StartAt(4)'
      BY <1>3, <1>4, <1>9, <2>1, <2>2, <2>4, <2>6 DEF DataTo, StartAt, Driven
    <2>8. call \in Finder!Event
      BY <1>1, RequestIs
    <2>. QED
      BY <1>5, <1>9, <2>5, <2>7, <2>8 DEF LinkStep
  <1>10. CASE k = 4
    <2>1. ClockTo(0)
      BY <1>2, <1>3, <1>10
    <2>2. scl = 1 /\ Listens /\ first /\ noted = <<call>>
      BY <1>10 DEF StartAt
    <2>3. UNCHANGED <<mode, first, bits, shift, pull, noted>>
      BY <2>1, <2>2 DEF ClockTo, Listens, Finder!Bus!OnFall, Finder!Bus!ByteHeard, Finder!Bus!HearNext,
           Finder!Bus!Talk, Finder!Bus!SendBit, Finder!Bus!ByteSent, Finder!Bus!Addressed, Finder!Bus!deviceVars
    <2>4. todo' = << >>
      <3>1. acc \in Seq(Port) /\ Len(acc) = 5 /\ todo' = After(acc, 5) /\ 5 \in 0 .. Len(acc)
        BY <1>1, <1>3, <1>10
      <3>. QED
        BY <3>1, AfterStep
    <2>5. Finder!Bus!Outcome' = call
      BY <1>1, <1>3 DEF Finder!Bus!Outcome
    <2>6. /\ calls # << >> /\ Ordered(calls, first') /\ Head(calls).op \in {"start", "stop", "write"}
      <3>1. calls # << >> /\ Ordered(calls, TRUE) /\ Head(calls).op # "read"
        BY <1>1, OrderedRest
      <3>2. Head(calls) \in Finder!Request
        BY <1>1, <3>1
      <3>3. Head(calls).op \in {"start", "stop", "write", "read"}
        BY <3>2, RequestIs
      <3>4. Ordered(calls, first')
        BY <2>2, <2>3, <3>1 DEF Ordered, Reading, AddressAt
      <3>. QED
        BY <3>1, <3>3, <3>4
    <2>7. scl' = 0 /\ Listens'
      BY <2>1, <2>2, <2>3 DEF ClockTo, Listens
    <2>8. FitWhen!1'
      BY FitWhen, PTL
    <2>9. Awaits(calls, first)'
      BY <1>3, <2>6, <2>7, <2>8 DEF Awaits
    <2>10. ~Finder!Refused(call)
      BY <1>1 DEF Finder!Refused
    <2>11. Ended'
      BY <2>2, <2>3, <2>5, <2>9, <2>10 DEF Ended
    <2>12. Returns'
      BY <1>1, <1>3, <2>4, <2>11 DEF Returns
    <2>. QED
      BY <1>5, <1>10, <2>3, <2>12 DEF LinkStep
  <1>. QED
    BY <1>6, <1>7, <1>8, <1>9, <1>10

(* A STOP.                                                                 *)
LEMMA StopPhase ==
  ASSUME WireTypeOK, NEW k \in 0 .. 3, StopAt(k), Finder!Bus!PortAccess
  PROVE  Room /\ LinkStep /\ (IF k < 3 THEN StopAt(k + 1)' ELSE Returns')
  <1> DEFINE acc == Finder!Bus!Accesses(call)
  <1>1. /\ call # NONE /\ call.op = "stop" /\ call \in Finder!Request /\ calls \in Seq(Finder!Request)
        /\ acc = Finder!Bus!i2c_stop /\ acc \in Seq(Port) /\ Len(acc) = 4
        /\ todo = After(acc, k) /\ Ordered(<<call>> \o calls, first) /\ noted = << >>
    BY CallUnderWay, AccessesOf, FixedAccesses DEF StopAt, Under
  <1>2. /\ acc[1] = <<"dir", 1>> /\ acc[2] = <<"sda", 0>> /\ acc[3] = <<"scl", 1>>
        /\ acc[4] = <<"sda", 1>>
    BY <1>1 DEF Finder!Bus!i2c_stop, Finder!Bus!SDA_DIR_OUT,
         Finder!Bus!SDA_LOW, Finder!Bus!SDA_HIGH, Finder!Bus!SCL_HIGH
  <1> HIDE DEF acc
  <1>3. /\ todo' = After(acc, k + 1)
        /\ UNCHANGED <<calls, call, result>>
        /\ \A v \in {0, 1} : acc[k + 1] = <<"scl", v>> => ClockTo(v)
        /\ \A v \in {0, 1} : acc[k + 1] = <<"sda", v>> => DataTo(v)
        /\ \A v \in {0, 1} : acc[k + 1] = <<"dir", v>> => DirectionTo(v)
    <2>1. k \in 0 .. Len(acc) - 1 /\ acc \in Seq(Port) /\ todo = After(acc, k)
      BY <1>1
    <2>. QED
      BY <2>1, AccessMade
  <1>4. Under("stop", k + 1)'
    BY <1>3, Advance DEF StopAt, acc
  <1>5. Room
    BY DEF Room, StopAt, Fit, Listens, Silent
  <1>6. CASE k = 0
    <2>1. DirectionTo(1)
      BY <1>2, <1>3, <1>6
    <2>2. UNCHANGED <<mode, first, bits, shift, pull, noted>> /\ Fit("stop")
      BY <1>6, <2>1 DEF DirectionTo, StopAt, Fit, Finder!Bus!SDABecomes, Finder!Bus!deviceVars
    <2>3. StopAt(1)'
      BY <1>1, <1>4, <1>6, <2>1, <2>2 DEF DirectionTo, StopAt, Fit, Listens, Silent
    <2>. QED
      BY <1>5, <1>6, <2>2, <2>3 DEF LinkStep
  <1>7. CASE k = 1
    <2>1. DataTo(0)
      BY <1>2, <1>3, <1>7
    <2>2. UNCHANGED <<mode, first, bits, shift, pull, noted>> /\ Fit("stop") /\ sdaDir = 1
      BY <1>7, <2>1 DEF DataTo, StopAt, Fit, Finder!Bus!SDABecomes, Finder!Bus!deviceVars
    <2>3. StopAt(2)'
      BY <1>1, <1>4, <1>7, <2>1, <2>2 DEF DataTo, StopAt, Fit, Listens, Silent, Driven
    <2>. QED
      BY <1>5, <1>7, <2>2, <2>3 DEF LinkStep
  <1>8. CASE k = 2
    <2>1. ClockTo(1)
      BY <1>2, <1>3, <1>8
    <2>2. Driven(0) /\ ~pull /\ mode \in {"off", "hear"}
      BY <1>8 DEF StopAt, Fit, Listens, Silent, Driven
    <2>3. noted' = noted /\ pull' = pull /\ mode' = mode
      BY <2>1, <2>2
      DEF ClockTo, Finder!Bus!OnRise, Finder!Bus!HearBit, Finder!Bus!BitSent, Finder!Bus!HearAck,
           Finder!Bus!deviceVars
    <2>4. StopAt(3)'
      BY <1>1, <1>4, <1>8, <2>1, <2>2, <2>3 DEF ClockTo, StopAt, Driven
    <2>. QED
      BY <1>5, <1>8, <2>3, <2>4 DEF LinkStep
  <1>9. CASE k = 3
    <2>1. DataTo(1)
      BY <1>2, <1>3, <1>9
    <2>2. Driven(0) /\ scl = 1
      BY <1>9 DEF StopAt
    <2>3. Finder!Bus!SeesStop
      BY <2>1, <2>2 DEF DataTo, Driven, Finder!Bus!SDABecomes, Finder!Bus!SDA
    <2>4. noted' = <<call>>
      <3>1. noted' = Append(<< >>, [op |-> "stop", byte |-> 0, ack |-> FALSE])
        BY <1>1, <2>3 DEF Finder!Bus!SeesStop, Finder!Bus!Note
      <3>2. call = [op |-> "stop", byte |-> 0, ack |-> FALSE]
        BY <1>1, RequestIs
      <3>. QED
        BY <3>1, <3>2
    <2>5. Finder!Hear(call)
      BY <1>1, <1>3, <2>4 DEF Finder!Hear
    <2>6. call \in Finder!Event
      BY <1>1, RequestIs
    <2>7. todo' = << >>
      <3>1. acc \in Seq(Port) /\ Len(acc) = 4 /\ todo' = After(acc, 4) /\ 4 \in 0 .. Len(acc)
        BY <1>1, <1>3, <1>9
      <3>. QED
        BY <3>1, AfterStep
    <2>8. Finder!Bus!Outcome' = call
      BY <1>1, <1>3 DEF Finder!Bus!Outcome
    <2>9. calls = << >>
      BY <1>1, OrderedRest
    <2>10. Free'
      BY <2>1, <2>2, <2>3 DEF DataTo, Driven, Finder!Bus!SeesStop, Free, Silent
    <2>11. Awaits(calls, first)'
      BY <1>3, <2>9, <2>10 DEF Awaits, Fit, Free
    <2>12. ~Finder!Refused(call)
      BY <1>1 DEF Finder!Refused
    <2>13. Returns'
      BY <1>1, <1>3, <2>4, <2>7, <2>8, <2>11, <2>12 DEF Returns, Ended
    <2>. QED
      BY <1>5, <1>9, <2>5, <2>6, <2>13 DEF LinkStep
  <1>. QED
    BY <1>6, <1>7, <1>8, <1>9

-----------------------------------------------------------------------------
(* Bit by bit a byte comes together.                                       *)
LEMMA PrefixNext ==
  ASSUME NEW b \in 0 .. 255
  PROVE  /\ Prefix(b, 0) = 0 /\ Prefix(b, 8) = b
         /\ \A i \in 0 .. 7 : (2 * Prefix(b, i) + Finder!Bus!Bit(b, i + 1)) % 256 = Prefix(b, i + 1)
  <1>1. /\ Prefix(b, 0) = 0 /\ Prefix(b, 1) = b \div 128 /\ Prefix(b, 2) = b \div 64
        /\ Prefix(b, 3) = b \div 32 /\ Prefix(b, 4) = b \div 16 /\ Prefix(b, 5) = b \div 8
        /\ Prefix(b, 6) = b \div 4 /\ Prefix(b, 7) = b \div 2 /\ Prefix(b, 8) = b \div 1
    BY DEF Prefix, Finder!Bus!Mask
  <1>2. /\ Finder!Bus!Bit(b, 1) = (b \div 128) % 2 /\ Finder!Bus!Bit(b, 2) = (b \div 64) % 2
        /\ Finder!Bus!Bit(b, 3) = (b \div 32) % 2 /\ Finder!Bus!Bit(b, 4) = (b \div 16) % 2
        /\ Finder!Bus!Bit(b, 5) = (b \div 8) % 2 /\ Finder!Bus!Bit(b, 6) = (b \div 4) % 2
        /\ Finder!Bus!Bit(b, 7) = (b \div 2) % 2 /\ Finder!Bus!Bit(b, 8) = (b \div 1) % 2
    BY DEF Finder!Bus!Bit, Finder!Bus!Mask
  <1>3. /\ b \div 1 = b
        /\ (2 * 0 + ((b \div 128) % 2)) % 256 = b \div 128
        /\ (2 * (b \div 128) + ((b \div 64) % 2)) % 256 = b \div 64
        /\ (2 * (b \div 64) + ((b \div 32) % 2)) % 256 = b \div 32
        /\ (2 * (b \div 32) + ((b \div 16) % 2)) % 256 = b \div 16
        /\ (2 * (b \div 16) + ((b \div 8) % 2)) % 256 = b \div 8
        /\ (2 * (b \div 8) + ((b \div 4) % 2)) % 256 = b \div 4
        /\ (2 * (b \div 4) + ((b \div 2) % 2)) % 256 = b \div 2
        /\ (2 * (b \div 2) + ((b \div 1) % 2)) % 256 = b \div 1
    OBVIOUS
  <1>4. /\ (2 * Prefix(b, 0) + Finder!Bus!Bit(b, 1)) % 256 = Prefix(b, 1)
        /\ (2 * Prefix(b, 1) + Finder!Bus!Bit(b, 2)) % 256 = Prefix(b, 2)
        /\ (2 * Prefix(b, 2) + Finder!Bus!Bit(b, 3)) % 256 = Prefix(b, 3)
        /\ (2 * Prefix(b, 3) + Finder!Bus!Bit(b, 4)) % 256 = Prefix(b, 4)
        /\ (2 * Prefix(b, 4) + Finder!Bus!Bit(b, 5)) % 256 = Prefix(b, 5)
        /\ (2 * Prefix(b, 5) + Finder!Bus!Bit(b, 6)) % 256 = Prefix(b, 6)
        /\ (2 * Prefix(b, 6) + Finder!Bus!Bit(b, 7)) % 256 = Prefix(b, 7)
        /\ (2 * Prefix(b, 7) + Finder!Bus!Bit(b, 8)) % 256 = Prefix(b, 8)
    BY <1>1, <1>2, <1>3, ZenonT(60)
  <1>5. ASSUME NEW i \in 0 .. 7
        PROVE  (2 * Prefix(b, i) + Finder!Bus!Bit(b, i + 1)) % 256 = Prefix(b, i + 1)
    <2>1. i = 0 \/ i = 1 \/ i = 2 \/ i = 3 \/ i = 4 \/ i = 5 \/ i = 6 \/ i = 7
      OBVIOUS
    <2>2. CASE i = 0
      BY <1>4, <2>2
    <2>3. CASE i = 1
      BY <1>4, <2>3
    <2>4. CASE i = 2
      BY <1>4, <2>4
    <2>5. CASE i = 3
      BY <1>4, <2>5
    <2>6. CASE i = 4
      BY <1>4, <2>6
    <2>7. CASE i = 5
      BY <1>4, <2>7
    <2>8. CASE i = 6
      BY <1>4, <2>8
    <2>9. CASE i = 7
      BY <1>4, <2>9
    <2>. QED
      BY <2>1, <2>2, <2>3, <2>4, <2>5, <2>6, <2>7, <2>8, <2>9
  <1>. QED
    BY <1>1, <1>3, <1>5

-----------------------------------------------------------------------------
(* A byte is written.                                                      *)
LEMMA WriteUnderWay ==
  ASSUME WireTypeOK, NEW k \in 0 .. 45, Under("write", k), Finder!Bus!PortAccess
  PROVE  /\ call # NONE /\ call.op = "write" /\ call \in Finder!Request /\ calls \in Seq(Finder!Request)
         /\ call.byte \in 0 .. 255
         /\ todo' = After(Finder!Bus!Accesses(call), k + 1)
         /\ UNCHANGED <<calls, call, result>>
         /\ k = 0 => DirectionTo(1)
         /\ \A i \in 0 .. 7 : /\ k = 5 * i + 1 => ClockTo(0)
                              /\ k = 5 * i + 2 => DataTo(Finder!Bus!Bit(call.byte, i + 1))
                              /\ k = 5 * i + 3 => ClockTo(1)
                              /\ k = 5 * i + 4 => Polls
                              /\ k = 5 * i + 5 => ClockTo(0)
         /\ k = 41 => DirectionTo(0)
         /\ k = 42 => ClockTo(1)
         /\ k = 43 => Polls
         /\ k = 44 => GetsAck
         /\ k = 45 => ClockTo(0) /\ todo' = << >>
  <1> DEFINE acc == Finder!Bus!Accesses(call)
             b == call.byte
  <1>1. /\ call # NONE /\ call.op = "write" /\ call \in Finder!Request /\ calls \in Seq(Finder!Request)
        /\ acc = Finder!Bus!i2c_write(b) /\ todo = After(acc, k)
    BY CallUnderWay, AccessesOf DEF Under
  <1>2. b \in 0 .. 255
    BY <1>1, RequestIs
  <1>. acc = Finder!Bus!i2c_write(b)
    BY <1>1
  <1> HIDE DEF acc, b
  <1>3. /\ acc \in Seq(Port) /\ Len(acc) = 46
        /\ acc[1] = <<"dir", 1>>
        /\ \A i \in 0 .. 7 : /\ acc[5 * i + 2] = <<"scl", 0>>
                             /\ acc[5 * i + 3] = <<"sda", Finder!Bus!Bit(b, i + 1)>>
                             /\ acc[5 * i + 4] = <<"scl", 1>>
                             /\ acc[5 * i + 5] = <<"poll", 1>>
                             /\ acc[5 * i + 6] = <<"scl", 0>>
        /\ acc[42] = <<"dir", 0>>
        /\ acc[43] = <<"scl", 1>>
        /\ acc[44] = <<"poll", 1>>
        /\ acc[45] = <<"ack", 1>>
        /\ acc[46] = <<"scl", 0>>
    BY <1>2, WriteAccesses
  <1>4. /\ todo' = After(acc, k + 1)
        /\ UNCHANGED <<calls, call, result>>
        /\ \A v \in {0, 1} : acc[k + 1] = <<"scl", v>> => ClockTo(v)
        /\ \A v \in {0, 1} : acc[k + 1] = <<"sda", v>> => DataTo(v)
        /\ \A v \in {0, 1} : acc[k + 1] = <<"dir", v>> => DirectionTo(v)
        /\ acc[k + 1] = <<"poll", 1>> => Polls
        /\ acc[k + 1] = <<"ack", 1>> => GetsAck
    <2>1. k \in 0 .. Len(acc) - 1 /\ acc \in Seq(Port) /\ todo = After(acc, k)
      BY <1>1, <1>3
    <2>. QED
      BY <2>1, AccessMade
  <1>5. /\ k = 0 => DirectionTo(1)
        /\ k = 41 => DirectionTo(0)
        /\ k = 42 => ClockTo(1)
        /\ k = 43 => Polls
        /\ k = 44 => GetsAck
        /\ k = 45 => ClockTo(0)
    <2>1. /\ k = 0 => k + 1 = 1
          /\ k = 41 => k + 1 = 42
          /\ k = 42 => k + 1 = 43
          /\ k = 43 => k + 1 = 44
          /\ k = 44 => k + 1 = 45
          /\ k = 45 => k + 1 = 46
      OBVIOUS
    <2>2. 0 \in {0, 1} /\ 1 \in {0, 1}
      OBVIOUS
    <2>. QED
      BY <1>3, <1>4, <2>1, <2>2, Zenon
  <1>6. ASSUME NEW i \in 0 .. 7
        PROVE  /\ k = 5 * i + 1 => ClockTo(0)
               /\ k = 5 * i + 2 => DataTo(Finder!Bus!Bit(b, i + 1))
               /\ k = 5 * i + 3 => ClockTo(1)
               /\ k = 5 * i + 4 => Polls
               /\ k = 5 * i + 5 => ClockTo(0)
    <2>1. /\ k = 5 * i + 1 => k + 1 = 5 * i + 2
          /\ k = 5 * i + 2 => k + 1 = 5 * i + 3
          /\ k = 5 * i + 3 => k + 1 = 5 * i + 4
          /\ k = 5 * i + 4 => k + 1 = 5 * i + 5
          /\ k = 5 * i + 5 => k + 1 = 5 * i + 6
      OBVIOUS
    <2>2. Finder!Bus!Bit(b, i + 1) \in {0, 1}
      BY <1>2, BitIs, SMTT(60)
    <2>. QED
      BY <1>3, <1>4, <2>1, <2>2
  <1>7. k = 45 => todo' = << >>
    <2>1. SUFFICES ASSUME k = 45 PROVE todo' = << >>
      OBVIOUS
    <2>2. acc \in Seq(Port) /\ Len(acc) = 46 /\ todo' = After(acc, 46) /\ 46 \in 0 .. Len(acc)
      BY <1>3, <1>4, <2>1
    <2>. QED
      BY <2>2, AfterStep
  <1>. QED
    BY <1>1, <1>2, <1>4, <1>5, <1>6, <1>7 DEF acc, b

LEMMA WriteBeginsPhase ==
  ASSUME WireTypeOK, WriteBegins, Finder!Bus!PortAccess
  PROVE  Room /\ LinkStep /\ Clocking(0, 0)'
  <1>1. /\ Under("write", 0) /\ noted = << >> /\ scl = 0 /\ Listens
    BY DEF WriteBegins, Fit
  <1>2. /\ todo' = After(Finder!Bus!Accesses(call), 0 + 1) /\ UNCHANGED <<calls, call, result>>
        /\ DirectionTo(1) /\ call.byte \in 0 .. 255
    <2>1. ASSUME NEW k \in 0 .. 45, k = 0
          PROVE  /\ todo' = After(Finder!Bus!Accesses(call), k + 1) /\ UNCHANGED <<calls, call, result>>
                 /\ DirectionTo(1) /\ call.byte \in 0 .. 255
      BY <1>1, <2>1, WriteUnderWay
    <2>2. 0 \in 0 .. 45
      OBVIOUS
    <2>. QED
      BY <2>1, <2>2
  <1>3. UNCHANGED <<mode, first, bits, shift, pull, noted>>
    BY <1>1, <1>2 DEF DirectionTo, Finder!Bus!SDABecomes, Finder!Bus!deviceVars
  <1>4. Under("write", 0 + 1)'
    BY <1>1, <1>2, <1>3, Advance
  <1>5. Heard(0)'
    BY <1>1, <1>2, <1>3, PrefixNext DEF Heard, Listens
  <1>6. 1 + 5 * 0 + 0 = 0 + 1
    OBVIOUS
  <1>. QED
    BY <1>1, <1>2, <1>3, <1>4, <1>5, <1>6 DEF Clocking, DirectionTo, Listens, Room, LinkStep

(* The five accesses of a bit, from any bit to the next.                   *)
LEMMA ClockingPhase ==
  ASSUME WireTypeOK, NEW i \in 0 .. 7, NEW j \in 0 .. 4, Clocking(i, j), Finder!Bus!PortAccess
  PROVE  /\ Room /\ LinkStep
         /\ j < 4 => Clocking(i, j + 1)'
         /\ j = 4 /\ i < 7 => Clocking(i + 1, 0)'
         /\ j = 4 /\ i = 7 => Answers(41)'
  <1> DEFINE k == 1 + 5 * i + j
  <1>1. k \in 0 .. 45 /\ k \in Nat
    OBVIOUS
  <1>2. /\ Under("write", k) /\ noted = << >> /\ ~pull /\ sdaDir = 1
        /\ mode = "hear"
        /\ j <= 2 => scl = 0 /\ bits = i /\ shift = Prefix(call.byte, i)
        /\ j > 2 => scl = 1 /\ bits = i + 1 /\ shift = Prefix(call.byte, i + 1)
        /\ j = 2 => sdaOut = Finder!Bus!Bit(call.byte, i + 1)
    BY DEF Clocking, Heard
  <1>3. /\ j = 0 => k = 5 * i + 1
        /\ j = 1 => k = 5 * i + 2
        /\ j = 2 => k = 5 * i + 3
        /\ j = 3 => k = 5 * i + 4
        /\ j = 4 => k = 5 * i + 5
    OBVIOUS
  <1> HIDE DEF k
  <1>4. /\ call # NONE /\ call.op = "write" /\ call \in Finder!Request /\ calls \in Seq(Finder!Request)
        /\ call.byte \in 0 .. 255
        /\ todo' = After(Finder!Bus!Accesses(call), k + 1)
        /\ UNCHANGED <<calls, call, result>>
        /\ j = 0 => ClockTo(0)
        /\ j = 1 => DataTo(Finder!Bus!Bit(call.byte, i + 1))
        /\ j = 2 => ClockTo(1)
        /\ j = 3 => Polls
        /\ j = 4 => ClockTo(0)
    <2>. Under("write", k) /\ k \in 0 .. 45
      BY <1>1, <1>2
    <2>1. /\ call # NONE /\ call.op = "write" /\ call \in Finder!Request /\ calls \in Seq(Finder!Request)
          /\ call.byte \in 0 .. 255
          /\ todo' = After(Finder!Bus!Accesses(call), k + 1)
          /\ UNCHANGED <<calls, call, result>>
      BY WriteUnderWay, ZenonT(60)
    <2>2. /\ k = 5 * i + 1 => ClockTo(0)
          /\ k = 5 * i + 2 => DataTo(Finder!Bus!Bit(call.byte, i + 1))
          /\ k = 5 * i + 3 => ClockTo(1)
          /\ k = 5 * i + 4 => Polls
          /\ k = 5 * i + 5 => ClockTo(0)
      BY WriteUnderWay
    <2>. QED
      BY <1>3, <2>1, <2>2
  <1>5. Room
    BY <1>2 DEF Room
  <1>6. first' = first => Under("write", k + 1)'
    BY <1>1, <1>2, <1>4, Advance
  <1>7. j < 4 => k + 1 = 1 + 5 * i + (j + 1)
    BY DEF k
  <1>8. CASE j = 0
    <2>1. ClockTo(0) /\ UNCHANGED <<mode, first, bits, shift, pull, noted>>
      BY <1>2, <1>4, <1>8 DEF ClockTo
    <2>2. Clocking(i, 1)'
      BY <1>2, <1>4, <1>6, <1>7, <1>8, <2>1 DEF Clocking, Heard, ClockTo
    <2>. QED
      BY <1>5, <1>8, <2>1, <2>2 DEF LinkStep
  <1>9. CASE j = 1
    <2>1. DataTo(Finder!Bus!Bit(call.byte, i + 1)) /\ UNCHANGED <<mode, first, bits, shift, pull, noted>>
      BY <1>2, <1>4, <1>9 DEF DataTo, Finder!Bus!SDABecomes, Finder!Bus!deviceVars
    <2>2. sdaOut' = Finder!Bus!Bit(call.byte', i + 1)
      BY <1>4, <2>1 DEF DataTo
    <2>3. Clocking(i, 2)'
      BY <1>2, <1>4, <1>6, <1>7, <1>9, <2>1, <2>2 DEF Clocking, Heard, DataTo
    <2>. QED
      BY <1>5, <1>9, <2>1, <2>3 DEF LinkStep
  <1>10. CASE j = 2
    <2>1. ClockTo(1) /\ Finder!Bus!HearBit
      BY <1>2, <1>4, <1>10 DEF ClockTo, Finder!Bus!OnRise, Finder!Bus!BitSent, Finder!Bus!HearAck
    <2>2. Finder!Bus!SDA = Finder!Bus!Bit(call.byte, i + 1)
      BY <1>2, <1>10 DEF Finder!Bus!SDA
    <2>3. shift' = Prefix(call.byte, i + 1)
      <3>1. call.byte \in 0 .. 255
        BY <1>4
      <3>2. (2 * Prefix(call.byte, i) + Finder!Bus!Bit(call.byte, i + 1)) % 256 = Prefix(call.byte, i + 1)
        BY <3>1, PrefixNext, SMTT(60)
      <3>3. shift' = (2 * shift + Finder!Bus!SDA) % 256 /\ shift = Prefix(call.byte, i)
        BY <1>2, <1>10, <2>1 DEF Finder!Bus!HearBit
      <3>. QED
        BY <2>2, <3>2, <3>3
    <2>4. bits' = i + 1 /\ UNCHANGED <<mode, first, pull, noted>>
      BY <1>2, <1>10, <2>1 DEF Finder!Bus!HearBit
    <2>5. Clocking(i, 3)'
      BY <1>2, <1>4, <1>6, <1>7, <1>10, <2>1, <2>3, <2>4 DEF Clocking, Heard, ClockTo
    <2>. QED
      BY <1>5, <1>10, <2>4, <2>5 DEF LinkStep
  <1>11. CASE j = 3
    <2>1. Polls
      BY <1>4, <1>11
    <2>2. Clocking(i, 4)'
      BY <1>2, <1>4, <1>6, <1>7, <1>11, <2>1 DEF Clocking, Heard, Polls
    <2>. QED
      BY <1>5, <1>11, <2>1, <2>2 DEF LinkStep, Polls
  <1>12. CASE j = 4 /\ i < 7
    <2>1. ClockTo(0) /\ UNCHANGED <<mode, first, bits, shift, pull, noted>>
      BY <1>2, <1>4, <1>12 DEF ClockTo, Finder!Bus!OnFall, Finder!Bus!ByteHeard, Finder!Bus!HearNext,
           Finder!Bus!Talk, Finder!Bus!SendBit, Finder!Bus!ByteSent, Finder!Bus!Addressed, Finder!Bus!deviceVars
    <2>2. k + 1 = 1 + 5 * (i + 1) + 0
      BY <1>12 DEF k
    <2>3. Clocking(i + 1, 0)'
      BY <1>2, <1>4, <1>6, <1>12, <2>1, <2>2 DEF Clocking, Heard, ClockTo
    <2>. QED
      BY <1>5, <1>12, <2>1, <2>3 DEF LinkStep
  <1>13. CASE j = 4 /\ i = 7
    <2>1. ClockTo(0) /\ Finder!Bus!ByteHeard
      BY <1>2, <1>4, <1>13 DEF ClockTo, Finder!Bus!OnFall, Finder!Bus!HearNext,
           Finder!Bus!Talk, Finder!Bus!SendBit, Finder!Bus!ByteSent, Finder!Bus!Addressed
    <2>2. PICK a \in BOOLEAN : /\ noted' = Append(noted, [op |-> "write", byte |-> shift, ack |-> a])
                               /\ mode' = IF a THEN "ack" ELSE "off"
                               /\ pull' = a
      BY <2>1 DEF Finder!Bus!ByteHeard, Finder!Bus!Note
    <2>3. shift = call.byte
      <3>1. call.byte \in 0 .. 255
        BY <1>4
      <3>2. shift = Prefix(call.byte, i + 1) /\ i + 1 = 8
        BY <1>2, <1>13
      <3>3. Prefix(call.byte, 8) = call.byte
        BY <3>1, PrefixNext
      <3>. QED
        BY <3>2, <3>3
    <2>4. call = [op |-> "write", byte |-> call.byte, ack |-> FALSE]
      BY <1>4, RequestIs
    <2>5. noted' = <<[op |-> "write", byte |-> call.byte, ack |-> a]>>
      BY <1>2, <2>2, <2>3
    <2>6. [call EXCEPT !.ack = a] = [op |-> "write", byte |-> call.byte, ack |-> a]
      BY <2>4
    <2>7. LinkStep
      <3>1. [op |-> "write", byte |-> call.byte, ack |-> a] \in Finder!Event
        BY <1>4, FinderAssumption DEF Finder!ByteAssumption, Finder!Event
      <3>2. Finder!Hear([op |-> "write", byte |-> call.byte, ack |-> a])
        BY <1>2, <1>4, <2>5 DEF Finder!Hear
      <3>. QED
        BY <3>1, <3>2 DEF LinkStep
    <2>8. UNCHANGED <<first, shift, sdaDir>> /\ scl' = 0
      BY <2>1 DEF Finder!Bus!ByteHeard, ClockTo
    <2>9. k + 1 = 41
      BY <1>13 DEF k
    <2>10. noted' = <<[call' EXCEPT !.ack = pull']>>
      BY <1>4, <2>2, <2>5, <2>6
    <2>11. mode' = IF pull' THEN "ack" ELSE "off"
      BY <2>2
    <2>12. Answers(41)'
      BY <1>4, <1>6, <2>3, <2>8, <2>9, <2>10, <2>11 DEF Answers
    <2>. QED
      BY <1>5, <1>13, <2>7, <2>12
  <1>. QED
    BY <1>8, <1>9, <1>10, <1>11, <1>12, <1>13

LEMMA SameTruth == \A a \in BOOLEAN, b \in BOOLEAN : (a <=> b) => a = b
  OBVIOUS

(* The device's acknowledgement is sampled.                                *)
LEMMA AnswersPhase ==
  ASSUME WireTypeOK, NEW k \in 41 .. 45, Answers(k), Finder!Bus!PortAccess
  PROVE  Room /\ LinkStep /\ (IF k < 45 THEN Answers(k + 1)' ELSE Returns')
  <1>1. /\ Under("write", k) /\ k \in 0 .. 45 /\ k \in Nat
        /\ noted = <<[call EXCEPT !.ack = pull]>>
        /\ mode = (IF pull THEN "ack" ELSE "off")
        /\ shift = call.byte
    BY DEF Answers
  <1>2. /\ call # NONE /\ call.op = "write" /\ call \in Finder!Request /\ calls \in Seq(Finder!Request)
        /\ call.byte \in 0 .. 255
        /\ todo' = After(Finder!Bus!Accesses(call), k + 1)
        /\ UNCHANGED <<calls, call, result>>
    <2>. Under("write", k) /\ k \in 0 .. 45
      BY <1>1
    <2>. QED
      BY WriteUnderWay, ZenonT(60)
  <1>3. /\ k = 41 => DirectionTo(0)
        /\ k = 42 => ClockTo(1)
        /\ k = 43 => Polls
        /\ k = 44 => GetsAck
        /\ k = 45 => ClockTo(0) /\ todo' = << >>
    <2>1. Under("write", k) /\ k \in 0 .. 45
      BY <1>1
    <2>2. 5 * 8 + 1 = 41
      OBVIOUS
    <2>3. ASSUME NEW n \in 0 .. 45, Under("write", n)
          PROVE  /\ n = 41 => DirectionTo(0)
                 /\ n = 42 => ClockTo(1)
                 /\ n = 43 => Polls
                 /\ n = 44 => GetsAck
                 /\ n = 45 => ClockTo(0) /\ todo' = << >>
      BY <2>3, WriteUnderWay
    <2>. QED
      BY <2>1, <2>3
  <1>4. first' = first => Under("write", k + 1)'
    BY <1>1, <1>2, Advance
  <1>5. Room
    BY <1>1 DEF Room
  <1>6. CASE k = 41
    <2>1. DirectionTo(0) /\ scl = 0
      BY <1>3, <1>6 DEF Answers
    <2>2. UNCHANGED <<mode, first, bits, shift, pull, noted>>
      BY <2>1 DEF DirectionTo, Finder!Bus!SDABecomes, Finder!Bus!deviceVars
    <2>3. Answers(42)'
      BY <1>1, <1>2, <1>4, <1>6, <2>1, <2>2 DEF Answers, DirectionTo
    <2>. QED
      BY <1>5, <1>6, <2>2, <2>3 DEF LinkStep
  <1>7. CASE k = 42
    <2>1. ClockTo(1) /\ scl = 0 /\ sdaDir = 0
      BY <1>3, <1>7 DEF Answers
    <2>2. UNCHANGED <<mode, first, bits, shift, pull, noted>>
      BY <1>1, <2>1
      DEF ClockTo, Finder!Bus!OnRise, Finder!Bus!HearBit, Finder!Bus!BitSent, Finder!Bus!HearAck,
           Finder!Bus!deviceVars
    <2>3. Answers(43)'
      BY <1>1, <1>2, <1>4, <1>7, <2>1, <2>2 DEF Answers, ClockTo
    <2>. QED
      BY <1>5, <1>7, <2>2, <2>3 DEF LinkStep
  <1>8. CASE k = 43
    <2>1. Polls /\ sdaDir = 0
      BY <1>3, <1>8 DEF Answers
    <2>2. Answers(44)'
      BY <1>1, <1>2, <1>4, <1>8, <2>1 DEF Answers, Polls
    <2>. QED
      BY <1>5, <1>8, <2>1, <2>2 DEF LinkStep, Polls
  <1>9. CASE k = 44
    <2>1. GetsAck /\ sdaDir = 0 /\ scl = 1
      BY <1>3, <1>9 DEF Answers
    <2>2. bAck' <=> pull
      <3>1. Finder!Bus!SDA = 0 <=> pull
        BY <2>1 DEF Finder!Bus!SDA
      <3>2. bAck' = (Finder!Bus!SDA = 0)
        BY <2>1 DEF GetsAck
      <3>. QED
        BY <3>1, <3>2, Zenon
    <2>3. Answers(45)'
      BY <1>1, <1>2, <1>4, <1>9, <2>1, <2>2 DEF Answers, GetsAck
    <2>. QED
      BY <1>5, <1>9, <2>1, <2>3 DEF LinkStep, GetsAck
  <1>10. CASE k = 45
    <2>1. ClockTo(0) /\ scl = 1 /\ (bAck <=> pull) /\ todo' = << >>
      BY <1>3, <1>10 DEF Answers
    <2>2. bAck' = bAck /\ scl' = 0 /\ bAck = pull
      <3>1. bAck \in BOOLEAN /\ pull \in BOOLEAN
        BY DEF WireTypeOK
      <3>2. bAck = pull
        BY <2>1, <3>1, SameTruth
      <3>. QED
        BY <2>1, <3>2 DEF ClockTo
    <2>3. Ordered(<<call>> \o calls, first)
      BY <1>1 DEF Under
    <2>4. /\ calls # << >> /\ Ordered(calls, FALSE)
          /\ Head(calls).op = "read" <=> call.byte % 2 = 1 /\ first
          /\ Head(calls).op \in {"start", "stop", "write", "read"}
      <3>1. /\ call.op = "stop" <=> calls = << >>
            /\ calls # << >> =>
                 /\ Ordered(calls, call.op = "start")
                 /\ Head(calls).op = "read" <=> \/ call.op = "write" /\ call.byte % 2 = 1 /\ first
                                                \/ call.op = "read" /\ call.ack
        BY <1>2, <2>3, OrderedRest
      <3>2. calls # << >>
        BY <1>2, <3>1
      <3>3. (call.op = "start") = FALSE
        BY <1>2
      <3>4. Ordered(calls, FALSE)
        BY <3>1, <3>2, <3>3
      <3>5. Head(calls) \in Finder!Request
        BY <1>2, <3>2
      <3>6. Head(calls).op \in {"start", "stop", "write", "read"}
        BY <3>5, RequestIs
      <3>. QED
        BY <1>2, <3>1, <3>2, <3>4, <3>6
    <2>5. Finder!Bus!Outcome' = [call EXCEPT !.ack = pull]
      BY <1>2, <2>2 DEF Finder!Bus!Outcome
    <2>6. call = [op |-> "write", byte |-> call.byte, ack |-> FALSE]
      BY <1>2, RequestIs
    <2>7. [call EXCEPT !.ack = pull].op = "write" /\ [call EXCEPT !.ack = pull].ack = pull
      BY <2>6
    <2>8. Finder!Refused([call EXCEPT !.ack = pull]) <=> ~pull
      BY <2>7 DEF Finder!Refused
    <2>9. FitWhen!1' /\ FitWhen!2' /\ FitWhen!4'
      BY FitWhen, PTL
    <2>10. CASE ~pull
      <3>1. UNCHANGED <<mode, first, bits, shift, pull, noted>>
        BY <1>1, <2>1, <2>10 DEF ClockTo, Finder!Bus!OnFall, Finder!Bus!ByteHeard, Finder!Bus!HearNext,
           Finder!Bus!Talk, Finder!Bus!SendBit, Finder!Bus!ByteSent, Finder!Bus!Addressed, Finder!Bus!deviceVars
      <3>2. Silent'
        BY <1>1, <2>10, <3>1 DEF Silent
      <3>3. noted' = <<Finder!Bus!Outcome'>>
        BY <1>1, <2>5, <3>1
      <3>4. Ended'
        BY <2>2, <2>5, <2>8, <2>10, <3>2, <3>3 DEF Ended
      <3>. QED
        BY <1>2, <1>5, <1>10, <2>1, <3>1, <3>4 DEF LinkStep, Returns
    <2>11. CASE pull
      <3>1. Finder!Bus!HearNext \/ (Finder!Bus!Talk /\ Finder!Bus!Addressed)
        BY <1>1, <2>1, <2>11 DEF ClockTo, Finder!Bus!OnFall, Finder!Bus!ByteHeard, 
           Finder!Bus!Talk, Finder!Bus!SendBit, Finder!Bus!ByteSent
      <3>2. first' = FALSE /\ noted' = noted /\ bits' = 0
        BY <3>1 DEF Finder!Bus!HearNext, Finder!Bus!Talk
      <3>3. noted' = <<Finder!Bus!Outcome'>>
        BY <1>1, <2>5, <3>2
      <3>4. Ordered(calls, first')
        BY <2>4, <3>2
      <3>5. CASE Finder!Bus!HearNext
        <4>1. Listens'
          BY <3>5 DEF Finder!Bus!HearNext, Listens
        <4>2. Head(calls).op # "read"
          BY <1>1, <2>4, <3>5 DEF Finder!Bus!HearNext, Finder!Bus!Addressed
        <4>. QED
          <5>1. Awaits(calls, first)'
            BY <1>2, <2>2, <2>4, <2>9, <3>4, <4>1, <4>2 DEF Awaits
          <5>2. Ended'
            BY <2>5, <2>8, <2>11, <3>3, <5>1 DEF Ended
          <5>. QED
            BY <1>2, <1>5, <1>10, <2>1, <3>2, <5>2 DEF LinkStep, Returns
      <3>6. CASE Finder!Bus!Talk /\ Finder!Bus!Addressed
        <4>1. PICK b \in AnyByte : shift' = b /\ pull' = (Finder!Bus!Bit(b, 1) = 0)
          BY <3>6 DEF Finder!Bus!Talk
        <4>2. mode' = "talk" /\ (pull' <=> Finder!Bus!Bit(shift', 1) = 0)
          BY <3>6, <4>1 DEF Finder!Bus!Talk
        <4>3. Head(calls).op = "read"
          BY <1>1, <2>4, <3>6 DEF Finder!Bus!Addressed
        <4>. QED
          <5>1. Fit("read")'
            BY <2>2, <2>9, <3>2, <4>2
          <5>2. Awaits(calls, first)'
            BY <1>2, <2>4, <3>4, <4>3, <5>1 DEF Awaits
          <5>3. Ended'
            BY <2>5, <2>8, <2>11, <3>3, <5>2 DEF Ended
          <5>. QED
            BY <1>2, <1>5, <1>10, <2>1, <3>2, <5>3 DEF LinkStep, Returns
      <3>. QED
        BY <3>1, <3>5, <3>6
    <2>. QED
      BY <2>10, <2>11
  <1>. QED
    BY <1>6, <1>7, <1>8, <1>9, <1>10

-----------------------------------------------------------------------------
(* A byte is read.                                                         *)
LEMMA ReadUnderWay ==
  ASSUME WireTypeOK, NEW k \in 0 .. 40,
         call # NONE, call.op = "read", todo = After(Finder!Bus!Accesses(call), k), Finder!Bus!PortAccess
  PROVE  /\ call \in Finder!Request /\ calls \in Seq(Finder!Request)
         /\ call.ack \in BOOLEAN
         /\ todo' = After(Finder!Bus!Accesses(call), k + 1)
         /\ UNCHANGED <<calls, call, result>>
         /\ k = 0 => DirectionTo(0)
         /\ k = 1 => ClockTo(0)
         /\ \A i \in 0 .. 7 : /\ k = 4 * i + 2 => ClockTo(1)
                              /\ k = 4 * i + 3 => Polls
                              /\ k = 4 * i + 4 => GetsBit
                              /\ k = 4 * i + 5 => ClockTo(0)
         /\ k = 34 => ClockTo(0)
         /\ k = 35 => DirectionTo(1)
         /\ k = 36 => DataTo(IF call.ack THEN 0 ELSE 1)
         /\ k = 37 => ClockTo(1)
         /\ k = 38 => Polls
         /\ k = 39 => ClockTo(0)
         /\ k = 40 => DataTo(0) /\ todo' = << >>
  <1> DEFINE acc == Finder!Bus!Accesses(call)
             a == call.ack
  <1>1. /\ call \in Finder!Request /\ calls \in Seq(Finder!Request)
        /\ acc = Finder!Bus!i2c_read(a)
    BY CallUnderWay, AccessesOf
  <1>2. a \in BOOLEAN
    BY <1>1, RequestIs
  <1>. acc = Finder!Bus!i2c_read(a) /\ todo = After(acc, k)
    BY <1>1
  <1> HIDE DEF acc, a
  <1>3. /\ acc \in Seq(Port) /\ Len(acc) = 41
        /\ acc[1] = <<"dir", 0>>
        /\ acc[2] = <<"scl", 0>>
        /\ \A i \in 0 .. 7 : /\ acc[4 * i + 3] = <<"scl", 1>>
                             /\ acc[4 * i + 4] = <<"poll", 1>>
                             /\ acc[4 * i + 5] = <<"bit", 1>>
                             /\ acc[4 * i + 6] = <<"scl", 0>>
        /\ acc[35] = <<"scl", 0>>
        /\ acc[36] = <<"dir", 1>>
        /\ acc[37] = <<"sda", IF a THEN 0 ELSE 1>>
        /\ acc[38] = <<"scl", 1>>
        /\ acc[39] = <<"poll", 1>>
        /\ acc[40] = <<"scl", 0>>
        /\ acc[41] = <<"sda", 0>>
    BY <1>2, ReadAccesses
  <1>4. /\ todo' = After(acc, k + 1)
        /\ UNCHANGED <<calls, call, result>>
        /\ \A v \in {0, 1} : acc[k + 1] = <<"scl", v>> => ClockTo(v)
        /\ \A v \in {0, 1} : acc[k + 1] = <<"sda", v>> => DataTo(v)
        /\ \A v \in {0, 1} : acc[k + 1] = <<"dir", v>> => DirectionTo(v)
        /\ acc[k + 1] = <<"poll", 1>> => Polls
        /\ acc[k + 1] = <<"bit", 1>> => GetsBit
    <2>1. k \in 0 .. Len(acc) - 1 /\ acc \in Seq(Port) /\ todo = After(acc, k)
      BY <1>3
    <2>. QED
      BY <2>1, AccessMade
  <1>5. /\ k = 0 => DirectionTo(0)
        /\ k = 1 => ClockTo(0)
        /\ k = 34 => ClockTo(0)
        /\ k = 35 => DirectionTo(1)
        /\ k = 36 => DataTo(IF a THEN 0 ELSE 1)
        /\ k = 37 => ClockTo(1)
        /\ k = 38 => Polls
        /\ k = 39 => ClockTo(0)
        /\ k = 40 => DataTo(0)
    <2>1. /\ k = 0 => k + 1 = 1
          /\ k = 1 => k + 1 = 2
          /\ k = 34 => k + 1 = 35
          /\ k = 35 => k + 1 = 36
          /\ k = 36 => k + 1 = 37
          /\ k = 37 => k + 1 = 38
          /\ k = 38 => k + 1 = 39
          /\ k = 39 => k + 1 = 40
          /\ k = 40 => k + 1 = 41
      OBVIOUS
    <2>2. 0 \in {0, 1} /\ 1 \in {0, 1} /\ (IF a THEN 0 ELSE 1) \in {0, 1}
      OBVIOUS
    <2>. QED
      BY <1>3, <1>4, <2>1, <2>2, ZenonT(60)
  <1>6. ASSUME NEW i \in 0 .. 7
        PROVE  /\ k = 4 * i + 2 => ClockTo(1)
               /\ k = 4 * i + 3 => Polls
               /\ k = 4 * i + 4 => GetsBit
               /\ k = 4 * i + 5 => ClockTo(0)
    <2>1. /\ k = 4 * i + 2 => k + 1 = 4 * i + 3
          /\ k = 4 * i + 3 => k + 1 = 4 * i + 4
          /\ k = 4 * i + 4 => k + 1 = 4 * i + 5
          /\ k = 4 * i + 5 => k + 1 = 4 * i + 6
      OBVIOUS
    <2>. QED
      BY <1>3, <1>4, <2>1
  <1>7. k = 40 => todo' = << >>
    <2>1. SUFFICES ASSUME k = 40 PROVE todo' = << >>
      OBVIOUS
    <2>2. acc \in Seq(Port) /\ Len(acc) = 41 /\ todo' = After(acc, 41) /\ 41 \in 0 .. Len(acc)
      BY <1>3, <1>4, <2>1
    <2>. QED
      BY <2>2, AfterStep
  <1>. QED
    BY <1>1, <1>2, <1>4, <1>5, <1>6, <1>7 DEF acc, a

LEMMA ReadBeginsPhase ==
  ASSUME WireTypeOK, NEW k \in 0 .. 1, ReadBegins(k), Finder!Bus!PortAccess
  PROVE  Room /\ LinkStep /\ (IF k = 0 THEN ReadBegins(1)' ELSE Sampling(0, 0)')
  <1>1. /\ Under("read", k) /\ noted = << >> /\ Data = 0 /\ scl = 0 /\ mode = "talk" /\ bits = 0
        /\ (pull <=> Finder!Bus!Bit(shift, 1) = 0) /\ (k = 1 => sdaDir = 0)
        /\ call # NONE /\ call.op = "read" /\ todo = After(Finder!Bus!Accesses(call), k)
    BY DEF ReadBegins, Fit, Under
  <1>2. /\ todo' = After(Finder!Bus!Accesses(call), k + 1) /\ UNCHANGED <<calls, call, result>>
        /\ k = 0 => DirectionTo(0)
        /\ k = 1 => ClockTo(0)
    <2>. k \in 0 .. 40 /\ call # NONE /\ call.op = "read" /\ todo = After(Finder!Bus!Accesses(call), k)
      BY <1>1
    <2>. QED
      BY ReadUnderWay
  <1>3. UNCHANGED <<mode, first, bits, shift, pull, noted>>
    BY <1>1, <1>2 DEF DirectionTo, ClockTo, Finder!Bus!SDABecomes, Finder!Bus!deviceVars
  <1>4. Under("read", k + 1)'
    BY <1>1, <1>2, <1>3, Advance
  <1>5. Room /\ LinkStep
    BY <1>1, <1>3 DEF Room, LinkStep
  <1>6. CASE k = 0
    <2>1. Fit("read")'
      <3>1. FitWhen!4'
        BY FitWhen, PTL
      <3>. QED
        BY <1>1, <1>2, <1>3, <1>6, <3>1 DEF DirectionTo
    <2>. QED
      BY <1>1, <1>2, <1>3, <1>4, <1>5, <1>6, <2>1 DEF ReadBegins, DirectionTo
  <1>7. CASE k = 1
    <2>1. k + 1 = 2 + 4 * 0 + 0 /\ 0 + 1 = 1
      BY <1>7
    <2>2. ClockTo(0)
      BY <1>2, <1>7
    <2>3. Data' = Prefix(shift', 0)
      BY <1>1, <2>2 DEF ClockTo, Prefix
    <2>4. (pull <=> Finder!Bus!Bit(shift, 0 + 1) = 0)'
      BY <1>1, <1>3, <2>1
    <2>5. Under("read", 2 + 4 * 0 + 0)'
      BY <1>4, <2>1
    <2>. QED
      BY <1>1, <1>3, <1>5, <1>7, <2>2, <2>3, <2>4, <2>5 DEF Sampling, ClockTo
  <1>. QED
    BY <1>6, <1>7

(* The four accesses of a bit read.                                        *)
LEMMA SamplingPhase ==
  ASSUME WireTypeOK, NEW i \in 0 .. 7, NEW j \in 0 .. 3, Sampling(i, j), Finder!Bus!PortAccess
  PROVE  /\ Room /\ LinkStep
         /\ j < 3 => Sampling(i, j + 1)'
         /\ j = 3 /\ i < 7 => Sampling(i + 1, 0)'
         /\ j = 3 /\ i = 7 => Sent(34)'
  <1> DEFINE k == 2 + 4 * i + j
  <1>1. k \in 0 .. 40 /\ k \in Nat
    OBVIOUS
  <1>2. /\ Under("read", k) /\ noted = << >> /\ sdaDir = 0
        /\ mode = "talk"
        /\ pull <=> Finder!Bus!Bit(shift, i + 1) = 0
        /\ j = 0 => scl = 0 /\ bits = i
        /\ j # 0 => scl = 1 /\ bits = i + 1
        /\ j = 3 => Data = Prefix(shift, i + 1)
        /\ j # 3 => Data = Prefix(shift, i)
        /\ call # NONE /\ call.op = "read" /\ todo = After(Finder!Bus!Accesses(call), k)
    BY DEF Sampling, Under
  <1>3. /\ j = 0 => k = 4 * i + 2
        /\ j = 1 => k = 4 * i + 3
        /\ j = 2 => k = 4 * i + 4
        /\ j = 3 => k = 4 * i + 5
    OBVIOUS
  <1> HIDE DEF k
  <1>4. /\ call \in Finder!Request /\ calls \in Seq(Finder!Request)
        /\ todo' = After(Finder!Bus!Accesses(call), k + 1)
        /\ UNCHANGED <<calls, call, result>>
        /\ j = 0 => ClockTo(1)
        /\ j = 1 => Polls
        /\ j = 2 => GetsBit
        /\ j = 3 => ClockTo(0)
    <2>. k \in 0 .. 40 /\ call # NONE /\ call.op = "read" /\ todo = After(Finder!Bus!Accesses(call), k)
      BY <1>1, <1>2
    <2>1. /\ call \in Finder!Request /\ calls \in Seq(Finder!Request)
          /\ todo' = After(Finder!Bus!Accesses(call), k + 1)
          /\ UNCHANGED <<calls, call, result>>
      BY ReadUnderWay
    <2>2. /\ k = 4 * i + 2 => ClockTo(1)
          /\ k = 4 * i + 3 => Polls
          /\ k = 4 * i + 4 => GetsBit
          /\ k = 4 * i + 5 => ClockTo(0)
      BY ReadUnderWay
    <2>. QED
      BY <1>3, <2>1, <2>2
  <1>5. Room
    BY <1>2 DEF Room
  <1>6. first' = first => Under("read", k + 1)'
    BY <1>1, <1>2, <1>4, Advance
  <1>7. j < 3 => k + 1 = 2 + 4 * i + (j + 1)
    BY DEF k
  <1>8. CASE j = 0
    <2>1. ClockTo(1) /\ Finder!Bus!BitSent
      BY <1>2, <1>4, <1>8 DEF ClockTo, Finder!Bus!OnRise, Finder!Bus!HearBit, Finder!Bus!HearAck
    <2>2. bits' = i + 1 /\ UNCHANGED <<mode, first, shift, pull, noted>>
      BY <1>2, <1>8, <2>1 DEF Finder!Bus!BitSent
    <2>3. Sampling(i, 1)'
      BY <1>2, <1>4, <1>6, <1>7, <1>8, <2>1, <2>2 DEF Sampling, ClockTo
    <2>. QED
      BY <1>5, <1>8, <2>2, <2>3 DEF LinkStep
  <1>9. CASE j = 1
    <2>1. Polls
      BY <1>4, <1>9
    <2>2. Sampling(i, 2)'
      BY <1>2, <1>4, <1>6, <1>7, <1>9, <2>1 DEF Sampling, Polls
    <2>. QED
      BY <1>5, <1>9, <2>1, <2>2 DEF LinkStep, Polls
  <1>10. CASE j = 2
    <2>1. GetsBit
      BY <1>4, <1>10
    <2>2. shift \in 0 .. 255
      BY DEF WireTypeOK
    <2>3. Finder!Bus!SDA = Finder!Bus!Bit(shift, i + 1)
      <3>1. Finder!Bus!Bit(shift, i + 1) \in {0, 1}
        BY <2>2, BitIs
      <3>. QED
        BY <1>2, <3>1 DEF Finder!Bus!SDA
    <2>4. Data' = Prefix(shift, i + 1)
      <3>1. (2 * Prefix(shift, i) + Finder!Bus!Bit(shift, i + 1)) % 256 = Prefix(shift, i + 1)
        BY <2>2, PrefixNext, SMTT(60)
      <3>2. Data' = (2 * Data + Finder!Bus!SDA) % 256 /\ Data = Prefix(shift, i)
        BY <1>2, <1>10, <2>1 DEF GetsBit
      <3>. QED
        BY <2>3, <3>1, <3>2
    <2>5. Sampling(i, 3)'
      BY <1>2, <1>4, <1>6, <1>7, <1>10, <2>1, <2>4 DEF Sampling, GetsBit
    <2>. QED
      BY <1>5, <1>10, <2>1, <2>5 DEF LinkStep, GetsBit
  <1>11. CASE j = 3 /\ i < 7
    <2>1. ClockTo(0) /\ Finder!Bus!SendBit
      BY <1>2, <1>4, <1>11 DEF ClockTo, Finder!Bus!OnFall, Finder!Bus!ByteHeard, Finder!Bus!HearNext,
           Finder!Bus!Talk, Finder!Bus!ByteSent, Finder!Bus!Addressed
    <2>2. UNCHANGED <<mode, first, bits, shift, noted>> /\ (pull' <=> Finder!Bus!Bit(shift, i + 1 + 1) = 0)
      <3>1. /\ pull' = (Finder!Bus!Bit(shift, bits + 1) = 0) /\ bits = i + 1
            /\ UNCHANGED <<mode, first, bits, shift, noted>>
        BY <1>2, <1>11, <2>1 DEF Finder!Bus!SendBit
      <3>. QED
        BY <3>1, Zenon
    <2>3. k + 1 = 2 + 4 * (i + 1) + 0
      BY <1>11 DEF k
    <2>4. Sampling(i + 1, 0)'
      BY <1>2, <1>4, <1>6, <1>11, <2>1, <2>2, <2>3 DEF Sampling, ClockTo
    <2>. QED
      BY <1>5, <1>11, <2>2, <2>4 DEF LinkStep
  <1>12. CASE j = 3 /\ i = 7
    <2>1. ClockTo(0) /\ Finder!Bus!ByteSent
      BY <1>2, <1>4, <1>12 DEF ClockTo, Finder!Bus!OnFall, Finder!Bus!ByteHeard, Finder!Bus!HearNext,
           Finder!Bus!Talk, Finder!Bus!SendBit, Finder!Bus!Addressed
    <2>2. shift = Data
      <3>1. shift \in 0 .. 255
        BY DEF WireTypeOK
      <3>2. Prefix(shift, 8) = shift
        BY <3>1, PrefixNext
      <3>3. i + 1 = 8 /\ Data = Prefix(shift, i + 1)
        BY <1>2, <1>12
      <3>. QED
        BY <3>2, <3>3
    <2>3. k + 1 = 34
      BY <1>12 DEF k
    <2>4. mode' = "sent" /\ ~pull' /\ UNCHANGED <<first, bits, shift, noted>>
      BY <2>1 DEF Finder!Bus!ByteSent
    <2>5. Sent(34)'
      BY <1>2, <1>4, <1>6, <1>12, <2>1, <2>2, <2>3, <2>4 DEF Sent, ClockTo
    <2>. QED
      BY <1>5, <1>12, <2>4, <2>5 DEF LinkStep
  <1>. QED
    BY <1>8, <1>9, <1>10, <1>11, <1>12

(* The byte is acknowledged, or not.                                       *)
LEMMA SentPhase ==
  ASSUME WireTypeOK, NEW k \in 34 .. 39, Sent(k), Finder!Bus!PortAccess
  PROVE  Room /\ LinkStep /\ (IF k < 39 THEN Sent(k + 1)' ELSE LastAccess')
  <1>1. /\ Under("read", k) /\ k \in 0 .. 40 /\ k \in Nat /\ ~pull
        /\ call # NONE /\ call.op = "read" /\ todo = After(Finder!Bus!Accesses(call), k)
        /\ k <= 37 => scl = 0 /\ mode = "sent" /\ shift = Data /\ noted = << >>
        /\ k >= 36 => sdaDir = 1
        /\ k >= 37 => sdaOut = IF call.ack THEN 0 ELSE 1
        /\ k >= 38 => /\ scl = 1 /\ noted = <<[call EXCEPT !.byte = Data]>>
                      /\ mode = IF call.ack THEN "more" ELSE "off"
    BY DEF Sent, Under
  <1>2. /\ call \in Finder!Request /\ calls \in Seq(Finder!Request)
        /\ call.ack \in BOOLEAN
        /\ todo' = After(Finder!Bus!Accesses(call), k + 1)
        /\ UNCHANGED <<calls, call, result>>
        /\ k = 34 => ClockTo(0)
        /\ k = 35 => DirectionTo(1)
        /\ k = 36 => DataTo(IF call.ack THEN 0 ELSE 1)
        /\ k = 37 => ClockTo(1)
        /\ k = 38 => Polls
        /\ k = 39 => ClockTo(0)
    <2>. k \in 0 .. 40 /\ call # NONE /\ call.op = "read" /\ todo = After(Finder!Bus!Accesses(call), k)
      BY <1>1
    <2>1. /\ call \in Finder!Request /\ calls \in Seq(Finder!Request)
          /\ call.ack \in BOOLEAN
          /\ todo' = After(Finder!Bus!Accesses(call), k + 1)
          /\ UNCHANGED <<calls, call, result>>
      BY ReadUnderWay
    <2>2. /\ k = 34 => ClockTo(0)
          /\ k = 35 => DirectionTo(1)
          /\ k = 36 => DataTo(IF call.ack THEN 0 ELSE 1)
          /\ k = 37 => ClockTo(1)
          /\ k = 38 => Polls
          /\ k = 39 => ClockTo(0)
      BY ReadUnderWay
    <2>. QED
      BY <2>1, <2>2
  <1>3. Room
    BY <1>1 DEF Room
  <1>4. first' = first => Under("read", k + 1)'
    BY <1>1, <1>2, Advance
  <1>5. CASE k = 34
    <2>1. ClockTo(0) /\ UNCHANGED <<mode, first, bits, shift, pull, noted>>
      BY <1>1, <1>2, <1>5 DEF ClockTo
    <2>2. Sent(35)'
      BY <1>1, <1>2, <1>4, <1>5, <2>1 DEF Sent, ClockTo
    <2>. QED
      BY <1>3, <1>5, <2>1, <2>2 DEF LinkStep
  <1>6. CASE k = 35
    <2>1. DirectionTo(1) /\ UNCHANGED <<mode, first, bits, shift, pull, noted>>
      BY <1>1, <1>2, <1>6 DEF DirectionTo, Finder!Bus!SDABecomes, Finder!Bus!deviceVars
    <2>2. Sent(36)'
      BY <1>1, <1>2, <1>4, <1>6, <2>1 DEF Sent, DirectionTo
    <2>. QED
      BY <1>3, <1>6, <2>1, <2>2 DEF LinkStep
  <1>7. CASE k = 36
    <2>1. DataTo(IF call.ack THEN 0 ELSE 1) /\ UNCHANGED <<mode, first, bits, shift, pull, noted>>
      BY <1>1, <1>2, <1>7 DEF DataTo, Finder!Bus!SDABecomes, Finder!Bus!deviceVars
    <2>2. Sent(37)'
      BY <1>1, <1>2, <1>4, <1>7, <2>1 DEF Sent, DataTo
    <2>. QED
      BY <1>3, <1>7, <2>1, <2>2 DEF LinkStep
  <1>8. CASE k = 37
    <2>1. ClockTo(1) /\ Finder!Bus!HearAck
      BY <1>1, <1>2, <1>8 DEF ClockTo, Finder!Bus!OnRise, Finder!Bus!HearBit, Finder!Bus!BitSent
    <2>2. Finder!Bus!SDA = IF call.ack THEN 0 ELSE 1
      BY <1>1, <1>8 DEF Finder!Bus!SDA
    <2>3. (Finder!Bus!SDA = 0) = call.ack
      <3>1. (Finder!Bus!SDA = 0) \in BOOLEAN
        BY IsTruth, Zenon
      <3>2. Finder!Bus!SDA = 0 <=> call.ack
        BY <1>2, <2>2
      <3>. QED
        BY <1>2, <3>1, <3>2, SameTruth, Zenon
    <2>4. noted' = Append(noted, [op |-> "read", byte |-> shift, ack |-> call.ack])
      BY <2>1, <2>3, Zenon DEF Finder!Bus!HearAck, Finder!Bus!Note
    <2>5. call = [op |-> "read", byte |-> 0, ack |-> call.ack]
      BY <1>1, <1>2, RequestIs
    <2>6. [call EXCEPT !.byte = Data] = [op |-> "read", byte |-> Data, ack |-> call.ack]
      BY <2>5
    <2>7. noted' = <<[op |-> "read", byte |-> Data, ack |-> call.ack]>>
      BY <1>1, <1>8, <2>4
    <2>8. LinkStep
      <3>1. Data \in 0 .. 255
        BY DEF WireTypeOK
      <3>2. [op |-> "read", byte |-> Data, ack |-> call.ack] \in Finder!Event
        BY <1>2, <3>1, FinderAssumption DEF Finder!ByteAssumption, Finder!Event
      <3>3. Finder!Hear([op |-> "read", byte |-> Data, ack |-> call.ack])
        BY <1>1, <1>2, <1>8, <2>7 DEF Finder!Hear
      <3>. QED
        BY <3>2, <3>3 DEF LinkStep
    <2>9. mode' = (IF call.ack THEN "more" ELSE "off") /\ UNCHANGED <<first, bits, shift, pull>>
      BY <1>2, <2>1, <2>2 DEF Finder!Bus!HearAck
    <2>10. scl' = 1 /\ UNCHANGED <<sdaOut, sdaDir, Data, bAck>>
      BY <2>1 DEF ClockTo
    <2>11. noted' = <<[call' EXCEPT !.byte = Data']>>
      BY <1>2, <2>6, <2>7, <2>10
    <2>12. Sent(38)'
      BY <1>1, <1>2, <1>4, <1>8, <2>9, <2>10, <2>11 DEF Sent
    <2>. QED
      BY <1>3, <1>8, <2>8, <2>12
  <1>9. CASE k = 38
    <2>1. Polls
      BY <1>2, <1>9
    <2>2. Sent(39)'
      BY <1>1, <1>2, <1>4, <1>9, <2>1 DEF Sent, Polls
    <2>. QED
      BY <1>3, <1>9, <2>1, <2>2 DEF LinkStep, Polls
  <1>10. CASE k = 39
    <2>1. ClockTo(0) /\ scl = 1 /\ sdaDir = 1 /\ noted = <<[call EXCEPT !.byte = Data]>>
      BY <1>1, <1>2, <1>10
    <2>2. Ordered(<<call>> \o calls, first)
      BY <1>1 DEF Under
    <2>3. /\ calls # << >> /\ Ordered(calls, FALSE)
          /\ Head(calls).op = "read" <=> call.ack
          /\ Head(calls).op # "write"
          /\ Head(calls).op \in {"start", "stop", "write", "read"}
      <3>1. /\ call.op = "stop" <=> calls = << >>
            /\ calls # << >> =>
                 /\ Ordered(calls, call.op = "start")
                 /\ Head(calls).op = "read" <=> \/ call.op = "write" /\ call.byte % 2 = 1 /\ first
                                                \/ call.op = "read" /\ call.ack
                 /\ Head(calls).op = "write" => call.op \in {"start", "write"}
        BY <1>2, <2>2, OrderedRest
      <3>2. calls # << >>
        BY <1>1, <3>1
      <3>3. (call.op = "start") = FALSE
        BY <1>1
      <3>4. Ordered(calls, FALSE)
        BY <3>1, <3>2, <3>3
      <3>5. Head(calls) \in Finder!Request
        BY <1>2, <3>2
      <3>6. Head(calls).op \in {"start", "stop", "write", "read"}
        BY <3>5, RequestIs
      <3>. QED
        BY <1>1, <3>1, <3>2, <3>4, <3>6
    <2>4. call = [op |-> "read", byte |-> 0, ack |-> call.ack]
      BY <1>1, <1>2, RequestIs
    <2>5. UNCHANGED <<sdaOut, sdaDir, Data, bAck>> /\ scl' = 0
      BY <2>1 DEF ClockTo
    <2>6. Finder!Bus!Outcome' = [call EXCEPT !.byte = Data]
      BY <1>1, <1>2, <2>5 DEF Finder!Bus!Outcome
    <2>7. ~Finder!Refused([call EXCEPT !.byte = Data])
      BY <2>4 DEF Finder!Refused
    <2>8. FitWhen!2' /\ FitWhen!4'
      BY FitWhen, PTL
    <2>9. ASSUME noted' = noted, Awaits(calls, first)' PROVE LastAccess'
      <3>1. Ended'
        BY <2>1, <2>6, <2>7, <2>9 DEF Ended
      <3>2. todo' = After(Finder!Bus!Accesses(call'), 40)
        BY <1>2, <1>10
      <3>. QED
        BY <1>1, <1>2, <2>1, <2>5, <3>1, <3>2 DEF LastAccess
    <2>10. CASE ~call.ack
      <3>1. UNCHANGED <<mode, first, bits, shift, pull, noted>>
        BY <1>1, <1>10, <2>1, <2>10
        DEF ClockTo, Finder!Bus!OnFall, Finder!Bus!ByteHeard, Finder!Bus!HearNext,
           Finder!Bus!Talk, Finder!Bus!SendBit, Finder!Bus!ByteSent, Finder!Bus!Addressed, Finder!Bus!deviceVars
      <3>2. Silent'
        BY <1>1, <1>10, <2>10, <3>1 DEF Silent
      <3>3. Ordered(calls, first')
        BY <1>2, <2>3, OrderedAnyway
      <3>4. Awaits(calls, first)'
        BY <1>2, <2>3, <2>5, <2>8, <2>10, <3>2, <3>3 DEF Awaits
      <3>. QED
        BY <1>3, <1>10, <2>9, <3>1, <3>4 DEF LinkStep
    <2>11. CASE call.ack
      <3>1. Finder!Bus!Talk
        BY <1>1, <1>10, <2>1, <2>11
        DEF ClockTo, Finder!Bus!OnFall, Finder!Bus!ByteHeard, Finder!Bus!HearNext,
           Finder!Bus!SendBit, Finder!Bus!ByteSent
      <3>2. first' = FALSE /\ noted' = noted /\ bits' = 0 /\ mode' = "talk"
        BY <3>1 DEF Finder!Bus!Talk
      <3>3. PICK b \in AnyByte : shift' = b /\ pull' = (Finder!Bus!Bit(b, 1) = 0)
        BY <3>1 DEF Finder!Bus!Talk
      <3>4. pull' <=> Finder!Bus!Bit(shift', 1) = 0
        BY <3>3
      <3>5. Fit("read")'
        BY <2>5, <2>8, <3>2, <3>4
      <3>6. Ordered(calls, first')
        BY <2>3, <3>2
      <3>7. Awaits(calls, first)'
        BY <1>2, <2>3, <2>11, <3>5, <3>6 DEF Awaits
      <3>. QED
        BY <1>3, <1>10, <2>9, <3>2, <3>7 DEF LinkStep
    <2>. QED
      BY <2>10, <2>11
  <1>. QED
    BY <1>5, <1>6, <1>7, <1>8, <1>9, <1>10

LEMMA FitGives ==
  /\ Fit("start") => (scl = 0 /\ (Listens \/ Silent)) \/ Free
  /\ Fit("stop") => scl = 0 /\ (Listens \/ Silent)
  /\ Fit("write") => scl = 0 /\ Listens
  /\ Fit("read") => scl = 0 /\ bits = 0
  BY DEF Fit

LEMMA AwaitsRoom ==
  ASSUME WireTypeOK, Awaits(calls, first)
  PROVE  Room
  <1>1. \A op \in {"start", "stop", "write", "read"} : Fit(op) => Room
    <2>1. /\ Listens => bits = 0
          /\ Silent => mode = "off"
          /\ Free => scl = 1
      BY DEF Listens, Silent, Free
    <2>. QED
      BY <2>1, FitGives DEF Room
  <1>2. CASE calls = << >>
    BY <1>1, <1>2 DEF Awaits
  <1>3. CASE calls # << >>
    <2>1. Head(calls) \in Finder!Request
      BY <1>3 DEF WireTypeOK
    <2>2. Head(calls).op \in {"start", "stop", "write", "read"}
      BY <2>1, RequestIs
    <2>. QED
      BY <1>1, <1>3, <2>2 DEF Awaits
  <1>. QED
    BY <1>2, <1>3

(* SDA is left low.                                                        *)
LEMMA LastAccessPhase ==
  ASSUME WireTypeOK, LastAccess, Finder!Bus!PortAccess
  PROVE  Room /\ LinkStep /\ Returns'
  <1>1. /\ call # NONE /\ call.op = "read" /\ todo = After(Finder!Bus!Accesses(call), 40)
        /\ scl = 0 /\ Ended
    BY DEF LastAccess
  <1>2. /\ UNCHANGED <<calls, call, result>> /\ DataTo(0) /\ todo' = << >>
    <2>1. ASSUME NEW k \in 0 .. 40, k = 40, todo = After(Finder!Bus!Accesses(call), k)
          PROVE  /\ UNCHANGED <<calls, call, result>> /\ DataTo(0) /\ todo' = << >>
      BY <1>1, <2>1, ReadUnderWay
    <2>2. 40 \in 0 .. 40
      OBVIOUS
    <2>. QED
      BY <1>1, <2>1, <2>2
  <1>3. UNCHANGED <<scl, bAck, Data, mode, first, bits, shift, pull, noted>>
    BY <1>1, <1>2 DEF DataTo, Finder!Bus!SDABecomes, Finder!Bus!deviceVars
  <1>4. Finder!Bus!Outcome' = Finder!Bus!Outcome
    BY <1>2, <1>3 DEF Finder!Bus!Outcome
  <1>5. ASSUME NEW op, Fit(op) PROVE Fit(op)'
    BY <1>1, <1>3, <1>5 DEF Fit, Listens, Silent, Free
  <1>6. Awaits(calls, first) => Awaits(calls, first)'
    BY <1>2, <1>3, <1>5 DEF Awaits
  <1>7. Ended'
    BY <1>1, <1>2, <1>3, <1>4, <1>6 DEF Ended, Silent
  <1>8. Room
    BY <1>1, AwaitsRoom DEF Room, Ended, Silent
  <1>. QED
    BY <1>1, <1>2, <1>3, <1>7, <1>8 DEF Returns, LinkStep

-----------------------------------------------------------------------------
(* The wires keep their invariant.                                         *)
LEMMA AfterIsSeq ==
  ASSUME NEW S, NEW s \in Seq(S), NEW k \in Nat
  PROVE  After(s, k) \in Seq(S)
  BY DEF After

LEMMA UnderLeft ==
  ASSUME WireTypeOK, NEW op, NEW k \in Nat, call # NONE, call.op = op,
         todo = After(Finder!Bus!Accesses(call), k),
         \/ op = "start" /\ k < 5
         \/ op = "stop" /\ k < 4
         \/ op = "write" /\ k < 46
         \/ op = "read" /\ k < 41
  PROVE  todo \in Seq(Port) /\ todo # << >>
  <1> DEFINE acc == Finder!Bus!Accesses(call)
  <1>1. call \in Finder!Request /\ acc \in Seq(Port)
    BY CallUnderWay
  <1>2. k < Len(acc)
    <2>1. /\ call.op = "start" => acc = Finder!Bus!i2c_start
          /\ call.op = "stop" => acc = Finder!Bus!i2c_stop
          /\ call.op = "write" => acc = Finder!Bus!i2c_write(call.byte)
          /\ call.op = "read" => acc = Finder!Bus!i2c_read(call.ack)
      BY <1>1, AccessesOf
    <2>2. call.byte \in 0 .. 255 /\ call.ack \in BOOLEAN
      BY <1>1, RequestIs
    <2>3. Len(Finder!Bus!i2c_write(call.byte)) = 46
      BY <2>2, WriteAccesses
    <2>4. Len(Finder!Bus!i2c_read(call.ack)) = 41
      BY <2>2, ReadAccesses
    <2>. QED
      BY <2>1, <2>3, <2>4, FixedAccesses
  <1>. todo = After(acc, k) /\ acc \in Seq(Port)
    BY <1>1
  <1>. HIDE DEF acc
  <1>3. k \in 0 .. Len(acc) /\ k # Len(acc)
    BY <1>2
  <1>. QED
    BY <1>3, AfterIsSeq, AfterStep

LEMMA TodoIs ==
  ASSUME WireTypeOK, Working
  PROVE  call # NONE /\ todo \in Seq(Port) /\ todo # << >>
  <1> DEFINE Goal == call # NONE /\ todo \in Seq(Port) /\ todo # << >>
  <1>2. ASSUME NEW k \in 0 .. 4, StartAt(k) PROVE Goal
    BY <1>2, UnderLeft DEF StartAt, Under
  <1>3. ASSUME NEW k \in 0 .. 3, StopAt(k) PROVE Goal
    BY <1>3, UnderLeft DEF StopAt, Under
  <1>4. CASE WriteBegins
    <2>1. 0 \in Nat /\ 0 < 46
      OBVIOUS
    <2>. QED
      BY <1>4, <2>1, UnderLeft DEF WriteBegins, Under
  <1>5. ASSUME NEW i \in 0 .. 7, NEW j \in 0 .. 4, Clocking(i, j) PROVE Goal
    <2>1. 1 + 5 * i + j \in Nat /\ 1 + 5 * i + j < 46
      OBVIOUS
    <2>. QED
      BY <1>5, <2>1, UnderLeft DEF Clocking, Under
  <1>6. ASSUME NEW k \in 41 .. 45, Answers(k) PROVE Goal
    BY <1>6, UnderLeft DEF Answers, Under
  <1>7. ASSUME NEW k \in 0 .. 1, ReadBegins(k) PROVE Goal
    BY <1>7, UnderLeft DEF ReadBegins, Under
  <1>8. ASSUME NEW i \in 0 .. 7, NEW j \in 0 .. 3, Sampling(i, j) PROVE Goal
    <2>1. 2 + 4 * i + j \in Nat /\ 2 + 4 * i + j < 41
      OBVIOUS
    <2>. QED
      BY <1>8, <2>1, UnderLeft DEF Sampling, Under
  <1>9. ASSUME NEW k \in 34 .. 39, Sent(k) PROVE Goal
    BY <1>9, UnderLeft DEF Sent, Under
  <1>10. CASE LastAccess
    <2>1. 40 \in Nat /\ 40 < 41
      OBVIOUS
    <2>. QED
      BY <1>10, <2>1, UnderLeft DEF LastAccess
  <1>. QED
    BY <1>2, <1>3, <1>4, <1>5, <1>6, <1>7, <1>8, <1>9, <1>10 DEF Working

(* Whatever the access.                                                    *)
LEMMA WorkingStep ==
  ASSUME WireTypeOK, Working, Finder!Bus!PortAccess
  PROVE  Room /\ LinkStep /\ (Working \/ Returns)'
  <1>2. ASSUME NEW k \in 0 .. 4, StartAt(k) PROVE Room /\ LinkStep /\ (Working \/ Returns)'
    <2>1. Room /\ LinkStep /\ (IF k < 4 THEN StartAt(k + 1)' ELSE Returns')
      BY <1>2, StartPhase
    <2>2. k < 4 => k + 1 \in 0 .. 4
      OBVIOUS
    <2>. QED
      BY <2>1, <2>2 DEF Working
  <1>3. ASSUME NEW k \in 0 .. 3, StopAt(k) PROVE Room /\ LinkStep /\ (Working \/ Returns)'
    <2>1. Room /\ LinkStep /\ (IF k < 3 THEN StopAt(k + 1)' ELSE Returns')
      BY <1>3, StopPhase
    <2>2. k < 3 => k + 1 \in 0 .. 3
      OBVIOUS
    <2>. QED
      BY <2>1, <2>2 DEF Working
  <1>4. CASE WriteBegins
    <2>1. Room /\ LinkStep /\ Clocking(0, 0)'
      BY <1>4, WriteBeginsPhase
    <2>2. 0 \in 0 .. 7 /\ 0 \in 0 .. 4
      OBVIOUS
    <2>. QED
      BY <2>1, <2>2 DEF Working
  <1>5. ASSUME NEW i \in 0 .. 7, NEW j \in 0 .. 4, Clocking(i, j)
        PROVE  Room /\ LinkStep /\ (Working \/ Returns)'
    <2>1. /\ Room /\ LinkStep
          /\ j < 4 => Clocking(i, j + 1)'
          /\ j = 4 /\ i < 7 => Clocking(i + 1, 0)'
          /\ j = 4 /\ i = 7 => Answers(41)'
      BY <1>5, ClockingPhase
    <2>2. CASE j < 4
      <3>1. j + 1 \in 0 .. 4
        BY <2>2
      <3>. QED
        BY <2>1, <2>2, <3>1 DEF Working
    <2>3. CASE j = 4 /\ i < 7
      <3>1. i + 1 \in 0 .. 7 /\ 0 \in 0 .. 4
        BY <2>3
      <3>. QED
        BY <2>1, <2>3, <3>1 DEF Working
    <2>4. CASE j = 4 /\ i = 7
      <3>1. 41 \in 41 .. 45
        OBVIOUS
      <3>. QED
        BY <2>1, <2>4, <3>1 DEF Working
    <2>. QED
      BY <2>2, <2>3, <2>4
  <1>6. ASSUME NEW k \in 41 .. 45, Answers(k) PROVE Room /\ LinkStep /\ (Working \/ Returns)'
    <2>1. Room /\ LinkStep /\ (IF k < 45 THEN Answers(k + 1)' ELSE Returns')
      BY <1>6, AnswersPhase
    <2>2. k < 45 => k + 1 \in 41 .. 45
      OBVIOUS
    <2>. QED
      BY <2>1, <2>2 DEF Working
  <1>7. ASSUME NEW k \in 0 .. 1, ReadBegins(k) PROVE Room /\ LinkStep /\ (Working \/ Returns)'
    <2>1. Room /\ LinkStep /\ (IF k = 0 THEN ReadBegins(1)' ELSE Sampling(0, 0)')
      BY <1>7, ReadBeginsPhase
    <2>2. 1 \in 0 .. 1 /\ 0 \in 0 .. 7 /\ 0 \in 0 .. 3
      OBVIOUS
    <2>. QED
      BY <2>1, <2>2 DEF Working
  <1>8. ASSUME NEW i \in 0 .. 7, NEW j \in 0 .. 3, Sampling(i, j)
        PROVE  Room /\ LinkStep /\ (Working \/ Returns)'
    <2>1. /\ Room /\ LinkStep
          /\ j < 3 => Sampling(i, j + 1)'
          /\ j = 3 /\ i < 7 => Sampling(i + 1, 0)'
          /\ j = 3 /\ i = 7 => Sent(34)'
      BY <1>8, SamplingPhase
    <2>2. CASE j < 3
      <3>1. j + 1 \in 0 .. 3
        BY <2>2
      <3>. QED
        BY <2>1, <2>2, <3>1 DEF Working
    <2>3. CASE j = 3 /\ i < 7
      <3>1. i + 1 \in 0 .. 7 /\ 0 \in 0 .. 3
        BY <2>3
      <3>. QED
        BY <2>1, <2>3, <3>1 DEF Working
    <2>4. CASE j = 3 /\ i = 7
      <3>1. 34 \in 34 .. 39
        OBVIOUS
      <3>. QED
        BY <2>1, <2>4, <3>1 DEF Working
    <2>. QED
      BY <2>2, <2>3, <2>4
  <1>9. ASSUME NEW k \in 34 .. 39, Sent(k) PROVE Room /\ LinkStep /\ (Working \/ Returns)'
    <2>1. Room /\ LinkStep /\ (IF k < 39 THEN Sent(k + 1)' ELSE LastAccess')
      BY <1>9, SentPhase
    <2>2. k < 39 => k + 1 \in 34 .. 39
      OBVIOUS
    <2>. QED
      BY <2>1, <2>2 DEF Working
  <1>10. CASE LastAccess
    BY <1>10, LastAccessPhase
  <1>. QED
    BY <1>2, <1>3, <1>4, <1>5, <1>6, <1>7, <1>8, <1>9, <1>10 DEF Working

LEMMA AccessKeeps ==
  ASSUME BusInv, Finder!Bus!PortAccess
  PROVE  BusInv' /\ LinkStep /\ UNCHANGED <<calls, call, result>> /\ call # NONE
  <1>1. todo # << >>
    BY DEF Finder!Bus!PortAccess, Finder!Bus!WriteSCL, Finder!Bus!WriteSDA, Finder!Bus!WriteDirection,
           Finder!Bus!PollSCL, Finder!Bus!ReadBit, Finder!Bus!ReadAck, Finder!Bus!Access
  <1>2. WireTypeOK /\ Working
    BY <1>1 DEF BusInv, Between, Returns
  <1>3. Room /\ LinkStep /\ (Working \/ Returns)'
    BY <1>2, WorkingStep
  <1>4. call # NONE /\ todo \in Seq(Port)
    BY <1>2, TodoIs
  <1>5. 0 \in 0 .. Len(todo) /\ 0 \in 0 .. Len(todo) - 1
    BY <1>1, <1>4
  <1>6. todo = After(todo, 0)
    BY <1>4, <1>5, AfterStep
  <1>7. WireTypeOK' /\ UNCHANGED <<calls, call, result>>
    <2>1. ASSUME NEW s \in Seq(Port), s = todo, NEW k \in 0 .. Len(s) - 1, k = 0
          PROVE  WireTypeOK' /\ UNCHANGED <<calls, call, result>>
      <3>1. todo = After(s, k)
        BY <1>6, <2>1
      <3>2. WireTypeOK'
        BY <1>2, <1>3, <3>1, TypeAccess
      <3>3. UNCHANGED <<calls, call, result>>
        BY <3>1, AccessMade
      <3>. QED
        BY <3>2, <3>3
    <2>. QED
      BY <1>4, <1>5, <2>1
  <1>. QED
    BY <1>3, <1>4, <1>7 DEF BusInv

(* A call begins; one returns; a transfer is begun or given up.            *)
LEMMA CallKeeps ==
  ASSUME BusInv, Finder!Bus!Call
  PROVE  BusInv' /\ \E e \in Finder!Event : Finder!Invoke(e)
  <1>1. /\ call = NONE /\ calls # << >> /\ call' = Head(calls) /\ calls' = Tail(calls)
        /\ todo' = Finder!Bus!Accesses(Head(calls)) /\ Data' = 0 /\ noted' = << >>
        /\ UNCHANGED <<scl, sdaOut, sdaDir, result, bAck, mode, first, bits, shift, pull>>
    BY DEF Finder!Bus!Call
  <1>2. WireTypeOK /\ Between
    <2>1. WireTypeOK /\ (Between \/ Working \/ Returns)
      BY DEF BusInv
    <2>. QED
      BY <1>1, <2>1, TodoIs DEF Returns
  <1>3. calls \in Seq(Finder!Request) /\ Fit(Head(calls).op) /\ Ordered(calls, first)
    BY <1>1, <1>2 DEF Between, Awaits, WireTypeOK
  <1>4. PICK c \in Finder!Request : c = Head(calls)
    BY <1>1, <1>3
  <1>5. Tail(calls) \in Seq(Finder!Request) /\ <<c>> \o Tail(calls) = calls
    BY <1>1, <1>3, <1>4
  <1>6. c # NONE /\ c \in Finder!Event /\ c.op \in {"start", "stop", "write", "read"}
    BY RequestIs
  <1>7. Finder!Bus!Accesses(c) \in Seq(Port)
    BY AccessesOf
  <1>8. todo' = After(Finder!Bus!Accesses(c), 0)
    <2>1. 0 \in 0 .. Len(Finder!Bus!Accesses(c))
      BY <1>7
    <2>2. After(Finder!Bus!Accesses(c), 0) = Finder!Bus!Accesses(c)
      BY <1>7, <2>1, AfterStep
    <2>. QED
      BY <1>1, <1>4, <2>2
  <1>9. Under(c.op, 0)'
    <2>1. <<call'>> \o calls' = calls /\ first' = first
      BY <1>1, <1>4, <1>5
    <2>2. Ordered(<<call'>> \o calls', first')
      BY <1>3, <2>1
    <2>. QED
      BY <1>1, <1>4, <1>6, <1>8, <2>2 DEF Under
  <1>10. Fit(c.op)'
    <2>1. ASSUME NEW op, Fit(op) PROVE Fit(op)'
      BY <1>1, <2>1 DEF Fit, Listens, Silent, Free
    <2>. QED
      BY <1>3, <1>4, <2>1
  <1>11. WireTypeOK'
    BY <1>1, <1>2, <1>4, <1>5 DEF WireTypeOK
  <1>12. Working'
    <2>1. CASE c.op = "start"
      <3>1. StartAt(0)'
        BY <1>1, <1>9, <1>10, <2>1 DEF StartAt
      <3>. QED
        BY <3>1 DEF Working
    <2>2. CASE c.op = "stop"
      <3>1. StopAt(0)'
        BY <1>1, <1>9, <1>10, <2>2 DEF StopAt
      <3>. QED
        BY <3>1 DEF Working
    <2>3. CASE c.op = "write"
      <3>1. WriteBegins'
        BY <1>1, <1>9, <1>10, <2>3 DEF WriteBegins
      <3>. QED
        BY <3>1 DEF Working
    <2>4. CASE c.op = "read"
      <3>1. ReadBegins(0)'
        BY <1>1, <1>9, <1>10, <2>4 DEF ReadBegins
      <3>. QED
        BY <3>1 DEF Working
    <2>. QED
      BY <1>6, <2>1, <2>2, <2>3, <2>4
  <1>13. Finder!Invoke(c)
    BY <1>1, <1>4 DEF Finder!Invoke
  <1>. QED
    BY <1>6, <1>11, <1>12, <1>13 DEF BusInv

LEMMA ReturnKeeps ==
  ASSUME BusInv, Finder!Bus!Return
  PROVE  /\ BusInv' /\ Finder!Return
         /\ noted = <<Finder!Bus!Outcome>> /\ call \in Finder!Request
  <1>1. /\ call # NONE /\ todo = << >> /\ result' = Finder!Bus!Outcome /\ call' = NONE
        /\ calls' \in IF Finder!Refused(Finder!Bus!Outcome) THEN {<< >>, <<Finder!Stop>>} ELSE {calls}
        /\ noted' = << >>
        /\ UNCHANGED <<scl, sdaOut, sdaDir, todo, Data, bAck, mode, first, bits, shift, pull>>
    BY DEF Finder!Bus!Return, Finder!Bus!Link!Refused, Finder!Refused, Finder!Bus!Link!Stop, Finder!Stop
  <1>2. WireTypeOK /\ Ended
    <2>1. WireTypeOK /\ (Between \/ Working \/ Returns)
      BY DEF BusInv
    <2>. QED
      BY <1>1, <2>1, TodoIs DEF Returns, Between
  <1>3. noted = <<Finder!Bus!Outcome>>
    BY <1>2 DEF Ended
  <1>4. Finder!Return
    BY <1>1, <1>3 DEF Finder!Return
  <1>5. call \in Finder!Request
    BY <1>1, <1>2 DEF WireTypeOK
  <1>6. Finder!Stop \in Finder!Request /\ Finder!Stop.op = "stop"
    BY DEF Finder!Request, Finder!Stop
  <1>7. calls' \in Seq(Finder!Request)
    <2>1. calls' = calls \/ calls' = << >> \/ calls' = <<Finder!Stop>>
      BY <1>1
    <2>2. << >> \in Seq(Finder!Request) /\ <<Finder!Stop>> \in Seq(Finder!Request)
      BY <1>6
    <2>. QED
      BY <1>2, <2>1, <2>2 DEF WireTypeOK
  <1>8. ASSUME NEW op, Fit(op) PROVE Fit(op)'
    BY <1>1, <1>8 DEF Fit, Listens, Silent, Free
  <1>9. Awaits(calls, first)'
    <2>1. CASE Finder!Refused(Finder!Bus!Outcome)
      <3>1. scl = 0 /\ Silent
        BY <1>2, <2>1 DEF Ended
      <3>2. Fit("start") /\ Fit("stop")
        BY <3>1, FitWhen
      <3>3. Fit("start")' /\ Fit("stop")'
        BY <1>8, <3>2
      <3>4. CASE calls' = << >>
        BY <3>3, <3>4 DEF Awaits
      <3>5. CASE calls' = <<Finder!Stop>>
        <4>1. Ordered(calls', first')
          BY <1>6, <1>7, <3>5 DEF Ordered
        <4>2. calls' # << >> /\ Head(calls').op = "stop"
          BY <1>6, <3>5
        <4>. QED
          BY <3>3, <4>1, <4>2 DEF Awaits
      <3>. QED
        BY <1>1, <2>1, <3>4, <3>5
    <2>2. CASE ~Finder!Refused(Finder!Bus!Outcome)
      <3>1. Awaits(calls, first) /\ calls' = calls /\ first' = first
        BY <1>1, <1>2, <2>2 DEF Ended
      <3>. QED
        BY <1>8, <3>1 DEF Awaits
    <2>. QED
      BY <2>1, <2>2
  <1>10. WireTypeOK'
    BY <1>1, <1>2, <1>7 DEF WireTypeOK
  <1>. QED
    BY <1>1, <1>3, <1>4, <1>5, <1>9, <1>10 DEF BusInv, Between

LEMMA BeginKeeps ==
  ASSUME BusInv, call = NONE, calls = << >>,
         \/ calls' = << >>
         \/ calls' \in Seq(Finder!Request) /\ Ordered(calls', first) /\ Head(calls').op = "start",
         UNCHANGED <<call, noted, scl, sdaOut, sdaDir, todo, Data, bAck, mode, first, bits, shift, pull>>
  PROVE  BusInv'
  <1>1. WireTypeOK /\ Between
    <2>1. WireTypeOK /\ (Between \/ Working \/ Returns)
      BY DEF BusInv
    <2>. QED
      BY <2>1, TodoIs DEF Returns
  <1>2. Fit("start")
    BY <1>1 DEF Between, Awaits
  <1>3. Fit("start")'
    BY <1>2 DEF Fit, Listens, Silent, Free
  <1>4. Awaits(calls, first)'
    BY <1>3 DEF Awaits
  <1>5. WireTypeOK'
    BY <1>1, ZenonT(60) DEF WireTypeOK
  <1>. QED
    BY <1>1, <1>4, <1>5 DEF BusInv, Between

LEMMA BusStutter ==
  ASSUME BusInv,
         UNCHANGED <<calls, call, noted, scl, sdaOut, sdaDir, todo, Data, bAck, mode, first, bits, shift, pull>>
  PROVE  BusInv'
  <1>1. ASSUME NEW op, Fit(op) PROVE Fit(op)'
    BY <1>1 DEF Fit, Listens, Silent, Free
  <1>2. Awaits(calls, first) => Awaits(calls, first)'
    BY <1>1 DEF Awaits
  <1>3. Finder!Bus!Outcome' = Finder!Bus!Outcome
    BY DEF Finder!Bus!Outcome
  <1>4. Ended => Ended'
    BY <1>2, <1>3 DEF Ended, Silent
  <1>5. ASSUME NEW op, NEW k, Under(op, k) PROVE Under(op, k)'
    BY <1>5 DEF Under
  <1>6. WireTypeOK'
    BY DEF BusInv, WireTypeOK
  <1>7. Between => Between'
    BY <1>2 DEF Between
  <1>8. Returns => Returns'
    BY <1>4 DEF Returns
  <1>9. Working => Working'
    <2>1. ASSUME NEW k \in 0 .. 4, StartAt(k) PROVE StartAt(k)'
      BY <1>1, <1>5, <2>1 DEF StartAt, Driven, Listens
    <2>2. ASSUME NEW k \in 0 .. 3, StopAt(k) PROVE StopAt(k)'
      BY <1>1, <1>5, <2>2 DEF StopAt, Driven
    <2>3. ASSUME WriteBegins PROVE WriteBegins'
      BY <1>1, <1>5, <2>3 DEF WriteBegins
    <2>4. ASSUME NEW i \in 0 .. 7, NEW j \in 0 .. 4, Clocking(i, j) PROVE Clocking(i, j)'
      BY <1>5, <2>4 DEF Clocking, Heard
    <2>5. ASSUME NEW k \in 41 .. 45, Answers(k) PROVE Answers(k)'
      BY <1>5, <2>5 DEF Answers
    <2>6. ASSUME NEW k \in 0 .. 1, ReadBegins(k) PROVE ReadBegins(k)'
      BY <1>1, <1>5, <2>6 DEF ReadBegins
    <2>7. ASSUME NEW i \in 0 .. 7, NEW j \in 0 .. 3, Sampling(i, j) PROVE Sampling(i, j)'
      BY <1>5, <2>7 DEF Sampling
    <2>8. ASSUME NEW k \in 34 .. 39, Sent(k) PROVE Sent(k)'
      BY <1>5, <2>8 DEF Sent
    <2>9. ASSUME LastAccess PROVE LastAccess'
      BY <1>4, <2>9 DEF LastAccess
    <2>. QED
      BY <2>1, <2>2, <2>3, <2>4, <2>5, <2>6, <2>7, <2>8, <2>9 DEF Working
  <1>. QED
    BY <1>6, <1>7, <1>8, <1>9 DEF BusInv

(* What the properties of the wires ask.                                   *)
LEMMA InOrder ==
  ASSUME BusInv
  PROVE  Finder!WiresInOrder
  <1>1. WireTypeOK /\ (Between \/ Working \/ Returns)
    BY DEF BusInv
  <1>2. Finder!Bus!BusTypeOK
    <2>1. call \in Finder!Event \cup {NONE}
      BY <1>1, RequestIs DEF WireTypeOK
    <2>2. call = NONE => todo = << >>
      BY <1>1, TodoIs DEF Between, Returns
    <2>. QED
      BY <1>1, <2>1, <2>2, FinderAssumption
      DEF WireTypeOK, Finder!Bus!BusTypeOK, Finder!Event, Finder!Bus!Link!Event, Finder!ByteAssumption
  <1>3. Finder!Bus!ClockLowBetweenCalls
    <2>1. SUFFICES ASSUME call = NONE, calls # << >>, Head(calls).op # "start" PROVE scl = 0
      BY DEF Finder!Bus!ClockLowBetweenCalls
    <2>2. Between
      BY <1>1, <2>1, TodoIs DEF Returns
    <2>3. Fit(Head(calls).op) /\ Head(calls) \in Finder!Request
      BY <1>1, <2>1, <2>2 DEF Between, Awaits, WireTypeOK
    <2>4. Head(calls).op \in {"start", "stop", "write", "read"}
      BY <2>3, RequestIs
    <2>. QED
      BY <2>1, <2>3, <2>4 DEF Fit
  <1>4. Finder!Bus!NobodyOverridden
    <2>1. SUFFICES ASSUME scl = 1, sdaDir = 1, sdaOut = 1, pull PROVE FALSE
      BY DEF Finder!Bus!NobodyOverridden
    <2>2. ASSUME NEW op \in {"start", "stop", "write", "read"}, Fit(op) PROVE FALSE
      BY <2>1, <2>2, FitGives DEF Free, Silent
    <2>3. ASSUME Awaits(calls, first) PROVE FALSE
      <3>1. calls # << >> => Head(calls) \in Finder!Request
        BY <1>1 DEF WireTypeOK
      <3>2. calls # << >> => Head(calls).op \in {"start", "stop", "write", "read"}
        BY <3>1, RequestIs
      <3>. QED
        BY <2>2, <2>3, <3>2 DEF Awaits
    <2>4. ASSUME Ended PROVE FALSE
      BY <2>1, <2>3, <2>4 DEF Ended
    <2>5. CASE Between
      BY <2>3, <2>5 DEF Between
    <2>6. CASE Returns
      BY <2>4, <2>6 DEF Returns
    <2>7. CASE Working
      <3>1. ASSUME NEW k \in 0 .. 4, StartAt(k) PROVE FALSE
        BY <2>1, <2>2, <3>1 DEF StartAt, Driven, Listens
      <3>2. ASSUME NEW k \in 0 .. 3, StopAt(k) PROVE FALSE
        BY <2>1, <2>2, <3>2 DEF StopAt, Driven
      <3>3. CASE WriteBegins
        BY <2>1, <2>2, <3>3 DEF WriteBegins
      <3>4. ASSUME NEW i \in 0 .. 7, NEW j \in 0 .. 4, Clocking(i, j) PROVE FALSE
        BY <2>1, <3>4 DEF Clocking
      <3>5. ASSUME NEW k \in 41 .. 45, Answers(k) PROVE FALSE
        BY <2>1, <3>5 DEF Answers
      <3>6. ASSUME NEW k \in 0 .. 1, ReadBegins(k) PROVE FALSE
        BY <2>1, <2>2, <3>6 DEF ReadBegins
      <3>7. ASSUME NEW i \in 0 .. 7, NEW j \in 0 .. 3, Sampling(i, j) PROVE FALSE
        BY <2>1, <3>7 DEF Sampling
      <3>8. ASSUME NEW k \in 34 .. 39, Sent(k) PROVE FALSE
        BY <2>1, <3>8 DEF Sent
      <3>9. CASE LastAccess
        BY <2>1, <3>9 DEF LastAccess
      <3>. QED
        BY <2>7, <3>1, <3>2, <3>3, <3>4, <3>5, <3>6, <3>7, <3>8, <3>9 DEF Working
    <2>. QED
      BY <1>1, <2>5, <2>6, <2>7
  <1>. QED
    BY <1>2, <1>3, <1>4 DEF Finder!WiresInOrder

-----------------------------------------------------------------------------
(* What lidar_read asks for.                                               *)

LEMMA FiveCalls ==
  ASSUME NEW S, NEW a \in S, NEW b \in S, NEW c \in S, NEW d \in S, NEW e \in S
  PROVE  <<a>> \o (<<b, c>> \o <<d>>) \o <<e>> = <<a, b, c, d, e>>
  <1>1. <<b, c>> \o <<d>> = <<b, c, d>>
    <2>1. <<b, c>> \in Seq(S) /\ <<d>> \in Seq(S) /\ <<b, c, d>> \in Seq(S)
      OBVIOUS
    <2>2. <<b, c>> \o <<d>> \in Seq(S) /\ Len(<<b, c>> \o <<d>>) = 3
      BY <2>1, ConcatProperties
    <2>3. \A i \in 1 .. 3 : (<<b, c>> \o <<d>>)[i] = <<b, c, d>>[i]
      BY <2>1, ConcatProperties
    <2>. QED
      BY <2>1, <2>2, <2>3, SeqEqual
  <1>2. <<a>> \o <<b, c, d>> = <<a, b, c, d>>
    <2>1. <<a>> \in Seq(S) /\ <<b, c, d>> \in Seq(S) /\ <<a, b, c, d>> \in Seq(S)
      OBVIOUS
    <2>2. <<a>> \o <<b, c, d>> \in Seq(S) /\ Len(<<a>> \o <<b, c, d>>) = 4
      BY <2>1, ConcatProperties
    <2>3. \A i \in 1 .. 4 : (<<a>> \o <<b, c, d>>)[i] = <<a, b, c, d>>[i]
      BY <2>1, ConcatProperties
    <2>. QED
      BY <2>1, <2>2, <2>3, SeqEqual
  <1>3. <<a, b, c, d>> \o <<e>> = <<a, b, c, d, e>>
    <2>1. <<a, b, c, d>> \in Seq(S) /\ <<e>> \in Seq(S) /\ <<a, b, c, d, e>> \in Seq(S)
      OBVIOUS
    <2>2. <<a, b, c, d>> \o <<e>> \in Seq(S) /\ Len(<<a, b, c, d>> \o <<e>>) = 5
      BY <2>1, ConcatProperties
    <2>3. \A i \in 1 .. 5 : (<<a, b, c, d>> \o <<e>>)[i] = <<a, b, c, d, e>>[i]
      BY <2>1, ConcatProperties
    <2>. QED
      BY <2>1, <2>2, <2>3, SeqEqual
  <1>. QED
    BY <1>1, <1>2, <1>3

LEMMA CommandIs ==
  /\ Finder!Framed(Finder!I2C_WriteToDeviceRegister(
       Finder!LIDAR_I2C_ADDRESS, Finder!LIDAR_REGISTER_COMMAND, <<Finder!LIDAR_COMMAND_POLL>>)) = CommandCalls
  /\ CommandCalls \in Seq(Finder!Request) /\ Len(CommandCalls) = 5
  <1>1. Finder!Bytes(<<4>>) = <<Finder!Write(4)>>
    BY DEF Finder!Bytes
  <1>2. {0, 4, 196} \subseteq BusByte
    BY FinderAssumption DEF Finder!ByteAssumption
  <1>3. CommandCalls \in Seq(Finder!Request) /\ Len(CommandCalls) = 5
    BY <1>2 DEF CommandCalls, Finder!Request
  <1>4. /\ Finder!Start \in Finder!Request /\ Finder!Stop \in Finder!Request
        /\ Finder!Write(196) \in Finder!Request /\ Finder!Write(0) \in Finder!Request
        /\ Finder!Write(4) \in Finder!Request
    BY <1>2 DEF Finder!Request
  <1>5. <<Finder!Start>> \o (<<Finder!Write(196), Finder!Write(0)>> \o <<Finder!Write(4)>>) \o <<Finder!Stop>>
          = CommandCalls
    <2>1. \A a, b, c, d, e \in Finder!Request :
            <<a>> \o (<<b, c>> \o <<d>>) \o <<e>> = <<a, b, c, d, e>>
      BY FiveCalls, ZenonT(60)
    <2>. QED
      BY <1>4, <2>1 DEF CommandCalls
  <1>. QED
    BY <1>1, <1>3, <1>5 DEF Finder!Framed, Finder!I2C_WriteToDeviceRegister,
       Finder!LIDAR_I2C_ADDRESS, Finder!LIDAR_REGISTER_COMMAND, Finder!LIDAR_COMMAND_POLL

LEMMA ReadIs ==
  ASSUME NEW reg \in BusByte
  PROVE  /\ Finder!Framed(Finder!I2C_ReadFromDeviceRegister(Finder!LIDAR_I2C_ADDRESS, reg, 1, TRUE))
              = ReadCalls(reg)
         /\ ReadCalls(reg) \in Seq(Finder!Request) /\ Len(ReadCalls(reg)) = 7
  <1>1. Finder!Reads(1, TRUE) = <<Finder!Read(FALSE)>>
    <2>1. \A i \in 1 .. 1 : (i < 1 \/ ~TRUE) = FALSE
      OBVIOUS
    <2>2. \A i \in 1 .. 1 : Finder!Read(i < 1 \/ ~TRUE) = Finder!Read(FALSE)
      BY <2>1
    <2>3. Finder!Reads(1, TRUE) = [i \in 1 .. 1 |-> Finder!Read(FALSE)]
      BY <2>2 DEF Finder!Reads
    <2>4. \A x : [i \in 1 .. 1 |-> x] = <<x>>
      OBVIOUS
    <2>. QED
      BY <2>3, <2>4
  <1>2. Finder!ReadAddress(Finder!LIDAR_I2C_ADDRESS) = 197
    BY DEF Finder!ReadAddress, Finder!LIDAR_I2C_ADDRESS
  <1>3. {196, 197} \subseteq BusByte
    BY FinderAssumption DEF Finder!ByteAssumption
  <1>4. /\ Finder!Start \in Finder!Request /\ Finder!Stop \in Finder!Request
        /\ Finder!Write(196) \in Finder!Request /\ Finder!Write(197) \in Finder!Request
        /\ Finder!Write(reg) \in Finder!Request /\ Finder!Read(FALSE) \in Finder!Request
    BY <1>3, ZenonT(60) DEF Finder!Request
  <1>5. ReadCalls(reg) \in Seq(Finder!Request) /\ Len(ReadCalls(reg)) = 7
    <2>1. \A a, b, c, d, e, f \in Finder!Request :
            <<a, b, c, a, d, e, f>> \in Seq(Finder!Request) /\ Len(<<a, b, c, a, d, e, f>>) = 7
      OBVIOUS
    <2>. QED
      BY <1>4, <2>1, ZenonT(60) DEF ReadCalls
  <1>6. <<Finder!Start>> \o (<<Finder!Write(196), Finder!Write(reg), Finder!Start, Finder!Write(197)>>
          \o <<Finder!Read(FALSE)>>) \o <<Finder!Stop>> = ReadCalls(reg)
    <2>1. ASSUME NEW a \in Finder!Request, NEW b \in Finder!Request, NEW c \in Finder!Request,
                 NEW d \in Finder!Request, NEW e \in Finder!Request, NEW f \in Finder!Request
          PROVE  <<a>> \o (<<b, c, a, d>> \o <<e>>) \o <<f>> = <<a, b, c, a, d, e, f>>
      <3>1. <<b, c, a, d>> \o <<e>> = <<b, c, a, d, e>>
        <4>1. /\ <<b, c, a, d>> \in Seq(Finder!Request)
              /\ <<e>> \in Seq(Finder!Request)
              /\ <<b, c, a, d, e>> \in Seq(Finder!Request)
          OBVIOUS
        <4>2. <<b, c, a, d>> \o <<e>> \in Seq(Finder!Request) /\ Len(<<b, c, a, d>> \o <<e>>) = 5
          BY <4>1, ConcatProperties
        <4>3. \A i \in 1 .. 5 : (<<b, c, a, d>> \o <<e>>)[i] = <<b, c, a, d, e>>[i]
          BY <4>1, ConcatProperties
        <4>. QED
          BY <4>1, <4>2, <4>3, SeqEqual
      <3>2. <<a>> \o <<b, c, a, d, e>> = <<a, b, c, a, d, e>>
        <4>1. /\ <<a>> \in Seq(Finder!Request)
              /\ <<b, c, a, d, e>> \in Seq(Finder!Request)
              /\ <<a, b, c, a, d, e>> \in Seq(Finder!Request)
          OBVIOUS
        <4>2. <<a>> \o <<b, c, a, d, e>> \in Seq(Finder!Request) /\ Len(<<a>> \o <<b, c, a, d, e>>) = 6
          BY <4>1, ConcatProperties
        <4>3. \A i \in 1 .. 6 : (<<a>> \o <<b, c, a, d, e>>)[i] = <<a, b, c, a, d, e>>[i]
          BY <4>1, ConcatProperties
        <4>. QED
          BY <4>1, <4>2, <4>3, SeqEqual
      <3>3. <<a, b, c, a, d, e>> \o <<f>> = <<a, b, c, a, d, e, f>>
        <4>1. /\ <<a, b, c, a, d, e>> \in Seq(Finder!Request)
              /\ <<f>> \in Seq(Finder!Request)
              /\ <<a, b, c, a, d, e, f>> \in Seq(Finder!Request)
          OBVIOUS
        <4>2. <<a, b, c, a, d, e>> \o <<f>> \in Seq(Finder!Request) /\ Len(<<a, b, c, a, d, e>> \o <<f>>) = 7
          BY <4>1, ConcatProperties
        <4>3. \A i \in 1 .. 7 : (<<a, b, c, a, d, e>> \o <<f>>)[i] = <<a, b, c, a, d, e, f>>[i]
          BY <4>1, ConcatProperties
        <4>. QED
          BY <4>1, <4>2, <4>3, SeqEqual
      <3>. QED
        BY <3>1, <3>2, <3>3
    <2>2. \A c, d, e, f \in Finder!Request :
            <<Finder!Start>> \o (<<Finder!Write(196), c, Finder!Start, d>> \o <<e>>) \o <<f>>
            = <<Finder!Start, Finder!Write(196), c, Finder!Start, d, e, f>>
      BY <1>4, <2>1, Zenon
    <2>3. \A e, f \in Finder!Request :
            <<Finder!Start>> \o (<<Finder!Write(196), Finder!Write(reg), Finder!Start, Finder!Write(197)>>
              \o <<e>>) \o <<f>>
            = <<Finder!Start, Finder!Write(196), Finder!Write(reg), Finder!Start, Finder!Write(197), e, f>>
      BY <1>4, <2>2, ZenonT(60)
    <2>. QED
      BY <1>4, <2>3, ZenonT(60) DEF ReadCalls
  <1>. QED
    BY <1>1, <1>2, <1>5, <1>6
    DEF Finder!Framed, Finder!I2C_ReadFromDeviceRegister, Finder!LIDAR_I2C_ADDRESS

(* They are in order.                                                      *)
LEMMA CommandOrdered ==
  ASSUME NEW f
  PROVE  Ordered(CommandCalls, f) /\ Head(CommandCalls).op = "start"
  <1>1. /\ CommandCalls \in Seq(Finder!Request) /\ Len(CommandCalls) = 5
    BY CommandIs
  <1>2. /\ CommandCalls[1].op = "start" /\ CommandCalls[2].op = "write" /\ CommandCalls[3].op = "write"
        /\ CommandCalls[4].op = "write" /\ CommandCalls[5].op = "stop"
        /\ CommandCalls[2].byte = 196
    BY DEF CommandCalls, Finder!Start, Finder!Stop, Finder!Write
  <1>3. Head(CommandCalls) = CommandCalls[1] /\ CommandCalls # << >>
    BY DEF CommandCalls
  <1>4. \A i \in 1 .. 4 : ~Reading(CommandCalls, f, i)
    BY <1>2 DEF Reading, AddressAt
  <1>. QED
    BY <1>1, <1>2, <1>3, <1>4 DEF Ordered

LEMMA ReadOrdered ==
  ASSUME NEW reg \in BusByte, NEW f
  PROVE  Ordered(ReadCalls(reg), f) /\ Head(ReadCalls(reg)).op = "start"
  <1>1. /\ ReadCalls(reg) \in Seq(Finder!Request) /\ Len(ReadCalls(reg)) = 7
    BY ReadIs
  <1>2. /\ ReadCalls(reg)[1].op = "start" /\ ReadCalls(reg)[2].op = "write" /\ ReadCalls(reg)[3].op = "write"
        /\ ReadCalls(reg)[4].op = "start" /\ ReadCalls(reg)[5].op = "write" /\ ReadCalls(reg)[6].op = "read"
        /\ ReadCalls(reg)[7].op = "stop"
        /\ ReadCalls(reg)[2].byte = 196 /\ ReadCalls(reg)[5].byte = 197 /\ ~ReadCalls(reg)[6].ack
    BY DEF ReadCalls, Finder!Start, Finder!Stop, Finder!Write, Finder!Read
  <1>3. Head(ReadCalls(reg)) = ReadCalls(reg)[1] /\ ReadCalls(reg) # << >>
    BY DEF ReadCalls
  <1>4. \A i \in 1 .. 6 : Reading(ReadCalls(reg), f, i) <=> i = 5
    BY <1>2 DEF Reading, AddressAt
  <1>. QED
    BY <1>1, <1>2, <1>3, <1>4 DEF Ordered

-----------------------------------------------------------------------------
(* The range finder: what each step leaves of a read in progress.          *)
LEMMA Numbers ==
  /\ Finder!LIDAR_REGISTER_UPPER = 15 /\ Finder!LIDAR_REGISTER_LOWER = 16
  /\ Finder!LIDAR_REGISTER_COMMAND = 0 /\ Finder!LIDAR_COMMAND_POLL = 4 /\ Finder!LIDAR_I2C_ADDRESS = 196
  /\ BusByte = 0 .. 255 /\ {0, 15, 16} \subseteq BusByte /\ NONE \notin Finder!Event
  /\ READ_DELAY \in Nat \ {0}
  BY FinderAssumption DEF Finder!ByteAssumption, Finder!DelayAssumption, Finder!LIDAR_REGISTER_UPPER,
     Finder!LIDAR_REGISTER_LOWER, Finder!LIDAR_REGISTER_COMMAND, Finder!LIDAR_COMMAND_POLL,
     Finder!LIDAR_I2C_ADDRESS

LEMMA BetweenCalls ==
  ASSUME BusInv, call = NONE
  PROVE  noted = << >> /\ Unheard = calls /\ calls \in Seq(Finder!Request)
  <1>1. WireTypeOK /\ Between
    <2>1. WireTypeOK /\ (Between \/ Working \/ Returns)
      BY DEF BusInv
    <2>. QED
      BY <2>1, TodoIs DEF Returns
  <1>. QED
    BY <1>1 DEF WireTypeOK, Between, Unheard

(* The call under way is the next unheard; at the end none is left.        *)
LEMMA NextLeft ==
  ASSUME WireTypeOK, call # NONE, noted = << >>,
         NEW s \in Seq(Finder!Request), NEW k \in 0 .. Len(s), Unheard = After(s, k)
  PROVE  k < Len(s) /\ call = s[k + 1] /\ calls = After(s, k + 1)
  <1>1. call \in Finder!Request /\ calls \in Seq(Finder!Request)
    BY DEF WireTypeOK
  <1>2. Unheard = <<call>> \o calls
    BY DEF Unheard
  <1>3. <<call>> \o calls # << >> /\ Head(<<call>> \o calls) = call /\ Tail(<<call>> \o calls) = calls
    BY <1>1
  <1>4. After(s, k) # << >> /\ Head(After(s, k)) = call /\ Tail(After(s, k)) = calls
    BY <1>2, <1>3
  <1>5. k # Len(s)
    BY <1>4, AfterStep
  <1>6. k < Len(s)
    BY <1>5
  <1>7. Head(After(s, k)) = s[k + 1] /\ Tail(After(s, k)) = After(s, k + 1)
    BY <1>6, AfterStep
  <1>. QED
    BY <1>4, <1>6, <1>7

LEMMA NothingLeft ==
  ASSUME call = NONE, calls = << >>, NEW s \in Seq(Finder!Request), NEW k \in 0 .. Len(s),
         Unheard = After(s, k)
  PROVE  k = Len(s)
  BY AfterStep DEF Unheard

LEMMA CommandStarts ==
  ASSUME BusInv, call = NONE, calls = << >>, calls' = CommandCalls,
         UNCHANGED <<call, noted, scl, sdaOut, sdaDir, todo, Data, bAck, mode, first, bits, shift, pull>>
  PROVE  BusInv' /\ Commanding(5)'
  <1>1. CommandCalls \in Seq(Finder!Request) /\ Len(CommandCalls) = 5
    BY CommandIs
  <1>2. Ordered(CommandCalls, first) /\ Head(CommandCalls).op = "start"
    BY CommandOrdered
  <1>3. BusInv'
    BY <1>1, <1>2, BeginKeeps
  <1>4. Unheard' = CommandCalls
    BY DEF Unheard
  <1>5. After(CommandCalls, 0) = CommandCalls
    <2>1. 0 \in 0 .. Len(CommandCalls)
      BY <1>1
    <2>. QED
      BY <1>1, <2>1, AfterStep
  <1>. QED
    BY <1>3, <1>4, <1>5 DEF Commanding

LEMMA ReadStarts ==
  ASSUME BusInv, call = NONE, calls = << >>, NEW reg \in BusByte, calls' = ReadCalls(reg),
         UNCHANGED <<call, noted, scl, sdaOut, sdaDir, todo, Data, bAck, mode, first, bits, shift, pull>>
  PROVE  BusInv' /\ Requesting(7, reg)'
  <1>1. ReadCalls(reg) \in Seq(Finder!Request) /\ Len(ReadCalls(reg)) = 7
    BY ReadIs
  <1>2. Ordered(ReadCalls(reg), first) /\ Head(ReadCalls(reg)).op = "start"
    BY ReadOrdered
  <1>3. BusInv'
    BY <1>1, <1>2, BeginKeeps
  <1>4. Unheard' = ReadCalls(reg)
    BY DEF Unheard
  <1>5. After(ReadCalls(reg), 0) = ReadCalls(reg)
    <2>1. 0 \in 0 .. Len(ReadCalls(reg))
      BY <1>1
    <2>. QED
      BY <1>1, <2>1, AfterStep
  <1>. QED
    BY <1>3, <1>4, <1>5 DEF Requesting

(* The sensor's answers.                                                   *)
LEMMA SensorAnswers ==
  ASSUME NEW e \in Finder!Event, Finder!Sensor(e), Finder!LidarTypeOK,
         latest = IF measuring THEN (held + 1) % 3 ELSE held
  PROVE  /\ hearing' \in {"free", "deaf", "address", "register", "data", "reading"}
         /\ register' \in BusByte /\ measuring' \in BOOLEAN /\ latest' \in 0 .. 2
         /\ held' = held
         /\ latest' = IF measuring' THEN (held' + 1) % 3 ELSE held'
         /\ e.op # "write" => UNCHANGED <<measuring, latest, register>>
         /\ e.op = "start" => hearing' = "address"
         /\ e.op = "stop" => hearing' = "free"
         /\ e.op = "read" => hearing = "reading" /\ e.byte = Finder!RegisterByte
         /\ e.op = "write" /\ ~Finder!Refused(e) /\ hearing = "address" =>
              /\ ~measuring /\ UNCHANGED <<measuring, latest, register>>
              /\ hearing' = IF e.byte % 2 = 1 THEN "reading" ELSE "register"
         /\ e.op = "write" /\ ~Finder!Refused(e) /\ hearing = "register" =>
              hearing' = "data" /\ register' = e.byte /\ UNCHANGED <<measuring, latest>>
  <1> USE DEF Finder!LidarTypeOK
  <1>1. e.op \in {"start", "stop", "write", "read"} /\ e.byte \in BusByte /\ e.ack \in BOOLEAN
    BY DEF Finder!Event
  <1>2. CASE Finder!SensorHearsStart(e)
    BY <1>1, <1>2 DEF Finder!SensorHearsStart
  <1>3. CASE Finder!SensorHearsStop(e)
    BY <1>1, <1>3 DEF Finder!SensorHearsStop
  <1>4. CASE Finder!Refuse(e)
    BY <1>1, <1>4 DEF Finder!Refuse, Finder!Hears, Finder!Refused
  <1>5. CASE Finder!AcceptAddress(e)
    BY <1>1, <1>5 DEF Finder!AcceptAddress, Finder!Hears
  <1>6. CASE Finder!AcceptRegister(e)
    BY <1>1, <1>6 DEF Finder!AcceptRegister, Finder!Hears
  <1>7. CASE Finder!AcceptCommand(e)
    BY <1>1, <1>7 DEF Finder!AcceptCommand, Finder!Hears
  <1>8. CASE Finder!SendByte(e)
    BY <1>1, <1>8 DEF Finder!SendByte
  <1>. QED
    BY <1>2, <1>3, <1>4, <1>5, <1>6, <1>7, <1>8 DEF Finder!Sensor

(* Another of the command's calls is heard.                                *)
LEMMA CommandHeard ==
  ASSUME WireTypeOK, NEW n \in 0 .. 5, Commanding(n), NEW e \in Finder!Event, Finder!Hear(e), calls' = calls,
         Finder!Sensor(e), ~Finder!Refused(e), Finder!LidarTypeOK,
         latest = IF measuring THEN (held + 1) % 3 ELSE held
  PROVE  \E m \in 0 .. 5 : Commanding(m)'
  <1>1. /\ call # NONE /\ noted = << >> /\ noted' = <<e>> /\ call' = call
        /\ e.op = call.op /\ (e.op # "read" => e.byte = call.byte)
    BY DEF Finder!Hear
  <1>2. CommandCalls \in Seq(Finder!Request) /\ Len(CommandCalls) = 5
    BY CommandIs
  <1>3. n # 0 /\ call = CommandCalls[6 - n] /\ calls = After(CommandCalls, 5 - (n - 1))
    <2>1. 5 - n \in 0 .. Len(CommandCalls) /\ Unheard = After(CommandCalls, 5 - n)
      BY <1>2 DEF Commanding
    <2>2. 5 - n < 5 /\ call = CommandCalls[5 - n + 1] /\ calls = After(CommandCalls, 5 - n + 1)
      BY <1>1, <1>2, <2>1, NextLeft
    <2>3. 5 - n + 1 = 6 - n /\ 5 - n + 1 = 5 - (n - 1) /\ n # 0
      BY <2>2
    <2>. QED
      BY <2>2, <2>3
  <1>4. Unheard' = calls
    BY <1>1 DEF Unheard
  <1>5. /\ e.op = "start" => hearing' = "address"
        /\ e.op = "stop" => hearing' = "free"
        /\ e.op = "write" /\ hearing = "address" =>
             hearing' = IF e.byte % 2 = 1 THEN "reading" ELSE "register"
        /\ e.op = "write" /\ hearing = "register" => hearing' = "data" /\ register' = e.byte
    BY SensorAnswers
  <1>6. n \in 1 .. 5
    BY <1>3
  <1>7. Unheard' = After(CommandCalls, 5 - (n - 1))
    BY <1>3, <1>4
  <1>8. CASE n = 5
    <2>1. call.op = "start"
      BY <1>3, <1>8 DEF CommandCalls, Finder!Start
    <2>2. Commanding(4)'
      BY <1>1, <1>5, <1>7, <1>8, <2>1 DEF Commanding
    <2>. QED
      BY <2>2
  <1>9. CASE n = 4
    <2>1. call.op = "write" /\ call.byte = 196
      BY <1>3, <1>9 DEF CommandCalls, Finder!Write
    <2>2. hearing = "address"
      BY <1>9 DEF Commanding
    <2>3. Commanding(3)'
      BY <1>1, <1>5, <1>7, <1>9, <2>1, <2>2 DEF Commanding
    <2>. QED
      BY <2>3
  <1>10. CASE n = 3
    <2>1. call.op = "write" /\ call.byte = 0
      BY <1>3, <1>10 DEF CommandCalls, Finder!Write
    <2>2. hearing = "register"
      BY <1>10 DEF Commanding
    <2>3. Commanding(2)'
      BY <1>1, <1>5, <1>7, <1>10, <2>1, <2>2 DEF Commanding
    <2>. QED
      BY <2>3
  <1>11. CASE n = 2
    <2>1. Commanding(1)'
      BY <1>7, <1>11 DEF Commanding
    <2>. QED
      BY <2>1
  <1>12. CASE n = 1
    <2>1. call.op = "stop"
      BY <1>3, <1>12 DEF CommandCalls, Finder!Stop
    <2>2. Commanding(0)'
      BY <1>1, <1>5, <1>7, <1>12, <2>1 DEF Commanding
    <2>. QED
      BY <2>2
  <1>. QED
    BY <1>6, <1>8, <1>9, <1>10, <1>11, <1>12

(* Another of a read's; value is what the read is for.                     *)
LEMMA ReadHeard ==
  ASSUME WireTypeOK, NEW reg \in {15, 16}, NEW n \in 0 .. 7, Requesting(n, reg), n <= 5 => ~measuring,
         NEW value, Brings(n, value, IF reg = 15 THEN Finder!UpperByte(held) ELSE Finder!LowerByte(held)),
         NEW e \in Finder!Event, Finder!Hear(e), calls' = calls,
         Finder!Sensor(e), ~Finder!Refused(e), Finder!LidarTypeOK,
         latest = IF measuring THEN (held + 1) % 3 ELSE held
  PROVE  \E m \in 0 .. 7 :
           /\ Requesting(m, reg)' /\ (m <= 5 => ~measuring') /\ measuring' = measuring
           /\ m <= 1 => IF call # NONE /\ call.op = "read"
                          THEN e.byte = IF reg = 15 THEN Finder!UpperByte(held) ELSE Finder!LowerByte(held)
                          ELSE value = IF reg = 15 THEN Finder!UpperByte(held) ELSE Finder!LowerByte(held)
  <1>1. /\ call # NONE /\ noted = << >> /\ noted' = <<e>> /\ call' = call
        /\ e.op = call.op /\ (e.op # "read" => e.byte = call.byte)
    BY DEF Finder!Hear
  <1>. reg \in BusByte
    BY Numbers
  <1>2. ReadCalls(reg) \in Seq(Finder!Request) /\ Len(ReadCalls(reg)) = 7
    BY ReadIs
  <1>3. n # 0 /\ call = ReadCalls(reg)[8 - n] /\ calls = After(ReadCalls(reg), 7 - (n - 1))
    <2>1. 7 - n \in 0 .. Len(ReadCalls(reg)) /\ Unheard = After(ReadCalls(reg), 7 - n)
      BY <1>2 DEF Requesting
    <2>2. 7 - n < 7 /\ call = ReadCalls(reg)[7 - n + 1] /\ calls = After(ReadCalls(reg), 7 - n + 1)
      BY <1>1, <1>2, <2>1, NextLeft
    <2>3. 7 - n + 1 = 8 - n /\ 7 - n + 1 = 7 - (n - 1) /\ n # 0
      BY <2>2
    <2>. QED
      BY <2>2, <2>3
  <1>4. Unheard' = calls
    BY <1>1 DEF Unheard
  <1>5. /\ e.op # "write" => measuring' = measuring /\ register' = register
        /\ e.op = "start" => hearing' = "address"
        /\ e.op = "stop" => hearing' = "free"
        /\ e.op = "read" => hearing = "reading" /\ e.byte = Finder!RegisterByte
        /\ e.op = "write" /\ hearing = "address" =>
             /\ ~measuring /\ measuring' = measuring /\ register' = register
             /\ hearing' = IF e.byte % 2 = 1 THEN "reading" ELSE "register"
        /\ e.op = "write" /\ hearing = "register" =>
             hearing' = "data" /\ register' = e.byte /\ measuring' = measuring
    BY SensorAnswers
  <1>6. n \in 1 .. 7
    BY <1>3
  <1>7. Unheard' = After(ReadCalls(reg), 7 - (n - 1))
    BY <1>3, <1>4
  <1>8. CASE n = 7
    <2>1. call.op = "start"
      BY <1>3, <1>8 DEF ReadCalls, Finder!Start
    <2>2. Requesting(6, reg)' /\ measuring' = measuring
      BY <1>1, <1>5, <1>7, <1>8, <2>1 DEF Requesting
    <2>. QED
      BY <2>2
  <1>9. CASE n = 6
    <2>1. call.op = "write" /\ call.byte = 196
      BY <1>3, <1>9 DEF ReadCalls, Finder!Write
    <2>2. hearing = "address"
      BY <1>9 DEF Requesting
    <2>3. Requesting(5, reg)' /\ ~measuring' /\ measuring' = measuring
      BY <1>1, <1>5, <1>7, <1>9, <2>1, <2>2 DEF Requesting
    <2>. QED
      BY <2>3
  <1>10. CASE n = 5
    <2>1. call.op = "write" /\ call.byte = reg
      BY <1>3, <1>10 DEF ReadCalls, Finder!Write
    <2>2. hearing = "register"
      BY <1>10 DEF Requesting
    <2>3. Requesting(4, reg)' /\ ~measuring' /\ measuring' = measuring
      BY <1>1, <1>5, <1>7, <1>10, <2>1, <2>2 DEF Requesting
    <2>. QED
      BY <2>3
  <1>11. CASE n = 4
    <2>1. call.op = "start"
      BY <1>3, <1>11 DEF ReadCalls, Finder!Start
    <2>2. register = reg
      BY <1>11 DEF Requesting
    <2>3. Requesting(3, reg)' /\ ~measuring' /\ measuring' = measuring
      BY <1>1, <1>5, <1>7, <1>11, <2>1, <2>2 DEF Requesting
    <2>. QED
      BY <2>3
  <1>12. CASE n = 3
    <2>1. call.op = "write" /\ call.byte = 197
      BY <1>3, <1>12 DEF ReadCalls, Finder!Write
    <2>2. register = reg /\ hearing = "address"
      BY <1>12 DEF Requesting
    <2>3. Requesting(2, reg)' /\ ~measuring' /\ measuring' = measuring
      BY <1>1, <1>5, <1>7, <1>12, <2>1, <2>2 DEF Requesting
    <2>. QED
      BY <2>3
  <1>13. CASE n = 2
    <2>1. call.op = "read"
      BY <1>3, <1>13 DEF ReadCalls, Finder!Read
    <2>2. register = reg
      BY <1>13 DEF Requesting
    <2>3. Requesting(1, reg)' /\ ~measuring' /\ measuring' = measuring
      BY <1>1, <1>5, <1>7, <1>13, <2>1 DEF Requesting
    <2>4. e.byte = IF reg = 15 THEN Finder!UpperByte(held) ELSE Finder!LowerByte(held)
      BY <1>1, <1>5, <2>1, <2>2, Numbers DEF Finder!RegisterByte
    <2>. QED
      BY <1>1, <2>1, <2>3, <2>4
  <1>14. CASE n = 1
    <2>1. call.op = "stop"
      BY <1>3, <1>14 DEF ReadCalls, Finder!Stop
    <2>2. Requesting(0, reg)' /\ ~measuring' /\ measuring' = measuring
      BY <1>1, <1>5, <1>7, <1>14, <2>1 DEF Requesting
    <2>3. value = IF reg = 15 THEN Finder!UpperByte(held) ELSE Finder!LowerByte(held)
      BY <1>14, <2>1 DEF Brings
    <2>. QED
      BY <2>1, <2>2, <2>3
  <1>. QED
    BY <1>6, <1>8, <1>9, <1>10, <1>11, <1>12, <1>13, <1>14

(* LidarInv does not speak of the wires.                                   *)
LEMMA LidarStutter ==
  ASSUME LidarInv,
         UNCHANGED <<stand, calls, ok, count, upper, lower, range>>,
         UNCHANGED <<hearing, register, measuring, held, latest, call, noted>>
  PROVE  LidarInv'
  <1>1. Unheard' = Unheard /\ (Accepted' <=> Accepted)
    BY DEF Unheard, Accepted
  <1>2. ASSUME NEW n, Commanding(n) PROVE Commanding(n)'
    BY <1>1, <1>2 DEF Commanding
  <1>3. ASSUME NEW n, NEW reg, Requesting(n, reg) PROVE Requesting(n, reg)'
    BY <1>1, <1>3 DEF Requesting
  <1>4. \A n, value, byte : Brings(n, value, byte) => Brings(n, value, byte)'
    BY DEF Brings
  <1>5. Finder!LidarTypeOK'
    BY DEF LidarInv, Finder!LidarTypeOK
  <1>6. stand = "command" /\ Accepted => \E n \in 0 .. 5 : Commanding(n)'
    BY <1>2 DEF LidarInv
  <1>7. stand = "upper" /\ Accepted =>
          \E n \in 0 .. 7 : /\ Requesting(n, 15)' /\ (n <= 5 => ~measuring)
                            /\ Brings(n, upper, Finder!UpperByte(held))'
    <2>1. SUFFICES ASSUME stand = "upper", Accepted
                   PROVE  \E n \in 0 .. 7 : /\ Requesting(n, 15)' /\ (n <= 5 => ~measuring)
                                            /\ Brings(n, upper, Finder!UpperByte(held))'
      OBVIOUS
    <2>2. PICK n \in 0 .. 7 : /\ Requesting(n, 15) /\ (n <= 5 => ~measuring)
                              /\ Brings(n, upper, Finder!UpperByte(held))
      BY <2>1 DEF LidarInv
    <2>. QED
      BY <1>3, <2>2 DEF Brings, Finder!UpperByte
  <1>8. stand = "lower" /\ Accepted =>
          \E n \in 0 .. 7 : /\ Requesting(n, 16)' /\ ~measuring /\ upper = Finder!UpperByte(held)
                            /\ Brings(n, lower, Finder!LowerByte(held))'
    <2>1. SUFFICES ASSUME stand = "lower", Accepted
                   PROVE  \E n \in 0 .. 7 : /\ Requesting(n, 16)' /\ ~measuring /\ upper = Finder!UpperByte(held)
                                            /\ Brings(n, lower, Finder!LowerByte(held))'
      OBVIOUS
    <2>2. PICK n \in 0 .. 7 : /\ Requesting(n, 16) /\ ~measuring /\ upper = Finder!UpperByte(held)
                              /\ Brings(n, lower, Finder!LowerByte(held))
      BY <2>1 DEF LidarInv
    <2>. QED
      BY <1>3, <2>2 DEF Brings, Finder!LowerByte
  <1>9. /\ stand = "idle" /\ range # NONE => Fresh'
        /\ stand = "pause" /\ count > 0 /\ range # NONE => Fresh'
    BY DEF LidarInv, Fresh, Finder!UpperByte, Finder!LowerByte
  <1>10. /\ latest = IF measuring THEN (held + 1) % 3 ELSE held
         /\ stand \in {"idle", "pause"} => call = NONE /\ calls = << >>
         /\ stand = "command" => count = 0
         /\ stand = "pause" /\ count = 0 => hearing = "free"
    BY DEF LidarInv
  <1>11. upper' = upper /\ lower' = lower /\ held' = held
    OBVIOUS
  <1>. QED
    BY <1>1, <1>5, <1>6, <1>7, <1>8, <1>9, <1>10 DEF LidarInv, Finder!UpperByte

(* A port access of lidar_read.                                            *)
LEMMA AccessInRead ==
  ASSUME BusInv, LidarInv, Finder!Bus!PortAccess, Finder!SensorHears, UNCHANGED Finder!readVars
  PROVE  LidarInv'
  <1>1. LinkStep /\ UNCHANGED <<calls, call, result>> /\ call # NONE
    BY AccessKeeps
  <1>2. UNCHANGED <<stand, calls, ok, count, upper, lower, range>>
    BY DEF Finder!readVars
  <1>3. CASE noted' = noted
    <2>1. UNCHANGED <<hearing, register, measuring, held, latest>>
      BY <1>3 DEF Finder!SensorHears, Finder!sensorVars
    <2>. QED
      BY <1>1, <1>2, <1>3, <2>1, LidarStutter
  <1>4. ASSUME NEW e \in Finder!Event, Finder!Hear(e) PROVE LidarInv'
    <2>1. noted = << >> /\ noted' = <<e>>
      BY <1>4 DEF Finder!Hear
    <2>2. Finder!Sensor(e)
      <3>1. noted' # noted /\ noted'[Len(noted')] = e
        BY <2>1
      <3>. QED
        BY <3>1 DEF Finder!SensorHears
    <2>3. WireTypeOK
      BY DEF BusInv
    <2>4. Finder!LidarTypeOK /\ latest = IF measuring THEN (held + 1) % 3 ELSE held
      BY DEF LidarInv
    <2>5. stand \notin {"idle", "pause"}
      BY <1>1 DEF LidarInv
    <2>6. /\ hearing' \in {"free", "deaf", "address", "register", "data", "reading"}
          /\ register' \in BusByte /\ measuring' \in BOOLEAN /\ latest' \in 0 .. 2
          /\ held' = held
          /\ latest' = IF measuring' THEN (held' + 1) % 3 ELSE held'
      BY <2>2, <2>4, SensorAnswers
    <2>7. Finder!LidarTypeOK'
      BY <1>2, <2>4, <2>6 DEF Finder!LidarTypeOK
    <2>8. Accepted' => Accepted /\ ~Finder!Refused(e)
      BY <1>2, <2>1 DEF Accepted
    <2>9. stand = "command" /\ Accepted' => \E n \in 0 .. 5 : Commanding(n)'
      <3>1. SUFFICES ASSUME stand = "command", Accepted' PROVE \E m \in 0 .. 5 : Commanding(m)'
        OBVIOUS
      <3>2. PICK n \in 0 .. 5 : Commanding(n)
        BY <2>8, <3>1 DEF LidarInv
      <3>3. ~Finder!Refused(e) /\ calls' = calls
        BY <1>1, <2>8, <3>1
      <3>. QED
        BY <1>4, <2>2, <2>3, <2>4, <3>2, <3>3, CommandHeard
    <2>10. ASSUME NEW m \in 0 .. 7, NEW value, NEW byte,
                  m <= 1 => IF call # NONE /\ call.op = "read" THEN e.byte = byte ELSE value = byte
           PROVE  m <= 1 => IF call' # NONE /\ call'.op = "read" THEN noted'[1].byte = byte ELSE value = byte
      BY <1>1, <2>1, <2>10
    <2>11. stand = "upper" /\ Accepted' =>
             \E n \in 0 .. 7 : /\ Requesting(n, 15)'
                               /\ n <= 5 => ~measuring'
                               /\ n <= 1 => IF call' # NONE /\ call'.op = "read"
                                              THEN noted'[1].byte = Finder!UpperByte(held)
                                              ELSE upper = Finder!UpperByte(held)
      <3>1. SUFFICES ASSUME stand = "upper", Accepted'
                     PROVE  \E n \in 0 .. 7 : /\ Requesting(n, 15)'
                                              /\ n <= 5 => ~measuring'
                                              /\ n <= 1 => IF call' # NONE /\ call'.op = "read"
                                                             THEN noted'[1].byte = Finder!UpperByte(held)
                                                             ELSE upper = Finder!UpperByte(held)
        OBVIOUS
      <3>2. PICK n \in 0 .. 7 : /\ Requesting(n, 15) /\ (n <= 5 => ~measuring)
                                /\ Brings(n, upper, Finder!UpperByte(held))
        BY <2>8, <3>1 DEF LidarInv
      <3>3. ~Finder!Refused(e) /\ calls' = calls
        BY <1>1, <2>8, <3>1
      <3>4. Brings(n, upper, IF 15 = 15 THEN Finder!UpperByte(held) ELSE Finder!LowerByte(held))
        BY <3>2
      <3>5. \E m \in 0 .. 7 :
              /\ Requesting(m, 15)' /\ (m <= 5 => ~measuring') /\ measuring' = measuring
              /\ m <= 1 => IF call # NONE /\ call.op = "read"
                             THEN e.byte = IF 15 = 15 THEN Finder!UpperByte(held) ELSE Finder!LowerByte(held)
                             ELSE upper = IF 15 = 15 THEN Finder!UpperByte(held) ELSE Finder!LowerByte(held)
        BY <1>4, <2>2, <2>3, <2>4, <3>2, <3>3, <3>4, ReadHeard
      <3>. QED
        BY <2>10, <3>5
    <2>12. stand = "lower" /\ Accepted' =>
             /\ upper = Finder!UpperByte(held)
             /\ \E n \in 0 .. 7 : /\ Requesting(n, 16)'
                                  /\ ~measuring'
                                  /\ n <= 1 => IF call' # NONE /\ call'.op = "read"
                                                 THEN noted'[1].byte = Finder!LowerByte(held)
                                                 ELSE lower = Finder!LowerByte(held)
      <3>1. SUFFICES ASSUME stand = "lower", Accepted'
                     PROVE  /\ upper = Finder!UpperByte(held)
                            /\ \E n \in 0 .. 7 : /\ Requesting(n, 16)'
                                                 /\ ~measuring'
                                                 /\ n <= 1 => IF call' # NONE /\ call'.op = "read"
                                                                THEN noted'[1].byte = Finder!LowerByte(held)
                                                                ELSE lower = Finder!LowerByte(held)
        OBVIOUS
      <3>2. PICK n \in 0 .. 7 : /\ Requesting(n, 16) /\ ~measuring /\ upper = Finder!UpperByte(held)
                                /\ Brings(n, lower, Finder!LowerByte(held))
        BY <2>8, <3>1 DEF LidarInv
      <3>3. ~Finder!Refused(e) /\ calls' = calls
        BY <1>1, <2>8, <3>1
      <3>4. Brings(n, lower, IF 16 = 15 THEN Finder!UpperByte(held) ELSE Finder!LowerByte(held))
        BY <3>2
      <3>5. \E m \in 0 .. 7 :
              /\ Requesting(m, 16)' /\ (m <= 5 => ~measuring') /\ measuring' = measuring
              /\ m <= 1 => IF call # NONE /\ call.op = "read"
                             THEN e.byte = IF 16 = 15 THEN Finder!UpperByte(held) ELSE Finder!LowerByte(held)
                             ELSE lower = IF 16 = 15 THEN Finder!UpperByte(held) ELSE Finder!LowerByte(held)
        BY <1>4, <2>2, <2>3, <2>4, <3>2, <3>3, <3>4, ReadHeard
      <3>6. PICK m \in 0 .. 7 :
              /\ Requesting(m, 16)' /\ measuring' = measuring
              /\ m <= 1 => IF call # NONE /\ call.op = "read" THEN e.byte = Finder!LowerByte(held)
                                                              ELSE lower = Finder!LowerByte(held)
        BY <3>5
      <3>7. ~measuring' /\ upper = Finder!UpperByte(held)
        BY <3>2, <3>6
      <3>. QED
        BY <2>10, <3>6, <3>7
    <2>13. (stand = "upper" /\ Accepted)' =>
             \E n \in 0 .. 7 : /\ Requesting(n, 15)'
                               /\ n <= 5 => ~measuring'
                               /\ Brings(n, upper, Finder!UpperByte(held))'
      BY <1>2, <2>6, <2>11 DEF Brings, Finder!UpperByte
    <2>14. (stand = "lower" /\ Accepted)' =>
             \E n \in 0 .. 7 : /\ Requesting(n, 16)'
                               /\ ~measuring' /\ (upper = Finder!UpperByte(held))'
                               /\ Brings(n, lower, Finder!LowerByte(held))'
      BY <1>2, <2>6, <2>12 DEF Brings, Finder!UpperByte, Finder!LowerByte
    <2>15. stand' = stand /\ count' = count /\ (stand = "command" => count = 0)
      BY <1>2 DEF LidarInv
    <2>. QED
      BY <2>5, <2>6, <2>7, <2>9, <2>13, <2>14, <2>15 DEF LidarInv
  <1>. QED
    BY <1>1, <1>3, <1>4 DEF LinkStep

(* lidar_read makes a call.                                                *)
LEMMA CallInRead ==
  ASSUME BusInv, LidarInv, Finder!Bus!Call, Finder!CallLink
  PROVE  LidarInv'
  <1>1. /\ call = NONE /\ calls # << >> /\ call' = Head(calls) /\ calls' = Tail(calls) /\ noted' = << >>
        /\ UNCHANGED <<stand, ok, count, upper, lower, range, hearing, register, measuring, held, latest>>
    BY DEF Finder!Bus!Call, Finder!CallLink, Finder!sensorVars
  <1>2. noted = << >> /\ Unheard = calls /\ calls \in Seq(Finder!Request)
    BY <1>1, BetweenCalls
  <1>3. stand \notin {"idle", "pause"}
    BY <1>1 DEF LidarInv
  <1>4. Head(calls) \in Finder!Request /\ calls = <<Head(calls)>> \o Tail(calls)
    BY <1>1, <1>2
  <1>5. call' # NONE
    BY <1>1, <1>4, RequestIs, Numbers
  <1>6. Unheard' = Unheard
    BY <1>1, <1>2, <1>4, <1>5 DEF Unheard
  <1>7. Accepted' => Accepted
    BY <1>1, <1>2 DEF Accepted
  <1>8. ASSUME NEW n, Commanding(n) PROVE Commanding(n)'
    BY <1>1, <1>6, <1>8 DEF Commanding
  <1>9. ASSUME NEW n, NEW reg, Requesting(n, reg) PROVE Requesting(n, reg)'
    BY <1>1, <1>6, <1>9 DEF Requesting
  <1>10. ASSUME NEW n \in 0 .. 7, NEW reg \in {15, 16}, Requesting(n, reg),
                NEW value, NEW byte, Brings(n, value, byte)
         PROVE  n <= 1 => value = byte /\ call'.op = "stop"
    <2>1. SUFFICES ASSUME n <= 1 PROVE value = byte /\ call'.op = "stop"
      OBVIOUS
    <2>. reg \in BusByte
      BY Numbers
    <2>2. ReadCalls(reg) \in Seq(Finder!Request) /\ Len(ReadCalls(reg)) = 7
      BY ReadIs
    <2>3. calls = After(ReadCalls(reg), 7 - n) /\ 7 - n \in 0 .. Len(ReadCalls(reg))
      BY <1>2, <1>10, <2>2 DEF Requesting
    <2>4. 7 - n # 7
      <3>1. 7 \in 0 .. Len(ReadCalls(reg)) /\ 7 = Len(ReadCalls(reg))
        BY <2>2
      <3>2. After(ReadCalls(reg), 7) = << >>
        BY <2>2, <3>1, AfterStep
      <3>. QED
        BY <1>1, <2>3, <3>2
    <2>5. n = 1
      BY <2>1, <2>4
    <2>6. calls = After(ReadCalls(reg), 6)
      BY <2>3, <2>5
    <2>7. call' = ReadCalls(reg)[7]
      <3>1. 6 \in 0 .. Len(ReadCalls(reg)) /\ 6 < Len(ReadCalls(reg))
        BY <2>2
      <3>2. Head(After(ReadCalls(reg), 6)) = ReadCalls(reg)[6 + 1]
        BY <2>2, <3>1, AfterStep
      <3>. QED
        BY <1>1, <2>6, <3>2
    <2>8. call'.op = "stop"
      BY <2>7 DEF ReadCalls, Finder!Stop
    <2>. QED
      BY <1>1, <1>10, <2>1, <2>8 DEF Brings
  <1>11. Finder!LidarTypeOK'
    BY <1>1, <1>3 DEF LidarInv, Finder!LidarTypeOK
  <1>12. (stand = "command" /\ Accepted)' => \E n \in 0 .. 5 : Commanding(n)'
    BY <1>1, <1>7, <1>8 DEF LidarInv
  <1>13. (stand = "upper" /\ Accepted)' =>
           \E n \in 0 .. 7 : /\ Requesting(n, 15)' /\ (n <= 5 => ~measuring')
                             /\ Brings(n, upper, Finder!UpperByte(held))'
    <2>1. SUFFICES ASSUME stand = "upper", Accepted
                   PROVE  \E n \in 0 .. 7 : /\ Requesting(n, 15)' /\ (n <= 5 => ~measuring')
                                            /\ Brings(n, upper, Finder!UpperByte(held))'
      BY <1>1, <1>7
    <2>2. PICK n \in 0 .. 7 : /\ Requesting(n, 15) /\ (n <= 5 => ~measuring)
                              /\ Brings(n, upper, Finder!UpperByte(held))
      BY <2>1 DEF LidarInv
    <2>3. n <= 1 => upper = Finder!UpperByte(held) /\ call'.op = "stop"
      BY <1>10, <2>2
    <2>4. Brings(n, upper, Finder!UpperByte(held))'
      BY <1>1, <2>3 DEF Brings, Finder!UpperByte
    <2>. QED
      BY <1>1, <1>9, <2>2, <2>4
  <1>14. (stand = "lower" /\ Accepted)' =>
           \E n \in 0 .. 7 : /\ Requesting(n, 16)' /\ ~measuring' /\ (upper = Finder!UpperByte(held))'
                             /\ Brings(n, lower, Finder!LowerByte(held))'
    <2>1. SUFFICES ASSUME stand = "lower", Accepted
                   PROVE  \E n \in 0 .. 7 : /\ Requesting(n, 16)' /\ ~measuring' /\ (upper = Finder!UpperByte(held))'
                                            /\ Brings(n, lower, Finder!LowerByte(held))'
      BY <1>1, <1>7
    <2>2. PICK n \in 0 .. 7 : /\ Requesting(n, 16) /\ ~measuring /\ upper = Finder!UpperByte(held)
                              /\ Brings(n, lower, Finder!LowerByte(held))
      BY <2>1 DEF LidarInv
    <2>3. n <= 1 => lower = Finder!LowerByte(held) /\ call'.op = "stop"
      BY <1>10, <2>2
    <2>4. Brings(n, lower, Finder!LowerByte(held))' /\ (upper = Finder!UpperByte(held))'
      BY <1>1, <2>2, <2>3 DEF Brings, Finder!UpperByte, Finder!LowerByte
    <2>. QED
      BY <1>1, <1>9, <2>2, <2>4
  <1>15. /\ latest' = IF measuring' THEN (held' + 1) % 3 ELSE held'
         /\ stand' = "command" => count' = 0
    BY <1>1 DEF LidarInv
  <1>. QED
    BY <1>1, <1>3, <1>11, <1>12, <1>13, <1>14, <1>15 DEF LidarInv

(* A call of lidar_read's returns.                                         *)
LEMMA ReturnInRead ==
  ASSUME BusInv, LidarInv, Finder!Bus!Return, Finder!LinkReturned(Finder!Bus!Outcome)
  PROVE  LidarInv'
  <1>1. /\ call # NONE /\ call' = NONE /\ noted' = << >>
        /\ UNCHANGED <<stand, count, range, hearing, register, measuring, held, latest>>
    BY DEF Finder!Bus!Return, Finder!LinkReturned, Finder!sensorVars
  <1>2. noted = <<Finder!Bus!Outcome>> /\ call \in Finder!Request
    BY ReturnKeeps
  <1>3. WireTypeOK
    BY DEF BusInv
  <1>4. Finder!Bus!Outcome.op = call.op /\ Finder!Bus!Outcome.byte \in BusByte
    <2>1. call.op \in {"start", "stop", "write", "read"} /\ call.byte \in 0 .. 255
      BY <1>2, RequestIs
    <2>2. call \in Finder!Event
      BY <1>2, RequestIs
    <2>. QED
      BY <1>3, <2>1, <2>2, Numbers DEF Finder!Bus!Outcome, WireTypeOK, Finder!Event
  <1>5. PICK e : e = Finder!Bus!Outcome
    OBVIOUS
  <1>6. /\ (ok' <=> ok /\ ~Finder!Refused(e)) /\ ok' \in BOOLEAN
        /\ ~Finder!Refused(e) => calls' = calls
        /\ upper' = IF e.op = "read" /\ stand = "upper" THEN e.byte ELSE upper
        /\ lower' = IF e.op = "read" /\ stand = "lower" THEN e.byte ELSE lower
    <2>1. ok' = (ok /\ ~Finder!Refused(e))
      BY <1>5 DEF Finder!LinkReturned
    <2>2. (ok /\ ~Finder!Refused(e)) \in BOOLEAN
      OBVIOUS
    <2>3. ok' <=> ok /\ ~Finder!Refused(e)
      BY <2>1
    <2>4. ok' \in BOOLEAN
      BY <2>1, <2>2
    <2>5. ~Finder!Refused(e) => calls' = calls
      BY <1>5 DEF Finder!LinkReturned
    <2>6. /\ upper' = IF e.op = "read" /\ stand = "upper" THEN e.byte ELSE upper
          /\ lower' = IF e.op = "read" /\ stand = "lower" THEN e.byte ELSE lower
      BY <1>5 DEF Finder!LinkReturned
    <2>. QED
      BY <2>3, <2>4, <2>5, <2>6
  <1>7. e.op = call.op /\ e.byte \in BusByte /\ noted = <<e>>
    BY <1>2, <1>4, <1>5
  <1>8. stand \notin {"idle", "pause"}
    BY <1>1 DEF LidarInv
  <1>9. Accepted' => Accepted /\ calls' = calls
    <2>1. noted # << >> /\ noted[1] = e
      BY <1>7
    <2>. QED
      BY <1>1, <1>6, <2>1 DEF Accepted
  <1>10. Unheard = calls /\ Unheard' = calls'
    <2>1. noted # << >>
      BY <1>7
    <2>. QED
      BY <1>1, <2>1 DEF Unheard
  <1>11. ASSUME NEW n, Commanding(n), calls' = calls PROVE Commanding(n)'
    BY <1>1, <1>10, <1>11 DEF Commanding
  <1>12. ASSUME NEW n, NEW reg, Requesting(n, reg), calls' = calls PROVE Requesting(n, reg)'
    BY <1>1, <1>10, <1>12 DEF Requesting
  <1>13. Finder!LidarTypeOK'
    BY <1>1, <1>6, <1>7, <1>8 DEF LidarInv, Finder!LidarTypeOK
  <1>14. (stand = "command" /\ Accepted)' => \E n \in 0 .. 5 : Commanding(n)'
    BY <1>1, <1>9, <1>11 DEF LidarInv
  <1>15. (stand = "upper" /\ Accepted)' =>
           \E n \in 0 .. 7 : /\ Requesting(n, 15)' /\ (n <= 5 => ~measuring')
                             /\ Brings(n, upper, Finder!UpperByte(held))'
    <2>1. SUFFICES ASSUME stand = "upper", Accepted, calls' = calls
                   PROVE  \E n \in 0 .. 7 : /\ Requesting(n, 15)' /\ (n <= 5 => ~measuring')
                                            /\ Brings(n, upper, Finder!UpperByte(held))'
      BY <1>1, <1>9
    <2>2. PICK n \in 0 .. 7 : /\ Requesting(n, 15) /\ (n <= 5 => ~measuring)
                              /\ Brings(n, upper, Finder!UpperByte(held))
      BY <2>1 DEF LidarInv
    <2>3. noted[1] = e
      BY <1>7
    <2>4. n <= 1 => upper' = Finder!UpperByte(held)
      BY <1>1, <1>6, <1>7, <2>1, <2>2, <2>3 DEF Brings
    <2>5. Brings(n, upper, Finder!UpperByte(held))'
      BY <1>1, <2>4 DEF Brings, Finder!UpperByte
    <2>. QED
      BY <1>1, <1>12, <2>1, <2>2, <2>5
  <1>16. (stand = "lower" /\ Accepted)' =>
           \E n \in 0 .. 7 : /\ Requesting(n, 16)' /\ ~measuring' /\ (upper = Finder!UpperByte(held))'
                             /\ Brings(n, lower, Finder!LowerByte(held))'
    <2>1. SUFFICES ASSUME stand = "lower", Accepted, calls' = calls
                   PROVE  \E n \in 0 .. 7 : /\ Requesting(n, 16)' /\ ~measuring' /\ (upper = Finder!UpperByte(held))'
                                            /\ Brings(n, lower, Finder!LowerByte(held))'
      BY <1>1, <1>9
    <2>2. PICK n \in 0 .. 7 : /\ Requesting(n, 16) /\ ~measuring /\ upper = Finder!UpperByte(held)
                              /\ Brings(n, lower, Finder!LowerByte(held))
      BY <2>1 DEF LidarInv
    <2>3. noted[1] = e
      BY <1>7
    <2>4. (n <= 1 => lower' = Finder!LowerByte(held)) /\ upper' = upper
      BY <1>1, <1>6, <1>7, <2>1, <2>2, <2>3 DEF Brings
    <2>5. Brings(n, lower, Finder!LowerByte(held))' /\ (upper = Finder!UpperByte(held))'
      BY <1>1, <2>2, <2>4 DEF Brings, Finder!UpperByte, Finder!LowerByte
    <2>. QED
      BY <1>1, <1>12, <2>1, <2>2, <2>5
  <1>17. /\ latest' = IF measuring' THEN (held' + 1) % 3 ELSE held'
         /\ stand' = "command" => count' = 0
    BY <1>1 DEF LidarInv
  <1>. QED
    BY <1>1, <1>8, <1>13, <1>14, <1>15, <1>16, <1>17 DEF LidarInv

(* What lidar_read does between its calls, and the sensor.                 *)
Wires == <<scl, sdaOut, sdaDir, todo, Data, bAck, mode, first, bits, shift, pull>>

(* A transfer is over: unless a byte was refused all has been heard.       *)
LEMMA DoneIs ==
  ASSUME BusInv, LidarInv, NEW label, Finder!Done(label)
  PROVE  /\ stand = label /\ call = NONE /\ calls = << >> /\ noted = << >>
         /\ Accepted <=> ok
         /\ label = "command" /\ ok => hearing = "free" /\ count = 0
         /\ label = "upper" /\ ok => ~measuring /\ upper = Finder!UpperByte(held) /\ hearing = "free"
         /\ label = "lower" /\ ok => /\ ~measuring /\ upper = Finder!UpperByte(held)
                                     /\ lower = Finder!LowerByte(held) /\ hearing = "free"
  <1>1. stand = label /\ call = NONE /\ calls = << >>
    BY DEF Finder!Done
  <1>2. noted = << >>
    BY <1>1, BetweenCalls
  <1>3. Accepted <=> ok
    BY <1>2 DEF Accepted
  <1>4. CommandCalls \in Seq(Finder!Request) /\ Len(CommandCalls) = 5
    BY CommandIs
  <1>5. ASSUME NEW n \in 0 .. 5, Commanding(n) PROVE n = 0
    <2>1. 5 - n \in 0 .. Len(CommandCalls) /\ Unheard = After(CommandCalls, 5 - n)
      BY <1>4, <1>5 DEF Commanding
    <2>2. 5 - n = Len(CommandCalls)
      BY <1>1, <1>4, <2>1, NothingLeft
    <2>. QED
      BY <1>4, <2>2
  <1>6. ASSUME NEW n \in 0 .. 7, NEW reg \in {15, 16}, Requesting(n, reg) PROVE n = 0
    <2>. reg \in BusByte
      BY Numbers
    <2>0. ReadCalls(reg) \in Seq(Finder!Request) /\ Len(ReadCalls(reg)) = 7
      BY ReadIs
    <2>1. 7 - n \in 0 .. Len(ReadCalls(reg)) /\ Unheard = After(ReadCalls(reg), 7 - n)
      BY <1>6, <2>0 DEF Requesting
    <2>2. 7 - n = Len(ReadCalls(reg))
      BY <1>1, <2>0, <2>1, NothingLeft
    <2>. QED
      BY <2>0, <2>2
  <1>7. label = "command" /\ ok => hearing = "free" /\ count = 0
    <2>1. SUFFICES ASSUME label = "command", ok PROVE hearing = "free" /\ count = 0
      OBVIOUS
    <2>2. PICK n \in 0 .. 5 : Commanding(n)
      BY <1>1, <1>3, <2>1 DEF LidarInv
    <2>3. n = 0
      BY <1>5, <2>2
    <2>. QED
      BY <1>1, <2>1, <2>2, <2>3 DEF Commanding, LidarInv
  <1>8. label = "upper" /\ ok => ~measuring /\ upper = Finder!UpperByte(held) /\ hearing = "free"
    <2>1. SUFFICES ASSUME label = "upper", ok
                   PROVE  ~measuring /\ upper = Finder!UpperByte(held) /\ hearing = "free"
      OBVIOUS
    <2>2. PICK n \in 0 .. 7 : /\ Requesting(n, 15) /\ (n <= 5 => ~measuring)
                              /\ Brings(n, upper, Finder!UpperByte(held))
      BY <1>1, <1>3, <2>1 DEF LidarInv
    <2>3. n = 0
      BY <1>6, <2>2
    <2>. QED
      BY <1>1, <2>2, <2>3 DEF Requesting, Brings
  <1>9. label = "lower" /\ ok => /\ ~measuring /\ upper = Finder!UpperByte(held)
                                 /\ lower = Finder!LowerByte(held) /\ hearing = "free"
    <2>1. SUFFICES ASSUME label = "lower", ok
                   PROVE  /\ ~measuring /\ upper = Finder!UpperByte(held)
                          /\ lower = Finder!LowerByte(held) /\ hearing = "free"
      OBVIOUS
    <2>2. PICK n \in 0 .. 7 : /\ Requesting(n, 16) /\ ~measuring /\ upper = Finder!UpperByte(held)
                              /\ Brings(n, lower, Finder!LowerByte(held))
      BY <1>1, <1>3, <2>1 DEF LidarInv
    <2>3. n = 0
      BY <1>6, <2>2
    <2>. QED
      BY <1>1, <2>2, <2>3 DEF Requesting, Brings
  <1>. QED
    BY <1>1, <1>2, <1>3, <1>7, <1>8, <1>9

(* A read of one of the two registers begins.                              *)
LEMMA RegisterStarts ==
  ASSUME BusInv, LidarInv, call = NONE, calls = << >>,
         NEW register_half \in {"upper", "lower"}, NEW reg, Finder!read_register(register_half, reg),
         \/ register_half = "upper" /\ reg = 15
         \/ register_half = "lower" /\ reg = 16 /\ ~measuring /\ upper' = Finder!UpperByte(held),
         count' \in 0 .. READ_DELAY, upper' \in BusByte, lower' \in BusByte, range' = range,
         UNCHANGED <<call, noted, result>>, UNCHANGED Finder!sensorVars, UNCHANGED Wires
  PROVE  BusInv' /\ LidarInv'
  <1>. reg \in BusByte
    BY Numbers
  <1>1. calls' = ReadCalls(reg) /\ stand' = register_half /\ ok' = TRUE
    BY ReadIs DEF Finder!read_register
  <1>2. UNCHANGED <<hearing, register, measuring, held, latest>>
    BY DEF Finder!sensorVars
  <1>3. BusInv' /\ Requesting(7, reg)'
    BY <1>1, ReadStarts DEF Wires
  <1>4. Finder!LidarTypeOK'
    BY <1>1, <1>2 DEF LidarInv, Finder!LidarTypeOK
  <1>5. /\ latest' = IF measuring' THEN (held' + 1) % 3 ELSE held'
    BY <1>2 DEF LidarInv
  <1>6. \A value, byte : Brings(7, value, byte)'
    BY DEF Brings
  <1>7. CASE register_half = "upper" /\ reg = 15
    <2>1. \E n \in 0 .. 7 : /\ Requesting(n, 15)' /\ (n <= 5 => ~measuring')
                            /\ Brings(n, upper, Finder!UpperByte(held))'
      BY <1>3, <1>7 DEF Brings
    <2>. QED
      BY <1>1, <1>3, <1>4, <1>5, <1>7, <2>1 DEF LidarInv
  <1>8. CASE register_half = "lower" /\ reg = 16 /\ ~measuring /\ upper' = Finder!UpperByte(held)
    <2>1. (upper = Finder!UpperByte(held))'
      BY <1>2, <1>8 DEF Finder!UpperByte
    <2>2. \E n \in 0 .. 7 : /\ Requesting(n, 16)' /\ ~measuring' /\ (upper = Finder!UpperByte(held))'
                            /\ Brings(n, lower, Finder!LowerByte(held))'
      BY <1>2, <1>3, <1>8, <2>1 DEF Brings
    <2>. QED
      BY <1>1, <1>3, <1>4, <1>5, <1>8, <2>2 DEF LidarInv
  <1>. QED
    BY <1>7, <1>8

(* Task1 waits or is elsewhere.                                            *)
LEMMA RestKeeps ==
  ASSUME BusInv, LidarInv, call = NONE, calls = << >>, calls' = << >>, stand' \in {"idle", "pause"},
         stand' = "pause" => (ok' \/ count' > 0) /\ (count' = 0 => hearing = "free"),
         ok' \in BOOLEAN, count' \in 0 .. READ_DELAY, upper' \in BusByte, lower' \in BusByte,
         \/ range' = NONE
         \/ stand' = "pause" /\ count' = 0 /\ range' = range
         \/ Fresh' /\ range' \in BusByte \X BusByte,
         UNCHANGED <<call, noted, result>>, UNCHANGED Finder!sensorVars, UNCHANGED Wires
  PROVE  BusInv' /\ LidarInv'
  <1>1. UNCHANGED <<hearing, register, measuring, held, latest>>
    BY DEF Finder!sensorVars
  <1>2. BusInv'
    BY BeginKeeps DEF Wires
  <1>3. Finder!LidarTypeOK'
    BY <1>1 DEF LidarInv, Finder!LidarTypeOK
  <1>4. latest' = IF measuring' THEN (held' + 1) % 3 ELSE held'
    BY <1>1 DEF LidarInv
  <1>5. count' \in Nat
    BY Numbers
  <1>6. stand' \notin {"command", "upper", "lower"}
    OBVIOUS
  <1>7. call' = NONE /\ calls' = << >>
    OBVIOUS
  <1>8. /\ stand' = "idle" /\ range' # NONE => Fresh'
        /\ stand' = "pause" /\ count' > 0 /\ range' # NONE => Fresh'
    BY <1>5
  <1>. QED
    BY <1>1, <1>2, <1>3, <1>4, <1>6, <1>7, <1>8 DEF LidarInv

(* Each of lidar_read's own steps.                                         *)
LEMMA StepsInRead ==
  ASSUME BusInv, LidarInv, Finder!LidarRead, UNCHANGED Finder!wireVars
  PROVE  BusInv' /\ LidarInv' /\ UNCHANGED <<call, noted, result>>
  <1>0. UNCHANGED Wires
    BY DEF Finder!wireVars, Wires
  <1>1. /\ Finder!LidarTypeOK
        /\ stand = "idle" /\ range # NONE => Fresh
        /\ stand = "pause" /\ count > 0 /\ range # NONE => Fresh
        /\ stand = "pause" /\ count = 0 => hearing = "free"
    BY DEF LidarInv
  <1>2. /\ ok \in BOOLEAN /\ count \in 0 .. READ_DELAY /\ upper \in BusByte /\ lower \in BusByte
        /\ range \in {NONE} \cup (BusByte \X BusByte)
        /\ stand = "pause" => ok \/ count > 0
    BY <1>1 DEF Finder!LidarTypeOK
  <1>3. READ_DELAY \in Nat \ {0} /\ 0 \in BusByte
    BY Numbers
  <1>4. CASE Finder!CommandSent
    <2>1. /\ Finder!Done("command") /\ ok /\ stand' = "pause"
          /\ UNCHANGED <<call, noted, result>> /\ UNCHANGED Finder!sensorVars
          /\ UNCHANGED <<calls, ok, count, upper, lower, range>>
      BY <1>4 DEF Finder!CommandSent, Finder!linkVars
    <2>2. call = NONE /\ calls = << >> /\ hearing = "free" /\ count = 0
      BY <2>1, DoneIs
    <2>. QED
      BY <1>0, <1>2, <2>1, <2>2, RestKeeps
  <1>5. CASE Finder!CommandFailed
    <2>1. /\ Finder!Done("command") /\ stand' = "idle" /\ range' = NONE
          /\ UNCHANGED <<call, noted, result>> /\ UNCHANGED Finder!sensorVars
          /\ UNCHANGED <<calls, ok, count, upper, lower>>
      BY <1>5 DEF Finder!CommandFailed, Finder!linkVars
    <2>2. call = NONE /\ calls = << >>
      BY <2>1, DoneIs
    <2>. QED
      BY <1>0, <1>2, <2>1, <2>2, RestKeeps
  <1>6. CASE Finder!PauseOver
    <2>1. /\ Finder!Done("pause") /\ Finder!read_register("upper", 15)
          /\ UNCHANGED <<call, noted, result>> /\ UNCHANGED Finder!sensorVars
          /\ UNCHANGED <<count, upper, lower, range>>
      BY <1>6, Numbers DEF Finder!PauseOver, Finder!linkVars
    <2>2. call = NONE /\ calls = << >>
      BY <2>1, DoneIs
    <2>. QED
      BY <1>0, <1>2, <2>1, <2>2, RegisterStarts
  <1>7. CASE Finder!ReadAgain
    <2>1. /\ Finder!Done("pause") /\ Finder!read_register("upper", 15)
          /\ UNCHANGED <<call, noted, result>> /\ UNCHANGED Finder!sensorVars
          /\ count \in 1 .. READ_DELAY - 1 /\ count' = count + 1 /\ upper' = 0 /\ lower' = 0 /\ range' = range
      BY <1>7, Numbers DEF Finder!ReadAgain, Finder!linkVars
    <2>2. call = NONE /\ calls = << >>
      BY <2>1, DoneIs
    <2>3. count' \in 0 .. READ_DELAY
      BY <1>3, <2>1
    <2>. QED
      BY <1>0, <1>2, <1>3, <2>1, <2>2, <2>3, RegisterStarts
  <1>8. CASE Finder!ReadEnds
    <2>1. /\ Finder!Done("pause") /\ stand' = "idle"
          /\ UNCHANGED <<call, noted, result>> /\ UNCHANGED Finder!sensorVars
          /\ count = READ_DELAY \/ (count > 0 /\ range # NONE)
          /\ UNCHANGED <<calls, ok, count, upper, lower, range>>
      BY <1>8 DEF Finder!ReadEnds, Finder!linkVars
    <2>2. stand = "pause" /\ call = NONE /\ calls = << >>
      BY <2>1, DoneIs
    <2>3. count > 0
      BY <1>3, <2>1
    <2>4. range # NONE => Fresh' /\ range \in BusByte \X BusByte
      BY <1>1, <1>2, <2>1, <2>2, <2>3 DEF Fresh, Finder!sensorVars, Finder!UpperByte, Finder!LowerByte
    <2>. QED
      BY <1>0, <1>2, <2>1, <2>2, <2>4, RestKeeps
  <1>9. CASE Finder!UpperRead
    <2>1. /\ Finder!Done("upper") /\ ok /\ Finder!read_register("lower", 16)
          /\ UNCHANGED <<call, noted, result>> /\ UNCHANGED Finder!sensorVars
          /\ UNCHANGED <<count, upper, lower, range>>
      BY <1>9, Numbers DEF Finder!UpperRead, Finder!linkVars
    <2>2. call = NONE /\ calls = << >> /\ ~measuring /\ upper = Finder!UpperByte(held)
      BY <2>1, DoneIs
    <2>. QED
      BY <1>0, <1>2, <2>1, <2>2, RegisterStarts
  <1>10. CASE Finder!LowerRead
    <2>1. /\ Finder!Done("lower") /\ ok /\ range' = <<upper, lower>>
          /\ stand' = IF count = 0 THEN "idle" ELSE "pause"
          /\ UNCHANGED <<call, noted, result>> /\ UNCHANGED Finder!sensorVars
          /\ UNCHANGED <<calls, ok, count, upper, lower>>
      BY <1>10 DEF Finder!LowerRead, Finder!RegistersRead, Finder!linkVars
    <2>2. /\ call = NONE /\ calls = << >> /\ ~measuring
          /\ upper = Finder!UpperByte(held) /\ lower = Finder!LowerByte(held) /\ hearing = "free"
      BY <2>1, DoneIs
    <2>3. latest = held
      BY <2>2 DEF LidarInv
    <2>4. Fresh'
      BY <2>1, <2>2, <2>3 DEF Fresh, Finder!sensorVars, Finder!UpperByte, Finder!LowerByte
    <2>5. range' \in BusByte \X BusByte
      BY <1>2, <2>1
    <2>. QED
      BY <1>0, <1>2, <2>1, <2>2, <2>4, <2>5, RestKeeps
  <1>11. CASE Finder!ReadFailed
    <2>1. /\ Finder!Done("upper") \/ Finder!Done("lower")
          /\ range' = NONE /\ stand' = IF count = 0 THEN "idle" ELSE "pause"
          /\ UNCHANGED <<call, noted, result>> /\ UNCHANGED Finder!sensorVars
          /\ UNCHANGED <<calls, ok, count, upper, lower>>
      BY <1>11 DEF Finder!ReadFailed, Finder!RegistersRead, Finder!linkVars
    <2>2. call = NONE /\ calls = << >>
      BY <2>1, DoneIs
    <2>3. stand' = "pause" => count > 0
      BY <1>2, <1>3, <2>1
    <2>4. stand' = "pause" => count # 0
      BY <2>1
    <2>. QED
      BY <1>0, <1>2, <2>1, <2>2, <2>3, <2>4, RestKeeps
  <1>. QED
    BY <1>4, <1>5, <1>6, <1>7, <1>8, <1>9, <1>10, <1>11
    DEF Finder!LidarRead, Finder!CommandSent, Finder!CommandFailed, Finder!PauseOver, Finder!ReadAgain,
        Finder!ReadEnds, Finder!UpperRead, Finder!LowerRead, Finder!ReadFailed, Finder!RegistersRead, Finder!linkVars

(* A read begins, or the sensor has measured.                              *)
LEMMA BeginsRead ==
  ASSUME BusInv, LidarInv, UNCHANGED Finder!wireVars,
         Finder!lidar_read \/ Finder!lidar_read_fast \/ Finder!Measured
  PROVE  BusInv' /\ LidarInv' /\ UNCHANGED <<call, noted, result>>
  <1>0. UNCHANGED Wires
    BY DEF Finder!wireVars, Wires
  <1>1. Finder!LidarTypeOK /\ latest = IF measuring THEN (held + 1) % 3 ELSE held
    BY DEF LidarInv
  <1>2. READ_DELAY \in Nat \ {0} /\ 0 \in BusByte
    BY Numbers
  <1>3. stand = "idle" => call = NONE /\ calls = << >>
    BY DEF LidarInv
  <1>4. CASE Finder!lidar_read
    <2>1. /\ stand = "idle" /\ stand' = "command" /\ ok' = TRUE
          /\ calls' = CommandCalls
          /\ count' = 0 /\ upper' = 0 /\ lower' = 0 /\ range' = range
          /\ UNCHANGED <<call, noted, result>> /\ UNCHANGED <<hearing, register, measuring, held, latest>>
      BY <1>4, CommandIs DEF Finder!lidar_read, Finder!send_command, Finder!linkVars, Finder!sensorVars
    <2>2. BusInv' /\ Commanding(5)'
      BY <1>0, <1>3, <2>1, CommandStarts DEF Wires
    <2>3. Finder!LidarTypeOK'
      BY <1>1, <1>2, <2>1 DEF Finder!LidarTypeOK
    <2>4. \E n \in 0 .. 5 : Commanding(n)'
      BY <2>2
    <2>. QED
      BY <1>1, <2>1, <2>2, <2>3, <2>4 DEF LidarInv
  <1>5. CASE Finder!lidar_read_fast
    <2>1. /\ stand = "idle" /\ Finder!read_register("upper", 15)
          /\ count' = 1 /\ upper' = 0 /\ lower' = 0 /\ range' = range
          /\ UNCHANGED <<call, noted, result>> /\ UNCHANGED Finder!sensorVars
      BY <1>5, Numbers DEF Finder!lidar_read_fast, Finder!linkVars
    <2>2. count' \in 0 .. READ_DELAY
      BY <1>2, <2>1
    <2>. QED
      BY <1>0, <1>2, <1>3, <2>1, <2>2, RegisterStarts
  <1>6. CASE Finder!Measured
    <2>1. /\ measuring /\ measuring' = FALSE /\ held' = latest
          /\ UNCHANGED <<call, noted, result>>
          /\ UNCHANGED <<stand, calls, ok, count, upper, lower, range, hearing, register, latest>>
      BY <1>6 DEF Finder!Measured, Finder!linkVars, Finder!readVars
    <2>2. BusInv'
      BY <1>0, <2>1, BusStutter DEF Wires
    <2>3. Finder!LidarTypeOK'
      BY <1>1, <2>1 DEF Finder!LidarTypeOK
    <2>4. Unheard' = Unheard /\ (Accepted' <=> Accepted)
      BY <2>1 DEF Unheard, Accepted
    <2>5. ASSUME NEW n, Commanding(n) PROVE Commanding(n)'
      BY <2>1, <2>4, <2>5 DEF Commanding
    <2>6. ASSUME NEW n, NEW reg, Requesting(n, reg) PROVE Requesting(n, reg)'
      BY <2>1, <2>4, <2>6 DEF Requesting
    <2>7. (stand = "command" /\ Accepted)' => \E n \in 0 .. 5 : Commanding(n)'
      BY <2>1, <2>4, <2>5 DEF LidarInv
    <2>8. (stand = "upper" /\ Accepted)' =>
            \E n \in 0 .. 7 : /\ Requesting(n, 15)' /\ (n <= 5 => ~measuring')
                              /\ Brings(n, upper, Finder!UpperByte(held))'
      <3>1. SUFFICES ASSUME stand = "upper", Accepted
                     PROVE  \E n \in 0 .. 7 : /\ Requesting(n, 15)' /\ (n <= 5 => ~measuring')
                                              /\ Brings(n, upper, Finder!UpperByte(held))'
        BY <2>1, <2>4
      <3>2. PICK n \in 0 .. 7 : Requesting(n, 15) /\ (n <= 5 => ~measuring)
        BY <3>1 DEF LidarInv
      <3>3. ~(n <= 1)
        BY <2>1, <3>2
      <3>4. Brings(n, upper, Finder!UpperByte(held))'
        BY <3>3 DEF Brings
      <3>. QED
        BY <2>1, <2>6, <3>2, <3>4
    <2>9. stand # "lower" \/ ~Accepted
      BY <2>1 DEF LidarInv
    <2>10. /\ stand = "idle" /\ range # NONE => Fresh'
           /\ stand = "pause" /\ count > 0 /\ range # NONE => Fresh'
           /\ stand \in {"idle", "pause"} => call = NONE /\ calls = << >>
           /\ stand = "command" => count = 0
           /\ stand = "pause" /\ count = 0 => hearing = "free"
      BY <2>1 DEF LidarInv, Fresh, Finder!UpperByte, Finder!LowerByte
    <2>11. latest' = IF measuring' THEN (held' + 1) % 3 ELSE held'
      BY <2>1
    <2>. QED
      BY <2>1, <2>2, <2>3, <2>4, <2>7, <2>8, <2>9, <2>10, <2>11 DEF LidarInv
  <1>. QED
    BY <1>4, <1>5, <1>6 DEF Finder!lidar_read, Finder!lidar_read_fast, Finder!Measured, Finder!linkVars

-----------------------------------------------------------------------------
(* THE THEOREMS                                                            *)


(* A caller begins a transfer of its own.                                  *)
LEMMA TransferBegins ==
  ASSUME BusInv, Finder!Bus!BeginTransfer
  PROVE  BusInv' /\ UNCHANGED <<call, noted, result>>
  <1>1. call = NONE /\ calls = << >> /\ UNCHANGED Wires /\ UNCHANGED <<call, noted, result>>
    BY DEF Finder!Bus!BeginTransfer, Finder!Bus!deviceVars, Wires
  <1>2. PICK t \in Transfer : calls' = <<Finder!Start>> \o t \o <<Finder!Stop>>
    BY DEF Finder!Bus!BeginTransfer, Finder!Bus!Link!Start, Finder!Bus!Link!Stop, Finder!Start, Finder!Stop
  <1>3. Finder!Bus!Link!Request = Finder!Request
    BY Numbers
    DEF Finder!Request, Finder!Bus!Link!Request, Finder!Start, Finder!Bus!Link!Start, Finder!Stop,
        Finder!Bus!Link!Stop, Finder!Write, Finder!Bus!Link!Write, Finder!Read, Finder!Bus!Link!Read
  <1>4. t \in Seq(Finder!Bus!Link!Request)
        /\ Finder!Bus!Link!InOrder(<<Finder!Bus!Link!Start>> \o t \o <<Finder!Bus!Link!Stop>>)
    BY FinderAssumption DEF Finder!Bus!TransferAssumption
  <1>5. t \in Seq(Finder!Request) /\ Finder!InOrder(<<Finder!Start>> \o t \o <<Finder!Stop>>)
    BY <1>3, <1>4
    DEF Finder!InOrder, Finder!Bus!Link!InOrder, Finder!Selects, Finder!Bus!Link!Selects, Finder!Start,
        Finder!Bus!Link!Start, Finder!Stop, Finder!Bus!Link!Stop
  <1>6. /\ calls' \in Seq(Finder!Request) /\ Ordered(calls', first) /\ Head(calls').op = "start"
    BY <1>2, <1>5, FramedOrdered
  <1>7. BusInv'
    BY <1>1, <1>6, BeginKeeps DEF Wires
  <1>. QED
    BY <1>1, <1>7

LEMMA Task1Init == HalfInit => BusInv /\ CallerInv /\ Finder!LinkInit
  <1>1. SUFFICES ASSUME HalfInit PROVE BusInv /\ CallerInv /\ Finder!LinkInit
    OBVIOUS
  <1>2. /\ calls = << >> /\ call = NONE /\ noted = << >> /\ todo = << >> /\ result = NONE
        /\ scl = 0 /\ sdaOut = 0 /\ sdaDir = 0 /\ Data = 0 /\ bAck = FALSE
        /\ mode = "off" /\ first = FALSE /\ bits = 0 /\ shift = 0 /\ pull = FALSE
    BY <1>1 DEF HalfInit, Finder!Init, Finder!Bus!Init
  <1>3. /\ stand = "idle" /\ ok = TRUE /\ count = 0 /\ upper = 0 /\ lower = 0 /\ range = NONE
        /\ hearing = "free" /\ register = 0 /\ measuring = FALSE /\ held = 0 /\ latest = 0
        /\ user \in {"lidar_read", "transfers"}
    BY <1>1, FinderAssumption DEF HalfInit, Finder!Init, Finder!LidarInit, Finder!UserAssumption
  <1>4. WireTypeOK
    <2>1. << >> \in Seq(Finder!Request)
      OBVIOUS
    <2>2. bAck \in BOOLEAN /\ first \in BOOLEAN /\ pull \in BOOLEAN
      BY <1>2
    <2>. QED
      BY <1>2, <2>1, <2>2 DEF WireTypeOK
  <1>5. Between
    BY <1>2 DEF Between, Awaits, Fit, Silent
  <1>6. Finder!LidarTypeOK
    <2>1. ok \in BOOLEAN /\ measuring \in BOOLEAN
      BY <1>3
    <2>2. 0 \in BusByte /\ 0 \in 0 .. READ_DELAY /\ 0 \in 0 .. 2
      BY Numbers
    <2>. QED
      BY <1>2, <1>3, <2>1, <2>2 DEF Finder!LidarTypeOK
  <1>7. LidarInv
    BY <1>2, <1>3, <1>6 DEF LidarInv
  <1>. QED
    BY <1>2, <1>3, <1>4, <1>5, <1>6, <1>7 DEF BusInv, CallerInv, Finder!LinkInit

LEMMA WhateverRests ==
  ASSUME BusInv, CallerInv, UNCHANGED finderVars
  PROVE  BusInv' /\ CallerInv' /\ UNCHANGED <<call, noted, result>>
  <1>1. /\ UNCHANGED <<stand, calls, ok, count, upper, lower, range, hearing, register, measuring, held, latest>>
        /\ UNCHANGED <<call, noted, result, user>> /\ UNCHANGED Wires
    BY DEF finderVars, Wires
  <1>2. BusInv'
    BY <1>1, BusStutter DEF Wires
  <1>3. CASE user = "lidar_read"
    <2>1. LidarInv
      BY <1>3 DEF CallerInv
    <2>2. LidarInv'
      BY <1>1, <2>1, LidarStutter
    <2>. QED
      BY <1>1, <1>2, <1>3, <2>2 DEF CallerInv
  <1>4. CASE user # "lidar_read"
    <2>1. user = "transfers" /\ stand = "idle" /\ range = NONE /\ Finder!LidarTypeOK
      BY <1>4 DEF CallerInv
    <2>2. Finder!LidarTypeOK'
      BY <1>1, <2>1 DEF Finder!LidarTypeOK
    <2>. QED
      BY <1>1, <1>2, <2>1, <2>2 DEF CallerInv
  <1>. QED
    BY <1>3, <1>4

(* Every step keeps the invariant and is a step of the link, or none.      *)
LEMMA FinderSteps ==
  ASSUME BusInv, CallerInv, Finder!Next
  PROVE  BusInv' /\ CallerInv' /\ (Finder!LinkNext \/ UNCHANGED Finder!linkVars)
  <1> DEFINE Goal == BusInv' /\ CallerInv' /\ (Finder!LinkNext \/ UNCHANGED Finder!linkVars)
  <1>1. ASSUME LinkStep, UNCHANGED <<call, result>> PROVE Finder!LinkNext \/ UNCHANGED Finder!linkVars
    BY <1>1 DEF LinkStep, Finder!LinkNext, Finder!linkVars, Finder!Hear
  <1>2. ASSUME UNCHANGED <<call, noted, result>> PROVE UNCHANGED Finder!linkVars
    BY <1>2 DEF Finder!linkVars
  <1>3. CASE Finder!LidarStep
    <2>1. user = "lidar_read" /\ user' = user /\ LidarInv
      BY <1>3 DEF Finder!LidarStep, CallerInv
    <2>2. ASSUME LidarInv' PROVE CallerInv'
      BY <2>1, <2>2 DEF CallerInv
    <2>3. CASE Finder!LidarRead /\ UNCHANGED Finder!wireVars
      <3>1. BusInv' /\ LidarInv' /\ UNCHANGED <<call, noted, result>>
        BY <2>1, <2>3, StepsInRead
      <3>. QED
        BY <1>2, <2>2, <3>1
    <2>4. CASE Finder!Bus!Call /\ Finder!CallLink
      <3>1. BusInv' /\ \E e \in Finder!Event : Finder!Invoke(e)
        BY <2>4, CallKeeps
      <3>2. LidarInv'
        BY <2>1, <2>4, CallInRead
      <3>. QED
        BY <2>2, <3>1, <3>2 DEF Finder!LinkNext, Finder!Invoke
    <2>5. CASE Finder!Bus!Return /\ Finder!LinkReturned(Finder!Bus!Outcome)
      <3>1. BusInv' /\ Finder!Return
        BY <2>5, ReturnKeeps
      <3>2. LidarInv'
        BY <2>1, <2>5, ReturnInRead
      <3>. QED
        BY <2>2, <3>1, <3>2 DEF Finder!LinkNext
    <2>6. CASE Finder!Bus!PortAccess /\ Finder!SensorHears /\ UNCHANGED Finder!readVars
      <3>1. BusInv' /\ LinkStep /\ UNCHANGED <<call, result>>
        BY <2>6, AccessKeeps
      <3>2. LidarInv'
        BY <2>1, <2>6, AccessInRead
      <3>. QED
        BY <1>1, <2>2, <3>1, <3>2
    <2>. QED
      BY <1>3, <2>3, <2>4, <2>5, <2>6 DEF Finder!LidarStep
  <1>4. CASE Finder!LidarBegins
    <2>1. /\ user = "lidar_read" /\ user' = user /\ LidarInv
          /\ Finder!lidar_read \/ Finder!lidar_read_fast \/ Finder!Measured
          /\ UNCHANGED Finder!wireVars
      BY <1>4 DEF Finder!LidarBegins, CallerInv
    <2>2. BusInv' /\ LidarInv' /\ UNCHANGED <<call, noted, result>>
      BY <2>1, BeginsRead
    <2>3. CallerInv'
      BY <2>1, <2>2 DEF CallerInv
    <2>. QED
      BY <1>2, <2>2, <2>3
  <1>5. CASE Finder!AnyTransfer
    <2>1. /\ user = "transfers" /\ user' = user /\ Finder!Bus!Next
          /\ UNCHANGED <<stand, ok, count, upper, lower, range, hearing, register, measuring, held, latest>>
      BY <1>5 DEF Finder!AnyTransfer, Finder!sensorVars
    <2>2. stand = "idle" /\ range = NONE /\ Finder!LidarTypeOK
      BY <2>1 DEF CallerInv
    <2>3. Finder!LidarTypeOK'
      BY <2>1, <2>2 DEF Finder!LidarTypeOK
    <2>4. CallerInv'
      BY <2>1, <2>2, <2>3 DEF CallerInv
    <2>5. BusInv' /\ (Finder!LinkNext \/ UNCHANGED Finder!linkVars)
      <3>1. CASE Finder!Bus!BeginTransfer
        BY <1>2, <3>1, TransferBegins
      <3>2. CASE Finder!Bus!Call
        <4>1. BusInv' /\ \E e \in Finder!Event : Finder!Invoke(e)
          BY <3>2, CallKeeps
        <4>. QED
          BY <4>1 DEF Finder!LinkNext, Finder!Invoke
      <3>3. CASE Finder!Bus!Return
        <4>1. BusInv' /\ Finder!Return
          BY <3>3, ReturnKeeps
        <4>. QED
          BY <4>1 DEF Finder!LinkNext
      <3>4. CASE Finder!Bus!PortAccess
        <4>1. BusInv' /\ LinkStep /\ UNCHANGED <<call, result>>
          BY <3>4, AccessKeeps
        <4>. QED
          BY <1>1, <4>1
      <3>. QED
        BY <2>1, <3>1, <3>2, <3>3, <3>4 DEF Finder!Bus!Next
    <2>. QED
      BY <2>4, <2>5
  <1>. QED
    BY <1>3, <1>4, <1>5 DEF Finder!Next

LEMMA HalfSteps ==
  ASSUME BusInv, CallerInv, [HalfNext]_halfVars
  PROVE  BusInv' /\ CallerInv' /\ (Finder!LinkNext \/ UNCHANGED Finder!linkVars)
  <1>1. CASE UNCHANGED finderVars
    BY <1>1, WhateverRests DEF Finder!linkVars
  <1>2. CASE Finder!Next
    BY <1>2, FinderSteps
  <1>. QED
    BY <1>1, <1>2 DEF HalfNext, halfVars, Sweeps, Reads

(* The inductive invariant: at every access of a call the device is as far *)
(* as the processor, and of a read in progress what the sensor holds, what *)
(* it has heard and what is still to be asked belong together.             *)
THEOREM Task1Inductive == HalfSpec => [](BusInv /\ CallerInv)
<1>1. BusInv /\ CallerInv /\ [HalfNext]_halfVars => (BusInv /\ CallerInv)'
  BY HalfSteps
<1>. QED
  BY <1>1, Task1Init, PTL DEF HalfSpec

(* Whatever transfers a caller makes and whatever the device refuses, SDA  *)
(* and its direction change only where they are meant to; and whatever the *)
(* sensor refuses, however long it measures, a range that lidar_read       *)
(* returns is one measurement, taken for this call (LIDAR.c:68-79).        *)
THEOREM ReadingIsSoundHolds == HalfSpec => []ReadingIsSound
<1>1. BusInv => Finder!WiresInOrder
  BY InOrder
<1>2. CallerInv => Finder!ReadingIsSound
  <2>1. SUFFICES ASSUME CallerInv PROVE Finder!LidarTypeOK /\ Finder!RangeIsFresh /\ Finder!BusReleased
    BY DEF Finder!ReadingIsSound
  <2>2. CASE user = "lidar_read"
    <3>1. LidarInv
      BY <2>1, <2>2 DEF CallerInv
    <3>2. Finder!LidarTypeOK
      BY <3>1 DEF LidarInv
    <3>3. count \in Nat
      BY <3>2, Numbers DEF Finder!LidarTypeOK
    <3>4. Finder!RangeIsFresh
      BY <3>1 DEF LidarInv, Fresh, Finder!RangeIsFresh
    <3>5. Finder!BusReleased
      BY <3>1, <3>3 DEF LidarInv, Fresh, Finder!BusReleased
    <3>. QED
      BY <3>2, <3>4, <3>5
  <2>3. CASE user # "lidar_read"
    BY <2>1, <2>3 DEF CallerInv, Finder!RangeIsFresh, Finder!BusReleased
  <2>. QED
    BY <2>2, <2>3
<1>3. BusInv /\ CallerInv => ReadingIsSound
  BY <1>1, <1>2 DEF ReadingIsSound
<1>. QED
  BY <1>3, Task1Inductive, PTL

(* The accesses of the ports amount, for every transfer in the order in    *)
(* which I2C.c makes its calls, to the events that the calls stand for:    *)
(* each is noted once, as it was meant, and answered with what the device  *)
(* did (I2C.c:229-356 implements I2CLink).                                 *)
THEOREM I2CImplementsLink == HalfSpec => ImplementsI2CLink
<1>1. BusInv /\ CallerInv /\ [HalfNext]_halfVars => [Finder!LinkNext]_Finder!linkVars
  BY HalfSteps
<1>2. HalfInit => Finder!LinkInit
  BY Task1Init
<1>. QED
  BY <1>1, <1>2, Task1Inductive, PTL
  DEF HalfSpec, ImplementsI2CLink, Finder!ImplementsI2CLink, Finder!LinkSpec
=============================================================================
