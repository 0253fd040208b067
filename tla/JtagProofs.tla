----------------------------- MODULE JtagProofs -----------------------------
(***************************************************************************)
(* That the driver of the JTAG UART keeps what it promises, for any number *)
(* of tasks in any of the roles, any size of the rings and of the device's *)
(* FIFOs and any number of bytes told apart: proofs, on the lemmas about   *)
(* the kernel of UcosFlagsProofs.                                          *)
(*                                                                         *)
(* The invariant JtagInv says where a task can stand in its code and what  *)
(* it can wait for there; who holds which semaphore, counting the task     *)
(* that has been given one and not yet run; what a ring and its FIFO hold; *)
(* what a task may think that a ring holds, when the handler has moved its *)
(* index since the task read it; who will turn the receive interrupt on    *)
(* again; and, for each place from which a task goes to sleep, why it will *)
(* be woken.                                                               *)
(***************************************************************************)
EXTENDS JtagUart, UcosFlagsProofs

ReadSteps  == {"rread", "rcopy", "rpend", "rtest", "rpost", "renable"}
WriteSteps == {"wread", "wcopy", "wenable", "wpend", "wtest", "wpost", "close"}
Byte == 0 .. Wrap - 1

CallTypeOK ==
  /\ role \in Roles
  /\ cnt \in [Event -> {0, 1}]
  /\ at \in [TCB -> {"out"} \cup ReadSteps \cup WriteSteps]
  /\ left \in [TCB -> Nat]
  /\ done \in [TCB -> BOOLEAN]
  /\ seen \in [TCB -> Slot]

RingTypeOK ==
  /\ rx_in \in Slot /\ rx_out \in Slot /\ tx_in \in Slot /\ tx_out \in Slot
  /\ rx_buf \in [Slot -> 0 .. NONE] /\ tx_buf \in [Slot -> 0 .. NONE]
  /\ rfifo \in Seq(Byte) /\ wfifo \in Seq(Byte)
  /\ Len(rfifo) <= FifoLen /\ Len(wfifo) <= FifoLen
  /\ irq_enable \subseteq {"RE", "WE"}
  /\ lastRead \in Byte /\ lastSent \in Byte /\ toRead \in Nat /\ toSend \in Nat

HostTypeOK == host_inactive \in 0 .. MaxInactive /\ timeout \in 0 .. Forever /\ ac \in BOOLEAN

(* The semaphore that a task uses, and its waits in the driver.            *)
MySem(t) == IF Reader(t) THEN read_lock ELSE write_lock

WaitFor(flag) ==
  [grp |-> events, flags |-> {flag, "TIMEOUT"}, set |-> TRUE, all |-> FALSE, consume |-> TRUE]

(* Where a task stands in its code, by its role, and with what.            *)
StandsWell(t) ==
  /\ at[t] \in {"out"} \cup (IF Reader(t) THEN ReadSteps ELSE IF Writer(t) THEN WriteSteps ELSE {})
  /\ at[t] \in {"rpend", "rtest"} => role[t].does = "read" /\ ~done[t]
  /\ at[t] \in {"wpend", "wtest"} => role[t].does = "write"
  /\ at[t] \in {"rread", "rcopy", "rpend", "rtest", "wread", "wcopy", "wpend", "wtest"} => left[t] > 0

AtExact == \A t \in TCB : StandsWell(t)

(* What it waits for where it stands.                                      *)
WaitsWell(t) ==
  /\ pc[t] = "pend" => at[t] \in {"rread", "wread"} /\ ~done[t]
  /\ "SEM" \in Stat[t] => EventPtr[t] = MySem(t)
  /\ pc[t] = "flag" => \/ Reader(t) /\ at[t] = "rtest" /\ node[t] = WaitFor("READ_RDY")
                       \/ Writer(t) /\ at[t] = "wtest" /\ node[t] = WaitFor("WRITE_RDY")

WaitExact == \A t \in TCB : WaitsWell(t)

(* A semaphore is taken by a task between its wait for it and its post.    *)
Locked == (ReadSteps \cup WriteSteps) \ {"renable", "close"}
Inside(t) == at[t] \in Locked
Holds(t)  == Inside(t) /\ "SEM" \notin Stat[t]

Exclusion ==
  /\ \A t \in TCB : Inside(t) => cnt[MySem(t)] = 0
  /\ \A t, u \in TCB : Holds(t) /\ Holds(u) /\ MySem(t) = MySem(u) => t = u

Turns == CallTypeOK /\ KernelSound /\ AtExact /\ WaitExact /\ Exclusion

(* The n slots of a ring from some slot on, or a FIFO, hold the bytes that *)
(* follow the last one.                                                    *)
Carries(buf, slot, n, last) == \A i \in 1 .. n : buf[Ring(slot + (i - 1))] = ByteNo(last + i)
Queued(fifo, last) == \A i \in 1 .. Len(fifo) : fifo[i] = ByteNo(last + i)

RxExact ==
  /\ toRead = Used(rx_in, rx_out) + Len(rfifo)
  /\ Carries(rx_buf, rx_out, Used(rx_in, rx_out), lastRead)
  /\ Queued(rfifo, lastRead + Used(rx_in, rx_out))

TxExact ==
  /\ toSend = Len(wfifo) + Used(tx_in, tx_out)
  /\ Queued(wfifo, lastSent)
  /\ Carries(tx_buf, tx_out, Used(tx_in, tx_out), lastSent + Len(wfifo))

(* The handler only adds to what a reader has seen, and to the room that a *)
(* writer has seen.                                                        *)
SeenWell(t) ==
  /\ at[t] = "rcopy" => Used(seen[t], rx_out) <= Used(rx_in, rx_out)
  /\ at[t] = "wcopy" => Used(tx_in, tx_out) <= Used(tx_in, seen[t])

SeenExact == \A t \in TCB : SeenWell(t)

(* The receive interrupt is off while the ring is full, or until a reader  *)
(* that has read turns it on.                                              *)
TurnsOn(t) == at[t] = "renable" \/ (done[t] /\ at[t] \in {"rread", "rcopy", "rpost"})
EnableExact == "RE" \notin irq_enable => \/ Used(rx_in, rx_out) = BufLen - 1
                                         \/ \E t \in TCB : TurnsOn(t)

Rings == RingTypeOK /\ HostTypeOK /\ RxExact /\ TxExact /\ SeenExact /\ EnableExact

(* What a task knows on its way to sleep.                                  *)
Ready(flag) == flag \in OSFlagFlags[events]
Full == Ring(tx_in + 1) = tx_out

Due(t) ==
  /\ at[t] = "rcopy" => seen[t] = rx_in \/ Ready("READ_RDY")
  /\ at[t] = "rpend" => rx_in = rx_out \/ Ready("READ_RDY")
  /\ at[t] = "wcopy" => seen[t] = tx_out \/ Ready("WRITE_RDY")
  /\ at[t] = "wenable" /\ left[t] > 0 => Full \/ Ready("WRITE_RDY")
  /\ at[t] = "wpend" => IF Full THEN "WE" \in irq_enable ELSE Ready("WRITE_RDY")
  /\ WaitsForFlags(t) /\ Reader(t) => rx_in = rx_out
  /\ WaitsForFlags(t) /\ Writer(t) => Full /\ "WE" \in irq_enable

DueExact == \A t \in TCB : Due(t)

JtagInv == Turns /\ Rings /\ DueExact
-----------------------------------------------------------------------------
(* Remainders.                                                             *)

LEMMA QuotientIs ==
  ASSUME NEW k \in Nat \ {0}, NEW a \in Nat
  PROVE  a % k \in 0 .. k - 1 /\ a \div k \in Nat /\ a = k * (a \div k) + (a % k)
  <1>1. a % k \in 0 .. k - 1
    OBVIOUS
  <1>2. a \div k \in Nat
    OBVIOUS
  <1>3. a = k * (a \div k) + (a % k)
    OBVIOUS
  <1>. QED
    BY <1>1, <1>2, <1>3

LEMMA SmallMultiple ==
  ASSUME NEW k \in Nat \ {0}, NEW d \in Int, NEW r \in Int, k * d = r, r < k, -k < r
  PROVE  d = 0
  <1>1. CASE d >= 1
    <2>1. k * d >= k
      BY <1>1, Z3
    <2>. QED
      BY <2>1
  <1>2. CASE d <= -1
    <2>1. k * d <= -k
      BY <1>2, Z3
    <2>. QED
      BY <2>1
  <1>. QED
    BY <1>1, <1>2

LEMMA RemainderIs ==
  ASSUME NEW k \in Nat \ {0}, NEW a \in Nat, NEW q \in Int, NEW r \in 0 .. k - 1, a = k * q + r
  PROVE  a % k = r
  <1> DEFINE p == a \div k
             m == a % k
  <1>1. m \in 0 .. k - 1 /\ p \in Nat /\ a = k * p + m
    BY QuotientIs
  <1> HIDE DEF p, m
  <1>2. k * (p - q) = r - m
    BY <1>1, Z3
  <1>3. p - q = 0
    BY <1>1, <1>2, SmallMultiple
  <1>4. p = q
    BY <1>1, <1>3
  <1>. QED
    BY <1>1, <1>4 DEF m

LEMMA RemainderOfSum ==
  ASSUME NEW k \in Nat \ {0}
  PROVE  \A a, b \in Nat : ((a % k) + b) % k = (a + b) % k
  <1> SUFFICES ASSUME NEW a \in Nat, NEW b \in Nat PROVE ((a % k) + b) % k = (a + b) % k
    OBVIOUS
  <1> DEFINE p == a \div k
             m == a % k
             q == (m + b) \div k
             r == (m + b) % k
  <1>1. m \in 0 .. k - 1 /\ p \in Nat /\ a = k * p + m
    BY QuotientIs
  <1>2. m + b \in Nat
    BY <1>1
  <1>3. r \in 0 .. k - 1 /\ q \in Nat /\ m + b = k * q + r
    BY <1>2, QuotientIs
  <1> HIDE DEF p, m, q, r
  <1>4. a + b = k * (p + q) + r
    BY <1>1, <1>3, Z3
  <1>5. p + q \in Int /\ a + b \in Nat
    BY <1>1, <1>3
  <1>6. (a + b) % k = r
    BY <1>3, <1>4, <1>5, RemainderIs
  <1>. QED
    BY <1>6 DEF r, m

LEMMA ByteNoIs ==
  /\ \A i \in Nat : ByteNo(i) \in Byte
  /\ \A i, j \in Nat : ByteNo(ByteNo(i) + j) = ByteNo(i + j)
  <1>1. Wrap \in Nat \ {0}
    BY JtagAssumption
  <1>. QED
    BY <1>1, QuotientIs, RemainderOfSum DEF ByteNo, Byte

-----------------------------------------------------------------------------
(* Rings.                                                                  *)

LEMMA BufLenIs == BufLen \in Nat /\ BufLen > 1
  BY JtagAssumption

LEMMA RingIs ==
  /\ \A i \in Nat : Ring(i) \in Slot
  /\ \A i, j \in Nat : Ring(Ring(i) + j) = Ring(i + j)
  /\ \A i \in Slot : Ring(i) = i
  /\ \A i \in Slot : Ring(i + BufLen) = i
  <1>1. BufLen \in Nat \ {0}
    BY BufLenIs
  <1>2. \A i \in Nat : Ring(i) \in Slot
    BY <1>1, QuotientIs DEF Ring, Slot
  <1>3. \A i, j \in Nat : Ring(Ring(i) + j) = Ring(i + j)
    BY <1>1, RemainderOfSum DEF Ring
  <1>4. ASSUME NEW i \in Slot PROVE Ring(i) = i
    <2>1. i = BufLen * 0 + i
      BY <1>1 DEF Slot
    <2>. QED
      BY <1>1, <2>1, RemainderIs DEF Ring, Slot
  <1>5. ASSUME NEW i \in Slot PROVE Ring(i + BufLen) = i
    <2>1. i + BufLen = BufLen * 1 + i /\ i + BufLen \in Nat
      BY <1>1 DEF Slot
    <2>. QED
      BY <1>1, <2>1, RemainderIs DEF Ring, Slot
  <1>. QED
    BY <1>2, <1>3, <1>4, <1>5

LEMMA UsedIs ==
  \A in, out \in Slot :
    /\ Used(in, out) \in Slot
    /\ Used(in, out) = IF out <= in THEN in - out ELSE in + BufLen - out
  <1> SUFFICES ASSUME NEW in \in Slot, NEW out \in Slot
               PROVE  /\ Used(in, out) \in Slot
                      /\ Used(in, out) = IF out <= in THEN in - out ELSE in + BufLen - out
    OBVIOUS
  <1>1. CASE out <= in
    <2>1. in - out \in Slot /\ in + BufLen - out = (in - out) + BufLen
      BY <1>1, BufLenIs DEF Slot
    <2>2. Ring((in - out) + BufLen) = in - out
      BY <2>1, RingIs
    <2>. QED
      BY <1>1, <2>1, <2>2 DEF Used
  <1>2. CASE in < out
    <2>1. in + BufLen - out \in Slot
      BY <1>2, BufLenIs DEF Slot
    <2>2. Ring(in + BufLen - out) = in + BufLen - out
      BY <2>1, RingIs
    <2>. QED
      BY <1>2, <2>1, <2>2, BufLenIs DEF Used, Slot
  <1>. QED
    BY <1>1, <1>2 DEF Slot

(* A slot is known by its distance from another.                           *)
LEMMA Distance ==
  /\ \A out \in Slot, n \in Slot : Used(Ring(out + n), out) = n
  /\ \A in, out \in Slot : Ring(out + Used(in, out)) = in
  <1>1. ASSUME NEW out \in Slot, NEW n \in Slot PROVE Used(Ring(out + n), out) = n
    <2>1. CASE out + n < BufLen
      <3>1. out + n \in Slot
        BY <2>1, BufLenIs DEF Slot
      <3>2. Ring(out + n) = out + n
        BY <3>1, RingIs
      <3>3. Used(out + n, out) = n
        BY <3>1, UsedIs, BufLenIs DEF Slot
      <3>. QED
        BY <3>2, <3>3
    <2>2. CASE out + n >= BufLen
      <3>1. out + n - BufLen \in Slot /\ out + n = (out + n - BufLen) + BufLen /\ out + n - BufLen < out
        BY <2>2, BufLenIs DEF Slot
      <3>2. Ring(out + n) = out + n - BufLen
        BY <3>1, RingIs
      <3>3. Used(out + n - BufLen, out) = n
        BY <3>1, UsedIs, BufLenIs DEF Slot
      <3>. QED
        BY <3>2, <3>3
    <2>. QED
      BY <2>1, <2>2, BufLenIs DEF Slot
  <1>2. ASSUME NEW in \in Slot, NEW out \in Slot PROVE Ring(out + Used(in, out)) = in
    <2>1. CASE out <= in
      <3>1. out + Used(in, out) = in
        BY <2>1, UsedIs, BufLenIs DEF Slot
      <3>. QED
        BY <3>1, RingIs
    <2>2. CASE in < out
      <3>1. out + Used(in, out) = in + BufLen
        BY <2>2, UsedIs, BufLenIs DEF Slot
      <3>. QED
        BY <3>1, RingIs
    <2>. QED
      BY <2>1, <2>2 DEF Slot
  <1>. QED
    BY <1>1, <1>2

(* What is put in front and taken from behind.                             *)
LEMMA UsedMoves ==
  ASSUME NEW in \in Slot, NEW out \in Slot, NEW n \in Nat
  PROVE  /\ Ring(in + n) \in Slot /\ Ring(out + n) \in Slot
         /\ Used(in, out) + n < BufLen => Used(Ring(in + n), out) = Used(in, out) + n
         /\ n <= Used(in, out) => Used(in, Ring(out + n)) = Used(in, out) - n
  <1> DEFINE u == Used(in, out)
  <1>1. u \in Slot /\ Ring(out + u) = in
    BY UsedIs, Distance
  <1> HIDE DEF u
  <1>2. Slot \subseteq Nat /\ \A i \in Nat : i \in Slot <=> i < BufLen
    BY BufLenIs DEF Slot
  <1>3. Ring(in + n) \in Slot /\ Ring(out + n) \in Slot
    BY <1>2, RingIs, SMTT(30)
  <1>4. ASSUME u + n < BufLen PROVE Used(Ring(in + n), out) = u + n
    <2>1. Ring(in + n) = Ring((out + u) + n)
      <3> DEFINE a == out + u
      <3>1. a \in Nat /\ in = Ring(a)
        BY <1>1, <1>2
      <3> HIDE DEF a
      <3>2. Ring(Ring(a) + n) = Ring(a + n)
        BY <3>1, RingIs
      <3>. QED
        BY <3>1, <3>2 DEF a
    <2>2. (out + u) + n = out + (u + n) /\ u + n \in Slot
      BY <1>1, <1>2, <1>4
    <2>. QED
      BY <2>1, <2>2, Distance
  <1>5. ASSUME n <= u PROVE Used(in, Ring(out + n)) = u - n
    <2>1. u - n \in Slot /\ out + u = (out + n) + (u - n)
      BY <1>1, <1>2, <1>5, BufLenIs DEF Slot
    <2>2. in = Ring(Ring(out + n) + (u - n))
      <3> DEFINE a == out + n
                 b == u - n
      <3>1. a \in Nat /\ b \in Nat /\ in = Ring(a + b)
        BY <1>1, <1>2, <2>1
      <3> HIDE DEF a, b
      <3>2. Ring(Ring(a) + b) = Ring(a + b)
        BY <3>1, RingIs
      <3>. QED
        BY <3>1, <3>2 DEF a, b
    <2>. QED
      BY <1>3, <2>1, <2>2, Distance
  <1>. QED
    BY <1>3, <1>4, <1>5 DEF u

(* How much a task copies at once.                                         *)
LEMMA CopiedAtOnce ==
  \A in, out \in Slot :
    /\ RxReady(in, out) \in 0 .. Used(in, out) /\ (RxReady(in, out) = 0 <=> in = out)
    /\ TxRoom(in, out) \in 0 .. BufLen - 1 - Used(in, out)
    /\ TxRoom(in, out) = 0 <=> Ring(in + 1) = out
  <1> SUFFICES ASSUME NEW in \in Slot, NEW out \in Slot
               PROVE  /\ RxReady(in, out) \in 0 .. Used(in, out) /\ (RxReady(in, out) = 0 <=> in = out)
                      /\ TxRoom(in, out) \in 0 .. BufLen - 1 - Used(in, out)
                      /\ TxRoom(in, out) = 0 <=> Ring(in + 1) = out
    OBVIOUS
  <1>1. Used(in, out) = IF out <= in THEN in - out ELSE in + BufLen - out
    BY UsedIs
  <1>2. Ring(in + 1) = IF in + 1 = BufLen THEN 0 ELSE in + 1
    <2>1. CASE in + 1 = BufLen
      <3>1. in + 1 = 0 + BufLen /\ 0 \in Slot
        BY <2>1, BufLenIs DEF Slot
      <3>. QED
        BY <2>1, <3>1, RingIs
    <2>2. CASE in + 1 # BufLen
      <3>1. in + 1 \in Slot
        BY <2>2, BufLenIs DEF Slot
      <3>. QED
        BY <2>2, <3>1, RingIs
    <2>. QED
      BY <2>1, <2>2
  <1>3. in \in Int /\ out \in Int /\ BufLen \in Int /\ 0 <= in /\ 0 <= out /\ in < BufLen /\ out < BufLen
    BY BufLenIs DEF Slot
  <1>. QED
    BY <1>1, <1>2, <1>3 DEF RxReady, TxRoom

-----------------------------------------------------------------------------
(* What rings carry.                                                       *)

LEMMA ElementOf ==
  ASSUME NEW S, NEW s \in Seq(S), NEW i \in 1 .. Len(s)
  PROVE  s[i] \in S
  OBVIOUS

LEMMA SequenceOf ==
  ASSUME NEW S, NEW n \in Nat, NEW f \in [1 .. n -> S]
  PROVE  f \in Seq(S) /\ Len(f) = n
  OBVIOUS

LEMMA PutIs ==
  ASSUME NEW buf \in [Slot -> 0 .. NONE], NEW slot \in Slot, NEW bytes \in Seq(0 .. NONE),
         Len(bytes) < BufLen
  PROVE  /\ PutInto(buf, slot, bytes) \in [Slot -> 0 .. NONE]
         /\ \A j \in Slot : PutInto(buf, slot, bytes)[Ring(slot + j)] =
              IF j < Len(bytes) THEN bytes[j + 1] ELSE buf[Ring(slot + j)]
  <1>1. \A i \in Slot : Used(i, slot) \in Slot
    BY UsedIs
  <1>2. Slot \subseteq Nat /\ Len(bytes) \in Nat
    BY BufLenIs DEF Slot
  <1>3. ASSUME NEW i \in Slot, Used(i, slot) < Len(bytes) PROVE bytes[Used(i, slot) + 1] \in 0 .. NONE
    <2> DEFINE k == Used(i, slot) + 1
    <2>1. Used(i, slot) \in Nat
      BY <1>1, <1>2
    <2>2. k \in 1 .. Len(bytes)
      BY <1>2, <1>3, <2>1
    <2> HIDE DEF k
    <2>3. bytes[k] \in 0 .. NONE
      BY <2>2, ElementOf
    <2>. QED
      BY <2>3 DEF k
  <1>4. PutInto(buf, slot, bytes) \in [Slot -> 0 .. NONE]
    BY <1>3 DEF PutInto
  <1>5. ASSUME NEW j \in Slot
        PROVE  PutInto(buf, slot, bytes)[Ring(slot + j)] =
                 IF j < Len(bytes) THEN bytes[j + 1] ELSE buf[Ring(slot + j)]
    <2>1. Ring(slot + j) \in Slot /\ Used(Ring(slot + j), slot) = j
      BY <1>2, RingIs, Distance
    <2>. QED
      BY <2>1 DEF PutInto
  <1>. QED
    BY <1>4, <1>5

(* Bytes that follow are put in front.                                     *)
LEMMA CarriesMore ==
  ASSUME NEW in \in Slot, NEW out \in Slot, NEW buf \in [Slot -> 0 .. NONE], NEW last \in Nat,
         Carries(buf, out, Used(in, out), last),
         NEW bytes \in Seq(0 .. NONE), Used(in, out) + Len(bytes) < BufLen,
         Queued(bytes, last + Used(in, out))
  PROVE  Carries(PutInto(buf, in, bytes), out, Used(in, out) + Len(bytes), last)
  <1> DEFINE u == Used(in, out)
             n == Len(bytes)
             new == PutInto(buf, in, bytes)
  <1>1. u \in Slot /\ Ring(out + u) = in /\ n \in Nat /\ BufLen \in Nat
    BY UsedIs, Distance, BufLenIs
  <1>2. /\ Slot \subseteq Nat /\ \A i \in Nat : i \in Slot <=> i < BufLen
        /\ u + n < BufLen
    BY BufLenIs DEF Slot
  <1>3. \A j \in Slot : new[Ring(in + j)] = IF j < n THEN bytes[j + 1] ELSE buf[Ring(in + j)]
    <2> HIDE DEF u, n, new
    <2>1. n < BufLen
      BY <1>1, <1>2
    <2>2. Len(bytes) < BufLen
      BY <2>1 DEF n
    <2>. QED
      BY <2>2, PutIs DEF n, new
  <1>4. \A i \in 1 .. u : buf[Ring(out + (i - 1))] = ByteNo(last + i)
    BY DEF Carries
  <1>5. \A i \in 1 .. n : bytes[i] = ByteNo((last + u) + i)
    BY DEF Queued
  <1> HIDE DEF u, n, new
  <1>6. ASSUME NEW i \in 1 .. u + n PROVE new[Ring(out + (i - 1))] = ByteNo(last + i)
    <2>1. CASE i <= u
      <3> DEFINE j == (BufLen - u) + (i - 1)
      <3>1. j \in Slot /\ j >= n /\ out + u + j = (out + (i - 1)) + BufLen /\ i \in 1 .. u
        BY <1>1, <1>2, <2>1 DEF Slot
      <3>2. Ring(in + j) = Ring((out + u) + j)
        <4>1. out + u \in Nat /\ j \in Nat
          BY <1>1, <1>2, <3>1
        <4> HIDE DEF j
        <4>. QED
          BY <1>1, <4>1, RingIs
      <3>3. Ring((out + (i - 1)) + BufLen) = Ring(out + (i - 1))
        <4>1. out + (i - 1) \in Nat
          BY <1>2, <3>1
        <4>2. Ring(Ring(out + (i - 1)) + BufLen) = Ring((out + (i - 1)) + BufLen)
          BY <1>1, <4>1, RingIs
        <4>. QED
          BY <4>1, <4>2, RingIs
      <3> HIDE DEF j
      <3>4. ~(j < n)
        BY <1>1, <1>2, <3>1
      <3>5. new[Ring(in + j)] = buf[Ring(in + j)]
        BY <1>3, <3>1, <3>4
      <3>. QED
        BY <1>4, <3>1, <3>2, <3>3, <3>5
    <2>2. CASE i > u
      <3> DEFINE j == i - u - 1
      <3>1. j \in Slot /\ j < n /\ out + u + j = out + (i - 1) /\ j + 1 \in 1 .. n
            /\ (last + u) + (j + 1) = last + i
        BY <1>1, <1>2, <2>2
      <3> HIDE DEF j
      <3>2. Ring(in + j) = Ring((out + u) + j)
        <4>1. out + u \in Nat /\ j \in Nat
          BY <1>1, <1>2, <3>1
        <4>. QED
          BY <1>1, <4>1, RingIs
      <3>3. new[Ring(in + j)] = bytes[j + 1]
        BY <1>3, <3>1
      <3>. QED
        BY <1>5, <3>1, <3>2, <3>3
    <2>. QED
      BY <1>1, <1>2, <2>1, <2>2
  <1>. QED
    BY <1>6 DEF Carries, u, n, new

(* The first of them leave.                                                *)
LEMMA CarriesLess ==
  ASSUME NEW out \in Slot, NEW u \in Slot, NEW n \in 0 .. u, NEW buf \in [Slot -> 0 .. NONE],
         NEW last \in Nat, Carries(buf, out, u, last)
  PROVE  /\ WithoutOf(buf, out, n) \in [Slot -> 0 .. NONE]
         /\ Carries(WithoutOf(buf, out, n), Ring(out + n), u - n, last + n)
         /\ FirstOf(buf, out, n) \in Seq(Byte) /\ Len(FirstOf(buf, out, n)) = n
         /\ Queued(FirstOf(buf, out, n), last)
  <1> DEFINE new == WithoutOf(buf, out, n)
             none == [i \in 1 .. n |-> NONE]
             first == FirstOf(buf, out, n)
  <1>1. /\ Slot \subseteq Nat /\ \A i \in Nat : i \in Slot <=> i < BufLen
        /\ n \in Nat /\ n <= u /\ BufLen \in Nat /\ NONE \in Nat
    BY BufLenIs, JtagAssumption DEF Slot, NONE
  <1>2. none \in Seq(0 .. NONE) /\ Len(none) = n
    <2>1. none \in [1 .. n -> 0 .. NONE]
      BY <1>1
    <2>. QED
      BY <1>1, <2>1
  <1>3. /\ new \in [Slot -> 0 .. NONE]
        /\ \A j \in Slot : ~(j < n) => new[Ring(out + j)] = buf[Ring(out + j)]
    <2>1. new = PutInto(buf, out, none)
      BY DEF WithoutOf
    <2>2. Len(none) < BufLen
      BY <1>1, <1>2
    <2> HIDE DEF new, none
    <2>. QED
      BY <1>2, <2>1, <2>2, PutIs
  <1>4. \A i \in 1 .. u : buf[Ring(out + (i - 1))] = ByteNo(last + i)
    BY DEF Carries
  <1>5. ASSUME NEW i \in 1 .. u - n PROVE new[Ring(Ring(out + n) + (i - 1))] = ByteNo((last + n) + i)
    <2>1. /\ i - 1 \in Nat /\ out + n \in Nat /\ (out + n) + (i - 1) = out + ((n + i) - 1)
          /\ (n + i) - 1 \in Slot /\ ~((n + i) - 1 < n) /\ n + i \in 1 .. u
          /\ last + (n + i) = (last + n) + i
      BY <1>1
    <2>2. Ring(Ring(out + n) + (i - 1)) = Ring((out + n) + (i - 1))
      BY <2>1, RingIs
    <2> HIDE DEF new
    <2>3. new[Ring(out + ((n + i) - 1))] = buf[Ring(out + ((n + i) - 1))]
      BY <1>3, <2>1
    <2>4. buf[Ring(out + ((n + i) - 1))] = ByteNo(last + (n + i))
      BY <1>4, <2>1
    <2>. QED
      BY <2>1, <2>2, <2>3, <2>4
  <1>6. ASSUME NEW i \in 1 .. n PROVE buf[Ring(out + (i - 1))] = ByteNo(last + i) /\ ByteNo(last + i) \in Byte
    <2>1. i \in 1 .. u /\ last + i \in Nat
      BY <1>1
    <2>. QED
      BY <1>4, <2>1, ByteNoIs
  <1>7. \A i \in 1 .. n : Ring(out + i - 1) = Ring(out + (i - 1))
    <2>1. \A i \in 1 .. n : out + i - 1 = out + (i - 1)
      BY <1>1
    <2>. QED
      BY <2>1
  <1>8. first \in [1 .. n -> Byte] /\ \A i \in 1 .. n : first[i] = ByteNo(last + i)
    BY <1>6, <1>7 DEF FirstOf
  <1>9. first \in Seq(Byte) /\ Len(first) = n
    BY <1>1, <1>8
  <1>. QED
    BY <1>3, <1>5, <1>8, <1>9 DEF Carries, Queued

-----------------------------------------------------------------------------
(* Roles and waits.                                                        *)

LEMMA RoleFacts ==
  ASSUME CallTypeOK
  PROVE  /\ role \in [TCB -> [does : Does, len : Nat, sleeps : BOOLEAN]]
         /\ \A t \in TCB : ~(Reader(t) /\ Writer(t))
  <1>1. role \in [TCB -> [does : Does, len : Nat, sleeps : BOOLEAN]]
    BY RolesAssumption DEF CallTypeOK
  <1>. QED
    BY <1>1 DEF Reader, Writer

LEMMA SemIsEvent == \A t \in TCB : MySem(t) \in Event
  BY DriverAssumption DEF MySem

LEMMA WaitForType ==
  /\ WaitFor("READ_RDY") \in Waits /\ WaitFor("WRITE_RDY") \in Waits
  /\ \A flag : WaitFor(flag).set = TRUE /\ WaitFor(flag).grp = events
  BY DriverAssumption, JtagAssumption DEF WaitFor, Waits

LEMMA AllWaitForSet ==
  ASSUME WaitExact
  PROVE  \A u \in TCB : pc[u] = "flag" => node[u].set = TRUE
  BY WaitForType DEF WaitExact, WaitsWell

-----------------------------------------------------------------------------
(* The kinds of steps.                                                     *)

Rest == UNCHANGED <<role, wireVars>>

(* A task asks for its semaphore, gives it back, or waits for a flag.      *)
Takes(t) ==
  /\ Rest
  /\ \/ Reader(t) /\ StartCall(t, "rread", read_lock)
     \/ Writer(t) /\ StartCall(t, "wread", write_lock)

Gives(t) ==
  /\ Rest
  /\ \/ UnlockRead(t)
     \/ Step(t, "wpost", "out") /\ Unlock(t, write_lock) /\ done' = [done EXCEPT ![t] = FALSE]

Naps(t) ==
  /\ Rest
  /\ \/ Step(t, "rpend", "rtest") /\ Sleep(t, "READ_RDY")
     \/ Step(t, "wpend", "wtest") /\ Sleep(t, "WRITE_RDY")

(* Steps of a task in which the kernel has no part.                        *)
TurnsReadOn(t)  == Step(t, "renable", "out") /\ Enable({"RE"}) /\ done' = [done EXCEPT ![t] = FALSE]

ReadsOn(t)  == Rest /\ (ReadRxIn(t) \/ CopyOut(t) \/ TestRxIn(t) \/ TurnsReadOn(t))
WritesOn(t) == Rest /\ (ReadTxOut(t) \/ CopyIn(t) \/ EnableWrite(t) \/ TestTxOut(t)
                        \/ StartClose(t) \/ Close(t))

Resumes(t) ==
  \/ FlagReturn(t) /\ UNCHANGED driverVars
  \/ OSSemPendEnds(t) /\ UNCHANGED <<role, callVars, rxVars, txVars, irq_enable, byteVars, wireVars>>

(* Steps that leave the driver alone.                                      *)
Elsewhere ==
  /\ UNCHANGED driverVars
  /\ \/ \E t \in TCB : OS_Sched(t) /\ UNCHANGED flagVars
     \/ ClockTicks /\ UNCHANGED flagVars
     \/ \E t \in TCB : InTask(t) /\ TaskSleeps(t) /\ UNCHANGED flagVars
     \/ UNCHANGED <<coreVars, flagVars>>

(* Steps of the device's and the alarm's interrupts, and steps that only   *)
(* change what the driver knows of the host.                               *)
Handler == altera_avalon_jtag_uart_irq \/ altera_avalon_jtag_uart_timeout
Outside == Host \/ \E t \in TCB : altera_avalon_jtag_uart_ioctl(t)

LEMMA Kinds ==
  ASSUME CallTypeOK, Next
  PROVE  \/ \E t \in TCB : Takes(t) \/ Gives(t) \/ Naps(t) \/ ReadsOn(t) \/ WritesOn(t) \/ Resumes(t)
         \/ Elsewhere
         \/ Handler
         \/ Outside
  <1>1. ASSUME NEW t \in TCB \ {Idle}, Begin(t), UNCHANGED <<role, wireVars>>
        PROVE  Takes(t) \/ WritesOn(t)
    BY <1>1 DEF Begin, Takes, WritesOn, Rest
  <1>2. ASSUME NEW t \in TCB, Program(t)
        PROVE  Gives(t) \/ Naps(t) \/ ReadsOn(t) \/ WritesOn(t) \/ Resumes(t) \/ Elsewhere
    <2>1. CASE (Read(t) \/ Write(t) \/ Close(t)) /\ Rest
      BY <2>1 DEF Read, Write, Gives, Naps, ReadsOn, WritesOn, TurnsReadOn
    <2>2. CASE OS_Sched(t) /\ UNCHANGED <<flagVars, driverVars>>
      BY <2>2 DEF Elsewhere
    <2>. QED
      BY <1>2, <2>1, <2>2 DEF Program, Resumes, Rest
  <1>3. ASSUME NEW t \in TCB \ {Idle}, Pause(t), UNCHANGED <<flagVars, driverVars>> PROVE Elsewhere
    BY <1>3 DEF Pause, Step, Elsewhere
  <1>4. CASE ClockTicks /\ UNCHANGED <<flagVars, driverVars>>
    BY <1>4 DEF Elsewhere
  <1>5. CASE UNCHANGED vars
    BY <1>5 DEF Elsewhere, vars
  <1>. QED
    BY <1>1, <1>2, <1>3, <1>4, <1>5 DEF Next, Handler, Outside

(* What a task does alone.                                                 *)
LEMMA Alone ==
  ASSUME NEW t \in TCB, ReadsOn(t) \/ WritesOn(t)
  PROVE  /\ UNCHANGED <<coreVars, flagVars, cnt, role, wireVars>>
         /\ InTask(t)
         /\ \E from, to : Step(t, from, to)
  <1>1. CASE ReadsOn(t)
    BY <1>1 DEF ReadsOn, Rest, ReadRxIn, CopyOut, TestRxIn, TurnsReadOn, Look, Enable, Step
  <1>2. CASE WritesOn(t)
    BY <1>2 DEF WritesOn, Rest, ReadTxOut, CopyIn, EnableWrite, TestTxOut, StartClose, Close, Look,
       Enable, Step
  <1>. QED
    BY <1>1, <1>2

LEMMA TakesPends ==
  ASSUME CallTypeOK, NEW t \in TCB, Takes(t)
  PROVE  /\ InTask(t) /\ OSSemPend(t, MySem(t)) /\ UNCHANGED <<flagVars, role, seen>>
         /\ UNCHANGED <<rxVars, txVars, irq_enable, byteVars, wireVars>>
         /\ at[t] = "out"
         /\ \/ Reader(t) /\ at' = [at EXCEPT ![t] = "rread"]
            \/ Writer(t) /\ at' = [at EXCEPT ![t] = "wread"]
         /\ \E len \in 1 .. role[t].len : left' = [left EXCEPT ![t] = len]
         /\ done' = [done EXCEPT ![t] = FALSE]
  BY RoleFacts DEF Takes, Rest, StartCall, Step, MySem

LEMMA GivesPosts ==
  ASSUME CallTypeOK, AtExact, NEW t \in TCB, Gives(t)
  PROVE  /\ InTask(t) /\ OSSemPost(t, MySem(t)) /\ UNCHANGED <<flagVars, role>>
         /\ UNCHANGED <<rxVars, txVars, irq_enable, byteVars, wireVars>>
         /\ \/ /\ Reader(t) /\ at[t] = "rpost" /\ done' = done
               /\ at' = [at EXCEPT ![t] = IF done[t] THEN "renable" ELSE "out"]
            \/ /\ Writer(t) /\ at[t] = "wpost" /\ at' = [at EXCEPT ![t] = "out"]
               /\ done' = [done EXCEPT ![t] = FALSE]
         /\ left' = [left EXCEPT ![t] = 0]
         /\ seen' = [seen EXCEPT ![t] = 0]
  <1>1. CASE UnlockRead(t)
    <2>1. Reader(t)
      BY <1>1 DEF UnlockRead, Step, AtExact, StandsWell, WriteSteps
    <2>. QED
      BY <1>1, <2>1 DEF Gives, Rest, UnlockRead, Unlock, Step, MySem
  <1>2. CASE Step(t, "wpost", "out") /\ Unlock(t, write_lock) /\ done' = [done EXCEPT ![t] = FALSE]
    <2>1. Writer(t) /\ ~Reader(t)
      BY <1>2 DEF Step, AtExact, StandsWell, ReadSteps
    <2>. QED
      BY <1>2, <2>1 DEF Gives, Rest, Unlock, Step, MySem
  <1>. QED
    BY <1>1, <1>2 DEF Gives

LEMMA NapsPends ==
  ASSUME AtExact, NEW t \in TCB, Naps(t)
  PROVE  /\ InTask(t) /\ UNCHANGED <<cnt, role, left, done, seen>>
         /\ UNCHANGED <<rxVars, txVars, irq_enable, byteVars, wireVars>>
         /\ \/ /\ Reader(t) /\ at[t] = "rpend" /\ at' = [at EXCEPT ![t] = "rtest"]
               /\ OSFlagPend(t, WaitFor("READ_RDY"), 0)
            \/ /\ Writer(t) /\ at[t] = "wpend" /\ at' = [at EXCEPT ![t] = "wtest"]
               /\ OSFlagPend(t, WaitFor("WRITE_RDY"), 0)
  BY DEF Naps, Rest, Sleep, AltFlagPend, Step, AtExact, StandsWell, WaitFor, ReadSteps, WriteSteps

LEMMA PostedAreFlags ==
  Posted \in SUBSET Flag /\ {"TIMEOUT"} \in SUBSET Flag /\ {} \in SUBSET Flag
  BY JtagAssumption DEF Posted

(* What a handler does with the kernel.                                    *)
LEMMA HandlerPosts ==
  ASSUME Handler
  PROVE  /\ \E flags \in SUBSET Flag : PostFromHandler(flags)
         /\ OSIntExit
         /\ UNCHANGED <<cnt, role, callVars, rx_out, tx_in, byteVars, timeout>>
  <1>1. CASE altera_avalon_jtag_uart_irq
    BY <1>1, PostedAreFlags DEF altera_avalon_jtag_uart_irq
  <1>2. CASE altera_avalon_jtag_uart_timeout
    BY <1>2, PostedAreFlags DEF altera_avalon_jtag_uart_timeout, rxVars, txVars
  <1>. QED
    BY <1>1, <1>2 DEF Handler

LEMMA OutsideDoes ==
  ASSUME Outside
  PROVE  /\ UNCHANGED <<coreVars, flagVars, cnt, role, callVars, rxVars, txVars, irq_enable>>
  BY DEF Outside, Host, altera_avalon_jtag_uart_ioctl

LEMMA KernelStep ==
  ASSUME CallTypeOK, KernelSound, AtExact, WaitExact, Next
  PROVE  KernelSound'
  <1>1. ASSUME NEW t \in TCB, Takes(t) PROVE KernelSound'
    BY <1>1, TakesPends, SemIsEvent, SemPendKeeps
  <1>2. ASSUME NEW t \in TCB, Gives(t) PROVE KernelSound'
    BY <1>2, GivesPosts, SemIsEvent, SemPostKeeps
  <1>3. ASSUME NEW t \in TCB, Naps(t) PROVE KernelSound'
    <2>1. PICK w \in Waits : OSFlagPend(t, w, 0) /\ w.set = TRUE
      BY <1>3, NapsPends, WaitForType
    <2>. QED
      BY <2>1, AllWaitForSet, FlagPendKeeps
  <1>4. ASSUME NEW t \in TCB, Resumes(t) PROVE KernelSound'
    BY <1>4, ReturnKeeps, PendEndsKeeps DEF Resumes
  <1>5. ASSUME NEW t \in TCB, ReadsOn(t) \/ WritesOn(t) PROVE KernelSound'
    BY <1>5, Alone, KernelFrame
  <1>6. CASE Elsewhere
    <2>1. ASSUME NEW t \in TCB, OS_Sched(t), UNCHANGED flagVars PROVE KernelSound'
      BY <2>1, SchedKeeps
    <2>2. CASE ClockTicks /\ UNCHANGED flagVars
      BY <2>2, ClockKeeps
    <2>3. ASSUME NEW t \in TCB, InTask(t), TaskSleeps(t), UNCHANGED flagVars PROVE KernelSound'
      BY <2>3, SleepsKeeps
    <2>4. CASE UNCHANGED <<coreVars, flagVars>>
      BY <2>4, KernelFrame
    <2>. QED
      BY <1>6, <2>1, <2>2, <2>3, <2>4 DEF Elsewhere
  <1>7. CASE Handler
    <2>1. PICK flags \in SUBSET Flag : PostFromHandler(flags)
      BY <1>7, HandlerPosts
    <2>2. OSIntExit
      BY <1>7, HandlerPosts
    <2>3. CASE OSFlagPost(events, flags, TRUE)
      <3>1. TablesSound' /\ UNCHANGED prioVars
        BY <2>2, <2>3, PostKeeps, DriverAssumption DEF OSFlagPost, OSIntExit, KernelSound
      <3>. QED
        BY <2>2, <3>1, HandlerKeeps
    <2>4. CASE UNCHANGED <<prioVars, stateVars, waitVars, flagVars>>
      <3>1. TablesSound'
        BY <2>2, <2>4, TablesFrame DEF OSIntExit, KernelSound, tableVars
      <3>. QED
        BY <2>2, <2>4, <3>1, HandlerKeeps
    <2>. QED
      BY <2>1, <2>3, <2>4 DEF PostFromHandler
  <1>8. CASE Outside
    BY <1>8, OutsideDoes, KernelFrame
  <1>. QED
    BY Kinds, <1>1, <1>2, <1>3, <1>4, <1>5, <1>6, <1>7, <1>8

(* Steps in which no task gets on in the driver.                           *)
Passive == (\E t \in TCB : Resumes(t)) \/ Elsewhere \/ Handler \/ Outside

LEMMA PassiveDoes ==
  ASSUME CallTypeOK, KernelSound, Passive
  PROVE  /\ UNCHANGED <<cnt, role, callVars>>
         /\ \A u \in TCB : \/ Undisturbed(u)
                           \/ "SEM" \notin Stat[u] /\ "SEM" \notin Stat'[u] /\ pc'[u] = "task"
  <1>1. ASSUME NEW t \in TCB, Resumes(t), NEW u \in TCB
        PROVE  Undisturbed(u) \/ ("SEM" \notin Stat[u] /\ "SEM" \notin Stat'[u] /\ pc'[u] = "task")
    BY <1>1, ReturnDoes DEF Resumes
  <1>2. CASE Elsewhere
    <2>1. ASSUME NEW t \in TCB, OS_Sched(t), UNCHANGED flagVars, NEW u \in TCB PROVE Undisturbed(u)
      BY <2>1 DEF OS_Sched, stateVars, waitVars, flagVars, Undisturbed
    <2>2. ASSUME ClockTicks, UNCHANGED flagVars, NEW u \in TCB PROVE Undisturbed(u)
      BY <2>2, TickDisturbsNobody DEF ClockTicks, OSIntExit, KernelSound
    <2>3. ASSUME NEW t \in TCB, TaskSleeps(t), UNCHANGED flagVars, NEW u \in TCB PROVE Undisturbed(u)
      BY <2>3, TaskServicesDisturbNobody DEF TaskSleeps, KernelSound
    <2>4. ASSUME UNCHANGED <<coreVars, flagVars>>, NEW u \in TCB PROVE Undisturbed(u)
      BY <2>4, FrameDisturbsNobody DEF flagVars
    <2>5. UNCHANGED <<cnt, role, callVars>>
      BY <1>2 DEF Elsewhere, driverVars
    <2>. QED
      BY <1>2, <2>1, <2>2, <2>3, <2>4, <2>5 DEF Elsewhere
  <1>3. CASE Handler
    <2>1. PICK flags \in SUBSET Flag : PostFromHandler(flags)
      BY <1>3, HandlerPosts
    <2>2. UNCHANGED pc /\ UNCHANGED <<cnt, role, callVars>>
      BY <1>3, HandlerPosts DEF OSIntExit
    <2>3. ASSUME OSFlagPost(events, flags, TRUE), NEW u \in TCB PROVE Undisturbed(u)
      BY <2>2, <2>3, FlagPostDisturbsNobody, DriverAssumption DEF KernelSound
    <2>4. ASSUME UNCHANGED <<prioVars, stateVars, waitVars, flagVars>>, NEW u \in TCB PROVE Undisturbed(u)
      BY <2>2, <2>4 DEF stateVars, waitVars, flagVars, Undisturbed
    <2>. QED
      BY <2>1, <2>2, <2>3, <2>4 DEF PostFromHandler
  <1>4. ASSUME Outside, NEW u \in TCB PROVE Undisturbed(u)
    BY <1>4, OutsideDoes, FrameDisturbsNobody DEF flagVars
  <1>5. Outside => UNCHANGED <<cnt, role, callVars>>
    BY OutsideDoes
  <1>6. ASSUME NEW t \in TCB, Resumes(t) PROVE UNCHANGED <<cnt, role, callVars>>
    BY <1>6 DEF Resumes, OSSemPendEnds, driverVars
  <1>. QED
    BY <1>1, <1>2, <1>3, <1>4, <1>5, <1>6 DEF Passive

-----------------------------------------------------------------------------
(* Where the tasks stand.                                                  *)

Acts(t) == Takes(t) \/ Gives(t) \/ Naps(t) \/ ReadsOn(t) \/ WritesOn(t)

(* A task copies no more than it has seen and wants.                       *)
LEMMA CopyOutDoes ==
  ASSUME CallTypeOK, RingTypeOK, NEW t \in TCB, CopyOut(t)
  PROVE  \E n \in 0 .. left[t] :
           /\ n <= Used(seen[t], rx_out)
           /\ n = 0 => left[t] = 0 \/ seen[t] = rx_out
           /\ at[t] = "rcopy"
           /\ at' = [at EXCEPT ![t] = IF 0 < n /\ n < left[t] THEN "rread"
                                      ELSE IF n > 0 \/ done[t] \/ ~Blocks(t) THEN "rpost" ELSE "rpend"]
           /\ lastRead' = IF n > 0 THEN rx_buf[Ring(rx_out + n - 1)] ELSE lastRead
           /\ toRead' = toRead - n
           /\ rx_buf' = WithoutOf(rx_buf, rx_out, n)
           /\ rx_out' = Ring(rx_out + n)
           /\ left' = [left EXCEPT ![t] = left[t] - n]
           /\ done' = [done EXCEPT ![t] = done[t] \/ n > 0]
           /\ UNCHANGED <<seen, rx_in, txVars, irq_enable, lastSent, toSend>>
  <1> DEFINE m == RxReady(seen[t], rx_out)
             n == Least(m, left[t])
  <1>1. seen[t] \in Slot /\ rx_out \in Slot /\ left[t] \in Nat
    BY DEF CallTypeOK, RingTypeOK
  <1>2. m \in 0 .. Used(seen[t], rx_out) /\ (m = 0 <=> seen[t] = rx_out) /\ Used(seen[t], rx_out) \in Nat
    <2>1. Used(seen[t], rx_out) \in Slot
      BY <1>1, UsedIs
    <2>2. m \in 0 .. Used(seen[t], rx_out) /\ (m = 0 <=> seen[t] = rx_out)
      BY <1>1, CopiedAtOnce
    <2>. QED
      BY <2>1, <2>2 DEF Slot
  <1> HIDE DEF m
  <1>3. n \in 0 .. left[t] /\ n <= Used(seen[t], rx_out) /\ (n = 0 => left[t] = 0 \/ seen[t] = rx_out)
    BY <1>1, <1>2 DEF Least
  <1> HIDE DEF n
  <1>. QED
    BY <1>3 DEF CopyOut, Step, m, n

LEMMA CopyInDoes ==
  ASSUME CallTypeOK, RingTypeOK, NEW t \in TCB, CopyIn(t)
  PROVE  \E n \in 0 .. left[t] :
           /\ n <= BufLen - 1 - Used(tx_in, seen[t])
           /\ n = 0 => left[t] = 0 \/ Ring(tx_in + 1) = seen[t]
           /\ at[t] = "wcopy"
           /\ at' = [at EXCEPT ![t] = IF 0 < n /\ n < left[t] THEN "wread" ELSE "wenable"]
           /\ tx_buf' = PutInto(tx_buf, tx_in, [i \in 1 .. n |-> ByteNo(lastSent + toSend + i)])
           /\ tx_in' = Ring(tx_in + n)
           /\ toSend' = toSend + n
           /\ left' = [left EXCEPT ![t] = left[t] - n]
           /\ done' = [done EXCEPT ![t] = done[t] \/ n > 0]
           /\ UNCHANGED <<seen, rxVars, tx_out, irq_enable, lastRead, toRead, lastSent>>
  <1> DEFINE m == TxRoom(tx_in, seen[t])
             n == Least(m, left[t])
  <1>1. seen[t] \in Slot /\ tx_in \in Slot /\ left[t] \in Nat
    BY DEF CallTypeOK, RingTypeOK
  <1>2. /\ m \in 0 .. BufLen - 1 - Used(tx_in, seen[t]) /\ (m = 0 <=> Ring(tx_in + 1) = seen[t])
        /\ BufLen - 1 - Used(tx_in, seen[t]) \in Nat
    <2>1. Used(tx_in, seen[t]) \in Slot
      BY <1>1, UsedIs
    <2>2. m \in 0 .. BufLen - 1 - Used(tx_in, seen[t]) /\ (m = 0 <=> Ring(tx_in + 1) = seen[t])
      BY <1>1, CopiedAtOnce
    <2>. QED
      BY <2>1, <2>2, BufLenIs DEF Slot
  <1> HIDE DEF m
  <1>3. /\ n \in 0 .. left[t] /\ n <= BufLen - 1 - Used(tx_in, seen[t])
        /\ n = 0 => left[t] = 0 \/ Ring(tx_in + 1) = seen[t]
    BY <1>1, <1>2 DEF Least
  <1> HIDE DEF n
  <1>. QED
    BY <1>3 DEF CopyIn, Step, m, n

(* A step of a task leaves the others where they stand, and stands well.   *)
SameCall(u) == at'[u] = at[u] /\ left'[u] = left[u] /\ done'[u] = done[u] /\ seen'[u] = seen[u]

CallMoves(t) ==
  /\ at' \in [TCB -> {"out"} \cup ReadSteps \cup WriteSteps]
  /\ left' \in [TCB -> Nat] /\ done' \in [TCB -> BOOLEAN] /\ seen' \in [TCB -> Slot]
  /\ \A u \in TCB \ {t} : SameCall(u)
  /\ StandsWell(t)'

Sets(t, to, l, d, s) ==
  /\ at' = [at EXCEPT ![t] = to] /\ left' = [left EXCEPT ![t] = l]
  /\ done' = [done EXCEPT ![t] = d] /\ seen' = [seen EXCEPT ![t] = s]

LEMMA MovesIf ==
  ASSUME CallTypeOK, NEW t \in TCB, role' = role,
         NEW to \in {"out"} \cup ReadSteps \cup WriteSteps, NEW l \in Nat, NEW d \in BOOLEAN,
         NEW s \in Slot, Sets(t, to, l, d, s),
         to \in {"out"} \cup (IF Reader(t) THEN ReadSteps ELSE IF Writer(t) THEN WriteSteps ELSE {}),
         to \in {"rpend", "rtest"} => role[t].does = "read" /\ ~d,
         to \in {"wpend", "wtest"} => role[t].does = "write",
         to \in {"rread", "rcopy", "rpend", "rtest", "wread", "wcopy", "wpend", "wtest"} => l > 0
  PROVE  CallMoves(t)
  <1>1. /\ at' \in [TCB -> {"out"} \cup ReadSteps \cup WriteSteps]
        /\ left' \in [TCB -> Nat] /\ seen' \in [TCB -> Slot]
    BY DEF CallTypeOK, Sets
  <1>2. done' \in [TCB -> BOOLEAN]
    <2>1. done \in [TCB -> BOOLEAN] /\ done' = [done EXCEPT ![t] = d]
      BY DEF CallTypeOK, Sets
    <2>. QED
      BY <2>1, ZenonT(30)
  <1>3. \A u \in TCB \ {t} : SameCall(u)
    BY DEF CallTypeOK, SameCall, Sets
  <1>4. StandsWell(t)'
    <2>1. at'[t] = to /\ left'[t] = l /\ done'[t] = d
      BY DEF CallTypeOK, Sets
    <2>. QED
      BY <2>1 DEF StandsWell, Reader, Writer
  <1>. QED
    BY <1>1, <1>2, <1>3, <1>4 DEF CallMoves

(* What a step leaves as it is.                                            *)
LEMMA SameValue ==
  ASSUME NEW S, NEW f \in [TCB -> S], NEW t \in TCB
  PROVE  f[t] \in S /\ f = [f EXCEPT ![t] = f[t]]
  OBVIOUS

LEMMA CallsMove ==
  ASSUME CallTypeOK, RingTypeOK, AtExact, NEW t \in TCB, Acts(t)
  PROVE  CallMoves(t)
  <1>1. /\ left[t] \in Nat /\ left = [left EXCEPT ![t] = left[t]]
        /\ seen[t] \in Slot /\ seen = [seen EXCEPT ![t] = seen[t]]
        /\ done[t] \in BOOLEAN /\ done = [done EXCEPT ![t] = done[t]]
    BY SameValue DEF CallTypeOK
  <1>2. StandsWell(t)
    BY DEF AtExact
  <1>3. 0 \in Slot /\ FALSE \in BOOLEAN /\ 0 \in Nat
    BY BufLenIs DEF Slot
  <1>4. CASE Takes(t)
    <2>1. /\ role' = role /\ seen' = seen /\ done' = [done EXCEPT ![t] = FALSE]
          /\ \/ Reader(t) /\ at' = [at EXCEPT ![t] = "rread"]
             \/ Writer(t) /\ at' = [at EXCEPT ![t] = "wread"]
      BY <1>4, TakesPends
    <2>2. PICK len \in 1 .. role[t].len : left' = [left EXCEPT ![t] = len]
      BY <1>4, TakesPends
    <2>3. len \in Nat /\ len > 0 /\ ~(Reader(t) /\ Writer(t))
      BY RoleFacts
    <2>4. CASE Reader(t) /\ at' = [at EXCEPT ![t] = "rread"]
      <3>9. Sets(t, "rread", len, FALSE, seen[t])
        BY <1>1, <1>3, <2>1, <2>2, <2>3, <2>4 DEF Sets
      <3>. QED
        BY <1>1, <1>3, <2>1, <2>2, <2>3, <2>4, <3>9, MovesIf DEF ReadSteps
    <2>5. CASE Writer(t) /\ at' = [at EXCEPT ![t] = "wread"]
      <3>9. Sets(t, "wread", len, FALSE, seen[t])
        BY <1>1, <1>3, <2>1, <2>2, <2>3, <2>5 DEF Sets
      <3>. QED
        BY <1>1, <1>3, <2>1, <2>2, <2>3, <2>5, <3>9, MovesIf DEF WriteSteps
    <2>. QED
      BY <2>1, <2>4, <2>5
  <1>5. CASE Gives(t)
    <2>1. role' = role /\ left' = [left EXCEPT ![t] = 0] /\ seen' = [seen EXCEPT ![t] = 0]
      BY <1>5, GivesPosts
    <2>2. CASE Reader(t) /\ done' = done /\ at' = [at EXCEPT ![t] = IF done[t] THEN "renable" ELSE "out"]
      <3> DEFINE to == IF done[t] THEN "renable" ELSE "out"
      <3>1. to \in {"out", "renable"} /\ at' = [at EXCEPT ![t] = to]
        BY <2>2
      <3> HIDE DEF to
      <3>9. Sets(t, to, 0, done[t], 0)
        BY <1>1, <1>3, <2>1, <2>2, <3>1 DEF Sets
      <3>. QED
        BY <1>1, <1>3, <2>1, <2>2, <3>1, <3>9, MovesIf DEF ReadSteps
    <2>3. CASE at' = [at EXCEPT ![t] = "out"] /\ done' = [done EXCEPT ![t] = FALSE]
      <3>9. Sets(t, "out", 0, FALSE, 0)
        BY <1>1, <1>3, <2>1, <2>3 DEF Sets
      <3>. QED
        BY <1>1, <1>3, <2>1, <2>3, <3>9, MovesIf
    <2>. QED
      BY <1>5, <2>2, <2>3, GivesPosts
  <1>6. CASE Naps(t)
    <2>1. role' = role /\ left' = left /\ seen' = seen /\ done' = done
      BY <1>6, NapsPends
    <2>2. CASE Reader(t) /\ at[t] = "rpend" /\ at' = [at EXCEPT ![t] = "rtest"]
      <3>1. role[t].does = "read" /\ ~done[t] /\ left[t] > 0
        BY <1>2, <2>2 DEF StandsWell
      <3>9. Sets(t, "rtest", left[t], done[t], seen[t])
        BY <1>1, <1>3, <2>1, <2>2, <3>1 DEF Sets
      <3>. QED
        BY <1>1, <1>3, <2>1, <2>2, <3>1, <3>9, MovesIf, SMTT(30) DEF ReadSteps
    <2>3. CASE Writer(t) /\ at[t] = "wpend" /\ at' = [at EXCEPT ![t] = "wtest"]
      <3>1. role[t].does = "write" /\ ~Reader(t) /\ left[t] > 0
        BY <1>2, <2>3, RoleFacts DEF StandsWell
      <3>9. Sets(t, "wtest", left[t], done[t], seen[t])
        BY <1>1, <1>3, <2>1, <2>3, <3>1 DEF Sets
      <3>. QED
        BY <1>1, <1>3, <2>1, <2>3, <3>1, <3>9, MovesIf DEF WriteSteps
    <2>. QED
      BY <1>6, <2>2, <2>3, NapsPends
  <1>7. CASE ReadsOn(t)
    <2>1. role' = role /\ Reader(t)
      BY <1>2, <1>7 DEF ReadsOn, Rest, ReadRxIn, CopyOut, TestRxIn, TurnsReadOn, Step, StandsWell, WriteSteps
    <2>2. CASE ReadRxIn(t)
      <3>1. /\ left[t] > 0 /\ at' = [at EXCEPT ![t] = "rcopy"] /\ left' = left /\ done' = done
            /\ seen' = [seen EXCEPT ![t] = rx_in] /\ rx_in \in Slot
        BY <1>2, <2>2 DEF ReadRxIn, Step, Look, StandsWell, RingTypeOK
      <3>9. Sets(t, "rcopy", left[t], done[t], rx_in)
        BY <1>1, <2>1, <3>1 DEF Sets
      <3>. QED
        BY <1>1, <2>1, <3>1, <3>9, MovesIf DEF ReadSteps
    <2>3. CASE CopyOut(t)
      <3>1. PICK n \in 0 .. left[t] :
              /\ n = 0 => left[t] = 0 \/ seen[t] = rx_out
              /\ at[t] = "rcopy"
              /\ at' = [at EXCEPT ![t] = IF 0 < n /\ n < left[t] THEN "rread"
                                         ELSE IF n > 0 \/ done[t] \/ ~Blocks(t) THEN "rpost" ELSE "rpend"]
              /\ left' = [left EXCEPT ![t] = left[t] - n]
              /\ done' = [done EXCEPT ![t] = done[t] \/ n > 0]
              /\ seen' = seen
        BY <2>3, CopyOutDoes
      <3> DEFINE to == IF 0 < n /\ n < left[t] THEN "rread"
                       ELSE IF n > 0 \/ done[t] \/ ~Blocks(t) THEN "rpost" ELSE "rpend"
                 d  == done[t] \/ n > 0
      <3>2. left[t] > 0 /\ left[t] - n \in Nat
        BY <1>1, <1>2, <3>1 DEF StandsWell
      <3>3. /\ to \in {"rread", "rpost", "rpend"} /\ d \in BOOLEAN
            /\ to = "rpend" => role[t].does = "read" /\ ~d /\ left[t] - n > 0
            /\ to = "rread" => left[t] - n > 0
        BY <1>1, <2>1, <3>2 DEF Reader, Blocks
      <3>4. at' = [at EXCEPT ![t] = to] /\ done' = [done EXCEPT ![t] = d]
        BY <3>1
      <3> HIDE DEF to, d
      <3>9. Sets(t, to, left[t] - n, d, seen[t])
        BY <1>1, <2>1, <3>1, <3>2, <3>3, <3>4 DEF Sets
      <3>. QED
        BY <1>1, <2>1, <3>1, <3>2, <3>3, <3>4, <3>9, MovesIf DEF ReadSteps
    <2>4. CASE TestRxIn(t)
      <3> DEFINE to == IF seen[t] = rx_in THEN "rpost" ELSE "rread"
      <3>1. /\ left[t] > 0 /\ at' = [at EXCEPT ![t] = to] /\ to \in {"rpost", "rread"}
            /\ left' = left /\ done' = done /\ seen' = seen
        BY <1>2, <2>4 DEF TestRxIn, Step, Look, StandsWell
      <3> HIDE DEF to
      <3>9. Sets(t, to, left[t], done[t], seen[t])
        BY <1>1, <2>1, <3>1 DEF Sets
      <3>. QED
        BY <1>1, <2>1, <3>1, <3>9, MovesIf DEF ReadSteps
    <2>5. CASE TurnsReadOn(t)
      <3>1. /\ at' = [at EXCEPT ![t] = "out"] /\ done' = [done EXCEPT ![t] = FALSE]
            /\ left' = left /\ seen' = seen
        BY <2>5 DEF TurnsReadOn, Step, Enable
      <3>9. Sets(t, "out", left[t], FALSE, seen[t])
        BY <1>1, <1>3, <2>1, <3>1 DEF Sets
      <3>. QED
        BY <1>1, <1>3, <2>1, <3>1, <3>9, MovesIf
    <2>. QED
      BY <1>7, <2>2, <2>3, <2>4, <2>5 DEF ReadsOn
  <1>8. CASE WritesOn(t)
    <2>1. role' = role /\ Writer(t) /\ ~Reader(t)
      BY <1>2, <1>8, RoleFacts DEF WritesOn, Rest, ReadTxOut, CopyIn, EnableWrite, TestTxOut,
         StartClose, Close, Step, StandsWell, ReadSteps
    <2>2. CASE ReadTxOut(t)
      <3>1. /\ left[t] > 0 /\ at' = [at EXCEPT ![t] = "wcopy"] /\ left' = left /\ done' = done
            /\ seen' = [seen EXCEPT ![t] = tx_out] /\ tx_out \in Slot
        BY <1>2, <2>2 DEF ReadTxOut, Step, Look, StandsWell, RingTypeOK
      <3>9. Sets(t, "wcopy", left[t], done[t], tx_out)
        BY <1>1, <2>1, <3>1 DEF Sets
      <3>. QED
        BY <1>1, <2>1, <3>1, <3>9, MovesIf DEF WriteSteps
    <2>3. CASE CopyIn(t)
      <3>1. PICK n \in 0 .. left[t] :
              /\ at[t] = "wcopy"
              /\ at' = [at EXCEPT ![t] = IF 0 < n /\ n < left[t] THEN "wread" ELSE "wenable"]
              /\ left' = [left EXCEPT ![t] = left[t] - n]
              /\ done' = [done EXCEPT ![t] = done[t] \/ n > 0]
              /\ seen' = seen
        BY <2>3, CopyInDoes
      <3> DEFINE to == IF 0 < n /\ n < left[t] THEN "wread" ELSE "wenable"
                 d  == done[t] \/ n > 0
      <3>2. left[t] - n \in Nat /\ d \in BOOLEAN
        BY <1>1
      <3>3. to \in {"wread", "wenable"} /\ (to = "wread" => left[t] - n > 0)
        BY <1>1
      <3>4. at' = [at EXCEPT ![t] = to] /\ done' = [done EXCEPT ![t] = d]
        BY <3>1
      <3> HIDE DEF to, d
      <3>9. Sets(t, to, left[t] - n, d, seen[t])
        BY <1>1, <2>1, <3>1, <3>2, <3>3, <3>4 DEF Sets
      <3>. QED
        BY <1>1, <2>1, <3>1, <3>2, <3>3, <3>4, <3>9, MovesIf DEF WriteSteps
    <2>4. CASE EnableWrite(t)
      <3> DEFINE to == IF left[t] > 0 /\ Blocks(t) THEN "wpend" ELSE "wpost"
      <3>1. /\ at' = [at EXCEPT ![t] = to] /\ to \in {"wpend", "wpost"}
            /\ to = "wpend" => left[t] > 0 /\ role[t].does = "write"
            /\ left' = left /\ done' = done /\ seen' = seen
        BY <2>1, <2>4 DEF EnableWrite, Enable, Step, Writer, Blocks
      <3> HIDE DEF to
      <3>9. Sets(t, to, left[t], done[t], seen[t])
        BY <1>1, <2>1, <3>1 DEF Sets
      <3>. QED
        BY <1>1, <2>1, <3>1, <3>9, MovesIf DEF WriteSteps
    <2>5. CASE TestTxOut(t)
      <3> DEFINE to == IF seen[t] = tx_out THEN "wpost" ELSE "wread"
      <3>1. /\ left[t] > 0 /\ at' = [at EXCEPT ![t] = to] /\ to \in {"wpost", "wread"}
            /\ left' = left /\ done' = done /\ seen' = seen
        BY <1>2, <2>5 DEF TestTxOut, Step, Look, StandsWell
      <3> HIDE DEF to
      <3>9. Sets(t, to, left[t], done[t], seen[t])
        BY <1>1, <2>1, <3>1 DEF Sets
      <3>. QED
        BY <1>1, <2>1, <3>1, <3>9, MovesIf DEF WriteSteps
    <2>6. CASE StartClose(t) \/ Close(t)
      <3>1. PICK to \in {"close", "out"} : at' = [at EXCEPT ![t] = to]
        BY <2>6 DEF StartClose, Close, Step
      <3>2. Sets(t, to, left[t], done[t], seen[t])
        BY <1>1, <2>6, <3>1 DEF StartClose, Close, Look, Sets
      <3>. QED
        BY <1>1, <2>1, <3>2, MovesIf DEF WriteSteps
    <2>. QED
      BY <1>8, <2>2, <2>3, <2>4, <2>5, <2>6 DEF WritesOn
  <1>. QED
    BY <1>4, <1>5, <1>6, <1>7, <1>8 DEF Acts

LEMMA ActsInTask ==
  ASSUME CallTypeOK, AtExact, NEW t \in TCB, Acts(t)
  PROVE  InTask(t) /\ role' = role
  BY TakesPends, GivesPosts, NapsPends, Alone DEF Acts

LEMMA TypeStep ==
  ASSUME Turns, RingTypeOK, Next
  PROVE  CallTypeOK'
  <1> USE DEF Turns
  <1>1. ASSUME NEW t \in TCB, Acts(t) PROVE CallTypeOK'
    <2>1. cnt' \in [Event -> {0, 1}]
      <3>1. CASE Takes(t)
        <4>1. \/ cnt[MySem(t)] > 0 /\ cnt' = [cnt EXCEPT ![MySem(t)] = @ - 1]
              \/ cnt' = cnt
          BY <3>1, TakesPends DEF OSSemPend
        <4>. QED
          BY <4>1, SemIsEvent DEF CallTypeOK
      <3>2. CASE Gives(t)
        <4>1. cnt[MySem(t)] = 0
          BY <3>2, GivesPosts DEF Exclusion, Inside, Locked, ReadSteps, WriteSteps
        <4>2. cnt' = [cnt EXCEPT ![MySem(t)] = @ + 1] \/ cnt' = cnt
          BY <3>2, GivesPosts DEF OSSemPost
        <4>. QED
          BY <4>1, <4>2, SemIsEvent DEF CallTypeOK
      <3>3. CASE Naps(t) \/ ReadsOn(t) \/ WritesOn(t)
        BY <3>3, NapsPends, Alone DEF CallTypeOK
      <3>. QED
        BY <1>1, <3>1, <3>2, <3>3 DEF Acts
    <2>. QED
      BY <1>1, <2>1, CallsMove, ActsInTask DEF CallMoves, CallTypeOK
  <1>2. CASE Passive
    BY <1>2, PassiveDoes DEF CallTypeOK, callVars
  <1>. QED
    BY Kinds, <1>1, <1>2 DEF Passive, Acts

LEMMA AtStep ==
  ASSUME Turns, RingTypeOK, Next
  PROVE  AtExact'
  <1> USE DEF Turns
  <1>1. ASSUME NEW t \in TCB, Acts(t) PROVE AtExact'
    BY <1>1, CallsMove, ActsInTask DEF CallMoves, SameCall, AtExact, StandsWell, Reader, Writer
  <1>2. CASE Passive
    BY <1>2, PassiveDoes DEF AtExact, StandsWell, Reader, Writer, callVars
  <1>. QED
    BY Kinds, <1>1, <1>2 DEF Passive, Acts

-----------------------------------------------------------------------------
(* What they wait for.                                                     *)

LEMMA WaitsOn ==
  ASSUME NEW u \in TCB, WaitsWell(u), Undisturbed(u), UNCHANGED role,
         SameCall(u) \/ pc[u] = "task", "SEM" \in Stat[u] => pc[u] = "pend"
  PROVE  WaitsWell(u)'
  BY DEF WaitsWell, Undisturbed, MySem, Reader, Writer, SameCall

LEMMA NapsDoes ==
  ASSUME Turns, NEW t \in TCB, Naps(t)
  PROVE  /\ \A u \in TCB \ {t} : Undisturbed(u)
         /\ "SEM" \notin Stat'[t] /\ "SEM" \notin Stat[t]
         /\ \E flag \in {"READ_RDY", "WRITE_RDY"} :
              /\ \/ /\ flag = "READ_RDY" /\ Reader(t) /\ at[t] = "rpend"
                    /\ at' = [at EXCEPT ![t] = "rtest"]
                 \/ /\ flag = "WRITE_RDY" /\ Writer(t) /\ at[t] = "wpend"
                    /\ at' = [at EXCEPT ![t] = "wtest"]
              /\ \/ pc'[t] = "task" /\ "FLAG" \notin Stat'[t] /\ TakeFlags(events, WaitFor(flag))
                 \/ /\ pc'[t] = "flag" /\ node'[t] = WaitFor(flag)
                    /\ ~Ready(flag) /\ OSFlagFlags' = OSFlagFlags
  <1>1. PICK flag \in {"READ_RDY", "WRITE_RDY"} :
          /\ OSFlagPend(t, WaitFor(flag), 0)
          /\ \/ /\ flag = "READ_RDY" /\ Reader(t) /\ at[t] = "rpend"
                /\ at' = [at EXCEPT ![t] = "rtest"]
             \/ /\ flag = "WRITE_RDY" /\ Writer(t) /\ at[t] = "wpend"
                /\ at' = [at EXCEPT ![t] = "wtest"]
    BY NapsPends DEF Turns
  <1>2. "SEM" \notin Stat[t] /\ KernelSound
    BY NapsPends, RunningFree DEF Turns, InTask
  <1> DEFINE w == WaitFor(flag)
  <1>3. w \in Waits /\ w.grp = events /\ (Ready(flag) => Satisfied(w, OSFlagFlags[w.grp]))
    BY WaitForType DEF WaitFor, Satisfied, Found, Ready
  <1> HIDE DEF w
  <1>4. /\ \A u \in TCB \ {t} : Undisturbed(u)
        /\ "SEM" \notin Stat'[t]
        /\ \/ pc'[t] = "task" /\ "FLAG" \notin Stat'[t] /\ TakeFlags(w.grp, w)
           \/ /\ pc'[t] = "flag" /\ node'[t] = w
              /\ ~Satisfied(w, OSFlagFlags[w.grp]) /\ OSFlagFlags' = OSFlagFlags
    BY <1>1, <1>2, <1>3, FlagPendDoes DEF w
  <1>. QED
    BY <1>1, <1>2, <1>3, <1>4 DEF w

LEMMA WaitStep ==
  ASSUME Turns, RingTypeOK, Next
  PROVE  WaitExact'
  <1>1. KernelSound /\ CallTypeOK /\ AtExact /\ WaitExact
        /\ \A u \in TCB : WaitsWell(u) /\ ("SEM" \in Stat[u] => pc[u] = "pend")
    BY DEF Turns, WaitExact, KernelSound, TablesSound, StatusExact
  <1>2. ASSUME NEW t \in TCB, Acts(t)
        PROVE  role' = role /\ pc[t] = "task" /\ \A u \in TCB \ {t} : SameCall(u)
    BY <1>1, <1>2, CallsMove, ActsInTask DEF CallMoves, InTask
  <1>3. ASSUME NEW t \in TCB, Acts(t), \A u \in TCB \ {t} : Undisturbed(u)
        PROVE  \A u \in TCB \ {t} : WaitsWell(u)'
    BY <1>1, <1>2, <1>3, WaitsOn
  <1>4. ASSUME NEW t \in TCB, Takes(t) PROVE WaitExact'
    <2>1. /\ InTask(t) /\ OSSemPend(t, MySem(t)) /\ UNCHANGED <<flagVars, role>>
          /\ \E to \in {"rread", "wread"} : at' = [at EXCEPT ![t] = to]
          /\ done' = [done EXCEPT ![t] = FALSE]
      BY <1>1, <1>4, TakesPends
    <2>2. /\ \A u \in TCB \ {t} : Undisturbed(u)
          /\ \/ pc'[t] = "task" /\ "SEM" \notin Stat'[t]
             \/ pc'[t] = "pend" /\ EventPtr'[t] = MySem(t)
      BY <1>1, <2>1, SemIsEvent, SemPendDoes
    <2>3. at'[t] \in {"rread", "wread"} /\ ~done'[t]
      BY <1>1, <2>1 DEF CallTypeOK
    <2>4. MySem(t)' = MySem(t)
      BY <2>1 DEF MySem, Reader
    <2>5. WaitsWell(t)'
      BY <2>2, <2>3, <2>4 DEF WaitsWell
    <2>. QED
      BY <1>3, <1>4, <2>2, <2>5 DEF WaitExact, Acts
  <1>5. ASSUME NEW t \in TCB, Gives(t) PROVE WaitExact'
    <2>1. /\ InTask(t) /\ OSSemPost(t, MySem(t)) /\ UNCHANGED <<flagVars, role>>
      BY <1>1, <1>5, GivesPosts
    <2>2. \A u \in TCB : SameCall(u) \/ pc[u] = "task"
      BY <1>2, <1>5 DEF Acts
    <2>3. \/ \A u \in TCB : Undisturbed(u)
          \/ \E v \in SemWaiters(MySem(t)) :
               /\ \A u \in TCB \ {v} : Undisturbed(u)
               /\ pc'[v] = pc[v] /\ node'[v] = node[v] /\ EventPtr'[v] = EventPtr[v]
               /\ "SEM" \notin Stat'[v]
      BY <1>1, <2>1, SemIsEvent, SemPostDoes
    <2>4. ASSUME NEW v \in TCB, pc'[v] = pc[v], node'[v] = node[v], "SEM" \notin Stat'[v]
          PROVE  WaitsWell(v)'
      BY <1>1, <2>1, <2>2, <2>4 DEF WaitsWell, SameCall, Reader, Writer
    <2>5. SemWaiters(MySem(t)) \subseteq TCB
      BY DEF SemWaiters
    <2>. QED
      BY <1>1, <2>1, <2>2, <2>3, <2>4, <2>5, WaitsOn DEF WaitExact
  <1>6. ASSUME NEW t \in TCB, Naps(t) PROVE WaitExact'
    <2>1. /\ "SEM" \notin Stat'[t]
          /\ \/ pc'[t] = "task"
             \/ /\ pc'[t] = "flag" /\ Reader(t) /\ at'[t] = "rtest" /\ node'[t] = WaitFor("READ_RDY")
             \/ /\ pc'[t] = "flag" /\ Writer(t) /\ at'[t] = "wtest" /\ node'[t] = WaitFor("WRITE_RDY")
      BY <1>1, <1>6, NapsDoes DEF CallTypeOK
    <2>2. WaitsWell(t)'
      BY <1>2, <1>6, <2>1 DEF WaitsWell, WaitFor, Reader, Writer, Acts
    <2>. QED
      BY <1>3, <1>6, <2>2, NapsDoes DEF WaitExact, Acts
  <1>7. ASSUME NEW t \in TCB, ReadsOn(t) \/ WritesOn(t) PROVE WaitExact'
    <2>1. \A u \in TCB : Undisturbed(u)
      BY <1>7, Alone, FrameDisturbsNobody DEF flagVars
    <2>. QED
      BY <1>1, <1>2, <1>7, <2>1, WaitsOn DEF WaitExact, Acts
  <1>8. CASE Passive
    <2>1. /\ role' = role
          /\ \A u \in TCB : \/ Undisturbed(u)
                            \/ "SEM" \notin Stat'[u] /\ pc'[u] = "task"
          /\ \A u \in TCB : SameCall(u)
      BY <1>1, <1>8, PassiveDoes DEF SameCall, callVars
    <2>2. ASSUME NEW u \in TCB, "SEM" \notin Stat'[u], pc'[u] = "task" PROVE WaitsWell(u)'
      BY <2>2 DEF WaitsWell
    <2>3. ASSUME NEW u \in TCB, Undisturbed(u) PROVE WaitsWell(u)'
      BY <1>1, <2>1, <2>3, WaitsOn
    <2>. QED
      BY <2>1, <2>2, <2>3 DEF WaitExact
  <1>. QED
    BY Kinds, <1>1, <1>4, <1>5, <1>6, <1>7, <1>8 DEF Passive

-----------------------------------------------------------------------------
(* Who holds a semaphore.                                                  *)

LEMMA SameSem ==
  ASSUME UNCHANGED role
  PROVE  \A u \in TCB : /\ MySem(u)' = MySem(u)
                        /\ (Reader(u)' <=> Reader(u)) /\ (Writer(u)' <=> Writer(u))
  BY DEF MySem, Reader, Writer

(* A step in which nobody gets inside and no wait for a semaphore ends.    *)
LEMMA ExclusionFrame ==
  ASSUME Exclusion, UNCHANGED <<role, cnt>>,
         \A u \in TCB : Inside(u)' => Inside(u),
         \A u \in TCB : "SEM" \in Stat[u] => "SEM" \in Stat'[u]
  PROVE  Exclusion'
  BY SameSem DEF Exclusion, Holds

LEMMA StaysInside ==
  ASSUME Turns, RingTypeOK, NEW t \in TCB, Naps(t) \/ ReadsOn(t) \/ WritesOn(t), NEW u \in TCB,
         Inside(u)'
  PROVE  Inside(u)
  <1>1. CASE u # t
    BY <1>1, CallsMove DEF Turns, Acts, CallMoves, SameCall, Inside
  <1>2. CASE u = t /\ Naps(t)
    BY <1>2, NapsPends DEF Turns, Inside, Locked, ReadSteps, WriteSteps
  <1>3. CASE u = t /\ ReadsOn(t)
    <2>1. at[t] \in Locked \/ (at[t] = "renable" /\ at' = [at EXCEPT ![t] = "out"])
      BY <1>3 DEF ReadsOn, ReadRxIn, CopyOut, TestRxIn, TurnsReadOn, Step, Locked, ReadSteps, WriteSteps
    <2>. QED
      BY <1>3, <2>1 DEF Turns, CallTypeOK, Inside, Locked, ReadSteps, WriteSteps
  <1>4. CASE u = t /\ WritesOn(t)
    <2>1. at[t] \in Locked \/ (\E to \in {"out", "close"} : at' = [at EXCEPT ![t] = to])
      BY <1>4 DEF WritesOn, ReadTxOut, CopyIn, EnableWrite, TestTxOut, StartClose, Close, Step,
         Locked, ReadSteps, WriteSteps
    <2>. QED
      BY <1>4, <2>1 DEF Turns, CallTypeOK, Inside, Locked, ReadSteps, WriteSteps
  <1>. QED
    BY <1>1, <1>2, <1>3, <1>4

LEMMA ExclusionStep ==
  ASSUME Turns, RingTypeOK, Next
  PROVE  Exclusion'
  <1>1. KernelSound /\ CallTypeOK /\ AtExact /\ WaitExact /\ Exclusion
    BY DEF Turns
  <1>2. ASSUME NEW t \in TCB, Takes(t) PROVE Exclusion'
    <2> DEFINE e == MySem(t)
    <2>1. InTask(t) /\ OSSemPend(t, e) /\ UNCHANGED <<flagVars, role>> /\ e \in Event
      BY <1>1, <1>2, TakesPends, SemIsEvent
    <2>2. \A u \in TCB \ {t} : at'[u] = at[u]
      BY <1>1, <1>2, TakesPends DEF CallTypeOK
    <2>3. /\ \A u \in TCB \ {t} : Undisturbed(u)
          /\ \/ cnt[e] > 0 /\ cnt' = [cnt EXCEPT ![e] = @ - 1]
             \/ "SEM" \in Stat'[t] /\ cnt[e] = 0 /\ cnt' = cnt
      BY <1>1, <2>1, SemPendDoes
    <2>4. \A u \in TCB \ {t} : (Inside(u)' <=> Inside(u)) /\ (Holds(u)' <=> Holds(u))
      BY <2>2, <2>3 DEF Inside, Holds, Undisturbed
    <2>5. \A u \in TCB : MySem(u)' = MySem(u)
      BY <2>1, SameSem
    <2> HIDE DEF e
    <2>6. CASE cnt[e] > 0 /\ cnt' = [cnt EXCEPT ![e] = @ - 1]
      <3>1. cnt'[e] = 0 /\ \A d \in Event \ {e} : cnt'[d] = cnt[d]
        BY <1>1, <2>1, <2>6 DEF CallTypeOK
      <3>2. \A u \in TCB : Inside(u)' => cnt'[MySem(u)] = 0
        BY <1>1, <2>4, <3>1, SemIsEvent DEF Exclusion, e
      <3>3. \A u \in TCB \ {t} : Holds(u)' => MySem(u) # e
        BY <1>1, <2>4, <2>6 DEF Exclusion, Holds
      <3>. QED
        BY <1>1, <2>4, <2>5, <3>2, <3>3 DEF Exclusion, e
    <2>7. CASE "SEM" \in Stat'[t] /\ cnt[e] = 0 /\ cnt' = cnt
      BY <1>1, <2>4, <2>5, <2>7 DEF Exclusion, Holds, e
    <2>. QED
      BY <2>3, <2>6, <2>7
  <1>3. ASSUME NEW t \in TCB, Gives(t) PROVE Exclusion'
    <2> DEFINE e == MySem(t)
    <2>1. InTask(t) /\ OSSemPost(t, e) /\ UNCHANGED <<flagVars, role>> /\ e \in Event
      BY <1>1, <1>3, GivesPosts, SemIsEvent
    <2>2. /\ \A u \in TCB \ {t} : at'[u] = at[u]
          /\ at[t] \in {"rpost", "wpost"} /\ at'[t] \in {"renable", "out"}
      BY <1>1, <1>3, GivesPosts DEF CallTypeOK
    <2>3. Holds(t) /\ ~Inside(t)'
      <3>1. "SEM" \notin Stat[t]
        BY <1>1, <2>1, RunningFree DEF InTask
      <3>. QED
        BY <2>2, <3>1 DEF Holds, Inside, Locked, ReadSteps, WriteSteps
    <2>4. \A u \in TCB : Inside(u)' => u # t /\ Inside(u)
      BY <2>2, <2>3 DEF Inside
    <2>5. \A u \in TCB : MySem(u)' = MySem(u)
      BY <2>1, SameSem
    <2>6. \/ (\A u \in TCB : Undisturbed(u)) /\ SemWaiters(e) = {} /\ cnt' = [cnt EXCEPT ![e] = @ + 1]
          \/ \E v \in SemWaiters(e) : (\A u \in TCB \ {v} : Undisturbed(u)) /\ cnt' = cnt
      BY <1>1, <2>1, SemPostDoes
    <2>7. \A u \in TCB : Holds(u) /\ MySem(u) = e => u = t
      BY <1>1, <2>3 DEF Exclusion
    <2>8. \A u \in TCB : u \in SemWaiters(e) <=> "SEM" \in Stat[u] /\ MySem(u) = e
      <3>1. \A u \in TCB : "SEM" \in Stat[u] => EventPtr[u] = MySem(u)
        BY <1>1 DEF WaitExact, WaitsWell
      <3>. QED
        BY <3>1 DEF SemWaiters
    <2>9. SemWaiters(e) \subseteq TCB
      BY DEF SemWaiters
    <2> HIDE DEF e
    <2>10. CASE (\A u \in TCB : Undisturbed(u)) /\ SemWaiters(e) = {} /\ cnt' = [cnt EXCEPT ![e] = @ + 1]
      <3>1. \A u \in TCB : Inside(u)' => MySem(u) # e
        BY <2>4, <2>7, <2>8, <2>10 DEF Holds
      <3>2. \A d \in Event \ {e} : cnt'[d] = cnt[d]
        BY <1>1, <2>10 DEF CallTypeOK
      <3>3. \A u \in TCB : Holds(u)' => Holds(u)
        BY <2>4, <2>10 DEF Holds, Undisturbed
      <3>. QED
        BY <1>1, <2>4, <2>5, <3>1, <3>2, <3>3, SemIsEvent DEF Exclusion
    <2>11. CASE \E v \in SemWaiters(e) : (\A u \in TCB \ {v} : Undisturbed(u)) /\ cnt' = cnt
      <3>1. PICK v \in SemWaiters(e) : (\A u \in TCB \ {v} : Undisturbed(u)) /\ cnt' = cnt
        BY <2>11
      <3>2. \A u \in TCB \ {v} : Holds(u)' => Holds(u) /\ u # t
        BY <2>4, <3>1 DEF Holds, Undisturbed
      <3>3. \A u \in TCB : Holds(u)' /\ MySem(u) = e => u = v
        BY <2>7, <3>2
      <3>4. MySem(v) = e /\ v \in TCB
        BY <2>8, <2>9
      <3>. QED
        BY <1>1, <2>4, <2>5, <3>1, <3>2, <3>3, <3>4 DEF Exclusion
    <2>. QED
      BY <2>6, <2>10, <2>11
  <1>4. ASSUME NEW t \in TCB, Naps(t) \/ ReadsOn(t) \/ WritesOn(t) PROVE Exclusion'
    <2>1. UNCHANGED <<cnt, role>> /\ \A u \in TCB : "SEM" \in Stat[u] => "SEM" \in Stat'[u]
      <3>1. CASE Naps(t)
        BY <1>1, <3>1, NapsPends, NapsDoes DEF Turns, Undisturbed
      <3>2. CASE ReadsOn(t) \/ WritesOn(t)
        BY <3>2, Alone DEF coreVars, stateVars
      <3>. QED
        BY <1>4, <3>1, <3>2
    <2>2. \A u \in TCB : Inside(u)' => Inside(u)
      BY <1>4, StaysInside
    <2>. QED
      BY <1>1, <2>1, <2>2, ExclusionFrame
  <1>5. CASE Passive
    <2>1. UNCHANGED <<cnt, role, at>> /\ \A u \in TCB : "SEM" \in Stat[u] => "SEM" \in Stat'[u]
      BY <1>1, <1>5, PassiveDoes DEF callVars, Undisturbed
    <2>2. \A u \in TCB : Inside(u)' => Inside(u)
      BY <2>1 DEF Inside
    <2>. QED
      BY <1>1, <2>1, <2>2, ExclusionFrame
  <1>. QED
    BY Kinds, <1>1, <1>2, <1>3, <1>4, <1>5 DEF Passive

LEMMA TurnsStep ==
  ASSUME Turns, RingTypeOK, Next
  PROVE  Turns'
  <1>1. KernelSound'
    BY KernelStep DEF Turns
  <1>. QED
    BY <1>1, TypeStep, AtStep, WaitStep, ExclusionStep DEF Turns

LEMMA TurnsStutter == Turns /\ UNCHANGED vars => Turns'
  <1> SUFFICES ASSUME Turns, UNCHANGED vars PROVE Turns'
    OBVIOUS
  <1>1. KernelSound'
    BY KernelFrame DEF Turns, vars
  <1>. QED
    BY <1>1 DEF Turns, vars, driverVars, callVars, coreVars, stateVars, waitVars, flagVars, CallTypeOK,
       AtExact, StandsWell, WaitExact, WaitsWell, Exclusion, Inside, Holds, MySem, Reader, Writer

LEMMA TurnsStart == Init => Turns
  <1> SUFFICES ASSUME Init PROVE Turns
    OBVIOUS
  <1>1. KernelSound
    BY KernelStarts, BasePrioAssumption DEF Init
  <1>2. /\ \A t \in TCB : at[t] = "out" /\ pc[t] = "task" /\ Stat[t] = {}
        /\ role \in Roles
    BY DEF Init, CoreInit
  <1>3. CallTypeOK
    <2>1. 0 \in Slot
      BY BufLenIs DEF Slot
    <2>. QED
      BY <2>1 DEF Init, CallTypeOK
  <1>4. AtExact /\ WaitExact /\ Exclusion
    BY <1>2 DEF AtExact, StandsWell, WaitExact, WaitsWell, Exclusion, Holds, Inside, Locked,
       ReadSteps, WriteSteps
  <1>. QED
    BY <1>1, <1>3, <1>4 DEF Turns

-----------------------------------------------------------------------------
(* What turns bring.                                                       *)

(* A task that takes steps inside is alone there.                          *)
LEMMA OthersAreAway ==
  ASSUME Turns, NEW t \in TCB, Inside(t), InTask(t), NEW u \in TCB, Inside(u), u # t,
         MySem(u) = MySem(t)
  PROVE  "SEM" \in Stat[u]
  <1>1. "SEM" \notin Stat[t]
    BY RunningFree DEF Turns, InTask
  <1>. QED
    BY <1>1 DEF Turns, Exclusion, Holds

(* One who waits for his turn stands at the start of his call and has done *)
(* nothing yet.                                                            *)
LEMMA AwayAtStart ==
  ASSUME Turns, NEW u \in TCB, "SEM" \in Stat[u]
  PROVE  at[u] \in {"rread", "wread"} /\ ~done[u]
  BY DEF Turns, KernelSound, TablesSound, StatusExact, WaitExact, WaitsWell

(* So when a reader, or a writer, takes a step, no other is past the start.*)
LEMMA OnlyOne ==
  ASSUME Turns, NEW t \in TCB, InTask(t), Inside(t)
  PROVE  \A u \in TCB \ {t} :
           /\ MySem(u) = MySem(t) => at[u] \in {"out", "close", "rread", "wread", "renable"}
           /\ MySem(u) = MySem(t) /\ at[u] \in {"rread", "wread"} => ~done[u]
  <1>1. ASSUME NEW u \in TCB \ {t}, MySem(u) = MySem(t)
        PROVE  \/ at[u] \in {"out", "close", "renable"}
               \/ at[u] \in {"rread", "wread"} /\ ~done[u]
    <2>1. CASE Inside(u)
      BY <1>1, <2>1, OthersAreAway, AwayAtStart
    <2>2. CASE ~Inside(u)
      BY <2>2 DEF Inside, Locked, Turns, CallTypeOK, ReadSteps, WriteSteps
    <2>. QED
      BY <2>1, <2>2
  <1>. QED
    BY <1>1

-----------------------------------------------------------------------------
(* What queues hold.                                                       *)

LEMMA QueuedParts ==
  ASSUME NEW fifo \in Seq(Byte), NEW last \in Nat, Queued(fifo, last), NEW k \in 0 .. Len(fifo)
  PROVE  /\ SubSeq(fifo, 1, k) \in Seq(Byte) /\ Len(SubSeq(fifo, 1, k)) = k
         /\ Queued(SubSeq(fifo, 1, k), last)
         /\ SubSeq(fifo, k + 1, Len(fifo)) \in Seq(Byte)
         /\ Len(SubSeq(fifo, k + 1, Len(fifo))) = Len(fifo) - k
         /\ Queued(SubSeq(fifo, k + 1, Len(fifo)), last + k)
  <1>1. /\ SubSeq(fifo, 1, k) \in Seq(Byte) /\ Len(SubSeq(fifo, 1, k)) = k
        /\ \A i \in 1 .. k : SubSeq(fifo, 1, k)[i] = fifo[i]
    OBVIOUS
  <1>2. /\ SubSeq(fifo, k + 1, Len(fifo)) \in Seq(Byte)
        /\ Len(SubSeq(fifo, k + 1, Len(fifo))) = Len(fifo) - k
        /\ \A i \in 1 .. Len(fifo) - k : SubSeq(fifo, k + 1, Len(fifo))[i] = fifo[k + i]
    OBVIOUS
  <1> DEFINE f == SubSeq(fifo, 1, k)
             g == SubSeq(fifo, k + 1, Len(fifo))
  <1> HIDE DEF f, g
  <1>3. Queued(f, last)
    BY <1>1 DEF Queued, f
  <1>4. ASSUME NEW i \in 1 .. Len(fifo) - k PROVE g[i] = ByteNo((last + k) + i)
    <2>1. k + i \in 1 .. Len(fifo) /\ last + (k + i) = (last + k) + i
      OBVIOUS
    <2>2. fifo[k + i] = ByteNo(last + (k + i))
      BY <2>1 DEF Queued
    <2>. QED
      BY <1>2, <2>1, <2>2 DEF g
  <1>5. Queued(g, last + k)
    BY <1>2, <1>4 DEF Queued, g
  <1>. QED
    BY <1>1, <1>2, <1>3, <1>5 DEF f, g

LEMMA QueuedJoin ==
  ASSUME NEW fifo \in Seq(Byte), NEW new \in Seq(Byte), NEW last \in Nat,
         Queued(fifo, last), Queued(new, last + Len(fifo))
  PROVE  /\ fifo \o new \in Seq(Byte) /\ Len(fifo \o new) = Len(fifo) + Len(new)
         /\ Queued(fifo \o new, last)
  <1>1. fifo \o new \in Seq(Byte) /\ Len(fifo \o new) = Len(fifo) + Len(new)
    OBVIOUS
  <1>2. ASSUME NEW i \in 1 .. Len(fifo) + Len(new) PROVE (fifo \o new)[i] = ByteNo(last + i)
    <2>1. CASE i <= Len(fifo)
      <3>1. (fifo \o new)[i] = fifo[i] /\ i \in 1 .. Len(fifo)
        BY <2>1
      <3>. QED
        BY <3>1 DEF Queued
    <2>2. CASE i > Len(fifo)
      <3> DEFINE j == i - Len(fifo)
      <3>1. (fifo \o new)[i] = new[j] /\ j \in 1 .. Len(new) /\ (last + Len(fifo)) + j = last + i
        BY <2>2
      <3> HIDE DEF j
      <3>. QED
        BY <3>1 DEF Queued
    <2>. QED
      BY <2>1, <2>2
  <1>. QED
    BY <1>1, <1>2 DEF Queued

LEMMA QueuedAppend ==
  ASSUME NEW fifo \in Seq(Byte), NEW last \in Nat, Queued(fifo, last), NEW b,
         b = ByteNo(last + (Len(fifo) + 1))
  PROVE  /\ Append(fifo, b) \in Seq(Byte) /\ Len(Append(fifo, b)) = Len(fifo) + 1
         /\ Queued(Append(fifo, b), last)
  <1>1. b \in Byte
    BY ByteNoIs
  <1>2. /\ Append(fifo, b) \in Seq(Byte) /\ Len(Append(fifo, b)) = Len(fifo) + 1
        /\ \A i \in 1 .. Len(fifo) : Append(fifo, b)[i] = fifo[i]
        /\ Append(fifo, b)[Len(fifo) + 1] = b
    BY <1>1
  <1> DEFINE f == Append(fifo, b)
  <1> HIDE DEF f
  <1>3. ASSUME NEW i \in 1 .. Len(fifo) + 1 PROVE f[i] = ByteNo(last + i)
    <2>1. CASE i = Len(fifo) + 1
      BY <1>2, <2>1 DEF f
    <2>2. CASE i # Len(fifo) + 1
      <3>1. i \in 1 .. Len(fifo)
        BY <2>2
      <3>. QED
        BY <1>2, <3>1 DEF f, Queued
    <2>. QED
      BY <2>1, <2>2
  <1>. QED
    BY <1>2, <1>3 DEF f, Queued

LEMMA QueuedTail ==
  ASSUME NEW fifo \in Seq(Byte), NEW last \in Nat, Queued(fifo, last), fifo # <<>>
  PROVE  /\ Head(fifo) = ByteNo(last + 1) /\ Head(fifo) \in Byte
         /\ Tail(fifo) \in Seq(Byte) /\ Len(Tail(fifo)) = Len(fifo) - 1 /\ Len(fifo) > 0
         /\ Queued(Tail(fifo), last + 1)
  <1>1. /\ Tail(fifo) \in Seq(Byte) /\ Len(Tail(fifo)) = Len(fifo) - 1 /\ Len(fifo) > 0
        /\ Head(fifo) = fifo[1]
        /\ \A i \in 1 .. Len(fifo) - 1 : Tail(fifo)[i] = fifo[i + 1]
    OBVIOUS
  <1>2. Head(fifo) = ByteNo(last + 1)
    BY <1>1 DEF Queued
  <1>3. ByteNo(last + 1) \in Byte
    BY ByteNoIs
  <1>4. ASSUME NEW i \in 1 .. Len(fifo) - 1 PROVE Tail(fifo)[i] = ByteNo((last + 1) + i)
    <2>1. i + 1 \in 1 .. Len(fifo) /\ last + (i + 1) = (last + 1) + i
      BY <1>1
    <2>2. fifo[i + 1] = ByteNo(last + (i + 1))
      BY <2>1 DEF Queued
    <2>. QED
      BY <1>1, <2>1, <2>2
  <1> DEFINE f == Tail(fifo)
  <1> HIDE DEF f
  <1>5. Queued(f, last + 1)
    BY <1>1, <1>4 DEF Queued, f
  <1>. QED
    BY <1>1, <1>2, <1>3, <1>5 DEF f

(* The number of the last byte counts modulo Wrap.                         *)
LEMMA SameBytes ==
  ASSUME NEW last \in Nat, NEW d \in Nat
  PROVE  /\ \A fifo \in Seq(Byte) : Queued(fifo, last + d) => Queued(fifo, ByteNo(last) + d)
         /\ \A buf, slot : \A n \in Nat :
              Carries(buf, slot, n, last + d) => Carries(buf, slot, n, ByteNo(last) + d)
  <1>1. ASSUME NEW i \in Nat PROVE ByteNo((ByteNo(last) + d) + i) = ByteNo((last + d) + i)
    <2> DEFINE b == ByteNo(last)
               j == d + i
    <2>1. b \in Nat /\ j \in Nat
      BY ByteNoIs, JtagAssumption DEF Byte
    <2>2. ByteNo(b + j) = ByteNo(last + j)
      BY <2>1, ByteNoIs
    <2> HIDE DEF b
    <2>3. (b + d) + i = b + j /\ (last + d) + i = last + j
      BY <2>1
    <2>. QED
      BY <2>2, <2>3 DEF b
  <1>2. ASSUME NEW fifo \in Seq(Byte), Queued(fifo, last + d) PROVE Queued(fifo, ByteNo(last) + d)
    <2> SUFFICES ASSUME NEW i \in 1 .. Len(fifo) PROVE fifo[i] = ByteNo((ByteNo(last) + d) + i)
      BY DEF Queued
    <2>1. fifo[i] = ByteNo((last + d) + i) /\ i \in Nat
      BY <1>2 DEF Queued
    <2>. QED
      BY <1>1, <2>1
  <1>3. ASSUME NEW buf, NEW slot, NEW n \in Nat, Carries(buf, slot, n, last + d)
        PROVE  Carries(buf, slot, n, ByteNo(last) + d)
    <2> SUFFICES ASSUME NEW i \in 1 .. n PROVE buf[Ring(slot + (i - 1))] = ByteNo((ByteNo(last) + d) + i)
      BY DEF Carries
    <2>1. buf[Ring(slot + (i - 1))] = ByteNo((last + d) + i) /\ i \in Nat
      BY <1>3 DEF Carries
    <2>. QED
      BY <1>1, <2>1
  <1>. QED
    BY <1>2, <1>3

-----------------------------------------------------------------------------
(* The rings.                                                              *)

ringVars == <<rxVars, txVars, irq_enable, byteVars, wireVars>>

LEMMA RingsFrame ==
  ASSUME RingTypeOK, RxExact, TxExact, UNCHANGED <<rxVars, txVars, byteVars, rfifo, wfifo>>,
         irq_enable' \subseteq {"RE", "WE"}
  PROVE  RingTypeOK' /\ RxExact' /\ TxExact'
  BY DEF RingTypeOK, RxExact, TxExact, rxVars, txVars, byteVars, Carries, Queued

(* Only copying, the handler and the host move bytes.                      *)
LEMMA CallsLeaveRings ==
  ASSUME CallTypeOK, AtExact, NEW t \in TCB, Acts(t) \/ Resumes(t), ~CopyIn(t), ~CopyOut(t)
  PROVE  /\ UNCHANGED <<rxVars, txVars, byteVars, wireVars>>
         /\ irq_enable' \in {irq_enable, irq_enable \cup {"WE"}, irq_enable \cup {"RE"}}
         /\ irq_enable' = irq_enable \cup {"RE"} /\ irq_enable' # irq_enable => TurnsReadOn(t)
  <1>1. CASE Takes(t) \/ Gives(t) \/ Naps(t)
    BY <1>1, TakesPends, GivesPosts, NapsPends
  <1>2. CASE ReadsOn(t)
    BY <1>2 DEF ReadsOn, Rest, ReadRxIn, TestRxIn, TurnsReadOn, Look, Enable
  <1>3. CASE WritesOn(t)
    BY <1>3 DEF WritesOn, Rest, ReadTxOut, EnableWrite, TestTxOut, StartClose, Close, Look, Enable
  <1>4. CASE Resumes(t)
    BY <1>4 DEF Resumes, driverVars
  <1>. QED
    BY <1>1, <1>2, <1>3, <1>4 DEF Acts

LEMMA PlusNone == \A i \in Slot : i + 0 = i
  BY BufLenIs DEF Slot

LEMMA RingLengths ==
  ASSUME RingTypeOK
  PROVE  /\ Used(rx_in, rx_out) \in Slot /\ Used(tx_in, tx_out) \in Slot
         /\ Slot \subseteq Nat /\ \A i \in Nat : i \in Slot <=> i < BufLen
         /\ Len(rfifo) \in Nat /\ Len(wfifo) \in Nat
         /\ lastRead \in Nat /\ lastSent \in Nat
         /\ Byte \subseteq 0 .. NONE /\ FifoLen \in Nat
  <1>1. Wrap \in Nat /\ FifoLen \in Nat
    BY JtagAssumption
  <1>2. Used(rx_in, rx_out) \in Slot /\ Used(tx_in, tx_out) \in Slot
    BY UsedIs DEF RingTypeOK
  <1>3. Slot \subseteq Nat /\ \A i \in Nat : i \in Slot <=> i < BufLen
    BY BufLenIs DEF Slot
  <1>4. Len(rfifo) \in Nat /\ Len(wfifo) \in Nat
    BY DEF RingTypeOK
  <1>5. lastRead \in Nat /\ lastSent \in Nat /\ Byte \subseteq 0 .. NONE
    BY <1>1 DEF RingTypeOK, Byte, NONE
  <1>. QED
    BY <1>1, <1>2, <1>3, <1>4, <1>5

LEMMA CopyOutKeepsRings ==
  ASSUME CallTypeOK, RingTypeOK, RxExact, TxExact, SeenExact, NEW t \in TCB, CopyOut(t),
         UNCHANGED wireVars
  PROVE  RingTypeOK' /\ RxExact' /\ TxExact'
  <1> DEFINE u == Used(rx_in, rx_out)
  <1>1. PICK n \in 0 .. left[t] :
          /\ n <= Used(seen[t], rx_out) /\ at[t] = "rcopy"
          /\ lastRead' = IF n > 0 THEN rx_buf[Ring(rx_out + n - 1)] ELSE lastRead
          /\ toRead' = toRead - n
          /\ rx_buf' = WithoutOf(rx_buf, rx_out, n)
          /\ rx_out' = Ring(rx_out + n)
          /\ UNCHANGED <<rx_in, txVars, irq_enable, lastSent, toSend>>
    BY CopyOutDoes
  <1>2. /\ u \in Slot /\ u \in Nat /\ n \in Nat /\ n <= u /\ n \in 0 .. u
        /\ lastRead \in Nat /\ rx_in \in Slot /\ rx_out \in Slot /\ rx_out \in Nat
    <2>1. Used(seen[t], rx_out) <= u /\ Used(seen[t], rx_out) \in Nat /\ left[t] \in Nat
      BY <1>1, UsedIs, RingLengths DEF SeenExact, SeenWell, CallTypeOK, RingTypeOK
    <2>2. u \in Slot /\ u \in Nat /\ lastRead \in Nat
      BY RingLengths
    <2>3. rx_in \in Slot /\ rx_out \in Slot /\ rx_out \in Nat
      BY RingLengths DEF RingTypeOK
    <2> HIDE DEF u
    <2>4. n \in Nat /\ n <= u
      BY <1>1, <2>1, <2>2
    <2>. QED
      BY <2>2, <2>3, <2>4
  <1>3. /\ rx_buf' \in [Slot -> 0 .. NONE]
        /\ Carries(rx_buf', rx_out', u - n, lastRead + n)
    BY <1>1, <1>2, CarriesLess DEF RxExact, RingTypeOK
  <1>4. rx_out' \in Slot /\ Used(rx_in, rx_out') = u - n
    BY <1>1, <1>2, UsedMoves
  <1> HIDE DEF u
  <1>5. lastRead' = ByteNo(lastRead + n) /\ lastRead' \in Byte
    <2>1. CASE n = 0
      <3>1. lastRead \in Byte
        BY DEF RingTypeOK
      <3>2. ByteNo(lastRead) = lastRead
        <4>1. lastRead = Wrap * 0 + lastRead /\ Wrap \in Nat \ {0}
          BY <1>2, JtagAssumption
        <4>. QED
          BY <1>2, <3>1, <4>1, RemainderIs DEF ByteNo, Byte
      <3>. QED
        BY <1>1, <1>2, <2>1, <3>1, <3>2
    <2>2. CASE n > 0
      <3>1. rx_out + n - 1 = rx_out + (n - 1) /\ n \in 1 .. u
        BY <1>2, <2>2
      <3>2. rx_buf[Ring(rx_out + (n - 1))] = ByteNo(lastRead + n)
        BY <3>1 DEF RxExact, Carries, u
      <3>3. ByteNo(lastRead + n) \in Byte
        BY <1>2, ByteNoIs
      <3>. QED
        BY <1>1, <2>2, <3>1, <3>2, <3>3
    <2>. QED
      BY <1>2, <2>1, <2>2
  <1>6. rfifo' = rfifo /\ wfifo' = wfifo /\ rx_in' = rx_in /\ lastSent' = lastSent /\ toSend' = toSend
        /\ irq_enable' = irq_enable
        /\ tx_in' = tx_in /\ tx_out' = tx_out /\ tx_buf' = tx_buf
    BY <1>1 DEF wireVars, txVars
  <1>7. toRead' = (u - n) + Len(rfifo) /\ toRead' \in Nat
    <2>1. toRead = u + Len(rfifo) /\ Len(rfifo) \in Nat
      BY RingLengths DEF RxExact, u
    <2>. QED
      BY <1>1, <1>2, <2>1
  <1>8. Carries(rx_buf', rx_out', u - n, lastRead')
    <2>1. /\ lastRead + n \in Nat /\ u - n \in Nat /\ lastRead + n = (lastRead + n) + 0
          /\ ByteNo(lastRead + n) + 0 = ByteNo(lastRead + n)
      BY <1>2, <1>5, ByteNoIs, JtagAssumption DEF Byte
    <2>. QED
      BY <1>3, <1>5, <2>1, SameBytes
  <1>9. Queued(rfifo, lastRead' + (u - n))
    <2>1. /\ lastRead + n \in Nat /\ u - n \in Nat /\ lastRead + u = (lastRead + n) + (u - n)
      BY <1>2
    <2>2. Queued(rfifo, (lastRead + n) + (u - n)) /\ rfifo \in Seq(Byte)
      BY <2>1 DEF RxExact, RingTypeOK, u
    <2>3. Queued(rfifo, ByteNo(lastRead + n) + (u - n))
      BY <2>1, <2>2, SameBytes
    <2>. QED
      BY <1>5, <2>3
  <1>10. RingTypeOK'
    BY <1>3, <1>4, <1>5, <1>6, <1>7 DEF RingTypeOK
  <1>11. RxExact'
    <2>1. Used(rx_in', rx_out') = u - n
      BY <1>4, <1>6
    <2>. QED
      BY <1>6, <1>7, <1>8, <1>9, <2>1 DEF RxExact
  <1>12. TxExact'
    BY <1>6 DEF TxExact, Carries, Queued
  <1>. QED
    BY <1>10, <1>11, <1>12

LEMMA CopyInKeepsRings ==
  ASSUME CallTypeOK, RingTypeOK, RxExact, TxExact, SeenExact, NEW t \in TCB, CopyIn(t),
         UNCHANGED wireVars
  PROVE  RingTypeOK' /\ RxExact' /\ TxExact'
  <1> DEFINE u == Used(tx_in, tx_out)
             last == lastSent + Len(wfifo)
  <1>1. PICK n \in 0 .. left[t] :
          /\ n <= BufLen - 1 - Used(tx_in, seen[t]) /\ at[t] = "wcopy"
          /\ tx_buf' = PutInto(tx_buf, tx_in, [i \in 1 .. n |-> ByteNo(lastSent + toSend + i)])
          /\ tx_in' = Ring(tx_in + n)
          /\ toSend' = toSend + n
          /\ UNCHANGED <<rxVars, tx_out, irq_enable, lastRead, toRead, lastSent>>
    BY CopyInDoes
  <1> DEFINE bytes == [i \in 1 .. n |-> ByteNo(lastSent + toSend + i)]
  <1>2. /\ u \in Slot /\ u \in Nat /\ n \in Nat /\ u + n < BufLen
        /\ last \in Nat /\ lastSent \in Nat /\ toSend = Len(wfifo) + u
        /\ tx_in \in Slot /\ tx_out \in Slot
    <2>1. u <= Used(tx_in, seen[t]) /\ Used(tx_in, seen[t]) \in Nat /\ left[t] \in Nat
      BY <1>1, UsedIs, RingLengths DEF SeenExact, SeenWell, CallTypeOK, RingTypeOK
    <2>2. u \in Slot /\ u \in Nat /\ lastSent \in Nat /\ Len(wfifo) \in Nat
      BY RingLengths
    <2>3. tx_in \in Slot /\ tx_out \in Slot /\ toSend = Len(wfifo) + u
      BY DEF RingTypeOK, TxExact
    <2> HIDE DEF u
    <2>4. n \in Nat /\ u + n < BufLen
      BY <1>1, <2>1, <2>2, BufLenIs
    <2>. QED
      BY <2>2, <2>3, <2>4
  <1>3. tx_in' \in Slot /\ Used(tx_in', tx_out) = u + n
    BY <1>1, <1>2, UsedMoves
  <1> HIDE DEF u, last
  <1>4. /\ bytes \in Seq(0 .. NONE) /\ Len(bytes) = n
        /\ Queued(bytes, last + u)
    <2>1. ASSUME NEW i \in 1 .. n
          PROVE  lastSent + toSend + i = (last + u) + i /\ (last + u) + i \in Nat
      BY <1>2, RingLengths DEF last
    <2>2. ASSUME NEW i \in 1 .. n PROVE bytes[i] = ByteNo((last + u) + i) /\ bytes[i] \in 0 .. NONE
      BY <2>1, ByteNoIs, RingLengths
    <2>3. bytes \in [1 .. n -> 0 .. NONE]
      BY <2>2
    <2> HIDE DEF bytes
    <2>4. bytes \in Seq(0 .. NONE) /\ Len(bytes) = n
      BY <1>2, <2>3, SequenceOf
    <2>. QED
      BY <2>2, <2>4 DEF Queued
  <1>5. tx_buf' = PutInto(tx_buf, tx_in, bytes)
    BY <1>1
  <1> HIDE DEF bytes
  <1>6. tx_buf' \in [Slot -> 0 .. NONE] /\ Carries(tx_buf', tx_out, u + n, last)
    <2>1. tx_buf \in [Slot -> 0 .. NONE] /\ Carries(tx_buf, tx_out, Used(tx_in, tx_out), last)
      BY DEF RingTypeOK, TxExact, last
    <2>2. /\ Used(tx_in, tx_out) + Len(bytes) < BufLen /\ Queued(bytes, last + Used(tx_in, tx_out))
          /\ Len(bytes) < BufLen
      BY <1>2, <1>4, BufLenIs DEF u
    <2>3. Carries(PutInto(tx_buf, tx_in, bytes), tx_out, Used(tx_in, tx_out) + Len(bytes), last)
      BY <1>2, <1>4, <2>1, <2>2, CarriesMore
    <2>4. PutInto(tx_buf, tx_in, bytes) \in [Slot -> 0 .. NONE]
      BY <1>2, <1>4, <2>1, <2>2, PutIs
    <2>. QED
      BY <1>4, <1>5, <2>3, <2>4 DEF u
  <1>7. rfifo' = rfifo /\ wfifo' = wfifo /\ lastSent' = lastSent /\ tx_out' = tx_out
        /\ lastRead' = lastRead /\ toRead' = toRead /\ irq_enable' = irq_enable
        /\ rx_in' = rx_in /\ rx_out' = rx_out /\ rx_buf' = rx_buf
    BY <1>1 DEF wireVars, rxVars
  <1>8. toSend' = Len(wfifo) + (u + n) /\ toSend' \in Nat
    BY <1>1, <1>2, RingLengths
  <1>9. RingTypeOK'
    BY <1>3, <1>6, <1>7, <1>8 DEF RingTypeOK
  <1>10. TxExact'
    <2>1. Used(tx_in', tx_out') = u + n /\ Queued(wfifo, lastSent)
      BY <1>3, <1>7 DEF TxExact
    <2>. QED
      BY <1>6, <1>7, <1>8, <2>1 DEF TxExact, last
  <1>11. RxExact'
    BY <1>7 DEF RxExact, Carries, Queued
  <1>. QED
    BY <1>9, <1>10, <1>11

(* How many bytes the handler moves.                                       *)
LEMMA HandlerMoves ==
  ASSUME RingTypeOK
  PROVE  /\ Taken \in 0 .. Len(rfifo) /\ Used(rx_in, rx_out) + Taken < BufLen
         /\ ~RI => Taken = 0
         /\ RI /\ Taken < Len(rfifo) => Used(rx_in, rx_out) + Taken = BufLen - 1
         /\ Sent \in 0 .. Used(tx_in, tx_out) /\ Len(wfifo) + Sent <= FifoLen
         /\ ~WI => Sent = 0
         /\ WI /\ Sent < Space => Sent = Used(tx_in, tx_out)
  <1> DEFINE u == Used(rx_in, rx_out)
             v == Used(tx_in, tx_out)
             m == Len(rfifo)
             n == Len(wfifo)
  <1>1. /\ u \in Nat /\ u < BufLen /\ v \in Nat /\ m \in Nat /\ n \in Nat /\ n <= FifoLen
        /\ FifoLen \in Nat /\ BufLen \in Nat
    BY RingLengths, BufLenIs DEF RingTypeOK
  <1>2. /\ Taken = IF RI THEN IF m < BufLen - 1 - u THEN m ELSE BufLen - 1 - u ELSE 0
        /\ Sent = IF WI THEN IF FifoLen - n < v THEN FifoLen - n ELSE v ELSE 0
        /\ Space = FifoLen - n
    BY DEF Taken, Sent, Space, Least
  <1> HIDE DEF u, v, m, n
  <1>3. /\ Taken \in 0 .. m /\ u + Taken < BufLen /\ (~RI => Taken = 0)
        /\ RI /\ Taken < m => u + Taken = BufLen - 1
    BY <1>1, <1>2
  <1>4. /\ Sent \in 0 .. v /\ n + Sent <= FifoLen /\ (~WI => Sent = 0)
        /\ WI /\ Sent < Space => Sent = v
    BY <1>1, <1>2
  <1>. QED
    BY <1>3, <1>4 DEF u, v, m, n

LEMMA HandlerKeepsRx ==
  ASSUME RingTypeOK, RxExact, altera_avalon_jtag_uart_irq
  PROVE  /\ rx_in' \in Slot /\ rx_buf' \in [Slot -> 0 .. NONE]
         /\ rfifo' \in Seq(Byte) /\ Len(rfifo') <= FifoLen
         /\ Used(rx_in', rx_out) = Used(rx_in, rx_out) + Taken
         /\ RxExact'
  <1> DEFINE u == Used(rx_in, rx_out)
             k == Taken
             f == SubSeq(rfifo, 1, k)
             g == SubSeq(rfifo, k + 1, Len(rfifo))
  <1>1. /\ u \in Nat /\ k \in 0 .. Len(rfifo) /\ k \in Nat /\ u + k < BufLen
        /\ Len(rfifo) \in Nat /\ lastRead \in Nat /\ rfifo \in Seq(Byte) /\ Len(rfifo) <= FifoLen
        /\ rx_in \in Slot /\ rx_out \in Slot /\ rx_buf \in [Slot -> 0 .. NONE]
    <2>1. u \in Nat /\ Len(rfifo) \in Nat /\ lastRead \in Nat
      BY RingLengths
    <2>2. k \in 0 .. Len(rfifo) /\ u + k < BufLen
      BY HandlerMoves
    <2>3. /\ rfifo \in Seq(Byte) /\ Len(rfifo) <= FifoLen
          /\ rx_in \in Slot /\ rx_out \in Slot /\ rx_buf \in [Slot -> 0 .. NONE]
      BY DEF RingTypeOK
    <2> HIDE DEF u, k
    <2>4. k \in Nat
      BY <2>1, <2>2
    <2>. QED
      BY <2>1, <2>2, <2>3, <2>4
  <1>2. /\ rx_buf' = PutInto(rx_buf, rx_in, f) /\ rx_in' = Ring(rx_in + k) /\ rfifo' = g
        /\ rx_out' = rx_out /\ lastRead' = lastRead /\ toRead' = toRead
    BY DEF altera_avalon_jtag_uart_irq, byteVars
  <1>3. toRead = u + Len(rfifo) /\ Carries(rx_buf, rx_out, u, lastRead) /\ Queued(rfifo, lastRead + u)
    BY DEF RxExact
  <1> HIDE DEF k
  <1>4. /\ rx_in' \in Slot /\ Used(rx_in', rx_out) = u + k
    BY <1>1, <1>2, UsedMoves
  <1>5. /\ f \in Seq(Byte) /\ Len(f) = k /\ Queued(f, lastRead + u)
        /\ g \in Seq(Byte) /\ Len(g) = Len(rfifo) - k /\ Queued(g, (lastRead + u) + k)
    <2>1. lastRead + u \in Nat
      BY <1>1
    <2>. QED
      BY <1>1, <1>3, <2>1, QueuedParts
  <1> HIDE DEF f, g
  <1>6. f \in Seq(0 .. NONE)
    <2>1. \A i \in 1 .. k : f[i] \in 0 .. NONE
      BY <1>1, <1>5, ElementOf, RingLengths
    <2>2. f \in [1 .. k -> 0 .. NONE]
      BY <1>5, <2>1
    <2>. QED
      BY <1>1, <2>2, SequenceOf
  <1>7. rx_buf' \in [Slot -> 0 .. NONE] /\ Carries(rx_buf', rx_out, u + k, lastRead)
    <2>1. Used(rx_in, rx_out) + Len(f) < BufLen /\ Queued(f, lastRead + Used(rx_in, rx_out))
          /\ Carries(rx_buf, rx_out, Used(rx_in, rx_out), lastRead)
      BY <1>1, <1>3, <1>5
    <2>2. Carries(PutInto(rx_buf, rx_in, f), rx_out, Used(rx_in, rx_out) + Len(f), lastRead)
      BY <1>1, <1>6, <2>1, CarriesMore
    <2>3. Len(f) < BufLen
      BY <1>1, <1>5, BufLenIs
    <2>4. PutInto(rx_buf, rx_in, f) \in [Slot -> 0 .. NONE]
      BY <1>1, <1>6, <2>3, PutIs
    <2>. QED
      BY <1>2, <1>5, <2>2, <2>4
  <1> HIDE DEF u
  <1>8. (lastRead + u) + k = lastRead + (u + k) /\ toRead = (u + k) + (Len(rfifo) - k)
    BY <1>1, <1>3
  <1>9. RxExact'
    <2>1. Used(rx_in', rx_out') = u + k /\ Queued(rfifo', lastRead + (u + k))
          /\ toRead' = (u + k) + Len(rfifo')
      BY <1>2, <1>4, <1>5, <1>8
    <2>. QED
      BY <1>2, <1>7, <2>1 DEF RxExact
  <1>10. Len(g) <= FifoLen
    BY <1>1, <1>5, RingLengths
  <1>. QED
    BY <1>2, <1>4, <1>5, <1>7, <1>9, <1>10 DEF u, k

LEMMA HandlerKeepsTx ==
  ASSUME RingTypeOK, TxExact, altera_avalon_jtag_uart_irq
  PROVE  /\ tx_out' \in Slot /\ tx_buf' \in [Slot -> 0 .. NONE]
         /\ wfifo' \in Seq(Byte) /\ Len(wfifo') <= FifoLen
         /\ Used(tx_in, tx_out') = Used(tx_in, tx_out) - Sent
         /\ TxExact'
  <1> DEFINE u == Used(tx_in, tx_out)
             k == Sent
             last == lastSent + Len(wfifo)
             f == FirstOf(tx_buf, tx_out, k)
  <1>1. /\ u \in Slot /\ u \in Nat /\ k \in 0 .. u /\ k \in Nat /\ Len(wfifo) + k <= FifoLen
        /\ Len(wfifo) \in Nat /\ lastSent \in Nat /\ last \in Nat /\ wfifo \in Seq(Byte)
        /\ tx_in \in Slot /\ tx_out \in Slot /\ tx_buf \in [Slot -> 0 .. NONE]
    <2>1. u \in Slot /\ u \in Nat /\ Len(wfifo) \in Nat /\ lastSent \in Nat
      BY RingLengths
    <2>2. k \in 0 .. u /\ Len(wfifo) + k <= FifoLen
      BY HandlerMoves
    <2>3. /\ wfifo \in Seq(Byte)
          /\ tx_in \in Slot /\ tx_out \in Slot /\ tx_buf \in [Slot -> 0 .. NONE]
      BY DEF RingTypeOK
    <2> HIDE DEF u, k
    <2>4. k \in Nat /\ last \in Nat
      BY <2>1, <2>2
    <2>. QED
      BY <2>1, <2>2, <2>3, <2>4
  <1>2. /\ tx_buf' = WithoutOf(tx_buf, tx_out, k) /\ tx_out' = Ring(tx_out + k) /\ wfifo' = wfifo \o f
        /\ tx_in' = tx_in /\ lastSent' = lastSent /\ toSend' = toSend
    BY DEF altera_avalon_jtag_uart_irq, byteVars
  <1>3. /\ toSend = Len(wfifo) + u /\ Queued(wfifo, lastSent) /\ Carries(tx_buf, tx_out, u, last)
    BY DEF TxExact
  <1> HIDE DEF k
  <1>4. tx_out' \in Slot /\ Used(tx_in, tx_out') = u - k
    BY <1>1, <1>2, UsedMoves
  <1> HIDE DEF last
  <1>5. /\ tx_buf' \in [Slot -> 0 .. NONE] /\ Carries(tx_buf', tx_out', u - k, last + k)
        /\ f \in Seq(Byte) /\ Len(f) = k /\ Queued(f, last)
    <2> HIDE DEF u
    <2>1. /\ WithoutOf(tx_buf, tx_out, k) \in [Slot -> 0 .. NONE]
          /\ Carries(WithoutOf(tx_buf, tx_out, k), Ring(tx_out + k), u - k, last + k)
          /\ f \in Seq(Byte) /\ Len(f) = k /\ Queued(f, last)
      BY <1>1, <1>3, CarriesLess
    <2>. QED
      BY <1>2, <2>1
  <1> HIDE DEF f, u
  <1>6. /\ wfifo' \in Seq(Byte) /\ Len(wfifo') = Len(wfifo) + k /\ Queued(wfifo', lastSent)
    <2>1. Queued(f, lastSent + Len(wfifo))
      BY <1>5 DEF last
    <2>. QED
      BY <1>1, <1>2, <1>3, <1>5, <2>1, QueuedJoin
  <1>7. lastSent + (Len(wfifo) + k) = last + k /\ toSend = (Len(wfifo) + k) + (u - k)
    BY <1>1, <1>3 DEF last
  <1>8. TxExact'
    <2>1. Used(tx_in', tx_out') = u - k /\ toSend' = Len(wfifo') + (u - k)
          /\ Carries(tx_buf', tx_out', u - k, lastSent + Len(wfifo'))
      BY <1>2, <1>4, <1>5, <1>6, <1>7
    <2>. QED
      BY <1>2, <1>6, <2>1 DEF TxExact
  <1>. QED
    BY <1>1, <1>2, <1>4, <1>5, <1>6, <1>8 DEF u, k

LEMMA HandlerKeepsRings ==
  ASSUME RingTypeOK, RxExact, TxExact, altera_avalon_jtag_uart_irq
  PROVE  RingTypeOK' /\ RxExact' /\ TxExact'
  <1>1. /\ rx_out' = rx_out /\ tx_in' = tx_in /\ UNCHANGED byteVars /\ irq_enable' \subseteq {"RE", "WE"}
    BY DEF altera_avalon_jtag_uart_irq, RingTypeOK
  <1>. QED
    BY <1>1, HandlerKeepsRx, HandlerKeepsTx DEF RingTypeOK, byteVars

LEMMA HostKeepsRings ==
  ASSUME RingTypeOK, RxExact, TxExact, Host
  PROVE  RingTypeOK' /\ RxExact' /\ TxExact'
  <1> DEFINE u == Used(rx_in, rx_out)
             v == Used(tx_in, tx_out)
  <1>1. /\ UNCHANGED <<rx_in, rx_out, rx_buf, tx_in, tx_out, tx_buf, irq_enable>>
        /\ HostSends \/ HostTakes \/ HostPolls
    BY DEF Host, rxVars, txVars
  <1>2. /\ u \in Nat /\ v \in Nat /\ Len(rfifo) \in Nat /\ Len(wfifo) \in Nat
        /\ lastRead \in Nat /\ lastSent \in Nat /\ FifoLen \in Nat
        /\ toRead = u + Len(rfifo) /\ toSend = Len(wfifo) + v
        /\ rfifo \in Seq(Byte) /\ wfifo \in Seq(Byte)
    BY RingLengths DEF RxExact, TxExact, RingTypeOK
  <1>3. /\ Queued(rfifo, lastRead + u) /\ Queued(wfifo, lastSent)
        /\ Carries(rx_buf, rx_out, u, lastRead) /\ Carries(tx_buf, tx_out, v, lastSent + Len(wfifo))
    BY DEF RxExact, TxExact
  <1>4. CASE HostSends
    <2> DEFINE b == ByteNo(lastRead + toRead + 1)
    <2>1. /\ Len(rfifo) < FifoLen /\ rfifo' = Append(rfifo, b) /\ toRead' = toRead + 1
          /\ UNCHANGED <<wfifo, lastRead, lastSent, toSend>>
      BY <1>4 DEF HostSends
    <2> HIDE DEF u, v
    <2>2. b = ByteNo((lastRead + u) + (Len(rfifo) + 1)) /\ lastRead + u \in Nat
      <3>1. lastRead + toRead + 1 = (lastRead + u) + (Len(rfifo) + 1) /\ lastRead + u \in Nat
        BY <1>2
      <3>. QED
        BY <3>1
    <2> HIDE DEF b
    <2>3. /\ Append(rfifo, b) \in Seq(Byte) /\ Len(Append(rfifo, b)) = Len(rfifo) + 1
          /\ Queued(Append(rfifo, b), lastRead + u)
      BY <1>2, <1>3, <2>2, QueuedAppend
    <2>4. Len(Append(rfifo, b)) <= FifoLen /\ toRead' = u + Len(Append(rfifo, b)) /\ toRead' \in Nat
      BY <1>2, <2>1, <2>3
    <2>5. RingTypeOK'
      BY <1>1, <2>1, <2>3, <2>4 DEF RingTypeOK
    <2>6. RxExact' /\ TxExact'
      BY <1>1, <1>2, <1>3, <2>1, <2>3, <2>4 DEF RxExact, TxExact, u, v
    <2>. QED
      BY <2>5, <2>6
  <1>5. CASE HostTakes
    <2>1. /\ wfifo # <<>> /\ lastSent' = Head(wfifo) /\ wfifo' = Tail(wfifo) /\ toSend' = toSend - 1
          /\ UNCHANGED <<rfifo, lastRead, toRead>>
      BY <1>5 DEF HostTakes
    <2> HIDE DEF u, v
    <2>2. /\ Head(wfifo) = ByteNo(lastSent + 1) /\ Head(wfifo) \in Byte
          /\ Tail(wfifo) \in Seq(Byte) /\ Len(Tail(wfifo)) = Len(wfifo) - 1 /\ Len(wfifo) > 0
          /\ Queued(Tail(wfifo), lastSent + 1)
      BY <1>2, <1>3, <2>1, QueuedTail
    <2>3. Len(Tail(wfifo)) <= FifoLen /\ toSend' = Len(Tail(wfifo)) + v /\ toSend' \in Nat
      <3>1. Len(wfifo) <= FifoLen
        BY DEF RingTypeOK
      <3>. QED
        BY <1>2, <2>1, <2>2, <3>1
    <2>4. RingTypeOK'
      BY <1>1, <2>1, <2>2, <2>3 DEF RingTypeOK
    <2>5. Queued(Tail(wfifo), lastSent')
      <3>1. /\ lastSent + 1 \in Nat /\ lastSent + 1 = (lastSent + 1) + 0
            /\ ByteNo(lastSent + 1) + 0 = ByteNo(lastSent + 1)
        <4>1. lastSent + 1 \in Nat /\ Byte \subseteq Nat
          BY <1>2, JtagAssumption DEF Byte
        <4>2. ByteNo(lastSent + 1) \in Nat
          BY <4>1, ByteNoIs
        <4>. QED
          BY <4>1, <4>2
      <3>. QED
        BY <2>1, <2>2, <3>1, SameBytes
    <2>6. Carries(tx_buf, tx_out, v, lastSent' + Len(Tail(wfifo)))
      <3>1. /\ lastSent + 1 \in Nat /\ Len(Tail(wfifo)) \in Nat
            /\ lastSent + Len(wfifo) = (lastSent + 1) + Len(Tail(wfifo))
        BY <1>2, <2>2
      <3>2. Carries(tx_buf, tx_out, v, (lastSent + 1) + Len(Tail(wfifo)))
        BY <1>3, <3>1
      <3>3. Carries(tx_buf, tx_out, v, ByteNo(lastSent + 1) + Len(Tail(wfifo)))
        BY <1>2, <3>1, <3>2, SameBytes
      <3>. QED
        BY <2>1, <2>2, <3>3
    <2>7. RxExact' /\ TxExact'
      BY <1>1, <1>2, <1>3, <2>1, <2>2, <2>3, <2>5, <2>6 DEF RxExact, TxExact, u, v
    <2>. QED
      BY <2>4, <2>7
  <1>6. CASE HostPolls
    BY <1>1, <1>6, RingsFrame DEF HostPolls, rxVars, txVars, RingTypeOK
  <1>. QED
    BY <1>1, <1>4, <1>5, <1>6

(* What a task has seen, and who turns the receive interrupt on.           *)
LEMMA SeenStep ==
  ASSUME Turns, Rings, Next
  PROVE  SeenExact'
  <1>1. CallTypeOK /\ AtExact /\ RingTypeOK /\ SeenExact /\ \A u \in TCB : SeenWell(u)
    BY DEF Turns, Rings, SeenExact
  <1>2. ASSUME NEW t \in TCB, Acts(t) PROVE \A u \in TCB \ {t} : SameCall(u)
    BY <1>1, <1>2, CallsMove DEF CallMoves
  <1>3. ASSUME NEW u \in TCB, SameCall(u), UNCHANGED <<rx_in, rx_out, tx_in, tx_out>>
        PROVE  SeenWell(u)'
    BY <1>1, <1>3 DEF SeenWell, SameCall
  <1>4. ASSUME NEW t \in TCB, Acts(t), ~CopyIn(t), ~CopyOut(t) PROVE SeenExact'
    <2>1. UNCHANGED <<rx_in, rx_out, tx_in, tx_out>>
      BY <1>1, <1>4, CallsLeaveRings DEF rxVars, txVars
    <2>2. SeenWell(t)'
      <3>1. CASE ReadRxIn(t) \/ ReadTxOut(t)
        <4>1. at'[t] \in {"rcopy", "wcopy"} /\ (at'[t] = "rcopy" => seen'[t] = rx_in)
              /\ (at'[t] = "wcopy" => seen'[t] = tx_out)
          BY <1>1, <3>1 DEF ReadRxIn, ReadTxOut, Step, CallTypeOK
        <4>2. Used(rx_in, rx_out) <= Used(rx_in, rx_out) /\ Used(tx_in, tx_out) <= Used(tx_in, tx_out)
          BY <1>1, RingLengths
        <4>. QED
          BY <2>1, <4>1, <4>2 DEF SeenWell
      <3>2. CASE ~(ReadRxIn(t) \/ ReadTxOut(t))
        <4>1. at'[t] \notin {"rcopy", "wcopy"}
          <5>1. CASE Takes(t) \/ Gives(t) \/ Naps(t)
            BY <1>1, <5>1, TakesPends, GivesPosts, NapsPends DEF CallTypeOK
          <5>2. CASE ReadsOn(t)
            BY <1>1, <1>4, <3>2, <5>2 DEF ReadsOn, TestRxIn, TurnsReadOn, Step, CallTypeOK
          <5>3. CASE WritesOn(t)
            BY <1>1, <1>4, <3>2, <5>3 DEF WritesOn, EnableWrite, TestTxOut, StartClose, Close, Step,
               CallTypeOK
          <5>. QED
            BY <1>4, <5>1, <5>2, <5>3 DEF Acts
        <4>. QED
          BY <4>1 DEF SeenWell
      <3>. QED
        BY <3>1, <3>2
    <2>. QED
      BY <1>2, <1>3, <1>4, <2>1, <2>2 DEF SeenExact
  <1>5. ASSUME NEW t \in TCB, Acts(t), CopyIn(t) \/ CopyOut(t) PROVE SeenExact'
    <2>1. /\ at'[t] \notin {"rcopy", "wcopy"} /\ InTask(t) /\ Inside(t)
          /\ at[t] = "rcopy" \/ at[t] = "wcopy"
          /\ CopyIn(t) => at[t] = "wcopy" /\ UNCHANGED rxVars
          /\ CopyOut(t) => at[t] = "rcopy" /\ UNCHANGED txVars
      BY <1>1, <1>5 DEF CopyIn, CopyOut, Step, CallTypeOK, Inside, Locked, ReadSteps, WriteSteps
    <2>2. \A u \in TCB \ {t} : MySem(u) = MySem(t) => at[u] \notin {"rcopy", "wcopy"}
      BY <2>1, OnlyOne
    <2>3. ASSUME NEW u \in TCB \ {t}, at[u] = "rcopy" \/ at[u] = "wcopy" PROVE SeenWell(u)'
      <3>1. /\ at[u] = "rcopy" => Reader(u)
            /\ at[u] = "wcopy" => Writer(u) /\ ~Reader(u)
            /\ at[t] = "rcopy" => Reader(t)
            /\ at[t] = "wcopy" => Writer(t) /\ ~Reader(t)
        BY <1>1 DEF AtExact, StandsWell, ReadSteps, WriteSteps
      <3>2. at[t] = "rcopy" => at[u] = "wcopy"
        BY <2>2, <2>3, <3>1 DEF MySem
      <3>3. at[t] = "wcopy" => at[u] = "rcopy"
        BY <2>2, <2>3, <3>1 DEF MySem
      <3>4. SameCall(u) /\ SeenWell(u)
        BY <1>1, <1>2, <1>5
      <3>. QED
        BY <1>5, <2>1, <2>3, <3>2, <3>3, <3>4 DEF SeenWell, SameCall, rxVars, txVars
    <2>4. ASSUME NEW u \in TCB \ {t}, at[u] # "rcopy", at[u] # "wcopy" PROVE SeenWell(u)'
      BY <1>2, <1>5, <2>4 DEF SeenWell, SameCall
    <2>5. SeenWell(t)'
      BY <2>1 DEF SeenWell
    <2>. QED
      BY <2>3, <2>4, <2>5 DEF SeenExact
  <1>6. CASE altera_avalon_jtag_uart_irq
    <2>1. /\ UNCHANGED <<at, seen, rx_out, tx_in>>
          /\ Used(rx_in', rx_out) = Used(rx_in, rx_out) + Taken
          /\ Used(tx_in, tx_out') = Used(tx_in, tx_out) - Sent
      BY <1>1, <1>6, HandlerKeepsRx, HandlerKeepsTx DEF altera_avalon_jtag_uart_irq, callVars, Rings
    <2>2. Taken \in Nat /\ Sent \in Nat /\ Used(rx_in, rx_out) \in Nat /\ Used(tx_in, tx_out) \in Nat
      BY <1>1, HandlerMoves, RingLengths
    <2>3. ASSUME NEW u \in TCB PROVE Used(seen[u], rx_out) \in Nat /\ Used(tx_in, seen[u]) \in Nat
      BY <1>1, UsedIs, RingLengths DEF CallTypeOK, RingTypeOK
    <2>4. ASSUME NEW u \in TCB PROVE SeenWell(u)'
      <3>1. SeenWell(u)
        BY <1>1
      <3>2. at[u] = "rcopy" => Used(seen[u], rx_out) <= Used(rx_in', rx_out)
        BY <2>1, <2>2, <2>3, <3>1 DEF SeenWell
      <3>3. at[u] = "wcopy" => Used(tx_in, tx_out') <= Used(tx_in, seen[u])
        BY <2>1, <2>2, <2>3, <3>1 DEF SeenWell
      <3>. QED
        BY <2>1, <3>2, <3>3 DEF SeenWell
    <2>. QED
      BY <2>4 DEF SeenExact
  <1>7. CASE Passive /\ ~altera_avalon_jtag_uart_irq
    <2>1. UNCHANGED callVars /\ UNCHANGED <<rxVars, txVars>>
      BY <1>7 DEF Passive, Resumes, Elsewhere, driverVars, Handler, altera_avalon_jtag_uart_timeout,
         Outside, Host, altera_avalon_jtag_uart_ioctl
    <2>. QED
      BY <1>3, <2>1 DEF SeenExact, callVars, SameCall, rxVars, txVars
  <1>. QED
    BY <1>1, Kinds, <1>4, <1>5, <1>6, <1>7 DEF Passive, Acts

LEMMA EnableStep ==
  ASSUME Turns, Rings, Next
  PROVE  EnableExact'
  <1>1. CallTypeOK /\ AtExact /\ RingTypeOK /\ EnableExact /\ Used(rx_in, rx_out) \in Nat
    BY RingLengths DEF Turns, Rings
  <1>2. ASSUME NEW t \in TCB, Acts(t) PROVE \A u \in TCB \ {t} : TurnsOn(u) => TurnsOn(u)'
    BY <1>1, <1>2, CallsMove DEF CallMoves, SameCall, TurnsOn
  <1>3. ASSUME NEW t \in TCB, Acts(t), ~CopyIn(t), ~CopyOut(t) PROVE EnableExact'
    <2>1. /\ UNCHANGED <<rx_in, rx_out>>
          /\ irq_enable' \in {irq_enable, irq_enable \cup {"WE"}, irq_enable \cup {"RE"}}
      BY <1>1, <1>3, CallsLeaveRings DEF rxVars
    <2>2. TurnsOn(t) => TurnsOn(t)' \/ "RE" \in irq_enable'
      <3>1. CASE Takes(t) \/ Gives(t) \/ Naps(t)
        BY <1>1, <3>1, TakesPends, GivesPosts, NapsPends DEF CallTypeOK, TurnsOn
      <3>2. CASE ReadRxIn(t)
        BY <1>1, <3>2 DEF ReadRxIn, Look, Step, CallTypeOK, TurnsOn
      <3>3. CASE TestRxIn(t)
        BY <3>3 DEF TestRxIn, Step, TurnsOn
      <3>4. CASE TurnsReadOn(t)
        BY <3>4 DEF TurnsReadOn, Enable
      <3>5. CASE WritesOn(t)
        <4>1. at[t] \notin {"renable", "rread", "rcopy", "rpost"}
          BY <3>5 DEF WritesOn, ReadTxOut, CopyIn, EnableWrite, TestTxOut, StartClose, Close, Step
        <4>. QED
          BY <4>1 DEF TurnsOn
      <3>. QED
        BY <1>3, <3>1, <3>2, <3>3, <3>4, <3>5 DEF Acts, ReadsOn
    <2>. QED
      BY <1>1, <1>2, <1>3, <2>1, <2>2 DEF EnableExact
  <1>4. ASSUME NEW t \in TCB, Acts(t), CopyIn(t) PROVE EnableExact'
    <2>1. UNCHANGED <<rx_in, rx_out, irq_enable>> /\ at[t] = "wcopy"
      BY <1>4 DEF CopyIn, rxVars, Step
    <2>. QED
      BY <1>1, <1>2, <1>4, <2>1 DEF EnableExact, TurnsOn
  <1>5. ASSUME NEW t \in TCB, Acts(t), CopyOut(t) PROVE EnableExact'
    <2>1. PICK n \in 0 .. left[t] :
            /\ at[t] = "rcopy"
            /\ at' = [at EXCEPT ![t] = IF 0 < n /\ n < left[t] THEN "rread"
                                       ELSE IF n > 0 \/ done[t] \/ ~Blocks(t) THEN "rpost" ELSE "rpend"]
            /\ done' = [done EXCEPT ![t] = done[t] \/ n > 0]
            /\ rx_out' = Ring(rx_out + n)
            /\ UNCHANGED <<rx_in, irq_enable>>
      BY <1>1, <1>5, CopyOutDoes
    <2>2. /\ n \in Nat /\ left[t] \in Nat
          /\ at'[t] = IF 0 < n /\ n < left[t] THEN "rread"
                      ELSE IF n > 0 \/ done[t] \/ ~Blocks(t) THEN "rpost" ELSE "rpend"
      BY <1>1, <2>1 DEF CallTypeOK
    <2>3. done'[t] <=> done[t] \/ n > 0
      <3>1. done \in [TCB -> BOOLEAN]
        BY <1>1 DEF CallTypeOK
      <3>. QED
        BY <2>1, <3>1, ZenonT(30)
    <2>4. CASE n > 0 \/ done[t]
      BY <2>2, <2>3, <2>4 DEF EnableExact, TurnsOn
    <2>5. CASE ~(n > 0 \/ done[t])
      <3>1. n = 0
        BY <2>2, <2>5
      <3>2. rx_out' = rx_out
        <4>1. rx_out \in Slot /\ rx_out + 0 = rx_out
          BY <1>1, PlusNone DEF RingTypeOK
        <4>. QED
          BY <2>1, <3>1, <4>1, RingIs
      <3>3. ~TurnsOn(t)
        BY <2>1, <2>5 DEF TurnsOn
      <3>. QED
        BY <1>1, <1>2, <1>5, <2>1, <3>2, <3>3 DEF EnableExact
    <2>. QED
      BY <2>4, <2>5
  <1>6. CASE altera_avalon_jtag_uart_irq
    <2>1. /\ UNCHANGED <<at, done, rx_out>> /\ irq_enable' = irq_enable \ TurnedOff
          /\ Used(rx_in', rx_out) = Used(rx_in, rx_out) + Taken
      BY <1>1, <1>6, HandlerKeepsRx DEF altera_avalon_jtag_uart_irq, callVars, Rings
    <2>2. CASE "RE" \in irq_enable
      <3>1. "RE" \notin irq_enable' => Used(rx_in, rx_out) + Taken = BufLen - 1
        BY <1>1, <2>1, <2>2, HandlerMoves, RingLengths DEF TurnedOff
      <3>. QED
        BY <2>1, <3>1 DEF EnableExact
    <2>3. CASE "RE" \notin irq_enable
      <3>1. Taken = 0
        BY <1>1, <2>3, HandlerMoves DEF RI
      <3>2. Used(rx_in', rx_out) = Used(rx_in, rx_out)
        BY <1>1, <2>1, <3>1
      <3>. QED
        BY <1>1, <2>1, <2>3, <3>2 DEF EnableExact, TurnsOn
    <2>. QED
      BY <2>2, <2>3
  <1>7. CASE Passive /\ ~altera_avalon_jtag_uart_irq
    <2>1. UNCHANGED callVars /\ UNCHANGED <<rxVars, irq_enable>>
      BY <1>7 DEF Passive, Resumes, Elsewhere, driverVars, Handler, altera_avalon_jtag_uart_timeout,
         Outside, Host, altera_avalon_jtag_uart_ioctl
    <2>. QED
      BY <1>1, <2>1 DEF EnableExact, TurnsOn, callVars, rxVars
  <1>. QED
    BY <1>1, Kinds, <1>3, <1>4, <1>5, <1>6, <1>7 DEF Passive, Acts

(* What the driver knows of the host.                                      *)
LEMMA HostTypeStep ==
  ASSUME Turns, Rings, Next
  PROVE  HostTypeOK'
  <1>1. HostTypeOK /\ CallTypeOK
    BY DEF Rings, Turns
  <1>2. ASSUME NEW t \in TCB, Acts(t) \/ Resumes(t) PROVE HostTypeOK'
    <2>1. UNCHANGED wireVars
      BY <1>1, <1>2, TakesPends, GivesPosts, NapsPends, Alone
      DEF Acts, Resumes, driverVars, Turns
    <2>. QED
      BY <1>1, <2>1 DEF HostTypeOK, wireVars
  <1>3. CASE Elsewhere \/ altera_avalon_jtag_uart_irq
    BY <1>1, <1>3 DEF Elsewhere, driverVars, wireVars, altera_avalon_jtag_uart_irq, HostTypeOK
  <1>4. CASE altera_avalon_jtag_uart_timeout
    <2>1. MaxInactive \in Nat
      BY JtagAssumption
    <2>2. /\ host_inactive' \in {0, host_inactive + 1, MaxInactive} /\ host_inactive' <= MaxInactive
          /\ ac' = FALSE /\ timeout' = timeout
      BY <1>1, <1>4, <2>1 DEF altera_avalon_jtag_uart_timeout, HostTypeOK, Least
    <2>3. host_inactive \in Nat
      BY <1>1, <2>1 DEF HostTypeOK
    <2>4. host_inactive' \in 0 .. MaxInactive
      BY <2>1, <2>2, <2>3
    <2>5. timeout' \in 0 .. Forever /\ ac' \in BOOLEAN
      BY <1>1, <2>2 DEF HostTypeOK
    <2>. QED
      BY <2>4, <2>5 DEF HostTypeOK, Forever
  <1>5. CASE Host
    BY <1>1, <1>5 DEF Host, HostTypeOK
  <1>6. ASSUME NEW t \in TCB, altera_avalon_jtag_uart_ioctl(t) PROVE HostTypeOK'
    <2>1. Timeouts \subseteq 0 .. Forever /\ Forever \in 0 .. Forever
      BY JtagAssumption DEF Forever
    <2>. QED
      BY <1>1, <1>6, <2>1 DEF altera_avalon_jtag_uart_ioctl, HostTypeOK
  <1>. QED
    BY <1>1, Kinds, <1>2, <1>3, <1>4, <1>5, <1>6 DEF Acts, Handler, Outside

LEMMA RingsStep ==
  ASSUME Turns, Rings, Next
  PROVE  Rings'
  <1>1. CallTypeOK /\ AtExact /\ RingTypeOK /\ RxExact /\ TxExact /\ SeenExact
    BY DEF Turns, Rings
  <1>2. ASSUME NEW t \in TCB, Acts(t) \/ Resumes(t) PROVE RingTypeOK' /\ RxExact' /\ TxExact'
    <2>1. CASE CopyIn(t) \/ CopyOut(t)
      <3>1. UNCHANGED wireVars
        BY <1>1, <1>2, TakesPends, GivesPosts, NapsPends, Alone DEF Acts, Resumes, driverVars
      <3>. QED
        BY <1>1, <2>1, <3>1, CopyInKeepsRings, CopyOutKeepsRings
    <2>2. CASE ~(CopyIn(t) \/ CopyOut(t))
      <3>1. UNCHANGED <<rxVars, txVars, byteVars, rfifo, wfifo>> /\ irq_enable' \subseteq {"RE", "WE"}
        BY <1>1, <1>2, <2>2, CallsLeaveRings DEF wireVars, RingTypeOK
      <3>. QED
        BY <1>1, <3>1, RingsFrame
    <2>. QED
      BY <2>1, <2>2
  <1>3. ASSUME altera_avalon_jtag_uart_irq \/ Host PROVE RingTypeOK' /\ RxExact' /\ TxExact'
    BY <1>1, <1>3, HandlerKeepsRings, HostKeepsRings
  <1>4. ASSUME \/ Elsewhere \/ altera_avalon_jtag_uart_timeout
               \/ \E t \in TCB : altera_avalon_jtag_uart_ioctl(t)
        PROVE  RingTypeOK' /\ RxExact' /\ TxExact'
    <2>1. UNCHANGED <<rxVars, txVars, byteVars, rfifo, wfifo, irq_enable>>
      BY <1>4 DEF Elsewhere, driverVars, wireVars, altera_avalon_jtag_uart_timeout,
         altera_avalon_jtag_uart_ioctl
    <2>. QED
      BY <1>1, <2>1, RingsFrame DEF RingTypeOK
  <1>5. RingTypeOK' /\ RxExact' /\ TxExact'
    BY <1>1, Kinds, <1>2, <1>3, <1>4 DEF Acts, Handler, Outside
  <1>. QED
    BY <1>5, SeenStep, EnableStep, HostTypeStep DEF Rings

LEMMA RingsStutter == Rings /\ UNCHANGED vars => Rings'
  BY DEF Rings, vars, driverVars, callVars, rxVars, txVars, byteVars, wireVars, RingTypeOK, HostTypeOK,
     RxExact, TxExact, SeenExact, SeenWell, EnableExact, TurnsOn, Carries, Queued

LEMMA RingsStart == Init => Rings
  <1> SUFFICES ASSUME Init PROVE Rings
    OBVIOUS
  <1>1. /\ rx_in = 0 /\ rx_out = 0 /\ tx_in = 0 /\ tx_out = 0
        /\ rx_buf = [i \in Slot |-> NONE] /\ tx_buf = [i \in Slot |-> NONE]
        /\ rfifo = <<>> /\ wfifo = <<>> /\ irq_enable = {"RE"}
        /\ lastRead = 0 /\ lastSent = 0 /\ toRead = 0 /\ toSend = 0
        /\ host_inactive = 0 /\ timeout = DefaultTimeout /\ ac \in BOOLEAN
        /\ \A t \in TCB : at[t] = "out"
    BY DEF Init
  <1>2. 0 \in Slot /\ 0 \in Byte /\ NONE \in 0 .. NONE /\ FifoLen \in Nat
    BY BufLenIs, JtagAssumption DEF Slot, Byte, NONE
  <1>3. Used(0, 0) = 0
    BY <1>2, UsedIs
  <1>4. RingTypeOK
    BY <1>1, <1>2 DEF RingTypeOK
  <1>5. HostTypeOK
    BY <1>1, JtagAssumption DEF HostTypeOK, Forever
  <1>6. RxExact /\ TxExact
    BY <1>1, <1>3 DEF RxExact, TxExact, Carries, Queued
  <1>7. SeenExact /\ EnableExact
    BY <1>1 DEF SeenExact, SeenWell, EnableExact
  <1>. QED
    BY <1>4, <1>5, <1>6, <1>7 DEF Rings

-----------------------------------------------------------------------------
(* Why those who sleep will be woken.                                      *)

ReadKept  == UNCHANGED <<rx_in, rx_out>> /\ (Ready("READ_RDY") => Ready("READ_RDY")')
WriteKept ==
  /\ UNCHANGED <<tx_in, tx_out>>
  /\ "WE" \in irq_enable => "WE" \in irq_enable'
  /\ Ready("WRITE_RDY") => Ready("WRITE_RDY")'

(* Where a task needs to know nothing of the ring.                         *)
AtEase == {"out", "rread", "rpost", "renable", "wread", "wpost", "close"}
EasyAreDue == \A t \in TCB : WaitExact /\ at[t] \in AtEase => Due(t)

LEMMA EasyIsDue == EasyAreDue
  BY DEF EasyAreDue, WaitExact, WaitsWell, AtEase, Due, WaitsForFlags

LEMMA EasyWillBeDue == EasyAreDue'
  BY EasyIsDue, PTL

LEMMA StaysDue ==
  ASSUME Turns, NEW u \in TCB, Due(u), UNCHANGED role, SameCall(u),
         Undisturbed(u) \/ pc'[u] # "flag",
         Reader(u) => ReadKept, Writer(u) => WriteKept
  PROVE  Due(u)'
  <1>1. StandsWell(u)
    BY DEF Turns, AtExact
  <1>2. WaitsForFlags(u)' => WaitsForFlags(u)
    BY DEF WaitsForFlags, Undisturbed
  <1>3. (Reader(u)' <=> Reader(u)) /\ (Writer(u)' <=> Writer(u)) /\ ~(Reader(u) /\ Writer(u))
    BY SameSem, RoleFacts DEF Turns
  <1>4. CASE Reader(u)
    <2>1. at[u] \notin {"wcopy", "wenable", "wpend"}
      BY <1>1, <1>4 DEF StandsWell, ReadSteps
    <2>. QED
      BY <1>2, <1>3, <1>4, <2>1 DEF Due, ReadKept, SameCall
  <1>5. CASE Writer(u)
    <2>1. at[u] \notin {"rcopy", "rpend"}
      BY <1>1, <1>3, <1>5 DEF StandsWell, WriteSteps
    <2>2. WriteKept /\ (Full' <=> Full)
      BY <1>5 DEF WriteKept, Full, Ring
    <2>. QED
      BY <1>2, <1>3, <1>5, <2>1, <2>2 DEF Due, WriteKept, SameCall
  <1>6. CASE ~Reader(u) /\ ~Writer(u)
    <2>1. at[u] = "out"
      BY <1>1, <1>6 DEF StandsWell
    <2>. QED
      BY <1>2, <1>3, <1>6, <2>1 DEF Due, SameCall
  <1>. QED
    BY <1>4, <1>5, <1>6

(* What a task does on the ring that it has the semaphore of concerns no   *)
(* other user of that ring.                                                *)
LEMMA OthersStayDue ==
  ASSUME Turns, Turns', DueExact, NEW t \in TCB, Holds(t), UNCHANGED role,
         \A u \in TCB \ {t} : Undisturbed(u) /\ SameCall(u),
         (Reader(t) /\ WriteKept) \/ (Writer(t) /\ ReadKept)
  PROVE  \A u \in TCB \ {t} : Due(u)'
  <1>1. SUFFICES ASSUME NEW u \in TCB \ {t} PROVE Due(u)'
    OBVIOUS
  <1>2. Due(u) /\ Undisturbed(u) /\ SameCall(u)
    BY DEF DueExact
  <1>3. CASE MySem(u) = MySem(t)
    <2>1. ~Holds(u)
      BY <1>3 DEF Turns, Exclusion
    <2>2. at[u] \in AtEase
      <3>1. CASE Inside(u)
        BY <2>1, <3>1, AwayAtStart DEF Holds, AtEase
      <3>2. CASE ~Inside(u)
        BY <3>2 DEF Inside, Locked, Turns, CallTypeOK, ReadSteps, WriteSteps, AtEase
      <3>. QED
        BY <3>1, <3>2
    <2>3. at'[u] \in AtEase /\ WaitExact'
      BY <1>2, <2>2 DEF SameCall, Turns
    <2>. QED
      BY <2>3, EasyWillBeDue DEF EasyAreDue
  <1>4. CASE MySem(u) # MySem(t)
    <2>1. (Reader(u) => ~Reader(t)) /\ (Writer(u) => Reader(u) \/ ~Writer(t) \/ Reader(t))
      BY <1>4 DEF MySem
    <2>2. ~(Reader(u) /\ Writer(u)) /\ ~(Reader(t) /\ Writer(t))
      BY RoleFacts DEF Turns
    <2>. QED
      BY <1>2, <2>1, <2>2, StaysDue
  <1>. QED
    BY <1>3, <1>4

LEMMA AwayFromSleep ==
  ASSUME NEW t \in TCB, at'[t] \notin {"rcopy", "rpend", "wcopy", "wenable", "wpend"},
         pc'[t] # "flag"
  PROVE  Due(t)'
  BY DEF Due, WaitsForFlags

LEMMA AllKept ==
  ASSUME UNCHANGED <<rxVars, txVars, flagVars>>, irq_enable \subseteq irq_enable'
  PROVE  ReadKept /\ WriteKept
  BY DEF rxVars, txVars, flagVars, ReadKept, WriteKept, Ready

LEMMA SemStepsKeepDue ==
  ASSUME Turns, RingTypeOK, DueExact, NEW t \in TCB, Takes(t) \/ Gives(t)
  PROVE  DueExact'
  <1>1. KernelSound /\ AtExact /\ CallTypeOK /\ WaitExact /\ \A u \in TCB : Due(u)
    BY DEF Turns, DueExact
  <1>2. /\ InTask(t) /\ UNCHANGED <<role, flagVars, rxVars, txVars, irq_enable>>
        /\ at'[t] \in {"rread", "wread", "renable", "out"}
    BY <1>1, TakesPends, GivesPosts DEF CallTypeOK
  <1>3. \A u \in TCB \ {t} : SameCall(u)
    BY <1>1, CallsMove DEF Acts, CallMoves
  <1>4. ReadKept /\ WriteKept
    BY <1>2, AllKept
  <1>5. pc'[t] # "flag" /\ \A u \in TCB \ {t} : Undisturbed(u) \/ pc'[u] # "flag"
    <2>1. CASE Takes(t)
      BY <1>1, <2>1, TakesPends, SemIsEvent, SemPendDoes
    <2>2. CASE Gives(t)
      <3>1. \/ \A u \in TCB : Undisturbed(u)
            \/ \E v \in SemWaiters(MySem(t)) :
                 (\A u \in TCB \ {v} : Undisturbed(u)) /\ pc'[v] = pc[v] /\ "SEM" \notin Stat'[v]
        BY <1>1, <2>2, GivesPosts, SemIsEvent, SemPostDoes
      <3>2. \A v \in SemWaiters(MySem(t)) : pc[v] = "pend"
        BY <1>1 DEF SemWaiters, KernelSound, TablesSound, StatusExact
      <3>3. pc[t] = "task"
        BY <1>2 DEF InTask
      <3>. QED
        BY <3>1, <3>2, <3>3 DEF Undisturbed
    <2>. QED
      BY <2>1, <2>2
  <1>6. Due(t)'
    BY <1>2, <1>5, AwayFromSleep
  <1>7. \A u \in TCB \ {t} : Due(u)'
    BY <1>1, <1>2, <1>3, <1>4, <1>5, StaysDue
  <1>. QED
    BY <1>6, <1>7 DEF DueExact

LEMMA NapsKeepDue ==
  ASSUME Turns, Turns', RingTypeOK, DueExact, NEW t \in TCB, Naps(t)
  PROVE  DueExact'
  <1>1. KernelSound /\ AtExact /\ CallTypeOK /\ Due(t)
    BY DEF Turns, DueExact
  <1>2. /\ UNCHANGED <<role, rxVars, txVars, irq_enable>> /\ Holds(t)
        /\ \A u \in TCB \ {t} : SameCall(u) /\ Undisturbed(u)
    BY <1>1, NapsPends, NapsDoes, CallsMove
    DEF Acts, CallMoves, Holds, Inside, Locked, ReadSteps, WriteSteps
  <1>3. \A flag, other \in Flag :
          TakeFlags(events, WaitFor(flag)) /\ other \notin {flag, "TIMEOUT"} /\ Ready(other)
            => Ready(other)'
    BY <1>1, DriverAssumption
    DEF TakeFlags, WaitFor, Consume, Found, Ready, KernelSound, TablesSound, TablesTypeOK, FlagsTypeOK
  <1>4. CASE Reader(t)
    <2>1. /\ at[t] = "rpend" /\ at'[t] = "rtest"
          /\ \/ pc'[t] = "task" /\ TakeFlags(events, WaitFor("READ_RDY"))
             \/ pc'[t] = "flag" /\ ~Ready("READ_RDY") /\ OSFlagFlags' = OSFlagFlags
      BY <1>1, <1>4, NapsDoes, RoleFacts DEF CallTypeOK
    <2>2. Due(t)'
      <3>1. ~Writer(t)' /\ ~Ready("READ_RDY") => rx_in = rx_out
        BY <1>1, <2>1 DEF Due
      <3>2. ~Writer(t)'
        BY <1>1, <1>2, <1>4, SameSem, RoleFacts
      <3>. QED
        BY <1>2, <2>1, <3>1, <3>2 DEF Due, WaitsForFlags, rxVars
    <2>3. WriteKept
      BY <1>2, <1>3, <2>1, JtagAssumption DEF WriteKept, Ready, txVars
    <2>. QED
      BY <1>2, <1>4, <2>2, <2>3, OthersStayDue DEF DueExact
  <1>5. CASE Writer(t)
    <2>1. /\ at[t] = "wpend" /\ at'[t] = "wtest"
          /\ \/ pc'[t] = "task" /\ TakeFlags(events, WaitFor("WRITE_RDY"))
             \/ pc'[t] = "flag" /\ ~Ready("WRITE_RDY") /\ OSFlagFlags' = OSFlagFlags
      BY <1>1, <1>5, NapsDoes, RoleFacts DEF CallTypeOK
    <2>2. Due(t)'
      <3>1. ~Ready("WRITE_RDY") => Full /\ "WE" \in irq_enable
        BY <1>1, <2>1 DEF Due
      <3>2. ~Reader(t)' /\ (Full' <=> Full)
        BY <1>1, <1>2, <1>5, SameSem, RoleFacts DEF Full, Ring, txVars
      <3>. QED
        BY <1>2, <2>1, <3>1, <3>2 DEF Due, WaitsForFlags
    <2>3. ReadKept
      BY <1>2, <1>3, <2>1, JtagAssumption DEF ReadKept, Ready, rxVars
    <2>. QED
      BY <1>2, <1>5, <2>2, <2>3, OthersStayDue DEF DueExact
  <1>. QED
    BY <1>1, <1>4, <1>5, NapsPends

(* What a step that is the task's alone leaves the others.                 *)
LEMMA AloneDisturbsNobody ==
  ASSUME Turns, RingTypeOK, NEW t \in TCB, ReadsOn(t) \/ WritesOn(t)
  PROVE  /\ UNCHANGED <<role, flagVars>> /\ pc'[t] = "task"
         /\ \A u \in TCB : Undisturbed(u)
         /\ \A u \in TCB \ {t} : SameCall(u)
         /\ Inside(t) => Holds(t)
  <1>1. UNCHANGED <<coreVars, flagVars, role>> /\ InTask(t)
    BY Alone
  <1>2. \A u \in TCB \ {t} : SameCall(u)
    BY CallsMove DEF Acts, CallMoves, Turns
  <1>3. \A u \in TCB : Undisturbed(u)
    BY <1>1, FrameDisturbsNobody DEF flagVars
  <1>4. pc'[t] = "task"
    BY <1>1 DEF coreVars, InTask
  <1>5. Inside(t) => Holds(t)
    BY <1>1, RunningFree DEF InTask, Turns, Holds
  <1>. QED
    BY <1>1, <1>2, <1>3, <1>4, <1>5

LEMMA ReadsKeepDue ==
  ASSUME Turns, Turns', Rings, DueExact, NEW t \in TCB, ReadsOn(t)
  PROVE  DueExact'
  <1>1. CallTypeOK /\ RingTypeOK /\ AtExact /\ StandsWell(t) /\ Due(t)
    BY DEF Turns, Rings, AtExact, DueExact
  <1>2. /\ UNCHANGED <<role, flagVars>> /\ pc'[t] = "task" /\ \A u \in TCB : Undisturbed(u)
        /\ \A u \in TCB \ {t} : SameCall(u)
    BY <1>1, AloneDisturbsNobody
  <1>3. UNCHANGED txVars /\ irq_enable \subseteq irq_enable'
    BY DEF ReadsOn, ReadRxIn, CopyOut, TestRxIn, TurnsReadOn, Look, Enable
  <1>4. WriteKept
    BY <1>2, <1>3 DEF WriteKept, txVars, flagVars, Ready
  <1>5. CASE TurnsReadOn(t)
    <2>1. UNCHANGED rxVars /\ at'[t] = "out"
      BY <1>1, <1>5 DEF TurnsReadOn, Enable, Step, CallTypeOK
    <2>2. ReadKept
      BY <1>2, <1>3, <2>1, AllKept
    <2>3. Due(t)'
      BY <1>2, <2>1, AwayFromSleep
    <2>. QED
      BY <1>2, <1>4, <2>2, <2>3, StaysDue DEF DueExact
  <1>6. CASE ~TurnsReadOn(t)
    <2>1. Reader(t) /\ Inside(t) /\ ~Writer(t)
      <3>1. at[t] \in {"rread", "rcopy", "rtest"}
        BY <1>6 DEF ReadsOn, ReadRxIn, CopyOut, TestRxIn, Step
      <3>. QED
        BY <1>1, <3>1, RoleFacts DEF StandsWell, WriteSteps, Inside, Locked, ReadSteps
    <2>2. Holds(t)
      BY <1>1, <2>1, AloneDisturbsNobody
    <2>3. Due(t)'
      <3>1. CASE ReadRxIn(t)
        <4>1. at'[t] = "rcopy" /\ seen'[t] = rx_in /\ rx_in' = rx_in
          BY <1>1, <3>1 DEF ReadRxIn, Step, Look, rxVars, CallTypeOK
        <4>. QED
          BY <1>2, <4>1 DEF Due, WaitsForFlags
      <3>2. CASE TestRxIn(t)
        <4>1. at'[t] \in {"rpost", "rread"}
          BY <1>1, <3>2 DEF TestRxIn, Step, CallTypeOK
        <4>. QED
          BY <1>2, <4>1, AwayFromSleep
      <3>3. CASE CopyOut(t)
        <4>1. PICK n \in 0 .. left[t] :
                /\ n = 0 => left[t] = 0 \/ seen[t] = rx_out
                /\ at[t] = "rcopy"
                /\ at' = [at EXCEPT ![t] = IF 0 < n /\ n < left[t] THEN "rread"
                                           ELSE IF n > 0 \/ done[t] \/ ~Blocks(t) THEN "rpost"
                                           ELSE "rpend"]
                /\ rx_out' = Ring(rx_out + n) /\ rx_in' = rx_in
          BY <1>1, <3>3, CopyOutDoes
        <4>2. CASE n > 0 \/ done[t] \/ ~Blocks(t)
          <5>1. at'[t] \in {"rread", "rpost"}
            BY <1>1, <4>1, <4>2 DEF CallTypeOK
          <5>. QED
            BY <1>2, <5>1, AwayFromSleep
        <4>3. CASE ~(n > 0 \/ done[t] \/ ~Blocks(t))
          <5>1. n = 0 /\ left[t] > 0
            BY <1>1, <4>1, <4>3 DEF CallTypeOK, StandsWell
          <5>2. rx_out' = rx_out
            <6>1. rx_out \in Slot /\ rx_out + 0 = rx_out
              BY <1>1, PlusNone DEF RingTypeOK
            <6>. QED
              BY <4>1, <5>1, <6>1, RingIs
          <5>3. rx_in = rx_out \/ Ready("READ_RDY")
            BY <1>1, <4>1, <5>1 DEF Due
          <5>4. at'[t] = "rpend"
            BY <1>1, <4>1, <5>1, <4>3 DEF CallTypeOK
          <5>. QED
            BY <1>2, <4>1, <5>2, <5>3, <5>4 DEF Due, WaitsForFlags, Ready, flagVars
        <4>. QED
          BY <4>2, <4>3
      <3>. QED
        BY <1>6, <3>1, <3>2, <3>3 DEF ReadsOn
    <2>. QED
      BY <1>2, <1>4, <2>1, <2>2, <2>3, OthersStayDue DEF DueExact
  <1>. QED
    BY <1>5, <1>6

LEMMA WritesKeepDue ==
  ASSUME Turns, Turns', Rings, DueExact, NEW t \in TCB, WritesOn(t)
  PROVE  DueExact'
  <1>1. CallTypeOK /\ RingTypeOK /\ AtExact /\ StandsWell(t) /\ Due(t)
    BY DEF Turns, Rings, AtExact, DueExact
  <1>2. /\ UNCHANGED <<role, flagVars>> /\ pc'[t] = "task" /\ \A u \in TCB : Undisturbed(u)
        /\ \A u \in TCB \ {t} : SameCall(u)
    BY <1>1, AloneDisturbsNobody
  <1>3. UNCHANGED rxVars /\ irq_enable \subseteq irq_enable'
    BY DEF WritesOn, ReadTxOut, CopyIn, EnableWrite, TestTxOut, StartClose, Close, Look, Enable
  <1>4. ReadKept
    BY <1>2, <1>3 DEF ReadKept, rxVars, flagVars, Ready
  <1>5. CASE StartClose(t) \/ Close(t)
    <2>1. UNCHANGED txVars /\ at'[t] \in {"out", "close"}
      BY <1>1, <1>5 DEF StartClose, Close, Look, Step, CallTypeOK
    <2>2. WriteKept
      BY <1>2, <1>3, <2>1, AllKept
    <2>3. Due(t)'
      BY <1>2, <2>1, AwayFromSleep
    <2>. QED
      BY <1>2, <1>4, <2>2, <2>3, StaysDue DEF DueExact
  <1>6. CASE ~(StartClose(t) \/ Close(t))
    <2>1. Writer(t) /\ Inside(t) /\ ~Reader(t)
      <3>1. at[t] \in {"wread", "wcopy", "wenable", "wtest"}
        BY <1>6 DEF WritesOn, ReadTxOut, CopyIn, EnableWrite, TestTxOut, Step
      <3>. QED
        BY <1>1, <3>1, RoleFacts DEF StandsWell, WriteSteps, Inside, Locked, ReadSteps
    <2>2. Holds(t)
      BY <1>1, <2>1, AloneDisturbsNobody
    <2>3. Due(t)'
      <3>1. CASE ReadTxOut(t)
        <4>1. at'[t] = "wcopy" /\ seen'[t] = tx_out /\ tx_out' = tx_out
          BY <1>1, <3>1 DEF ReadTxOut, Step, Look, txVars, CallTypeOK
        <4>. QED
          BY <1>2, <4>1 DEF Due, WaitsForFlags
      <3>2. CASE TestTxOut(t)
        <4>1. at'[t] \in {"wpost", "wread"}
          BY <1>1, <3>2 DEF TestTxOut, Step, CallTypeOK
        <4>. QED
          BY <1>2, <4>1, AwayFromSleep
      <3>3. CASE EnableWrite(t)
        <4>1. /\ at[t] = "wenable" /\ "WE" \in irq_enable' /\ UNCHANGED <<tx_in, tx_out>>
              /\ \/ left[t] > 0 /\ at'[t] = "wpend"
                 \/ at'[t] = "wpost"
          BY <1>1, <3>3 DEF EnableWrite, Enable, Step, txVars, CallTypeOK
        <4>2. left[t] > 0 => Full \/ Ready("WRITE_RDY")
          BY <1>1, <4>1 DEF Due
        <4>. QED
          BY <1>2, <4>1, <4>2 DEF Due, WaitsForFlags, Full, Ring, Ready, flagVars
      <3>4. CASE CopyIn(t)
        <4>1. PICK n \in 0 .. left[t] :
                /\ n = 0 => left[t] = 0 \/ Ring(tx_in + 1) = seen[t]
                /\ at[t] = "wcopy"
                /\ at' = [at EXCEPT ![t] = IF 0 < n /\ n < left[t] THEN "wread" ELSE "wenable"]
                /\ tx_in' = Ring(tx_in + n) /\ tx_out' = tx_out
                /\ left' = [left EXCEPT ![t] = left[t] - n]
          BY <1>1, <3>4, CopyInDoes
        <4>2. /\ left[t] \in Nat /\ n \in Nat /\ n <= left[t] /\ left'[t] = left[t] - n
              /\ at'[t] = IF 0 < n /\ n < left[t] THEN "wread" ELSE "wenable"
          BY <1>1, <4>1 DEF CallTypeOK
        <4>3. CASE n > 0
          <5>1. at'[t] = "wread" \/ (at'[t] = "wenable" /\ left'[t] = 0)
            BY <4>2, <4>3
          <5>. QED
            BY <1>2, <5>1 DEF Due, WaitsForFlags
        <4>4. CASE n = 0
          <5>1. tx_in' = tx_in
            <6>1. tx_in \in Slot /\ tx_in + 0 = tx_in
              BY <1>1, PlusNone DEF RingTypeOK
            <6>. QED
              BY <4>1, <4>4, <6>1, RingIs
          <5>2. left[t] > 0
            BY <1>1, <4>1 DEF StandsWell
          <5>3. Full \/ Ready("WRITE_RDY")
            BY <1>1, <4>1, <4>2, <4>4, <5>2 DEF Due, Full
          <5>4. at'[t] = "wenable"
            BY <4>2, <4>4
          <5>. QED
            BY <1>2, <4>1, <5>1, <5>3, <5>4 DEF Due, WaitsForFlags, Full, Ring, Ready, flagVars
        <4>. QED
          BY <4>2, <4>3, <4>4
      <3>. QED
        BY <1>6, <3>1, <3>2, <3>3, <3>4 DEF WritesOn
    <2>. QED
      BY <1>2, <1>4, <2>1, <2>2, <2>3, OthersStayDue DEF DueExact
  <1>. QED
    BY <1>5, <1>6

LEMMA ResumesKeepDue ==
  ASSUME Turns, Turns', DueExact, NEW t \in TCB, Resumes(t)
  PROVE  DueExact'
  <1>1. KernelSound /\ CallTypeOK /\ AtExact /\ WaitsWell(t) /\ \A u \in TCB : Due(u)
    BY DEF Turns, DueExact, WaitExact
  <1>2. UNCHANGED <<role, callVars, rxVars, txVars, irq_enable>> /\ \A u \in TCB : SameCall(u)
    BY DEF Resumes, driverVars, callVars, SameCall
  <1>3. pc'[t] = "task" /\ Stat[t] = {} /\ \A u \in TCB \ {t} : Undisturbed(u)
    BY <1>1, ReturnDoes DEF Resumes
  <1>4. CASE OSSemPendEnds(t)
    <2>1. ReadKept /\ WriteKept
      BY <1>2, <1>4, AllKept DEF OSSemPendEnds
    <2>. QED
      BY <1>1, <1>2, <1>3, <2>1, StaysDue DEF DueExact
  <1>5. CASE FlagReturn(t)
    <2>1. \/ Reader(t) /\ at[t] = "rtest" /\ node[t] = WaitFor("READ_RDY")
          \/ Writer(t) /\ at[t] = "wtest" /\ node[t] = WaitFor("WRITE_RDY")
      BY <1>1, <1>5 DEF WaitsWell, FlagReturn
    <2>2. Holds(t)
      BY <1>3, <2>1 DEF Holds, Inside, Locked, ReadSteps, WriteSteps
    <2>3. at'[t] \in {"rtest", "wtest"}
      BY <1>2, <2>1 DEF callVars
    <2>4. Due(t)'
      BY <1>3, <2>3, AwayFromSleep
    <2>5. \A flag, other \in Flag :
            node[t] = WaitFor(flag) /\ other \notin {flag, "TIMEOUT"} /\ Ready(other) => Ready(other)'
      BY <1>1, <1>5, OtherFlagsStay, DriverAssumption DEF WaitFor, Ready
    <2>6. CASE Reader(t) /\ node[t] = WaitFor("READ_RDY")
      <3>1. WriteKept
        BY <1>2, <2>5, <2>6, JtagAssumption DEF WriteKept, txVars
      <3>. QED
        BY <1>2, <1>3, <2>2, <2>4, <2>6, <3>1, OthersStayDue DEF DueExact
    <2>7. CASE Writer(t) /\ node[t] = WaitFor("WRITE_RDY")
      <3>1. ReadKept
        BY <1>2, <2>5, <2>7, JtagAssumption DEF ReadKept, rxVars
      <3>. QED
        BY <1>2, <1>3, <2>2, <2>4, <2>7, <3>1, OthersStayDue DEF DueExact
    <2>. QED
      BY <2>1, <2>6, <2>7
  <1>. QED
    BY <1>4, <1>5 DEF Resumes

LEMMA ElsewhereKeepsDue ==
  ASSUME Turns, DueExact, Elsewhere \/ Outside
  PROVE  DueExact'
  <1>1. KernelSound /\ CallTypeOK /\ \A u \in TCB : Due(u)
    BY DEF Turns, DueExact
  <1>2. /\ UNCHANGED <<role, callVars, rxVars, txVars, irq_enable, flagVars>>
        /\ \A u \in TCB : SameCall(u)
    BY OutsideDoes DEF Elsewhere, driverVars, callVars, SameCall
  <1>3. ReadKept /\ WriteKept
    BY <1>2, AllKept
  <1>4. \A u \in TCB : Undisturbed(u) \/ pc'[u] # "flag"
    BY <1>1, PassiveDoes DEF Passive
  <1>. QED
    BY <1>1, <1>2, <1>3, <1>4, StaysDue DEF DueExact

(* A ring is full when it has one slot left.                               *)
LEMMA FullIs == \A in, out \in Slot : Ring(in + 1) = out <=> Used(in, out) = BufLen - 1
  <1> SUFFICES ASSUME NEW in \in Slot, NEW out \in Slot
               PROVE  Ring(in + 1) = out <=> Used(in, out) = BufLen - 1
    OBVIOUS
  <1>1. Used(in, out) = IF out <= in THEN in - out ELSE in + BufLen - out
    BY UsedIs
  <1>2. BufLen \in Nat /\ BufLen > 1 /\ in \in 0 .. BufLen - 1 /\ out \in 0 .. BufLen - 1
    BY BufLenIs DEF Slot
  <1>3. CASE in + 1 < BufLen
    <2>1. Ring(in + 1) = in + 1
      BY <1>2, <1>3, RingIs DEF Slot
    <2>. QED
      BY <1>1, <1>2, <1>3, <2>1
  <1>4. CASE in + 1 >= BufLen
    <2>1. in + 1 = 0 + BufLen /\ 0 \in Slot
      BY <1>2, <1>4 DEF Slot
    <2>2. Ring(in + 1) = 0
      BY <2>1, RingIs
    <2>. QED
      BY <1>1, <1>2, <1>4, <2>2
  <1>. QED
    BY <1>2, <1>3, <1>4

(* Flags that are posted are set, and end the waits for them.              *)
LEMMA PostDoes ==
  ASSUME Turns, NEW flags \in SUBSET Flag, PostFromHandler(flags), UNCHANGED pc
  PROVE  /\ \A flag \in flags : Ready(flag)'
         /\ \A flag : Ready(flag) => Ready(flag)'
         /\ \A u \in TCB : Undisturbed(u)
         /\ \A u \in TCB, flag \in flags :
              WaitsForFlags(u) /\ node[u] = WaitFor(flag) => ~WaitsForFlags(u)'
  <1>1. KernelSound
    BY DEF Turns
  <1>2. CASE flags = {}
    <2>1. UNCHANGED <<stateVars, waitVars, flagVars>>
      BY <1>2 DEF PostFromHandler
    <2>. QED
      BY <1>2, <2>1 DEF stateVars, waitVars, flagVars, Undisturbed, Ready
  <1>3. CASE flags # {}
    <2>1. OSFlagPost(events, flags, TRUE)
      BY <1>3 DEF PostFromHandler
    <2>2. \A u \in TCB : Undisturbed(u)
      BY <1>1, <2>1, FlagPostDisturbsNobody, DriverAssumption DEF KernelSound
    <2>3. OSFlagFlags'[events] = OSFlagFlags[events] \cup flags
      BY <1>1, <2>1, DriverAssumption DEF OSFlagPost, KernelSound, TablesSound, TablesTypeOK, FlagsTypeOK
    <2>4. ASSUME NEW u \in TCB, NEW flag \in flags, WaitsForFlags(u), node[u] = WaitFor(flag)
          PROVE  "FLAG" \notin Stat'[u]
      <3>1. Satisfied(node[u], OSFlagFlags[events] \cup flags) /\ node[u].grp = events
        BY <2>4 DEF WaitFor, Satisfied, Found
      <3>. QED
        BY <1>1, <2>1, <2>4, <3>1, FlagPostWakes, DriverAssumption DEF KernelSound
    <2>. QED
      BY <2>2, <2>3, <2>4 DEF Ready, WaitsForFlags
  <1>. QED
    BY <1>2, <1>3

LEMMA HandlerKeepsReadersDue ==
  ASSUME Turns, Rings, altera_avalon_jtag_uart_irq, NEW u \in TCB, Due(u), Reader(u)
  PROVE  Due(u)'
  <1>1. /\ UNCHANGED <<role, rx_out, pc>> /\ SameCall(u) /\ PostFromHandler(Posted)
        /\ RingTypeOK /\ StandsWell(u) /\ WaitsWell(u) /\ ~Writer(u)
    BY RoleFacts
    DEF altera_avalon_jtag_uart_irq, OSIntExit, callVars, SameCall, Turns, Rings, AtExact, WaitExact
  <1>2. /\ \A flag : Ready(flag) => Ready(flag)'
        /\ Undisturbed(u)
    BY <1>1, PostedAreFlags, PostDoes
  <1>3. CASE Taken = 0
    <2>1. rx_in' = rx_in
      <3>1. rx_in \in Slot /\ rx_in + 0 = rx_in
        BY <1>1, PlusNone DEF RingTypeOK
      <3>. QED
        BY <1>3, <3>1, RingIs DEF altera_avalon_jtag_uart_irq
    <2>. QED
      BY <1>1, <1>2, <2>1, StaysDue DEF ReadKept
  <1>4. CASE Taken # 0
    <2>1. Taken > 0
      BY <1>1, <1>4, HandlerMoves, RingLengths
    <2>2. "READ_RDY" \in Posted
      BY <2>1 DEF Posted
    <2>3. Ready("READ_RDY")'
      BY <1>1, <2>2, PostedAreFlags, PostDoes
    <2>4. ~WaitsForFlags(u)'
      <3>1. WaitsForFlags(u)' => WaitsForFlags(u)
        BY <1>2 DEF WaitsForFlags, Undisturbed
      <3>2. WaitsForFlags(u) => node[u] = WaitFor("READ_RDY")
        BY <1>1 DEF WaitsWell, WaitsForFlags
      <3>. QED
        BY <1>1, <2>2, <3>1, <3>2, PostedAreFlags, PostDoes
    <2>5. at'[u] \notin {"wcopy", "wenable", "wpend"}
      BY <1>1 DEF StandsWell, ReadSteps, SameCall
    <2>. QED
      BY <2>3, <2>4, <2>5 DEF Due
  <1>. QED
    BY <1>3, <1>4

LEMMA HandlerKeepsWritersDue ==
  ASSUME Turns, Rings, altera_avalon_jtag_uart_irq, NEW u \in TCB, Due(u), Writer(u)
  PROVE  Due(u)'
  <1>1. /\ UNCHANGED <<role, tx_in, pc>> /\ SameCall(u) /\ PostFromHandler(Posted)
        /\ RingTypeOK /\ TxExact /\ StandsWell(u) /\ WaitsWell(u) /\ ~Reader(u)
        /\ irq_enable' = irq_enable \ TurnedOff
    BY RoleFacts
    DEF altera_avalon_jtag_uart_irq, OSIntExit, callVars, SameCall, Turns, Rings, AtExact, WaitExact
  <1>2. (\A flag : Ready(flag) => Ready(flag)') /\ Undisturbed(u)
    BY <1>1, PostedAreFlags, PostDoes
  <1>3. /\ Used(tx_in, tx_out) \in Nat /\ Sent \in 0 .. Used(tx_in, tx_out)
        /\ Used(tx_in, tx_out') = Used(tx_in, tx_out) - Sent
        /\ tx_in \in Slot /\ tx_out \in Slot /\ tx_out' \in Slot
        /\ BufLen \in Nat /\ BufLen > 1 /\ Used(tx_in, tx_out) <= BufLen - 1
    <2>1. tx_in \in Slot /\ tx_out \in Slot
      BY <1>1 DEF RingTypeOK
    <2>2. /\ Used(tx_in, tx_out') = Used(tx_in, tx_out) - Sent /\ tx_out' \in Slot
          /\ Sent \in 0 .. Used(tx_in, tx_out)
      BY <1>1, HandlerMoves, HandlerKeepsTx
    <2>3. Used(tx_in, tx_out) \in Slot
      BY <1>1, RingLengths
    <2>. QED
      BY <2>1, <2>2, <2>3, BufLenIs DEF Slot
  <1>4. CASE Sent = 0
    <2>1. tx_out' = tx_out
      <3>1. tx_out + 0 = tx_out
        BY <1>1, RingLengths DEF RingTypeOK
      <3>. QED
        BY <1>3, <1>4, <3>1, RingIs DEF altera_avalon_jtag_uart_irq
    <2>2. Full /\ "WE" \in irq_enable => "WE" \in irq_enable'
      <3>1. Full => Used(tx_in, tx_out) # 0
        BY <1>3, FullIs DEF Full
      <3>2. WI /\ Sent < Space => Used(tx_in, tx_out) = 0
        BY <1>1, <1>4, HandlerMoves
      <3>. QED
        BY <1>1, <3>1, <3>2 DEF TurnedOff
    <2>3. Full' <=> Full
      BY <1>1, <2>1 DEF Full, Ring
    <2>4. at'[u] \notin {"rcopy", "rpend"}
      BY <1>1 DEF StandsWell, WriteSteps, SameCall
    <2>5. (WaitsForFlags(u)' => WaitsForFlags(u)) /\ ~Reader(u)' /\ Writer(u)'
      BY <1>1, <1>2, SameSem DEF WaitsForFlags, Undisturbed
    <2>. QED
      BY <1>1, <1>2, <2>1, <2>2, <2>3, <2>4, <2>5 DEF Due, SameCall
  <1>5. CASE Sent # 0
    <2>1. Sent > 0
      BY <1>3, <1>5
    <2>2. "WRITE_RDY" \in Posted
      BY <2>1 DEF Posted
    <2>3. Ready("WRITE_RDY")'
      BY <1>1, <2>2, PostedAreFlags, PostDoes
    <2>4. ~WaitsForFlags(u)'
      <3>1. WaitsForFlags(u)' => WaitsForFlags(u)
        BY <1>2 DEF WaitsForFlags, Undisturbed
      <3>2. WaitsForFlags(u) => node[u] = WaitFor("WRITE_RDY")
        BY <1>1 DEF WaitsWell, WaitsForFlags
      <3>. QED
        BY <1>1, <2>2, <3>1, <3>2, PostedAreFlags, PostDoes
    <2>5. ~Full'
      <3>1. Used(tx_in, tx_out') # BufLen - 1
        BY <1>3, <2>1
      <3>2. Ring(tx_in + 1) # tx_out'
        BY <1>3, <3>1, FullIs
      <3>. QED
        BY <1>1, <3>2 DEF Full, Ring
    <2>6. at'[u] \notin {"rcopy", "rpend"}
      BY <1>1 DEF StandsWell, WriteSteps, SameCall
    <2>. QED
      BY <2>3, <2>4, <2>5, <2>6 DEF Due
  <1>. QED
    BY <1>4, <1>5

LEMMA HandlerKeepsDue ==
  ASSUME Turns, Turns', Rings, DueExact, Handler
  PROVE  DueExact'
  <1>1. /\ UNCHANGED <<role, callVars, pc>> /\ WaitExact' /\ \A u \in TCB : Due(u)
        /\ \A u \in TCB : SameCall(u)
    BY HandlerPosts DEF OSIntExit, callVars, SameCall, Turns, DueExact
  <1>2. CASE altera_avalon_jtag_uart_irq
    <2>1. ASSUME NEW u \in TCB, ~Reader(u), ~Writer(u) PROVE Due(u)'
      <3>1. at[u] = "out"
        BY <2>1 DEF Turns, AtExact, StandsWell
      <3>2. at'[u] \in AtEase
        BY <1>1, <3>1 DEF AtEase, callVars
      <3>. QED
        BY <1>1, <3>2, EasyWillBeDue DEF EasyAreDue
    <2>. QED
      BY <1>1, <1>2, <2>1, HandlerKeepsReadersDue, HandlerKeepsWritersDue DEF DueExact
  <1>3. CASE altera_avalon_jtag_uart_timeout
    <2>1. PICK flags \in SUBSET Flag : PostFromHandler(flags)
      BY <1>3, HandlerPosts DEF Handler
    <2>2. (\A flag : Ready(flag) => Ready(flag)') /\ \A u \in TCB : Undisturbed(u)
      BY <1>1, <2>1, PostDoes
    <2>3. ReadKept /\ WriteKept
      BY <1>3, <2>2 DEF altera_avalon_jtag_uart_timeout, rxVars, txVars, ReadKept, WriteKept
    <2>. QED
      BY <1>1, <2>2, <2>3, StaysDue DEF DueExact
  <1>. QED
    BY <1>2, <1>3 DEF Handler

LEMMA DueStep ==
  ASSUME Turns, Rings, DueExact, Next
  PROVE  DueExact'
  <1>1. Turns' /\ CallTypeOK /\ RingTypeOK
    BY TurnsStep DEF Turns, Rings
  <1>. QED
    BY <1>1, Kinds, SemStepsKeepDue, NapsKeepDue, ReadsKeepDue, WritesKeepDue, ResumesKeepDue,
       ElsewhereKeepsDue, HandlerKeepsDue

LEMMA DueStutter ==
  ASSUME Turns, DueExact, UNCHANGED vars
  PROVE  DueExact'
  <1>1. UNCHANGED <<coreVars, flagVars, role, callVars, rxVars, txVars, irq_enable>>
    BY DEF vars, driverVars
  <1>2. /\ ReadKept /\ WriteKept /\ \A u \in TCB : Undisturbed(u)
        /\ \A u \in TCB : SameCall(u)
    BY <1>1, AllKept, FrameDisturbsNobody DEF flagVars, callVars, SameCall
  <1>. QED
    BY <1>1, <1>2, StaysDue DEF DueExact

LEMMA DueStart == Init => DueExact
  BY DEF Init, DueExact, Due, WaitsForFlags

-----------------------------------------------------------------------------
(* The invariant.                                                          *)

(* Turns, the rings and the sleepers, in every state of the driver.        *)
THEOREM JtagInvHolds == Spec => []JtagInv
  <1>1. Init => JtagInv
    BY TurnsStart, RingsStart, DueStart DEF JtagInv
  <1>2. JtagInv /\ [Next]_vars => JtagInv'
    <2>1. JtagInv /\ Next => JtagInv'
      <3> SUFFICES ASSUME JtagInv, Next PROVE JtagInv'
        OBVIOUS
      <3>1. Turns /\ Rings /\ DueExact /\ RingTypeOK
        BY DEF JtagInv, Rings
      <3>. QED
        BY <3>1, TurnsStep, RingsStep, DueStep DEF JtagInv
    <2>2. JtagInv /\ UNCHANGED vars => JtagInv'
      BY TurnsStutter, RingsStutter, DueStutter DEF JtagInv
    <2>. QED
      BY <2>1, <2>2
  <1>. QED
    BY <1>1, <1>2, PTL DEF Spec

(* What is in a ring behind what is in a FIFO, or before it, is in order.  *)
LEMMA RingIsQueued ==
  ASSUME NEW out \in Slot, NEW u \in Slot, NEW buf \in [Slot -> 0 .. NONE], NEW last \in Nat,
         Carries(buf, out, u, last)
  PROVE  FirstOf(buf, out, u) \in Seq(Byte) /\ Len(FirstOf(buf, out, u)) = u
         /\ Queued(FirstOf(buf, out, u), last)
  <1>1. u \in 0 .. u
    BY BufLenIs DEF Slot
  <1>. QED
    BY <1>1, CarriesLess

(* The bytes of each direction arrive in order and none is lost, though no *)
(* critical section protects the rings (altera_avalon_jtag_uart_read,      *)
(* _write and _irq), for any number of tasks, ring and FIFO.               *)
THEOREM BytesInOrderHolds == Spec => []BytesInOrder
  <1>1. JtagInv => BytesInOrder
    <2> SUFFICES ASSUME JtagInv PROVE BytesInOrder
      OBVIOUS
    <2>1. CallTypeOK /\ KernelSound /\ RingTypeOK /\ HostTypeOK /\ RxExact /\ TxExact
      BY DEF JtagInv, Turns, Rings
    <2>2. TypeOK
      <3>1. CoreTypeOK({"task", "flag", "pend"}) /\ FlagsTypeOK
        BY <2>1 DEF CoreTypeOK, KernelSound, TablesSound, TablesTypeOK, Processor
      <3>2. role \in [TCB -> [does : Does, len : Nat, sleeps : BOOLEAN]]
        BY <2>1, RoleFacts
      <3>. QED
        BY <2>1, <3>1, <3>2
        DEF TypeOK, CallTypeOK, RingTypeOK, HostTypeOK, ReadSteps, WriteSteps, Byte
    <2>3. /\ Used(rx_in, rx_out) \in Slot /\ Used(tx_in, tx_out) \in Slot /\ Slot \subseteq Nat
          /\ Len(rfifo) \in Nat /\ Len(wfifo) \in Nat /\ lastRead \in Nat /\ lastSent \in Nat
      BY <2>1, RingLengths
    <2>4. /\ rx_out \in Slot /\ tx_out \in Slot /\ rfifo \in Seq(Byte) /\ wfifo \in Seq(Byte)
          /\ rx_buf \in [Slot -> 0 .. NONE] /\ tx_buf \in [Slot -> 0 .. NONE]
      BY <2>1 DEF RingTypeOK
    <2>5. /\ Carries(rx_buf, rx_out, Used(rx_in, rx_out), lastRead)
          /\ Carries(tx_buf, tx_out, Used(tx_in, tx_out), lastSent + Len(wfifo))
          /\ Queued(rfifo, lastRead + Used(rx_in, rx_out)) /\ Queued(wfifo, lastSent)
          /\ toRead = Used(rx_in, rx_out) + Len(rfifo) /\ toSend = Len(wfifo) + Used(tx_in, tx_out)
      BY <2>1 DEF RxExact, TxExact
    <2> DEFINE rxRing == FirstOf(rx_buf, rx_out, Used(rx_in, rx_out))
               txRing == FirstOf(tx_buf, tx_out, Used(tx_in, tx_out))
    <2>6. rxRing \in Seq(Byte) /\ Len(rxRing) = Used(rx_in, rx_out) /\ Queued(rxRing, lastRead)
      BY <2>3, <2>4, <2>5, RingIsQueued
    <2>7. /\ txRing \in Seq(Byte) /\ Len(txRing) = Used(tx_in, tx_out)
          /\ Queued(txRing, lastSent + Len(wfifo))
      <3>1. lastSent + Len(wfifo) \in Nat
        BY <2>3
      <3>. QED
        BY <2>3, <2>4, <2>5, <3>1, RingIsQueued
    <2> HIDE DEF rxRing, txRing
    <2>8. Len(rxRing \o rfifo) = toRead /\ Queued(rxRing \o rfifo, lastRead)
      BY <2>3, <2>4, <2>5, <2>6, QueuedJoin
    <2>9. Len(wfifo \o txRing) = toSend /\ Queued(wfifo \o txRing, lastSent)
      BY <2>3, <2>4, <2>5, <2>7, QueuedJoin
    <2>. QED
      BY <2>2, <2>8, <2>9 DEF BytesInOrder, Queued, rxRing, txRing
  <1>. QED
    BY <1>1, JtagInvHolds, PTL

(* A task that sleeps in altera_avalon_jtag_uart_read or _write is due to  *)
(* be woken, however the test of an index, the handler's post, the wait    *)
(* and the interrupt that a reader enables after giving its lock back      *)
(* follow.                                                                 *)
THEOREM SleepersAreDueHolds == Spec => []SleepersAreDue
  <1>1. JtagInv => SleepersAreDue
    <2> SUFFICES ASSUME JtagInv, NEW t \in TCB, WaitsForFlags(t)
                 PROVE  /\ Reader(t) => /\ rx_in = rx_out
                                        /\ \/ "RE" \in irq_enable
                                           \/ \E u \in TCB \ {t} : at[u] = "renable"
                        /\ Writer(t) => Ring(tx_in + 1) = tx_out /\ "WE" \in irq_enable
      BY DEF SleepersAreDue
    <2>1. Turns /\ RingTypeOK /\ EnableExact /\ Due(t) /\ WaitsWell(t)
      BY DEF JtagInv, Rings, DueExact, Turns, WaitExact
    <2>2. CASE Reader(t)
      <3>1. rx_in = rx_out /\ ~Writer(t)
        BY <2>1, <2>2, RoleFacts DEF Due, Turns
      <3>2. CASE "RE" \notin irq_enable
        <4>1. Used(rx_in, rx_out) # BufLen - 1
          <5>1. rx_in \in Slot /\ rx_out \in Slot
            BY <2>1 DEF RingTypeOK
          <5>. QED
            BY <3>1, <5>1, UsedIs, BufLenIs DEF Slot
        <4>2. PICK u \in TCB : TurnsOn(u)
          BY <2>1, <3>2, <4>1 DEF EnableExact
        <4>3. at[t] = "rtest" /\ ~done[t]
          BY <2>1, <2>2, <3>1 DEF WaitsWell, WaitsForFlags, Turns, AtExact, StandsWell
        <4>4. u # t
          BY <4>2, <4>3 DEF TurnsOn
        <4>5. CASE at[u] = "renable"
          BY <3>1, <4>4, <4>5
        <4>6. CASE done[u] /\ at[u] \in {"rread", "rcopy", "rpost"}
          <5>1. "SEM" \notin Stat[u] /\ "SEM" \notin Stat[t]
            BY <2>1, <4>3, <4>6, AwayAtStart
          <5>2. Holds(u) /\ Holds(t)
            BY <4>3, <4>6, <5>1 DEF Holds, Inside, Locked, ReadSteps, WriteSteps
          <5>3. Reader(u)
            BY <2>1, <4>6 DEF Turns, AtExact, StandsWell, WriteSteps
          <5>. QED
            BY <2>1, <2>2, <4>4, <5>2, <5>3 DEF Turns, Exclusion, MySem
        <4>. QED
          BY <4>2, <4>5, <4>6 DEF TurnsOn
      <3>. QED
        BY <3>1, <3>2
    <2>3. CASE Writer(t)
      <3>1. ~Reader(t)
        BY <2>1, <2>3, RoleFacts DEF Turns
      <3>. QED
        BY <2>1, <2>3, <3>1 DEF Due, Full
    <2>. QED
      BY <2>2, <2>3
  <1>. QED
    BY <1>1, JtagInvHolds, PTL
=============================================================================
