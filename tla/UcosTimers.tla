----------------------------- MODULE UcosTimers -----------------------------
(***************************************************************************)
(* The software timers of the kernel (UCOSII/src/os_tmr.c), which a build  *)
(* has when OS_TMR_EN is 1; this one leaves them out.  Timers that run     *)
(* hang from the spoke of a wheel that their match time falls on; at each  *)
(* signal OSTmr_Task goes through one spoke.                               *)
(*                                                                         *)
(* Everything is done under the semaphore OSTmrSem: a service is one step, *)
(* taken when OSTmr_Task does not hold it, and OSTmr_Task takes one timer  *)
(* a step.  A callback runs under it, too, so it cannot call a service     *)
(* without waiting for itself: it changes no timer.                        *)
(*                                                                         *)
(* Definitions named X_<fault> are faulty variants of X; nothing in the    *)
(* specification uses them.                                                *)
(***************************************************************************)
EXTENDS Naturals, FiniteSets

CONSTANTS
  Tmr,         \* OSTmrTbl: the timers 1 .. OS_TMR_CFG_MAX
  WHEEL_SIZE,  \* OS_TMR_CFG_WHEEL_SIZE
  W,           \* OSTmrTime is a number modulo W
  Setting,     \* what timers are created with: <<delay, period, option>>
  MaxSignals,  \* bound: the signals that OSTmr_Task is behind with
  NULL

(* What the constants are; a module that uses this one assumes it.         *)
TimerAssumption ==
  /\ Tmr = 1 .. Cardinality(Tmr)
  /\ WHEEL_SIZE \in Nat \ {0} /\ MaxSignals \in Nat \ {0}
  /\ \A s \in Setting :
       /\ s[1] \in 0 .. W - 1 /\ s[2] \in 0 .. W - 1
       /\ s[3] \in {"PERIODIC", "ONE_SHOT"}
       /\ IF s[3] = "PERIODIC" THEN s[2] > 0 ELSE s[1] > 0

VARIABLES
  state, setting, match,    \* of a timer
  wheel,                    \* the spokes' first timers and numbers, the timers' links
  OSTmrFreeList, OSTmrFree, OSTmrUsed,
  OSTmrTime,
  signals,                  \* the count of OSTmrSemSignal
  ptmr,                     \* the timer that OSTmr_Task has come to, or NULL
  left                      \* history: the updates of OSTmrTime until a timer is due

tmrVars == <<state, setting, match, wheel, OSTmrFreeList, OSTmrFree, OSTmrUsed, OSTmrTime,
             signals, ptmr, left>>
freeVars == <<OSTmrFreeList, OSTmrFree, OSTmrUsed>>

Spoke(m) == m % WHEEL_SIZE

Nothing == <<0, 0, "NONE">>

(* OSTmr_Init                                                              *)
TmrInit ==
  /\ state = [t \in Tmr |-> "UNUSED"]
  /\ setting = [t \in Tmr |-> Nothing]
  /\ match = [t \in Tmr |-> 0]
  /\ wheel = [first   |-> [s \in 0 .. WHEEL_SIZE - 1 |-> NULL],
              entries |-> [s \in 0 .. WHEEL_SIZE - 1 |-> 0],
              next    |-> [t \in Tmr |-> IF t + 1 \in Tmr THEN t + 1 ELSE NULL],
              prev    |-> [t \in Tmr |-> NULL]]
  /\ OSTmrFreeList = 1 /\ OSTmrFree = Cardinality(Tmr) /\ OSTmrUsed = 0
  /\ OSTmrTime = 0 /\ signals = 0 /\ ptmr = NULL
  /\ left = [t \in Tmr |-> 0]

-----------------------------------------------------------------------------
(* THE WHEEL                                                               *)

(* The time from now that a timer is linked for.                           *)
LinkTime(t, type) ==
  IF type = "PERIODIC" \/ setting[t][1] = 0 THEN setting[t][2] ELSE setting[t][1]

Matches(t, type) == (LinkTime(t, type) + OSTmrTime) % W

(* w with t at the head of spoke s.                                        *)
OSTmr_Link(w, t, s) ==
  LET f == w.first[s]
  IN  [first   |-> [w.first EXCEPT ![s] = t],
       entries |-> [w.entries EXCEPT ![s] = IF f = NULL THEN 1 ELSE @ + 1],
       next    |-> [w.next EXCEPT ![t] = f],
       prev    |-> [u \in Tmr |-> IF u = t THEN NULL ELSE IF u = f THEN t ELSE w.prev[u]]]

OSTmr_Unlink_KeepsPrev(w, t, s) ==
  [first   |-> IF w.first[s] = t THEN [w.first EXCEPT ![s] = w.next[t]] ELSE w.first,
   entries |-> [w.entries EXCEPT ![s] = @ - 1],
   next    |-> [u \in Tmr |-> IF u = t THEN NULL
                              ELSE IF w.first[s] # t /\ u = w.prev[t] THEN w.next[t]
                              ELSE w.next[u]],
   prev    |-> [w.prev EXCEPT ![t] = NULL]]

(* w without t, which is on spoke s.                                       *)
OSTmr_Unlink(w, t, s) ==
  [first   |-> IF w.first[s] = t THEN [w.first EXCEPT ![s] = w.next[t]] ELSE w.first,
   entries |-> [w.entries EXCEPT ![s] = @ - 1],
   next    |-> [u \in Tmr |-> IF u = t THEN NULL
                              ELSE IF w.first[s] # t /\ u = w.prev[t] THEN w.next[t]
                              ELSE w.next[u]],
   prev    |-> [u \in Tmr |-> IF u = t THEN NULL
                              ELSE IF u = w.next[t]
                                THEN IF w.first[s] = t THEN NULL ELSE w.prev[t]
                              ELSE w.prev[u]]]

Unlinked(t) == OSTmr_Unlink(wheel, t, Spoke(match[t]))

-----------------------------------------------------------------------------
(* SERVICES                                                                *)

OSTmr_Lock == ptmr = NULL

OSTmr_Alloc(t) ==
  /\ t = OSTmrFreeList
  /\ OSTmrFreeList' = wheel.next[t]
  /\ wheel' = [wheel EXCEPT !.next[t] = NULL, !.prev[t] = NULL]
  /\ OSTmrUsed' = OSTmrUsed + 1 /\ OSTmrFree' = OSTmrFree - 1

OSTmrCreate(t, s) ==
  /\ OSTmr_Lock
  /\ OSTmr_Alloc(t)
  /\ state' = [state EXCEPT ![t] = "STOPPED"]
  /\ setting' = [setting EXCEPT ![t] = s]
  /\ UNCHANGED <<match, OSTmrTime, signals, ptmr, left>>

(* w: the wheel without t.                                                 *)
OSTmr_Free(w, t) ==
  /\ state' = [state EXCEPT ![t] = "UNUSED"]
  /\ setting' = [setting EXCEPT ![t] = Nothing]
  /\ match' = [match EXCEPT ![t] = 0]
  /\ wheel' = [w EXCEPT !.prev[t] = NULL, !.next[t] = OSTmrFreeList]
  /\ OSTmrFreeList' = t
  /\ OSTmrUsed' = OSTmrUsed - 1 /\ OSTmrFree' = OSTmrFree + 1

(* The services are refused for a timer that is not used.                  *)
OSTmrDel(t) ==
  /\ OSTmr_Lock
  /\ state[t] # "UNUSED"
  /\ OSTmr_Free(IF state[t] = "RUNNING" THEN Unlinked(t) ELSE wheel, t)
  /\ left' = [left EXCEPT ![t] = 0]
  /\ UNCHANGED <<OSTmrTime, signals, ptmr>>

OSTmrStart(t) ==
  /\ OSTmr_Lock
  /\ state[t] # "UNUSED"
  /\ match' = [match EXCEPT ![t] = Matches(t, "DLY")]
  /\ wheel' = OSTmr_Link(IF state[t] = "RUNNING" THEN Unlinked(t) ELSE wheel, t, Spoke(match'[t]))
  /\ state' = [state EXCEPT ![t] = "RUNNING"]
  /\ left' = [left EXCEPT ![t] = LinkTime(t, "DLY")]
  /\ UNCHANGED <<setting, freeVars, OSTmrTime, signals, ptmr>>

(* Another timer is left as it is; this one's callback may be called.      *)
OSTmrStop(t) ==
  /\ OSTmr_Lock
  /\ state[t] = "RUNNING"
  /\ wheel' = Unlinked(t)
  /\ state' = [state EXCEPT ![t] = "STOPPED"]
  /\ left' = [left EXCEPT ![t] = 0]
  /\ UNCHANGED <<setting, match, freeVars, OSTmrTime, signals, ptmr>>

(* What the services that read answer.                                     *)
OSTmrStateGet(t) == state[t]

OSTmrRemainGet(t) ==
  CASE state[t] = "RUNNING" -> (match[t] + W - OSTmrTime) % W
    [] state[t] = "STOPPED" -> LinkTime(t, "DLY")
    [] OTHER -> 0

-----------------------------------------------------------------------------
(* THE TASK                                                                *)

(* From the tick's handler or a task.                                      *)
OSTmrSignal ==
  /\ signals < MaxSignals
  /\ signals' = signals + 1
  /\ UNCHANGED <<state, setting, match, wheel, freeVars, OSTmrTime, ptmr, left>>

(* A signal is taken and the semaphore.                                    *)
TakeSignal ==
  /\ OSTmr_Lock
  /\ signals > 0 /\ signals' = signals - 1
  /\ OSTmrTime' = (OSTmrTime + 1) % W
  /\ ptmr' = wheel.first[Spoke(OSTmrTime')]
  /\ left' = [t \in Tmr |-> IF state[t] = "RUNNING" THEN left[t] - 1 ELSE left[t]]
  /\ UNCHANGED <<state, setting, match, wheel, freeVars>>

(* The next timer is read before this one may go to the head of a spoke;   *)
(* after the last the semaphore is given back.                             *)
OSTmr_Task ==
  /\ ptmr # NULL
  /\ ptmr' = wheel.next[ptmr]
  /\ IF match[ptmr] # OSTmrTime
       THEN UNCHANGED <<state, match, wheel, left>>
     ELSE IF setting[ptmr][3] = "PERIODIC"
       THEN /\ match' = [match EXCEPT ![ptmr] = Matches(ptmr, "PERIODIC")]
            /\ wheel' = OSTmr_Link(Unlinked(ptmr), ptmr, Spoke(match'[ptmr]))
            /\ left' = [left EXCEPT ![ptmr] = LinkTime(ptmr, "PERIODIC")]
            /\ UNCHANGED state
       ELSE /\ wheel' = Unlinked(ptmr)
            /\ state' = [state EXCEPT ![ptmr] = "COMPLETED"]
            /\ UNCHANGED <<match, left>>
  /\ UNCHANGED <<setting, freeVars, OSTmrTime, signals>>

TmrNext ==
  \/ \E t \in Tmr, s \in Setting : OSTmrCreate(t, s)
  \/ \E t \in Tmr : OSTmrDel(t) \/ OSTmrStart(t) \/ OSTmrStop(t)
  \/ OSTmrSignal \/ TakeSignal \/ OSTmr_Task

-----------------------------------------------------------------------------
(* PROPERTIES                                                              *)

(* The timers of a list of n that starts with first.                       *)
Walk(first, n) ==
  LET step[i \in 1 .. n] == IF i = 1 THEN first ELSE wheel.next[step[i - 1]]
  IN  step

Lists(first, n, members) ==
  LET list == Walk(first, n)
  IN  /\ Cardinality(members) = n
      /\ {list[i] : i \in DOMAIN list} = members
      /\ IF n = 0 THEN first = NULL ELSE wheel.next[list[n]] = NULL

(* A timer rings after just as many signals as it was started for, however *)
(* often it has rung, been stopped, started again or deleted since, also   *)
(* when OSTmrTime rolls over, and none is passed over when others move or  *)
(* leave while OSTmr_Task goes through their spoke (os_tmr.c:1096-1112);   *)
(* each is on the list where it belongs, once.                             *)
TimersRing ==
  /\ \A t \in Tmr : state[t] = "RUNNING" =>
       /\ OSTmrRemainGet(t) = left[t]
       /\ ptmr = NULL => left[t] > 0
  /\ ptmr # NULL => state[ptmr] = "RUNNING"
  /\ \A s \in DOMAIN wheel.first :
       LET there == {t \in Tmr : state[t] = "RUNNING" /\ Spoke(match[t]) = s}
       IN  /\ Lists(wheel.first[s], wheel.entries[s], there)
           /\ \A t \in there : wheel.prev[t] = NULL <=> wheel.first[s] = t
           /\ \A t \in there : wheel.prev[t] # NULL => wheel.next[wheel.prev[t]] = t
  /\ Lists(OSTmrFreeList, OSTmrFree, {t \in Tmr : state[t] = "UNUSED"})
  /\ OSTmrUsed + OSTmrFree = Cardinality(Tmr)
=============================================================================
