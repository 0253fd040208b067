------------------------------ MODULE HalClock ------------------------------
(***************************************************************************)
(* The system clock of the HAL and its alarms (HAL/src/alt_tick.c,         *)
(* alt_alarm_start.c, the list of HAL/inc/sys/alt_llist.h and the timer's  *)
(* driver).  The timer's interrupt runs alt_tick with interrupts off; a    *)
(* callback may start and stop alarms itself.  Ticks are counted modulo W, *)
(* 2^32 in the code.                                                       *)
(*                                                                         *)
(* Definitions named X_<fault> are faulty variants of X; nothing in the    *)
(* specification uses them.                                                *)
(***************************************************************************)
EXTENDS Integers, FiniteSets

CONSTANTS
  Alarm,      \* the alarms of the system's users
  HEAD,       \* &alt_alarm_list
  W,          \* the counter of the ticks is a number modulo W
  Delay,      \* the delays that users ask of alt_alarm_start
  Interval    \* the intervals that callbacks return

(* What the constants are; a module that uses this one assumes it.         *)
ClockAssumption ==
  /\ HEAD \notin Alarm
  /\ W \in Nat \ {0}
  /\ Delay \subseteq 0 .. W - 2      \* of 2^32 - 1 ticks alt_alarm_start makes none
  /\ Interval \subseteq 1 .. W - 1

VARIABLES
  _alt_tick_rate,   \* nonzero: the driver has been initialised
  _alt_nticks,
  next, previous,   \* the links of the alarms and of the list's head
  time, rollover,   \* the fields of an alarm
  at,               \* in alt_tick: the alarm it has come to, or HEAD
  after,            \* in alt_tick: the one it goes on with
  mode,             \* "tasks" or, in alt_tick, "walk" or "callback"
  cut,              \* history: a callback of this tick has stopped the alarm after its own
  due               \* history: the ticks until an alarm is to ring; -1: it is stopped

clockVars ==
  <<_alt_tick_rate, _alt_nticks, next, previous, time, rollover, at, after, mode, cut, due>>
links == <<next, previous>>

Entry == Alarm \cup {HEAD}

ClockInit ==
  /\ _alt_tick_rate = FALSE
  /\ _alt_nticks = 0
  /\ next = [e \in Entry |-> e]
  /\ previous = [e \in Entry |-> e]
  /\ time = [a \in Alarm |-> 0]
  /\ rollover = [a \in Alarm |-> FALSE]
  /\ at = HEAD /\ after = HEAD
  /\ mode = "tasks" /\ cut = FALSE
  /\ due = [a \in Alarm |-> -1]

-----------------------------------------------------------------------------
(* The list: an entry is inserted behind the head, and one that is removed *)
(* is linked to itself.                                                    *)
alt_llist_insert(e) ==
  /\ next' = [next EXCEPT ![e] = next[HEAD], ![HEAD] = e]
  /\ previous' = [previous EXCEPT ![e] = HEAD, ![next[HEAD]] = e]

alt_llist_remove(e) ==
  /\ next' = [next EXCEPT ![previous[e]] = next[e], ![e] = e]
  /\ previous' = [previous EXCEPT ![next[e]] = previous[e], ![e] = e]

(* alt_avalon_timer_sc_init: alt_sysclk_init, and the interrupt is on.     *)
alt_avalon_timer_sc_init ==
  /\ ~_alt_tick_rate /\ _alt_tick_rate' = TRUE
  /\ UNCHANGED <<_alt_nticks, links, time, rollover, at, after, mode, cut, due>>

StartTime_NoRollover(a, n) ==
  /\ time' = [time EXCEPT ![a] = (n + _alt_nticks + 1) % W]
  /\ rollover' = [rollover EXCEPT ![a] = FALSE]

StartTime(a, n) ==
  /\ time' = [time EXCEPT ![a] = (n + _alt_nticks + 1) % W]
  /\ rollover' = [rollover EXCEPT ![a] = time'[a] < _alt_nticks]

(* Without the clock there are no alarms (-ENOTSUP); an alarm must not be  *)
(* in the list yet.                                                        *)
alt_alarm_start(a, n) ==
  /\ _alt_tick_rate
  /\ next[a] = a /\ due[a] = -1
  /\ StartTime(a, n)
  /\ alt_llist_insert(a)
  /\ due' = [due EXCEPT ![a] = n + 1]

alt_alarm_stop(a) ==
  /\ alt_llist_remove(a)
  /\ due' = [due EXCEPT ![a] = -1]

(* A task's calls.                                                         *)
TaskStarts(a, n) ==
  /\ mode = "tasks"
  /\ alt_alarm_start(a, n)
  /\ UNCHANGED <<_alt_tick_rate, _alt_nticks, at, after, mode, cut>>

TaskStops(a) ==
  /\ mode = "tasks" /\ due[a] # -1
  /\ alt_alarm_stop(a)
  /\ UNCHANGED <<_alt_tick_rate, _alt_nticks, time, rollover, at, after, mode, cut>>

-----------------------------------------------------------------------------
(* The interrupt counts the tick and goes to the first alarm.              *)
alt_avalon_timer_sc_irq ==
  /\ _alt_tick_rate
  /\ mode = "tasks" /\ mode' = "walk"
  /\ _alt_nticks' = (_alt_nticks + 1) % W
  /\ at' = next[HEAD]
  /\ due' = [a \in Alarm |-> IF due[a] > 0 THEN due[a] - 1 ELSE due[a]]
  /\ UNCHANGED <<_alt_tick_rate, links, time, rollover, after, cut>>

Expired(a) == time[a] <= _alt_nticks /\ ~rollover'[a]

(* One alarm: the rollover is cleared when the counter has come to 0, and  *)
(* the callback is called if the time has come.                            *)
alt_tick ==
  /\ mode = "walk" /\ at # HEAD
  /\ rollover' = IF _alt_nticks = 0 THEN [rollover EXCEPT ![at] = FALSE] ELSE rollover
  /\ IF Expired(at)
       THEN mode' = "callback" /\ after' = next[at] /\ UNCHANGED at
       ELSE at' = next[at] /\ UNCHANGED <<mode, after>>
  /\ UNCHANGED <<_alt_tick_rate, _alt_nticks, links, time, cut, due>>

(* The callback stops an alarm (if it is the one that alt_tick goes on     *)
(* with, alt_tick goes on with an alarm that is linked to itself) or       *)
(* starts one ...                                                          *)
CallbackStops(b) ==
  /\ mode = "callback" /\ due[b] # -1
  /\ alt_alarm_stop(b)
  /\ cut' = (cut \/ b = after)
  /\ UNCHANGED <<_alt_tick_rate, _alt_nticks, time, rollover, at, after, mode>>

CallbackStarts(b, n) ==
  /\ mode = "callback" /\ b # at
  /\ alt_alarm_start(b, n)
  /\ UNCHANGED <<_alt_tick_rate, _alt_nticks, at, after, mode, cut>>

(* ... and returns 0: no more calls ...                                    *)
CallbackEnds ==
  /\ mode = "callback" /\ mode' = "walk"
  /\ alt_alarm_stop(at)
  /\ at' = after /\ after' = HEAD
  /\ UNCHANGED <<_alt_tick_rate, _alt_nticks, time, rollover, cut>>

NextTime(n) ==
  /\ time' = [time EXCEPT ![at] = (@ + n) % W]
  /\ rollover' = [rollover EXCEPT ![at] = @ \/ time'[at] < _alt_nticks]

(* ... or the ticks until the next one.                                    *)
CallbackRepeats(n) ==
  /\ mode = "callback" /\ mode' = "walk"
  /\ NextTime(n)
  /\ due' = IF due[at] = -1 THEN due ELSE [due EXCEPT ![at] = n]
  /\ at' = after /\ after' = HEAD
  /\ UNCHANGED <<_alt_tick_rate, _alt_nticks, links, cut>>

(* The end of the list: OSTimeTick (ClockTick of UcosCore), and back.      *)
TickEnds ==
  /\ mode = "walk" /\ at = HEAD
  /\ mode' = "tasks" /\ cut' = FALSE
  /\ UNCHANGED <<_alt_tick_rate, _alt_nticks, links, time, rollover, at, after, due>>

ClockNext ==
  \/ alt_avalon_timer_sc_init
  \/ \E a \in Alarm, n \in Delay : TaskStarts(a, n) \/ CallbackStarts(a, n)
  \/ \E a \in Alarm : TaskStops(a) \/ CallbackStops(a)
  \/ alt_avalon_timer_sc_irq \/ alt_tick \/ TickEnds
  \/ CallbackEnds
  \/ \E n \in Interval : CallbackRepeats(n)

-----------------------------------------------------------------------------
(* PROPERTIES                                                              *)

Started == {a \in Alarm : due[a] # -1}

(* Every alarm rings exactly when it is to: n + 1 ticks after a start, n   *)
(* ticks after a callback that asked for n more, be it across the          *)
(* counter's end; never before, in no tick twice, and when the tick's work *)
(* is done none has been left out, whatever the callbacks of one tick      *)
(* start and stop (alt_alarm_start.c:87-94, alt_tick.c:105-143).  That it  *)
(* gets done is not so when a callback has stopped the alarm after its     *)
(* own: only then alt_tick comes to an alarm that is not in the list,      *)
(* whose next one is itself.  The list holds the alarms that are started,  *)
(* and each other's neighbours.                                            *)
AlarmsOnTime ==
  /\ mode = "callback" => due[at] \in {-1, 0}
  /\ mode = "walk" /\ at # HEAD /\ next[at] = at => cut
  /\ mode = "tasks" => 0 \notin {due[a] : a \in Alarm}
  /\ \A a \in Alarm : a \in Started <=> next[a] # a
  /\ \A e \in Entry : previous[next[e]] = e
  /\ {next[e] : e \in Started \cup {HEAD}} = Started \cup {HEAD}
=============================================================================
