-------------------------- MODULE PacketInMonitor ---------------------------
(***************************************************************************)
(* PKTINMonitor (PacketInMonitor.h).  The io thread counts PACKET_INs and  *)
(* passes them to follow_; a worker thread samples the counter once per    *)
(* period, calls action_ when it has reached the threshold, and clears it. *)
(* The two threads share counter, an atomic_uint; is_running is set by     *)
(* whoever calls stop().                                                   *)
(*                                                                         *)
(* The sample period is a sleep of arbitrary length.  arrived, mark,       *)
(* triggers and lateTriggers only record history.                          *)
(***************************************************************************)
EXTENDS Integers

CONSTANTS
  thresh_hold_,  \* PACKET_INs per sample period that trigger action_
  CounterMod,    \* counter is arithmetic modulo CounterMod (2^32)
  Messages,      \* the PACKET_INs
  NoMessage,     \* no PACKET_IN is between add_counter and follow_
  MaxArrived     \* bound: PACKET_INs

ASSUME MonitorAssumption ==
  /\ thresh_hold_ \in Nat
  /\ CounterMod \in Nat \ {0}
  /\ NoMessage \notin Messages
  /\ MaxArrived \in Nat

VARIABLES
  worker,        \* the worker thread: not created, or what it does next
  is_running,
  counter,
  following,     \* the PACKET_IN onMessage has counted and not yet passed on
  arrived,       \* how many PACKET_INs were counted in all
  mark,          \* arrived when the counter was last cleared
  triggers,      \* how often action_ was called
  lateTriggers   \* how often after stop()

mvars == <<worker, is_running, counter, following, arrived, mark, triggers, lateTriggers>>

Worker == {"NULL", "test", "reset", "sleep", "action", "ended"}

Init ==
  /\ worker = "NULL"
  /\ is_running = TRUE
  /\ counter = 0
  /\ following = NoMessage
  /\ arrived = 0 /\ mark = 0 /\ triggers = 0 /\ lateTriggers = 0

history == <<arrived, mark, triggers, lateTriggers>>

-----------------------------------------------------------------------------
(* The owner of the monitor. *)

\* There is one worker for good: start() after stop() does nothing.
start ==
  /\ worker = "NULL"
  /\ worker' = "test"
  /\ UNCHANGED <<is_running, counter, following, history>>

stop ==
  /\ is_running' = FALSE
  /\ UNCHANGED <<worker, counter, following, history>>

-----------------------------------------------------------------------------
(* The io thread: onMessage is add_counter, then follow_. *)

\* A bug: the counter stops at the threshold.
IncrementSaturated(n) == IF n < thresh_hold_ THEN n + 1 ELSE n

\* ++counter of an atomic_uint.
Increment(n) == (n + 1) % CounterMod

add_counter(m) ==
  /\ following = NoMessage
  /\ counter' = Increment(counter)
  /\ arrived' = arrived + 1
  /\ following' = m
  /\ UNCHANGED <<worker, is_running, mark, triggers, lateTriggers>>

follow ==
  /\ following # NoMessage
  /\ following' = NoMessage
  /\ UNCHANGED <<worker, is_running, counter, history>>

-----------------------------------------------------------------------------
(* The worker thread: clear(). *)

\* A bug: while(true).
while_true ==
  /\ worker = "test"
  /\ worker' = "reset"
  /\ UNCHANGED <<is_running, counter, following, history>>

while ==
  /\ worker = "test"
  /\ worker' = IF is_running THEN "reset" ELSE "ended"
  /\ UNCHANGED <<is_running, counter, following, history>>

\* Bugs: the counter is not cleared; only what was acted on is taken off.
NotCleared(n) == n
TakenOff(n) == n - thresh_hold_

\* counter = 0.
Cleared(n) == 0

reset ==
  /\ worker = "reset"
  /\ counter' = Cleared(counter)
  /\ mark' = arrived
  /\ worker' = "sleep"
  /\ UNCHANGED <<is_running, following, arrived, triggers, lateTriggers>>

\* A bug: more than the threshold instead of at least.
Above(n) == n > thresh_hold_

Reached(n) == n >= thresh_hold_

\* The sleep is over: the counter is read once and compared.
sample ==
  /\ worker = "sleep"
  /\ worker' = IF Reached(counter) THEN "action" ELSE "test"
  /\ UNCHANGED <<is_running, counter, following, history>>

action ==
  /\ worker = "action"
  /\ triggers' = triggers + 1
  /\ lateTriggers' = IF is_running THEN lateTriggers ELSE lateTriggers + 1
  /\ worker' = "test"
  /\ UNCHANGED <<is_running, counter, following, arrived, mark>>

clear == while \/ reset \/ sample \/ action

-----------------------------------------------------------------------------
Next ==
  \/ start \/ stop
  \/ \E m \in Messages : arrived < MaxArrived /\ add_counter(m)
  \/ follow
  \/ clear

\* Both threads are scheduled, and a sleep ends.
Fairness == WF_mvars(clear) /\ WF_mvars(follow)

Spec == Init /\ [][Next]_mvars /\ Fairness

-----------------------------------------------------------------------------
TypeOK ==
  /\ worker \in Worker
  /\ is_running \in BOOLEAN
  /\ counter \in 0 .. CounterMod - 1
  /\ following \in Messages \cup {NoMessage}
  /\ arrived \in Nat /\ mark \in Nat /\ triggers \in Nat /\ lateTriggers \in Nat

\* No PACKET_IN is counted for two triggers: every call of action_ has
\* thresh_hold_ PACKET_INs of its own, whatever arrives while the worker
\* compares, acts and clears.
EveryTriggerPaidFor == triggers * thresh_hold_ <= arrived

\* Clearing races with counting and may lose PACKET_INs, but only those that
\* come between a sample and the clearing after it: while the worker sleeps,
\* the counter is what came in since it was last cleared.
SleepCountsAll == worker = "sleep" => counter = (arrived - mark) % CounterMod

\* stop() may come at any point of a sample period: action_ is called at most
\* once more.
AtMostOneLateTrigger == lateTriggers <= 1

\* A stopped monitor's worker comes to its end.
StopEndsWorker == (~is_running /\ worker # "NULL") ~> [](worker = "ended")

\* thresh_hold_ PACKET_INs within one sample period trigger action_, also when
\* stop() comes in between.
BurstTriggers ==
  \A n \in 0 .. MaxArrived :
    (worker = "sleep" /\ arrived - mark >= thresh_hold_ /\ triggers = n)
      ~> triggers > n
=============================================================================
