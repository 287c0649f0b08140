----------------------- MODULE PacketInMonitorProofs ------------------------
(***************************************************************************)
(* Proofs that the safety properties of PacketInMonitor hold for every     *)
(* threshold, every width of the counter and any number of PACKET_INs.     *)
(***************************************************************************)
EXTENDS PacketInMonitor, TLAPS

\* The counter stays in its range and never exceeds what it counts.
LEMMA CounterStep ==
  ASSUME NEW k \in 0 .. CounterMod - 1
  PROVE  Increment(k) \in 0 .. CounterMod - 1 /\ Increment(k) <= k + 1
  <1>1. CounterMod \in Nat \ {0}
    BY MonitorAssumption
  <1>2. CASE k + 1 = CounterMod
    <2>1. Increment(k) = 0
      BY <1>1, <1>2 DEF Increment
    <2> QED
      BY <1>1, <2>1
  <1>3. CASE k + 1 < CounterMod
    <2>1. Increment(k) = k + 1
      BY <1>1, <1>3 DEF Increment
    <2> QED
      BY <1>1, <1>3, <2>1
  <1> QED
    BY <1>1, <1>2, <1>3

\* What can happen to the monitor, however many PACKET_INs come.
Steps ==
  \/ start \/ stop
  \/ \E m \in Messages : add_counter(m)
  \/ follow
  \/ clear
  \/ UNCHANGED mvars

LEMMA NextSteps == [Next]_mvars => Steps
  BY DEF Next, Steps

LEMMA TypedInit == Init => TypeOK
  BY MonitorAssumption DEF Init, TypeOK, Worker

LEMMA TypedStep == TypeOK /\ Steps => TypeOK'
  <1> SUFFICES ASSUME TypeOK, Steps PROVE TypeOK'
    OBVIOUS
  <1> USE DEF TypeOK, Worker, history
  <1>1. ASSUME NEW m \in Messages, add_counter(m) PROVE TypeOK'
    BY <1>1, CounterStep DEF add_counter
  <1>2. CASE start
    BY <1>2 DEF start
  <1>3. CASE stop
    BY <1>3 DEF stop
  <1>4. CASE follow
    BY <1>4 DEF follow
  <1>5. CASE clear
    BY <1>5, MonitorAssumption DEF clear, while, reset, sample, action, Cleared
  <1>6. CASE UNCHANGED mvars
    BY <1>6 DEF mvars
  <1> QED
    BY <1>1, <1>2, <1>3, <1>4, <1>5, <1>6 DEF Steps

\* Every variable keeps its type, the counter its width: PKTINMonitor.
THEOREM TypeCorrect == Spec => []TypeOK
  BY NextSteps, TypedInit, TypedStep, PTL DEF Spec

-----------------------------------------------------------------------------
(* Why no PACKET_IN pays for two triggers: the triggers so far were paid   *)
(* for by what arrived before the counter was last cleared, and what the   *)
(* counter shows during a sleep arrived after that.                        *)

Paid ==
  /\ mark <= arrived
  /\ triggers * thresh_hold_ <= arrived
  /\ worker \in {"sleep", "action"} => triggers * thresh_hold_ <= mark
  /\ worker = "sleep" => counter <= arrived - mark
  /\ worker = "action" => thresh_hold_ <= arrived - mark

LEMMA PaidInit == Init => Paid
  BY MonitorAssumption DEF Init, Paid

LEMMA PaidStep == TypeOK /\ Paid /\ Steps => Paid'
  <1> SUFFICES ASSUME TypeOK, Paid, Steps PROVE Paid'
    OBVIOUS
  <1> DEFINE due == triggers * thresh_hold_
  <1>0. due \in Nat /\ thresh_hold_ \in Nat
    BY MonitorAssumption DEF TypeOK
  <1> USE DEF Paid, history
  <1>1. ASSUME NEW m \in Messages, add_counter(m) PROVE Paid'
    <2>1. counter' <= counter + 1 /\ counter' \in Nat
      BY <1>1, CounterStep, MonitorAssumption DEF add_counter, TypeOK
    <2>2. arrived' = arrived + 1 /\ UNCHANGED <<worker, mark, triggers>>
      BY <1>1 DEF add_counter
    <2>3. due' = due
      BY <2>2
    <2> HIDE DEF due
    <2>4. /\ due <= arrived
          /\ worker \in {"sleep", "action"} => due <= mark
      BY DEF due
    <2>5. /\ due' <= arrived'
          /\ worker' \in {"sleep", "action"} => due' <= mark'
      BY <1>0, <2>2, <2>3, <2>4 DEF TypeOK
    <2>6. /\ mark' <= arrived'
          /\ worker' = "sleep" => counter' <= arrived' - mark'
          /\ worker' = "action" => thresh_hold_ <= arrived' - mark'
      BY <1>0, <2>1, <2>2 DEF TypeOK
    <2> QED
      BY <2>5, <2>6 DEF due
  <1>2. CASE start
    BY <1>2 DEF start
  <1>3. CASE stop
    BY <1>3 DEF stop
  <1>4. CASE follow
    BY <1>4 DEF follow
  <1>5. CASE while
    BY <1>5 DEF while
  <1>6. CASE reset
    BY <1>0, <1>6 DEF reset, Cleared, TypeOK
  <1>7. CASE sample
    BY <1>0, <1>7 DEF sample, Reached, TypeOK
  <1>8. CASE action
    <2>1. triggers' * thresh_hold_ = due + thresh_hold_
      BY <1>0, <1>8 DEF action, TypeOK
    <2>2. due <= mark /\ thresh_hold_ <= arrived - mark
      BY <1>8 DEF action
    <2> HIDE DEF due
    <2>3. due + thresh_hold_ <= arrived
      BY <1>0, <2>2 DEF TypeOK
    <2> QED
      BY <1>8, <2>1, <2>3 DEF action
  <1>9. CASE UNCHANGED mvars
    BY <1>9 DEF mvars
  <1> QED
    BY <1>1, <1>2, <1>3, <1>4, <1>5, <1>6, <1>7, <1>8, <1>9 DEF Steps, clear

\* Every call of action_ has thresh_hold_ PACKET_INs of its own, whatever
\* arrives while clear() compares, acts and clears.
THEOREM TriggersPaidFor == Spec => []EveryTriggerPaidFor
  <1>1. Paid => EveryTriggerPaidFor
    BY DEF Paid, EveryTriggerPaidFor
  <1> QED
    BY NextSteps, PaidInit, PaidStep, TypeCorrect, <1>1, PTL DEF Spec

-----------------------------------------------------------------------------
(* Why stop() is followed by at most one trigger: after it, the loop       *)
(* condition fails at the end of the period in which it came.              *)

Late ==
  /\ is_running => lateTriggers = 0
  /\ lateTriggers # 0 => lateTriggers = 1 /\ worker \in {"test", "ended"}

\* However stop() falls into the sample period, action_ is called at most once
\* after it.
THEOREM OneLateTrigger == Spec => []AtMostOneLateTrigger
  <1>1. Init => Late
    BY DEF Init, Late
  <1>2. TypeOK /\ Late /\ [Next]_mvars => Late'
    <2> SUFFICES ASSUME TypeOK, Late, [Next]_mvars PROVE Late'
      OBVIOUS
    <2> USE DEF Late, history
    <2>1. ASSUME NEW m \in Messages, add_counter(m) PROVE Late'
      BY <2>1 DEF add_counter
    <2>2. CASE start
      BY <2>2 DEF start
    <2>3. CASE stop
      BY <2>3 DEF stop
    <2>4. CASE follow
      BY <2>4 DEF follow
    <2>5. CASE clear
      BY <2>5 DEF clear, while, reset, sample, action, TypeOK
    <2>6. CASE UNCHANGED mvars
      BY <2>6 DEF mvars
    <2> QED
      BY <2>1, <2>2, <2>3, <2>4, <2>5, <2>6 DEF Next
  <1>3. Late => AtMostOneLateTrigger
    BY DEF Late, AtMostOneLateTrigger
  <1> QED
    BY <1>1, <1>2, <1>3, TypeCorrect, PTL DEF Spec

-----------------------------------------------------------------------------
(* Why the counter is exact during a sleep: it counts modulo CounterMod.   *)

LEMMA Remainder ==
  ASSUME NEW n \in Nat \ {0}, NEW q \in Int, NEW r \in 0 .. n - 1
  PROVE  (n * q + r) % n = r
  BY SMTT(30)

\* Counting on from a remainder is counting on from the number itself.
LEMMA RemainderStep ==
  ASSUME NEW n \in Nat \ {0}, NEW x \in Nat
  PROVE  ((x % n) + 1) % n = (x + 1) % n
  <1> DEFINE q == x \div n
             r == x % n
  <1>1. q \in Int /\ r \in 0 .. n - 1 /\ x = n * q + r
    BY SMTT(30)
  <1> HIDE DEF q, r
  <1>2. CASE r + 1 < n
    <2>1. x + 1 = n * q + (r + 1) /\ r + 1 \in 0 .. n - 1
      BY <1>1, <1>2
    <2>2. (x + 1) % n = r + 1
      BY <1>1, <2>1, Remainder
    <2>3. (r + 1) % n = r + 1
      BY <1>1, <1>2
    <2> QED
      BY <2>2, <2>3 DEF r
  <1>3. CASE r + 1 = n
    <2>1. x + 1 = n * (q + 1) + 0 /\ q + 1 \in Int
      BY <1>1, <1>3
    <2>2. (x + 1) % n = 0
      BY <1>1, <2>1, Remainder
    <2>3. (r + 1) % n = 0
      BY <1>1, <1>3
    <2> QED
      BY <2>2, <2>3 DEF r
  <1> QED
    BY <1>1, <1>2, <1>3

\* The remainder is that of what came since the counter was last cleared.
Exact == mark <= arrived /\ SleepCountsAll

LEMMA ExactInit == Init => Exact
  BY DEF Init, Exact, SleepCountsAll

LEMMA ExactStep == TypeOK /\ Exact /\ Steps => Exact'
  <1> SUFFICES ASSUME TypeOK, Exact, Steps PROVE Exact'
    OBVIOUS
  <1> USE DEF Exact, SleepCountsAll, history
  <1>1. ASSUME NEW m \in Messages, add_counter(m) PROVE Exact'
    <2>1. arrived' - mark' = (arrived - mark) + 1 /\ arrived - mark \in Nat
      BY <1>1 DEF add_counter, TypeOK
    <2>2. worker = "sleep" => counter' = (arrived' - mark') % CounterMod
      BY <1>1, <2>1, RemainderStep, MonitorAssumption DEF add_counter, Increment
    <2> QED
      BY <1>1, <2>2 DEF add_counter, TypeOK
  <1>2. CASE start
    BY <1>2 DEF start
  <1>3. CASE stop
    BY <1>3 DEF stop
  <1>4. CASE follow
    BY <1>4 DEF follow
  <1>5. CASE reset
    BY <1>5, MonitorAssumption DEF reset, Cleared, TypeOK
  <1>6. CASE while \/ sample \/ action
    BY <1>6 DEF while, sample, action
  <1>7. CASE UNCHANGED mvars
    BY <1>7 DEF mvars
  <1> QED
    BY <1>1, <1>2, <1>3, <1>4, <1>5, <1>6, <1>7 DEF Steps, clear

\* A PACKET_IN that comes while the worker sleeps is never lost to the racing
\* counter = 0: the counter is the number that came since, as wide as it is.
THEOREM SleepCounts == Spec => []SleepCountsAll
  BY NextSteps, ExactInit, ExactStep, TypeCorrect, PTL DEF Spec, Exact

\* action_ is next if and only if thresh_hold_ PACKET_INs came since the counter
\* was cleared, unless they are so many that the counter wrapped.
Decides ==
  sample /\ arrived - mark < CounterMod
    => (worker' = "action" <=> thresh_hold_ <= arrived - mark)

\* The sample that ends a sleep decides rightly, whatever came in during the
\* sleep and whenever stop() was called: no burst is missed and none made up.
THEOREM SampleDecides == Spec => [][Decides]_mvars
  <1>1. TypeOK /\ Exact => Decides
    <2> SUFFICES ASSUME TypeOK, Exact, sample, arrived - mark < CounterMod
                 PROVE  worker' = "action" <=> thresh_hold_ <= arrived - mark
      BY DEF Decides
    <2>1. arrived - mark \in 0 .. CounterMod - 1
      BY MonitorAssumption DEF TypeOK, Exact
    <2>2. counter = (arrived - mark) % CounterMod
      BY DEF Exact, SleepCountsAll, sample
    <2>3. counter = arrived - mark
      BY <2>1, <2>2, MonitorAssumption
    <2>4. worker' = IF counter >= thresh_hold_ THEN "action" ELSE "test"
      BY DEF sample, Reached
    <2> QED
      BY <2>1, <2>3, <2>4, MonitorAssumption
  <1>2. TypeOK /\ Exact /\ [Next]_mvars => [Decides]_mvars
    BY <1>1
  <1> QED
    BY <1>2, NextSteps, ExactInit, ExactStep, TypeCorrect, PTL DEF Spec
=============================================================================
