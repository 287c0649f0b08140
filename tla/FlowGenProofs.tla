---------------------------- MODULE FlowGenProofs ----------------------------
(***************************************************************************)
(* Proofs, for any length of a second and any rate, of what a_burst() may  *)
(* rely on although timeval_subtract() changes its argument: the burst's   *)
(* beginning is kept and the burst ends on time.  And no flow is sent      *)
(* twice before the counters have gone round.                              *)
(***************************************************************************)
EXTENDS FlowGen, TLAPS

Stamp == [sec : Int, nsec : Int]

-----------------------------------------------------------------------------
(* The arithmetic of timespecs. *)

LEMMA Quotient ==
  ASSUME NEW m \in Nat, NEW n \in Nat \ {0}
  PROVE  m \div n \in Nat /\ m % n \in 0 .. n - 1 /\ m = (m \div n) * n + (m % n)
  BY SMTT(30)

LEMMA Small ==
  ASSUME NEW n \in Nat \ {0}, NEW r \in 0 .. n - 1
  PROVE  r % n = r
  BY SMTT(30)

LEMMA OneMore ==
  ASSUME NEW k \in Int, NEW n \in Int
  PROVE  (k + 1) * n = k * n + n /\ (k - 1) * n = k * n - n
  BY SMTT(30)

\* The clock's timespec is normal and stands for the time.
LEMMA ClockTime ==
  ASSUME NEW time \in Nat
  PROVE  /\ Timespec(time) \in Stamp
         /\ Timespec(time).sec \in Nat
         /\ Timespec(time).nsec \in 0 .. Nsec - 1
         /\ Total(Timespec(time)) = time
  <1>1. Nsec \in Nat \ {0}
    BY TimespecAssumption
  <1>2. time \div Nsec \in Nat /\ time % Nsec \in 0 .. Nsec - 1
        /\ time = (time \div Nsec) * Nsec + (time % Nsec)
    BY <1>1, Quotient
  <1> QED
    BY <1>1, <1>2 DEF Timespec, Total, Stamp

\* A second's nanoseconds fit an int: the product does not overflow.
LEMMA OneSecond == product(1) = {Nsec}
  <1>1. Nsec \in Nat \ {0} /\ UInt32Mod \in Nat /\ UInt32Mod > 4 * Nsec
    BY TimespecAssumption
  <1>2. Int32Half \in Nat /\ Nsec + Int32Half \in 0 .. UInt32Mod - 1
    BY <1>1 DEF Int32Half
  <1>3. (Nsec + Int32Half) % UInt32Mod = Nsec + Int32Half
    BY <1>1, <1>2, Small
  <1>4. int32(Nsec) = Nsec
    BY <1>1, <1>2, <1>3 DEF int32
  <1>5. Nsec * 1 = Nsec
    BY <1>1
  <1> QED
    BY <1>4, <1>5 DEF product

LEMMA ProductType == \A n \in Int : product(n) \subseteq Int
  <1> SUFFICES ASSUME NEW n \in Int PROVE product(n) \subseteq Int
    OBVIOUS
  <1>1. Nsec \in Nat /\ UInt32Mod \in Nat \ {0}
    BY TimespecAssumption
  <1>2. Nsec * n \in Int
    BY <1>1
  <1>3. Int32Half \in Int
    BY <1>1 DEF Int32Half
  <1>4. \A m \in Int : m % UInt32Mod \in Int
    BY <1>1, SMTT(30)
  <1>5. int32(Nsec * n) \in Int
    BY <1>2, <1>3, <1>4 DEF int32
  <1> QED
    BY <1>2, <1>5 DEF product

LEMMA ChangedType ==
  ASSUME NEW x \in Stamp, NEW y \in Stamp
  PROVE  Changed(x, y) \subseteq Stamp
  <1>1. \A m \in Int : m \div Nsec \in Int
    BY TimespecAssumption, SMTT(30)
  <1>2. \A u \in Stamp : u.sec \in Int /\ u.nsec \in Int
    BY DEF Stamp
  <1>3. Borrow(x, y) \subseteq Stamp
    BY <1>1, <1>2, ProductType DEF Borrow, Stamp
  <1>4. \A z \in Stamp : GiveBack(x, z) \subseteq Stamp
    BY <1>1, <1>2, ProductType DEF GiveBack, Stamp
  <1> QED
    BY <1>3, <1>4 DEF Changed

-----------------------------------------------------------------------------
(* timeval_subtract() called again and again with the same y. *)

\* y's nanoseconds stay within a second of zero, on either side.
Near(t) == t \in Stamp /\ -Nsec < t.nsec /\ t.nsec < Nsec

LEMMA BorrowsOne ==
  ASSUME NEW x \in Stamp, x.nsec \in 0 .. Nsec - 1, NEW y, Near(y), NEW z \in Borrow(x, y)
  PROVE  Near(z) /\ Total(z) = Total(y) /\ x.nsec - z.nsec \in 0 .. 2 * Nsec
  <1>1. Nsec \in Nat \ {0}
    BY TimespecAssumption
  <1>2. y \in Stamp /\ y.sec \in Int /\ y.nsec \in Int /\ -Nsec < y.nsec /\ y.nsec < Nsec
    BY DEF Near, Stamp
  <1>3. CASE x.nsec < y.nsec
    <2>1. (y.nsec - x.nsec) \div Nsec = 0
      BY <1>1, <1>2, <1>3, SMTT(30)
    <2>2. z = [sec |-> y.sec + 1, nsec |-> y.nsec - Nsec]
      BY <1>2, <1>3, <2>1, OneSecond DEF Borrow
    <2>3. (y.sec + 1) * Nsec = y.sec * Nsec + Nsec /\ y.sec * Nsec \in Int
      BY <1>1, <1>2, OneMore
    <2>4. Total(z) = Total(y)
      BY <1>1, <1>2, <2>2, <2>3 DEF Total
    <2> QED
      BY <1>1, <1>2, <1>3, <2>2, <2>4 DEF Near, Stamp
  <1>4. CASE ~(x.nsec < y.nsec)
    <2>1. z = y
      BY <1>4 DEF Borrow
    <2> QED
      BY <1>1, <1>2, <1>4, <2>1
  <1> QED
    BY <1>3, <1>4

\* The call leaves y standing for the same instant, its nanoseconds at most a
\* second behind those of x.
LEMMA ChangedKeeps ==
  ASSUME NEW x \in Stamp, x.nsec \in 0 .. Nsec - 1, NEW y, Near(y), NEW z \in Changed(x, y)
  PROVE  Near(z) /\ Total(z) = Total(y) /\ x.nsec - z.nsec \in 0 .. Nsec
  <1>1. Nsec \in Nat \ {0}
    BY TimespecAssumption
  <1>2. PICK b \in Borrow(x, y) : z \in GiveBack(x, b)
    BY DEF Changed
  <1>3. Near(b) /\ Total(b) = Total(y) /\ x.nsec - b.nsec \in 0 .. 2 * Nsec
    BY <1>2, BorrowsOne
  <1>4. b \in Stamp /\ b.sec \in Int /\ b.nsec \in Int /\ -Nsec < b.nsec /\ b.nsec < Nsec
    BY <1>3 DEF Near, Stamp
  <1>5. CASE x.nsec - b.nsec > Nsec
    <2>1. (x.nsec - b.nsec) \div Nsec = 1
      BY <1>1, <1>4, <1>5, SMTT(30)
    <2>2. z = [sec |-> b.sec - 1, nsec |-> b.nsec + Nsec]
      BY <1>2, <1>5, <2>1, OneSecond DEF GiveBack
    <2>3. (b.sec - 1) * Nsec = b.sec * Nsec - Nsec /\ b.sec * Nsec \in Int
      BY <1>1, <1>4, OneMore
    <2>4. Total(z) = Total(b)
      BY <1>1, <1>4, <2>2, <2>3 DEF Total
    <2> QED
      BY <1>1, <1>3, <1>4, <1>5, <2>2, <2>4 DEF Near, Stamp
  <1>6. CASE ~(x.nsec - b.nsec > Nsec)
    <2>1. z = b
      BY <1>2, <1>6 DEF GiveBack
    <2> QED
      BY <1>1, <1>3, <1>4, <1>6, <2>1
  <1> QED
    BY <1>5, <1>6

-----------------------------------------------------------------------------
(* Types, and the beginning of the burst. *)

LEMMA AddType ==
  ASSUME NEW x \in Stamp, NEW y \in Stamp
  PROVE  timespec_add(x, y) \in Stamp
  <1>1. \A m \in Int : m % UInt32Mod \in Int
    BY TimespecAssumption, SMTT(30)
  <1>2. Nsec \in Int /\ x.sec \in Int /\ x.nsec \in Int /\ y.sec \in Int /\ y.nsec \in Int
    BY TimespecAssumption DEF Stamp
  <1> QED
    BY <1>1, <1>2 DEF timespec_add, uint32, Stamp

LEMMA DifferenceType ==
  ASSUME NEW x \in Stamp, NEW y \in Stamp
  PROVE  Difference(x, y) \in Stamp
  BY DEF Difference, Stamp

\* What nanosleep() is asked for is no negative time.
LEMMA SleepType ==
  ASSUME NEW x \in Stamp, NEW y \in Stamp, ~IsNegative(x, y), Normal(Difference(x, y))
  PROVE  Total(Difference(x, y)) \in Nat
  <1>1. x.sec - y.sec \in Nat /\ x.nsec - y.nsec \in Nat
    BY DEF Stamp, IsNegative, Normal, Difference
  <1>2. \A a, b \in Nat : a * b \in Nat
    BY SMTT(30)
  <1>3. (x.sec - y.sec) * Nsec \in Nat
    BY <1>1, <1>2, TimespecAssumption
  <1> QED
    BY <1>1, <1>3 DEF Total, Difference

\* Between two checks sec_beg is near the beginning of a second.
Begun == at # "idle" => Near(sec_beg) /\ Total(sec_beg) = beg

Kept == TypeOK /\ Begun

LEMMA KeptInit == Init => Kept
  <1> SUFFICES ASSUME Init PROVE Kept
    OBVIOUS
  <1>1. now \in Nat /\ Nsec \in Nat /\ MacMod \in Nat \ {0, 1} /\ MaxDelays \in Nat /\ MaxBursts \in Nat
    BY TimespecAssumption, FlowGenAssumption DEF Init
  <1>2. MacMod - 2 \in 0 .. MacMod - 1
    BY <1>1 DEF Init
  <1> QED
    BY <1>1, <1>2 DEF Init, Kept, TypeOK, Begun, Zero

LEMMA KeptBurst ==
  ASSUME Kept, NEW rate \in Rates, a_burst(rate)
  PROVE  Kept'
  <1>1. now \in Nat /\ rate \in Nat \ {0} /\ Nsec \in Nat \ {0}
    BY TimespecAssumption, FlowGenAssumption DEF Kept, TypeOK
  <1>2. Near(Timespec(now)) /\ Timespec(now) \in Stamp /\ Total(Timespec(now)) = now
    BY <1>1, ClockTime DEF Near
  <1>3. nsleep' \in Stamp
    <2>1. Nsec \div rate \in Int
      BY <1>1, Quotient
    <2> QED
      BY <2>1 DEF a_burst, Stamp
  <1>4. deadline' \in Stamp
    BY <1>2, <1>3, AddType DEF a_burst
  <1>5. /\ at' = "while" /\ sec_beg' = Timespec(now) /\ pkt_sent' = 0 /\ beg' = now
        /\ bursts' = bursts + 1 /\ bursts < MaxBursts
        /\ late' = 0
        /\ UNCHANGED <<now, asleep, delays, result, members>>
    BY DEF a_burst
  <1>6. TypeOK'
    BY <1>1, <1>2, <1>3, <1>4, <1>5, FlowGenAssumption DEF Kept, TypeOK, Stamp, members
  <1>7. Begun'
    BY <1>2, <1>5 DEF Begun, Near, Total
  <1> QED
    BY <1>6, <1>7 DEF Kept

LEMMA KeptCheck ==
  ASSUME Kept, check
  PROVE  /\ Kept'
         /\ result' = Difference(Timespec(now), sec_beg')
         /\ now \in Nat /\ beg \in Nat
         /\ Near(sec_beg') /\ Total(sec_beg') = beg
         /\ Timespec(now).nsec - sec_beg'.nsec \in 0 .. Nsec
  <1> DEFINE x == Timespec(now)
  <1>1. now \in Nat /\ beg \in 0 .. now /\ at = "while" /\ is_run
    BY DEF Kept, TypeOK, check
  <1>2. x \in Stamp /\ x.nsec \in 0 .. Nsec - 1
    BY <1>1, ClockTime
  <1>3. Near(sec_beg) /\ Total(sec_beg) = beg
    BY <1>1 DEF Kept, Begun
  <1>4. /\ sec_beg' \in Changed(x, sec_beg)
        /\ result' = Difference(x, sec_beg')
        /\ is_run' = (result'.sec < LastSec)
        /\ at' = IF is_run' THEN "send" ELSE "idle"
        /\ UNCHANGED <<now, asleep, pkt_sent, delays, nsleep, deadline, failed, src, dst, history>>
    BY DEF check
  <1> HIDE DEF x
  <1>5. Near(sec_beg') /\ Total(sec_beg') = beg /\ x.nsec - sec_beg'.nsec \in 0 .. Nsec
    BY <1>2, <1>3, <1>4, ChangedKeeps
  <1>6. sec_beg' \in Stamp /\ result' \in Stamp
    BY <1>2, <1>4, <1>5, DifferenceType DEF Near
  <1>7. TypeOK'
    BY <1>4, <1>6 DEF Kept, TypeOK, Stamp, history
  <1>8. Begun'
    <2>1. Near(sec_beg)' /\ Total(sec_beg)' = Total(sec_beg')
      BY <1>5 DEF Near, Total
    <2> QED
      BY <1>4, <1>5, <2>1 DEF Begun, history
  <1> QED
    BY <1>1, <1>4, <1>5, <1>7, <1>8 DEF Kept, x

LEMMA KeptPace ==
  ASSUME Kept, pace
  PROVE  Kept'
  <1>1. now \in Nat /\ deadline \in Stamp /\ nsleep \in Stamp
    BY DEF Kept, TypeOK, Stamp
  <1>2. Timespec(now) \in Stamp /\ deadline' \in Stamp
    BY <1>1, ClockTime, AddType DEF pace
  <1>3. PICK y \in Changed(deadline', Timespec(now)) :
          /\ result' = Difference(deadline', y)
          /\ asleep' = IF ~IsNegative(deadline', y) /\ Normal(result')
                       THEN Total(result') ELSE 0
    BY DEF pace
  <1>4. y \in Stamp
    BY <1>2, <1>3, ChangedType
  <1>5. result' \in Stamp /\ asleep' \in Nat
    BY <1>2, <1>3, <1>4, DifferenceType, SleepType
  <1>6. TypeOK'
    BY <1>2, <1>5 DEF Kept, TypeOK, pace, Stamp, members, history
  <1>7. Begun'
    BY DEF Kept, Begun, pace, history, Near, Total
  <1> QED
    BY <1>6, <1>7 DEF Kept

LEMMA KeptSend ==
  ASSUME Kept, send
  PROVE  Kept'
  <1>1. src \in Int /\ dst \in Int /\ MacMod \in Nat \ {0}
    BY FlowGenAssumption DEF Kept, TypeOK
  <1>2. \A m \in Int : m % MacMod \in 0 .. MacMod - 1
    BY <1>1, SMTT(30)
  <1>3. src' \in 0 .. MacMod - 1 /\ dst' \in 0 .. MacMod - 1
    BY <1>1, <1>2 DEF send, make_pkt
  <1>4. TypeOK'
    BY <1>3 DEF Kept, TypeOK, send, locals
  <1>5. Begun'
    BY DEF Kept, Begun, send, locals, Near, Total
  <1> QED
    BY <1>4, <1>5 DEF Kept

LEMMA KeptStep == Kept /\ [Next]_vars => Kept'
  <1> SUFFICES ASSUME Kept, [Next]_vars PROVE Kept'
    OBVIOUS
  <1>1. CASE leave \/ wake_up \/ UNCHANGED vars
    <2>1. TypeOK'
      BY <1>1 DEF Kept, TypeOK, leave, wake_up, vars, locals, members, history
    <2>2. Begun'
      BY <1>1 DEF Kept, Begun, leave, wake_up, vars, locals, members, history, Near, Total
    <2> QED
      BY <2>1, <2>2 DEF Kept
  <1>2. CASE tick
    <2>1. TypeOK'
      BY <1>2, FlowGenAssumption DEF Kept, TypeOK, tick, locals, members, history
    <2>2. Begun'
      BY <1>2 DEF Kept, Begun, tick, locals, members, history, Near, Total
    <2> QED
      BY <2>1, <2>2 DEF Kept
  <1> QED
    BY <1>1, <1>2, KeptBurst, KeptCheck, KeptSend, KeptPace DEF Next, burst_step

\* The variables keep their types; what nanosleep() is asked for, if it takes
\* it, is never negative: a_burst, timespec_add and timeval_subtract.
THEOREM TypeCorrect == Spec => []TypeOK
  <1>1. Kept => TypeOK
    BY DEF Kept
  <1> QED
    BY KeptInit, KeptStep, <1>1, PTL DEF Spec

\* timeval_subtract() changes sec_beg at every check, yet it goes on standing
\* for the instant at which the burst began, and no product overflows.
THEOREM BeginningKept == Spec => []BurstStartKept
  <1>1. Kept => BurstStartKept
    BY DEF Kept, Begun, BurstStartKept
  <1> QED
    BY KeptInit, KeptStep, <1>1, PTL DEF Spec

-----------------------------------------------------------------------------
(* The end of the burst, and its flows. *)

LEMMA Monotone ==
  ASSUME NEW a \in Int, NEW b \in Int, NEW n \in Nat, a <= b
  PROVE  a * n <= b * n
  <1>1. (b - a) * n \in Nat
    BY SMTT(30)
  <1>2. (b - a) * n = b * n - a * n
    BY SMTT(30)
  <1> QED
    BY <1>1, <1>2, SMTT(30)

\* The seconds of a difference whose nanoseconds are 0 .. Nsec.
LEMMA WholeSeconds ==
  ASSUME NEW x \in Stamp, NEW z \in Stamp, x.nsec - z.nsec \in 0 .. Nsec, NEW k \in Nat
  PROVE  /\ x.sec - z.sec < k => Total(x) - Total(z) <= k * Nsec
         /\ x.sec - z.sec >= k => Total(x) - Total(z) >= k * Nsec
  <1> DEFINE d == x.sec - z.sec
  <1>1. /\ Nsec \in Nat /\ x.sec \in Int /\ z.sec \in Int /\ d \in Int
        /\ x.nsec \in Int /\ z.nsec \in Int /\ k \in Int
    BY TimespecAssumption DEF Stamp
  <1> DEFINE a == x.sec * Nsec
             b == z.sec * Nsec
             total == d * Nsec
  <1>2. a \in Int /\ b \in Int /\ total \in Int /\ k * Nsec \in Int
    BY <1>1
  <1>3. total = a - b
    BY <1>1, SMTT(30)
  <1>8. Total(x) = a + x.nsec /\ Total(z) = b + z.nsec
    BY DEF Total
  <1> HIDE DEF a, b, total
  <1>4. Total(x) - Total(z) = total + (x.nsec - z.nsec)
    BY <1>1, <1>2, <1>3, <1>8
  <1> HIDE DEF d
  <1>5. CASE d < k
    <2>1. d <= k - 1 /\ k - 1 \in Int
      BY <1>1, <1>5
    <2>2. d * Nsec <= (k - 1) * Nsec
      BY <1>1, <2>1, Monotone
    <2>3. (k - 1) * Nsec = k * Nsec - Nsec
      BY <1>1, OneMore
    <2>4. total <= k * Nsec - Nsec
      BY <2>2, <2>3 DEF total
    <2>5. Total(x) - Total(z) <= k * Nsec
      BY <1>1, <1>2, <1>4, <2>4
    <2> QED
      BY <1>1, <1>5, <2>5 DEF d
  <1>6. CASE d >= k
    <2>1. k * Nsec <= total
      BY <1>1, <1>6, Monotone DEF total
    <2>2. Total(x) - Total(z) >= k * Nsec
      BY <1>1, <1>2, <1>4, <2>1
    <2> QED
      BY <1>1, <1>6, <2>2 DEF d
  <1> QED
    BY <1>1, <1>5, <1>6

LEMMA EndType == Kept => now \in Int /\ End \in Int /\ delays \in Int /\ late \in Nat
  <1> SUFFICES ASSUME Kept PROVE now \in Int /\ End \in Int /\ delays \in Int /\ late \in Nat
    OBVIOUS
  <1>1. LastSec \in Int /\ Nsec \in Int
    BY FlowGenAssumption, TimespecAssumption
  <1>2. LastSec * Nsec \in Int
    BY <1>1
  <1> QED
    BY <1>2, FlowGenAssumption DEF Kept, TypeOK, End

\* The check of a burst, whatever the checks before it have made of sec_beg.
LEMMA CheckInTime ==
  ASSUME Kept, check
  PROVE  IF is_run' THEN at' = "send" /\ now <= End ELSE at' = "idle" /\ now >= End
  <1> DEFINE x == Timespec(now)
             z == sec_beg'
  <1>1. /\ x \in Stamp /\ Total(x) = now
        /\ z \in Stamp /\ Total(z) = beg
        /\ x.nsec - z.nsec \in 0 .. Nsec
        /\ result' = Difference(x, z)
    BY KeptCheck, ClockTime DEF Near
  <1>2. /\ x.sec - z.sec < LastSec => now - beg <= LastSec * Nsec
        /\ x.sec - z.sec >= LastSec => now - beg >= LastSec * Nsec
    BY <1>1, WholeSeconds, FlowGenAssumption
  <1>3. /\ is_run' = (x.sec - z.sec < LastSec)
        /\ at' = IF is_run' THEN "send" ELSE "idle"
    <2>1. result'.sec = x.sec - z.sec
      BY <1>1 DEF Difference
    <2>2. /\ is_run' = (result'.sec < LastSec)
          /\ at' = IF is_run' THEN "send" ELSE "idle"
      BY DEF check
    <2> HIDE DEF x, z
    <2> QED
      BY <2>1, <2>2
  <1>4. x.sec - z.sec \in Int /\ LastSec \in Int
    BY <1>1, FlowGenAssumption DEF Stamp
  <1>5. now \in Int /\ beg \in Int /\ LastSec * Nsec \in Int
    <2>1. Nsec \in Int
      BY TimespecAssumption
    <2> QED
      BY <1>4, <2>1 DEF Kept, TypeOK
  <1> HIDE DEF x, z
  <1>6. CASE x.sec - z.sec < LastSec
    <2>1. is_run' /\ at' = "send"
      BY <1>3, <1>6
    <2> QED
      BY <1>2, <1>5, <1>6, <2>1 DEF End
  <1>7. CASE x.sec - z.sec >= LastSec
    <2>1. ~(x.sec - z.sec < LastSec)
      BY <1>4, <1>7
    <2>2. ~is_run' /\ at' = "idle"
      BY <1>3, <2>1
    <2> QED
      BY <1>2, <1>5, <1>7, <2>2 DEF End
  <1> QED
    BY <1>4, <1>6, <1>7

\* A packet whose check was in time is late only by what has passed since, and
\* behind a late one no check is in time.
Ending ==
  /\ asleep # 0 => at = "sleep"
  /\ late \in {0, 1}
  /\ at = "send" => now <= End + delays /\ late = 0
  /\ at # "idle" /\ late = 1 => now > End

LEMMA EndingStep == Kept /\ Ending /\ [Next]_vars => Ending'
  <1> SUFFICES ASSUME Kept, Ending, [Next]_vars PROVE Ending'
    OBVIOUS
  <1>1. now \in Int /\ End \in Int /\ delays \in Nat /\ asleep \in Nat
    BY EndType DEF Kept, TypeOK
  <1>2. CASE check
    <2>1. UNCHANGED <<now, delays, asleep, late, beg>> /\ at = "while"
      BY <1>2 DEF check, history
    <2>2. IF is_run' THEN at' = "send" /\ now <= End ELSE at' = "idle" /\ now >= End
      BY <1>2, CheckInTime
    <2> QED
      BY <1>1, <2>1, <2>2 DEF Ending, End
  <1>3. CASE send
    <2>1. /\ UNCHANGED <<now, delays, asleep, beg>> /\ at = "send" /\ at' = "pace"
          /\ late' = IF now > End THEN late + 1 ELSE late
      BY <1>3 DEF send
    <2> QED
      BY <1>1, <2>1 DEF Ending, End
  <1>4. CASE tick
    <2>1. /\ UNCHANGED <<at, late, beg>> /\ now' = now + 1
          /\ \/ asleep > 0 /\ asleep' = asleep - 1 /\ UNCHANGED delays
             \/ asleep = 0 /\ delays' = delays + 1 /\ UNCHANGED asleep
      BY <1>4 DEF tick, history
    <2>2. asleep' # 0 => at' = "sleep"
      BY <1>1, <2>1 DEF Ending
    <2>3. at' = "send" => now' <= End' + delays' /\ late' = 0
      BY <1>1, <2>1 DEF Ending, End
    <2>4. at' # "idle" /\ late' = 1 => now' > End'
      BY <1>1, <2>1 DEF Ending, End
    <2> QED
      BY <2>1, <2>2, <2>3, <2>4 DEF Ending
  <1>5. ASSUME NEW rate \in Rates, a_burst(rate) PROVE Ending'
    BY <1>5 DEF Ending, a_burst
  <1>6. CASE pace \/ wake_up \/ leave
    BY <1>6 DEF Ending, End, pace, wake_up, leave, history
  <1>7. CASE UNCHANGED vars
    BY <1>7 DEF Ending, End, vars, history
  <1> QED
    BY <1>2, <1>3, <1>4, <1>5, <1>6, <1>7 DEF Next, burst_step

\* A burst sends one packet at most after last_sec seconds, no later than it has
\* been delayed, and does not clear is_run before: a_burst's check, the sleep
\* behind it and what timeval_subtract() leaves of sec_beg together.
THEOREM EndsOnTime == Spec => CutOff
  <1> DEFINE A == /\ Sends => now <= End + delays /\ late' <= 1
                  /\ is_run # is_run' => now >= End
  <1>1. Init => Ending
    BY DEF Init, Ending
  <1>2. Kept /\ Ending /\ [Next]_vars => [A]_vars
    <2> SUFFICES ASSUME Kept, Ending, Ending', Next PROVE A
      BY EndingStep
    <2>1. Sends => now <= End + delays /\ late' <= 1
      BY DEF Sends, Ending
    <2>2. ASSUME is_run # is_run' PROVE now >= End
      <3>1. check
        BY <2>2 DEF Next, burst_step, tick, a_burst, leave, send, pace, wake_up, members
      <3>2. ~is_run'
        BY <2>2, <3>1 DEF check
      <3> QED
        BY <3>1, <3>2, CheckInTime
    <2> QED
      BY <2>1, <2>2
  <1> QED
    BY <1>1, <1>2, KeptInit, KeptStep, EndingStep, PTL DEF Spec, CutOff

\* Until the counter of destinations has gone round it is above that of every
\* flow made.
Rising ==
  \/ \E f \in flows : f[2] = MacMod - 1
  \/ \A f \in flows : f[2] \in 0 .. dst - 1

LEMMA RisingStep == Kept /\ Rising /\ [Next]_vars => Rising'
  <1> SUFFICES ASSUME Kept, Rising, [Next]_vars PROVE Rising'
    OBVIOUS
  <1>1. dst \in 0 .. MacMod - 1 /\ MacMod \in Nat \ {0}
    BY FlowGenAssumption DEF Kept, TypeOK
  <1>2. CASE send
    <2>1. flows' = flows \cup {<<src, dst>>} /\ dst' = (dst + 1) % MacMod
      BY <1>2 DEF send, make_pkt
    <2>2. CASE \E f \in flows : f[2] = MacMod - 1
      BY <2>1, <2>2 DEF Rising
    <2>3. CASE dst = MacMod - 1
      <3>1. <<src, dst>> \in flows' /\ <<src, dst>>[2] = MacMod - 1
        BY <2>1, <2>3
      <3> QED
        BY <3>1 DEF Rising
    <2>4. CASE dst # MacMod - 1 /\ \A f \in flows : f[2] \in 0 .. dst - 1
      <3>1. dst + 1 \in 0 .. MacMod - 1
        BY <1>1, <2>4
      <3>2. dst' = dst + 1
        BY <1>1, <2>1, <3>1, Small
      <3> SUFFICES ASSUME NEW f \in flows' PROVE f[2] \in 0 .. dst' - 1
        BY DEF Rising
      <3>3. CASE f = <<src, dst>>
        BY <1>1, <3>2, <3>3
      <3>4. CASE f \in flows
        <4>1. f[2] \in 0 .. dst - 1 /\ dst \in Int
          BY <1>1, <2>4, <3>4
        <4>2. f[2] \in 0 .. (dst + 1) - 1
          BY <4>1
        <4> QED
          BY <3>2, <4>2
      <3> QED
        BY <2>1, <3>3, <3>4
    <2> QED
      BY <2>2, <2>3, <2>4 DEF Rising
  <1>3. CASE ~send
    <2>1. UNCHANGED <<dst, flows>>
      BY <1>3 DEF Next, burst_step, leave, check, pace, wake_up, tick, a_burst, vars,
                  members, history
    <2> QED
      BY <2>1 DEF Rising
  <1> QED
    BY <1>2, <1>3

\* Every packet make_pkt() makes is of a flow no packet before it was of, until
\* the 24 bits of the destination have gone round.
THEOREM NewFlows == Spec => FlowsAreNew
  <1>1. Init => Rising
    BY DEF Init, Rising
  <1>2. Kept /\ Rising => [Sends => \/ <<src, dst>> \notin flows
                                    \/ \E f \in flows : f[2] = MacMod - 1]_vars
    <2> SUFFICES ASSUME Kept, Rising, <<src, dst>> \in flows
                 PROVE  \E f \in flows : f[2] = MacMod - 1
      OBVIOUS
    <2>1. dst \in Int /\ <<src, dst>>[2] = dst
      BY DEF Kept, TypeOK
    <2>2. dst \notin 0 .. dst - 1
      BY <2>1
    <2> QED
      BY <2>1, <2>2 DEF Rising
  <1> QED
    BY <1>1, <1>2, KeptInit, KeptStep, RisingStep, PTL DEF Spec, FlowsAreNew

-----------------------------------------------------------------------------
(* The deadline.  timespec_add() is right as long as the nanoseconds do not *)
(* reach a second.  From then on every call adds two seconds too many, for  *)
(* as long as the nanoseconds fit 32 bits; when they wrap, UInt32Mod units  *)
(* are lost.  With at least three packets a second that takes three calls,  *)
(* so that more has been added than is lost.                                *)

LEMMA Wrapped ==
  ASSUME NEW u \in Nat \ {0}, NEW m \in Int, u <= m, m - u < u
  PROVE  m % u = m - u
  <1>1. m = 1 * u + (m - u) /\ m - u \in 0 .. u - 1
    OBVIOUS
  <1> QED
    BY <1>1, SMTT(30)

\* The seconds of the sleep between two packets are 0, its nanoseconds at most
\* a third of a second.
ShortSleep(y) == y \in Stamp /\ y.sec = 0 /\ y.nsec >= 0 /\ 3 * y.nsec <= Nsec

\* What timespec_add() makes of the nanoseconds d, for a sleep of n, and by how
\* much more than n it moves the instant on.
Adds(d, n, to, gain) ==
  \/ d + n < Nsec /\ to = d + n /\ gain = 0
  \/ d + n >= UInt32Mod /\ to = d + n - UInt32Mod /\ gain = -UInt32Mod
  \/ /\ Nsec <= d + n /\ d + n + Nsec < UInt32Mod
     /\ to = d + n + Nsec /\ gain = 2 * Nsec
  \/ /\ d + n < UInt32Mod /\ UInt32Mod <= d + n + Nsec
     /\ to = d + n + Nsec - UInt32Mod /\ gain = 2 * Nsec - UInt32Mod

LEMMA AddEffect ==
  ASSUME NEW x \in Stamp, x.nsec \in 0 .. UInt32Mod - 1, NEW y, ShortSleep(y)
  PROVE  \E gain \in Int :
           /\ Adds(x.nsec, y.nsec, timespec_add(x, y).nsec, gain)
           /\ Total(timespec_add(x, y)) = Total(x) + y.nsec + gain
  <1> DEFINE d == x.nsec
             n == y.nsec
             sub == uint32(d + n)
             r == timespec_add(x, y)
  <1>1. /\ Nsec \in Nat \ {0} /\ UInt32Mod \in Nat \ {0}
        /\ 4 * Nsec < UInt32Mod /\ UInt32Mod < 5 * Nsec
    BY TimespecAssumption
  <1>2. d \in 0 .. UInt32Mod - 1 /\ n \in Nat /\ 3 * n <= Nsec /\ x.sec \in Int /\ y.sec = 0
    BY DEF ShortSleep, Stamp
  <1>3. (x.sec + 1) * Nsec = x.sec * Nsec + Nsec /\ x.sec * Nsec \in Int
    BY <1>1, <1>2, OneMore
  <1>4. Total(x) = x.sec * Nsec + d
    BY DEF Total
  <1>5. /\ sub >= Nsec => r.sec = x.sec + 1 /\ r.nsec = uint32(sub + Nsec)
        /\ ~(sub >= Nsec) => r.sec = x.sec /\ r.nsec = sub
    BY <1>2 DEF timespec_add
  <1>6. Total(r) = r.sec * Nsec + r.nsec
    BY DEF Total
  <1>9. \A m \in Int : UInt32Mod <= m /\ m - UInt32Mod < UInt32Mod
                      => m % UInt32Mod = m - UInt32Mod
    BY <1>1, Wrapped
  <1>7. CASE d + n >= UInt32Mod
    <2>1. d + n \in Int /\ UInt32Mod <= d + n /\ d + n - UInt32Mod < UInt32Mod
      BY <1>1, <1>2, <1>7
    <2>2. sub = d + n - UInt32Mod
      BY <1>1, <1>2, <1>9, <2>1 DEF uint32
    <2> HIDE DEF sub, r, d, n
    <2>3. r.sec = x.sec /\ r.nsec = d + n - UInt32Mod
      BY <1>1, <1>2, <1>5, <2>2
    <2>4. Total(r) = Total(x) + n + (-UInt32Mod) /\ -UInt32Mod \in Int
      BY <1>1, <1>2, <1>3, <1>4, <1>6, <2>3
    <2>5. Adds(d, n, r.nsec, -UInt32Mod)
      BY <1>7, <2>3 DEF Adds
    <2> QED
      BY <2>4, <2>5 DEF r, d, n
  <1>8. CASE d + n < UInt32Mod
    <2>1. d + n \in 0 .. UInt32Mod - 1
      BY <1>1, <1>2, <1>8
    <2>2. sub = d + n
      BY <1>1, <2>1, Small DEF uint32
    <2>3. CASE d + n < Nsec
      <3> HIDE DEF sub, r, d, n
      <3>1. r.sec = x.sec /\ r.nsec = d + n
        BY <1>1, <1>2, <1>5, <2>2, <2>3
      <3>2. Total(r) = Total(x) + n + 0
        BY <1>1, <1>2, <1>3, <1>4, <1>6, <3>1
      <3>3. Adds(d, n, r.nsec, 0)
        BY <2>3, <3>1 DEF Adds
      <3> QED
        BY <3>2, <3>3 DEF r, d, n
    <2>4. CASE Nsec <= d + n /\ d + n + Nsec < UInt32Mod
      <3>1. sub + Nsec \in 0 .. UInt32Mod - 1
        BY <1>1, <2>1, <2>2, <2>4
      <3>2. uint32(sub + Nsec) = sub + Nsec
        BY <1>1, <3>1, Small DEF uint32
      <3> HIDE DEF sub, r, d, n
      <3>3. r.sec = x.sec + 1 /\ r.nsec = d + n + Nsec
        BY <1>1, <1>2, <1>5, <2>2, <2>4, <3>2
      <3>4. Total(r) = Total(x) + n + 2 * Nsec /\ 2 * Nsec \in Int
        BY <1>1, <1>2, <1>3, <1>4, <1>6, <3>3
      <3>5. Adds(d, n, r.nsec, 2 * Nsec)
        BY <2>4, <3>3 DEF Adds
      <3> QED
        BY <3>4, <3>5 DEF r, d, n
    <2>5. CASE Nsec <= d + n /\ d + n + Nsec >= UInt32Mod
      <3>1. /\ sub + Nsec \in Int /\ UInt32Mod <= sub + Nsec
            /\ sub + Nsec - UInt32Mod < UInt32Mod
        BY <1>1, <2>1, <2>2, <2>5
      <3>2. uint32(sub + Nsec) = sub + Nsec - UInt32Mod
        BY <1>1, <1>2, <1>9, <2>1, <2>2, <3>1 DEF uint32
      <3> HIDE DEF sub, r, d, n
      <3>3. r.sec = x.sec + 1 /\ r.nsec = d + n + Nsec - UInt32Mod
        BY <1>1, <1>2, <1>5, <2>2, <2>5, <3>2
      <3>4. Total(r) = Total(x) + n + (2 * Nsec - UInt32Mod) /\ 2 * Nsec - UInt32Mod \in Int
        BY <1>1, <1>2, <1>3, <1>4, <1>6, <3>3
      <3>5. Adds(d, n, r.nsec, 2 * Nsec - UInt32Mod)
        BY <1>1, <1>2, <1>8, <2>5, <3>3 DEF Adds
      <3> QED
        BY <3>4, <3>5 DEF r, d, n
    <2> QED
      BY <1>1, <1>2, <2>3, <2>4, <2>5
  <1> QED
    BY <1>1, <1>2, <1>7, <1>8

\* How far the deadline is ahead of its slot, by its nanoseconds: two seconds
\* for each call since they reached a second.
Lap(d, n, lead) ==
  /\ d \in 0 .. UInt32Mod - 1
  /\ d < Nsec \/ 2 * Nsec <= d
  /\ lead >= 0
  /\ d >= 2 * Nsec => lead >= 2 * Nsec
  /\ d >= 2 * Nsec + n => lead >= 4 * Nsec
  /\ d >= 3 * Nsec + 2 * n => lead >= 6 * Nsec

LEMMA LapGoesOn ==
  ASSUME NEW d \in Int, NEW n \in Nat, NEW lead \in Int, NEW to \in Int, NEW gain \in Int,
         3 * n <= Nsec, Lap(d, n, lead), Adds(d, n, to, gain)
  PROVE  /\ Lap(to, n, lead + gain)
         /\ to < Nsec \/ to = d + n + Nsec
         /\ d + n < Nsec => to = d + n /\ gain = 0
  <1>1. /\ Nsec \in Nat \ {0} /\ UInt32Mod \in Nat
        /\ 4 * Nsec < UInt32Mod /\ UInt32Mod < 5 * Nsec
    BY TimespecAssumption
  <1>2. CASE d + n < Nsec /\ to = d + n /\ gain = 0
    BY <1>1, <1>2 DEF Lap
  <1>3. CASE d + n >= UInt32Mod /\ to = d + n - UInt32Mod /\ gain = -UInt32Mod
    <2>1. d >= 3 * Nsec + 2 * n /\ lead >= 6 * Nsec
      BY <1>1, <1>3 DEF Lap
    <2>2. to \in 0 .. n /\ to < Nsec
      BY <1>1, <1>3 DEF Lap
    <2> QED
      BY <1>1, <1>3, <2>1, <2>2 DEF Lap
  <1>4. CASE /\ Nsec <= d + n /\ d + n + Nsec < UInt32Mod
             /\ to = d + n + Nsec /\ gain = 2 * Nsec
    BY <1>1, <1>4 DEF Lap
  <1>5. CASE /\ d + n < UInt32Mod /\ UInt32Mod <= d + n + Nsec
             /\ to = d + n + Nsec - UInt32Mod /\ gain = 2 * Nsec - UInt32Mod
    <2>1. d >= 2 * Nsec + n /\ lead >= 4 * Nsec
      BY <1>1, <1>5 DEF Lap
    <2>2. to \in 0 .. Nsec - 1
      BY <1>1, <1>5
    <2> QED
      BY <1>1, <1>5, <2>1, <2>2 DEF Lap
  <1> QED
    BY <1>2, <1>3, <1>4, <1>5 DEF Adds

-----------------------------------------------------------------------------
(* The deadline in a burst of at least three packets a second.              *)

AtLeastThree == \A rate \in Rates : rate >= 3

\* Behind the beginning's second all that is known is Lap.
OnPace ==
  at # "idle" =>
    /\ ShortSleep(nsleep)
    /\ Lap(deadline.nsec, nsleep.nsec, Total(deadline) - NextSlot)
    /\ LET room == (beg % Nsec) + (NextSlot - beg)
       IN  room < Nsec => deadline.nsec = room /\ Total(deadline) = NextSlot

LEMMA SlotAfter ==
  ASSUME TypeOK, NEW k \in Int
  PROVE  Slot(k) \in Int /\ Slot(k + 1) = Slot(k) + nsleep.nsec /\ Slot(0) = beg
  <1>1. beg \in Int /\ nsleep.nsec \in Int
    BY DEF TypeOK
  <1>2. (k + 1) * nsleep.nsec = k * nsleep.nsec + nsleep.nsec /\ k * nsleep.nsec \in Int
    BY <1>1, OneMore
  <1>3. 0 * nsleep.nsec = 0
    BY <1>1
  <1> QED
    BY <1>1, <1>2, <1>3 DEF Slot

LEMMA ThirdOfSecond ==
  ASSUME NEW rate \in Rates, AtLeastThree
  PROVE  Nsec \div rate \in Nat /\ 3 * (Nsec \div rate) <= Nsec
  <1> DEFINE q == Nsec \div rate
  <1>1. Nsec \in Nat /\ rate \in Nat \ {0} /\ rate >= 3
    BY TimespecAssumption, FlowGenAssumption DEF AtLeastThree
  <1>2. q \in Nat /\ Nsec % rate \in 0 .. rate - 1 /\ Nsec = q * rate + (Nsec % rate)
    BY <1>1, Quotient
  <1> HIDE DEF q
  <1>3. 3 * q <= rate * q /\ rate * q \in Int
    BY <1>1, <1>2, Monotone
  <1>4. rate * q = q * rate
    BY <1>1, <1>2
  <1> QED
    BY <1>1, <1>2, <1>3, <1>4 DEF q

\* One call of timespec_add(), from a deadline that is lead ahead of slot k.
LEMMA DeadlineMoves ==
  ASSUME NEW x \in Stamp, NEW y, ShortSleep(y), NEW slot \in Int,
         Lap(x.nsec, y.nsec, Total(x) - slot)
  PROVE  LET r == timespec_add(x, y)
         IN  /\ Lap(r.nsec, y.nsec, Total(r) - (slot + y.nsec))
             /\ r.nsec < Nsec \/ r.nsec = x.nsec + y.nsec + Nsec
             /\ x.nsec + y.nsec < Nsec => /\ r.nsec = x.nsec + y.nsec
                                          /\ Total(r) = Total(x) + y.nsec
  <1> DEFINE r == timespec_add(x, y)
  <1>1. x.nsec \in 0 .. UInt32Mod - 1
    BY DEF Lap
  <1>2. PICK gain \in Int : Adds(x.nsec, y.nsec, r.nsec, gain) /\ Total(r) = Total(x) + y.nsec + gain
    BY <1>1, AddEffect
  <1>3. y \in Stamp /\ r \in Stamp
    BY AddType DEF ShortSleep
  <1>4. /\ x.nsec \in Int /\ y.nsec \in Nat /\ r.nsec \in Int /\ 3 * y.nsec <= Nsec
        /\ x.sec \in Int /\ Nsec \in Nat
    BY <1>3, TimespecAssumption DEF Stamp, ShortSleep
  <1>5. Total(x) \in Int
    BY <1>4 DEF Total
  <1> HIDE DEF r
  <1>6. /\ Lap(r.nsec, y.nsec, (Total(x) - slot) + gain)
        /\ r.nsec < Nsec \/ r.nsec = x.nsec + y.nsec + Nsec
        /\ x.nsec + y.nsec < Nsec => r.nsec = x.nsec + y.nsec /\ gain = 0
    <2>1. Total(x) - slot \in Int
      BY <1>5
    <2> QED
      BY <1>2, <1>4, <2>1, LapGoesOn
  <1>7. (Total(x) - slot) + gain = Total(r) - (slot + y.nsec)
    BY <1>2, <1>4, <1>5
  <1> QED
    BY <1>2, <1>4, <1>5, <1>6, <1>7 DEF r

LEMMA OnPaceBurst ==
  ASSUME AtLeastThree, Kept, Kept', NEW rate \in Rates, a_burst(rate)
  PROVE  OnPace'
  <1> DEFINE x == Timespec(now)
  <1>1. now \in Nat /\ Nsec \in Nat \ {0} /\ UInt32Mod \in Nat /\ 4 * Nsec < UInt32Mod
    BY TimespecAssumption DEF Kept, TypeOK
  <1>2. x \in Stamp /\ x.nsec \in 0 .. Nsec - 1 /\ Total(x) = now /\ x.nsec = now % Nsec
    BY <1>1, ClockTime DEF Timespec
  <1>3. /\ at' = "while" /\ nsleep' = [sec |-> 0, nsec |-> Nsec \div rate]
        /\ deadline' = timespec_add(x, nsleep') /\ pkt_sent' = 0 /\ beg' = now
    BY DEF a_burst
  <1> HIDE DEF x
  <1>4. ShortSleep(nsleep')
    BY <1>3, ThirdOfSecond DEF ShortSleep, Stamp
  <1>5. nsleep'.nsec \in Nat
    BY <1>4 DEF ShortSleep, Stamp
  <1>6. Lap(x.nsec, nsleep'.nsec, Total(x) - now)
    BY <1>1, <1>2, <1>5 DEF Lap
  <1>7. /\ Lap(deadline'.nsec, nsleep'.nsec, Total(deadline') - (now + nsleep'.nsec))
        /\ x.nsec + nsleep'.nsec < Nsec => /\ deadline'.nsec = x.nsec + nsleep'.nsec
                                           /\ Total(deadline') = Total(x) + nsleep'.nsec
    BY <1>1, <1>2, <1>3, <1>4, <1>6, DeadlineMoves
  <1>8. NextSlot' = now + nsleep'.nsec
    <2>1. NextSlot' = beg' + (0 + 1) * nsleep'.nsec
      BY <1>3 DEF NextSlot, Slot
    <2> QED
      BY <1>3, <1>5, <2>1
  <1>9. (beg' % Nsec) + (NextSlot' - beg') = x.nsec + nsleep'.nsec
    BY <1>1, <1>2, <1>3, <1>5, <1>8
  <1>10. Total(deadline)' = Total(deadline') /\ Total(x) = now
    BY <1>2 DEF Total
  <1> QED
    BY <1>3, <1>4, <1>7, <1>8, <1>9, <1>10 DEF OnPace, ShortSleep

LEMMA PaceEffect ==
  ASSUME Kept, OnPace, pace
  PROVE  /\ Lap(deadline'.nsec, nsleep.nsec, Total(deadline') - (NextSlot + nsleep.nsec))
         /\ \/ deadline'.nsec < Nsec
            \/ deadline'.nsec = deadline.nsec + nsleep.nsec + Nsec
         /\ deadline.nsec + nsleep.nsec < Nsec =>
              /\ deadline'.nsec = deadline.nsec + nsleep.nsec
              /\ Total(deadline') = Total(deadline) + nsleep.nsec
         /\ NextSlot \in Int /\ NextSlot' = NextSlot + nsleep.nsec
         /\ ShortSleep(nsleep) /\ deadline \in Stamp /\ deadline' \in Stamp
  <1>1. /\ at = "pace" /\ at' = "sleep" /\ deadline' = timespec_add(deadline, nsleep)
        /\ UNCHANGED <<pkt_sent, nsleep, beg>>
    BY DEF pace, history
  <1>2. ShortSleep(nsleep) /\ Lap(deadline.nsec, nsleep.nsec, Total(deadline) - NextSlot)
    BY <1>1 DEF OnPace
  <1>3. deadline \in Stamp /\ deadline' \in Stamp
    BY <1>1, <1>2, AddType DEF Kept, TypeOK, Stamp, ShortSleep
  <1>4. NextSlot \in Int /\ NextSlot' = NextSlot + nsleep.nsec
    <2>1. pkt_sent \in Int
      BY DEF Kept, TypeOK
    <2>2. Slot(pkt_sent) \in Int /\ Slot(pkt_sent + 1) = Slot(pkt_sent) + nsleep.nsec
      BY <2>1, SlotAfter DEF Kept
    <2>3. NextSlot = Slot(pkt_sent)
      BY <1>1 DEF NextSlot
    <2>4. NextSlot' = Slot(pkt_sent + 1)
      BY <1>1 DEF NextSlot, Slot
    <2> QED
      BY <2>2, <2>3, <2>4
  <1> QED
    BY <1>1, <1>2, <1>3, <1>4, DeadlineMoves

LEMMA OnPacePace ==
  ASSUME Kept, OnPace, pace
  PROVE  OnPace'
  <1>1. at = "pace" /\ at' = "sleep" /\ UNCHANGED <<pkt_sent, nsleep, beg>>
    BY DEF pace, history
  <1>2. Total(deadline)' = Total(deadline')
    BY DEF Total
  <1> DEFINE room == (beg % Nsec) + (NextSlot - beg)
  <1>3. room \in Int /\ beg \in Int /\ nsleep.nsec \in Nat /\ Nsec \in Nat /\ beg % Nsec \in Int
    <2>1. beg \in Nat /\ Nsec \in Nat \ {0}
      BY TimespecAssumption DEF Kept, TypeOK
    <2>2. beg % Nsec \in Int
      BY <2>1, Quotient
    <2> QED
      BY <2>1, <2>2, PaceEffect DEF ShortSleep, Stamp
  <1>4. room' = room + nsleep.nsec
    BY <1>1, <1>3, PaceEffect
  <1>5. room < Nsec => deadline.nsec = room /\ Total(deadline) = NextSlot
    BY <1>1 DEF OnPace
  <1> HIDE DEF room
  <1>6. room' < Nsec => deadline'.nsec = room' /\ Total(deadline') = NextSlot'
    <2> SUFFICES ASSUME room' < Nsec PROVE deadline'.nsec = room' /\ Total(deadline') = NextSlot'
      OBVIOUS
    <2>1. deadline.nsec = room /\ Total(deadline) = NextSlot
      BY <1>3, <1>4, <1>5
    <2> QED
      BY <1>4, <2>1, PaceEffect
  <1>7. Lap(deadline'.nsec, nsleep'.nsec, Total(deadline') - NextSlot')
    BY <1>1, PaceEffect
  <1> QED
    BY <1>1, <1>2, <1>6, <1>7, PaceEffect DEF OnPace, room, ShortSleep

LEMMA OnPaceStep == AtLeastThree /\ Kept /\ OnPace /\ [Next]_vars => OnPace'
  <1> SUFFICES ASSUME AtLeastThree, Kept, OnPace, [Next]_vars PROVE OnPace'
    OBVIOUS
  <1>1. Kept'
    BY KeptStep
  <1>2. CASE leave \/ check \/ send \/ wake_up \/ tick \/ UNCHANGED vars
    <2>1. UNCHANGED <<nsleep, deadline, beg>>
      BY <1>2 DEF leave, check, send, wake_up, tick, vars, locals, history
    <2>2. at' # "idle" => at # "idle" /\ NextSlot' = NextSlot
      <3>1. pkt_sent \in Int
        BY DEF Kept, TypeOK
      <3> QED
        BY <1>2, <2>1, <3>1
        DEF leave, check, send, wake_up, tick, vars, locals, history, NextSlot, Slot
    <2> QED
      BY <2>1, <2>2 DEF OnPace, ShortSleep, Total
  <1> QED
    BY <1>1, <1>2, OnPaceBurst, OnPacePace DEF Next, burst_step

LEMMA OnPaceInvariant ==
  ASSUME AtLeastThree
  PROVE  Spec => [](Kept /\ OnPace)
  <1>1. Init => Kept /\ OnPace
    BY KeptInit DEF Init, OnPace
  <1>2. (Kept /\ OnPace) /\ [Next]_vars => (Kept /\ OnPace)'
    BY KeptStep, OnPaceStep
  <1> QED
    BY <1>1, <1>2, PTL DEF Spec

\* In the beginning's second the deadline is exact, and later it is never
\* behind the packet's slot: timespec_add(), although it carries the wrong way
\* and in 32 bits.
THEOREM DeadlineHolds ==
  ASSUME \A rate \in Rates : rate >= 3
  PROVE  Spec => []DeadlineNotBehind
  <1>1. Kept /\ OnPace => DeadlineNotBehind
    <2> SUFFICES ASSUME Kept, OnPace, at # "idle"
                 PROVE  /\ Total(deadline) >= NextSlot
                        /\ NextSlot \div Nsec = beg \div Nsec => Total(deadline) = NextSlot
      BY DEF DeadlineNotBehind
    <2>1. /\ ShortSleep(nsleep)
          /\ Lap(deadline.nsec, nsleep.nsec, Total(deadline) - NextSlot)
          /\ (beg % Nsec) + (NextSlot - beg) < Nsec => Total(deadline) = NextSlot
      BY DEF OnPace
    <2>2. NextSlot \in Nat /\ Total(deadline) \in Int /\ beg \in Nat /\ Nsec \in Nat \ {0}
      <3>1. /\ beg \in Nat /\ Nsec \in Nat \ {0} /\ pkt_sent \in Nat
            /\ deadline.sec \in Int /\ deadline.nsec \in Int /\ nsleep.nsec \in Nat
        BY <2>1, TimespecAssumption DEF Kept, TypeOK, ShortSleep, Stamp
      <3>2. \A a, b \in Nat : a * b \in Nat
        BY SMTT(30)
      <3>3. \A k \in Nat : Slot(k) \in Nat
        BY <3>1, <3>2 DEF Slot
      <3>4. NextSlot \in Nat
        BY <3>1, <3>3 DEF NextSlot
      <3> QED
        BY <3>1, <3>4 DEF Total
    <2>3. Total(deadline) >= NextSlot
      BY <2>1, <2>2 DEF Lap
    <2>4. ASSUME NextSlot \div Nsec = beg \div Nsec PROVE (beg % Nsec) + (NextSlot - beg) < Nsec
      <3> DEFINE q == (beg \div Nsec) * Nsec
      <3>1. /\ beg \div Nsec \in Nat /\ beg % Nsec \in 0 .. Nsec - 1 /\ beg = q + (beg % Nsec)
            /\ NextSlot % Nsec \in 0 .. Nsec - 1 /\ NextSlot = q + (NextSlot % Nsec)
        BY <2>2, <2>4, Quotient
      <3>2. q \in Int
        BY <2>2, <3>1
      <3> HIDE DEF q
      <3> QED
        BY <2>2, <3>1, <3>2
    <2> QED
      BY <2>1, <2>3, <2>4
  <1>2. AtLeastThree
    BY DEF AtLeastThree
  <1> QED
    BY <1>1, <1>2, OnPaceInvariant, PTL

-----------------------------------------------------------------------------
(* The sleep.  What timeval_subtract() makes of the clock depends on how far *)
(* the nanoseconds of the deadline are above a second: below three of them   *)
(* the sleep reaches the deadline, above it may be refused by nanosleep().   *)

LEMMA TwoSeconds == product(2) = {2 * Nsec}
  <1>1. Nsec \in Nat \ {0} /\ UInt32Mod \in Nat /\ UInt32Mod > 4 * Nsec
    BY TimespecAssumption
  <1>2. Int32Half \in Nat /\ 2 * Nsec + Int32Half \in 0 .. UInt32Mod - 1
    BY <1>1, SMTT(30) DEF Int32Half
  <1>3. (2 * Nsec + Int32Half) % UInt32Mod = 2 * Nsec + Int32Half
    BY <1>1, <1>2, Small
  <1>4. int32(2 * Nsec) = 2 * Nsec
    BY <1>1, <1>2, <1>3 DEF int32
  <1>5. Nsec * 2 = 2 * Nsec
    BY <1>1
  <1> QED
    BY <1>4, <1>5 DEF product

\* The clock, changed by a call for a deadline of less than three seconds of
\* nanoseconds, goes on standing for now, and the difference is normal.
LEMMA ClockChanged ==
  ASSUME NEW x \in Stamp, x.nsec \in 0 .. 3 * Nsec - 1, x.nsec < Nsec \/ 2 * Nsec <= x.nsec,
         NEW time \in Nat, NEW z \in Changed(x, Timespec(time))
  PROVE  z \in Stamp /\ Total(z) = time /\ x.nsec - z.nsec \in 0 .. Nsec - 1
  <1> DEFINE y == Timespec(time)
  <1>1. Nsec \in Nat \ {0} /\ x.nsec \in Int
    BY TimespecAssumption DEF Stamp
  <1>2. y \in Stamp /\ y.sec \in Int /\ y.nsec \in 0 .. Nsec - 1 /\ Total(y) = time
    BY ClockTime
  <1>3. /\ y.sec * Nsec \in Int
        /\ (y.sec + 1) * Nsec = y.sec * Nsec + Nsec
        /\ (y.sec - 1) * Nsec = y.sec * Nsec - Nsec
        /\ (y.sec - 2) * Nsec = y.sec * Nsec - 2 * Nsec
    BY <1>1, <1>2, SMTT(30)
  <1>4. PICK b \in Borrow(x, y) : z \in GiveBack(x, b)
    BY DEF Changed
  <1> HIDE DEF y
  <1>5. CASE x.nsec < y.nsec
    <2>1. (y.nsec - x.nsec) \div Nsec = 0
      BY <1>1, <1>2, <1>5, SMTT(30)
    <2>2. b = [sec |-> y.sec + 1, nsec |-> y.nsec - Nsec]
      BY <1>1, <1>2, <1>4, <1>5, <2>1, OneSecond DEF Borrow
    <2>3. z = b
      BY <1>1, <1>2, <1>4, <1>5, <2>2 DEF GiveBack
    <2> QED
      BY <1>1, <1>2, <1>3, <1>5, <2>2, <2>3 DEF Total, Stamp
  <1>6. CASE ~(x.nsec < y.nsec) /\ x.nsec < Nsec
    <2>1. b = y
      BY <1>4, <1>6 DEF Borrow
    <2>2. z = y
      BY <1>1, <1>2, <1>4, <1>6, <2>1 DEF GiveBack
    <2> QED
      BY <1>1, <1>2, <1>6, <2>2
  <1>7. CASE 2 * Nsec <= x.nsec
    <2> DEFINE n == (x.nsec - y.nsec) \div Nsec
    <2>1. b = y
      BY <1>1, <1>2, <1>4, <1>7 DEF Borrow
    <2>2. /\ x.nsec - y.nsec > Nsec
          /\ \/ n = 1 /\ x.nsec - y.nsec < 2 * Nsec
             \/ n = 2 /\ x.nsec - y.nsec >= 2 * Nsec
      BY <1>1, <1>2, <1>7, SMTT(30)
    <2>3. z \in {[sec |-> y.sec - n, nsec |-> y.nsec + p] : p \in product(n)}
      BY <1>4, <2>1, <2>2 DEF GiveBack
    <2> HIDE DEF n
    <2>4. CASE n = 1 /\ x.nsec - y.nsec < 2 * Nsec
      <3>1. z = [sec |-> y.sec - 1, nsec |-> y.nsec + Nsec]
        BY <2>3, <2>4, OneSecond
      <3> QED
        BY <1>1, <1>2, <1>3, <2>2, <2>4, <3>1 DEF Total, Stamp
    <2>5. CASE n = 2 /\ x.nsec - y.nsec >= 2 * Nsec
      <3>1. z = [sec |-> y.sec - 2, nsec |-> y.nsec + 2 * Nsec]
        BY <2>3, <2>5, TwoSeconds
      <3> QED
        BY <1>1, <1>2, <1>3, <2>2, <2>5, <3>1 DEF Total, Stamp
    <2> QED
      BY <2>2, <2>4, <2>5
  <1> QED
    BY <1>5, <1>6, <1>7

\* Such a sleep reaches the deadline, if that has not passed.
LEMMA SleepReaches ==
  ASSUME NEW x \in Stamp, x.nsec \in 0 .. 3 * Nsec - 1, x.nsec < Nsec \/ 2 * Nsec <= x.nsec,
         NEW time \in Nat, NEW z \in Changed(x, Timespec(time))
  PROVE  /\ Normal(Difference(x, z))
         /\ ~IsNegative(x, z) => time + Total(Difference(x, z)) = Total(x)
         /\ IsNegative(x, z) => time >= Total(x)
  <1>1. z \in Stamp /\ Total(z) = time /\ x.nsec - z.nsec \in 0 .. Nsec - 1
    BY ClockChanged
  <1>2. Nsec \in Nat \ {0} /\ x.sec \in Int /\ x.nsec \in Int /\ z.sec \in Int /\ z.nsec \in Int
    BY <1>1, TimespecAssumption DEF Stamp
  <1>3. Normal(Difference(x, z))
    BY <1>1, <1>2 DEF Normal, Difference
  <1> DEFINE gap == (x.sec - z.sec) * Nsec
  <1>4. gap = x.sec * Nsec - z.sec * Nsec /\ x.sec * Nsec \in Int /\ z.sec * Nsec \in Int
    BY <1>2, SMTT(30)
  <1>5. IsNegative(x, z) => gap <= -Nsec
    <2> SUFFICES ASSUME x.sec < z.sec PROVE gap <= -Nsec
      BY DEF IsNegative
    <2>1. x.sec - z.sec \in Int /\ x.sec - z.sec <= -1 /\ -1 \in Int
      BY <1>2
    <2>2. gap <= (-1) * Nsec
      BY <1>2, <2>1, Monotone
    <2> QED
      BY <1>2, <2>2
  <1>6. Total(Difference(x, z)) = gap + (x.nsec - z.nsec)
    BY DEF Total, Difference
  <1>7. Total(x) = x.sec * Nsec + x.nsec /\ time = z.sec * Nsec + z.nsec
    BY <1>1 DEF Total
  <1> HIDE DEF gap
  <1> QED
    BY <1>1, <1>2, <1>3, <1>4, <1>5, <1>6, <1>7

-----------------------------------------------------------------------------
(* No packet is sent too early. *)

\* The packets after which the thread has been sent to sleep.
Paced == IF at = "pace" THEN pkt_sent - 1 ELSE pkt_sent

\* The sleep ends at the slot of the next packet, unless the nanoseconds of the
\* deadline have reached three seconds; then one or two slots before.
OnTime ==
  /\ at # "sleep" => asleep = 0
  /\ at # "idle" =>
       /\ now + asleep >= Slot(Paced - 2)
       /\ deadline.nsec < 4 * Nsec => now + asleep >= Slot(Paced - 1)
       /\ deadline.nsec < 3 * Nsec => now + asleep >= Slot(Paced)

LEMMA OnTimeBurst ==
  ASSUME AtLeastThree, Kept, Kept', OnTime, NEW rate \in Rates, a_burst(rate)
  PROVE  OnTime'
  <1>1. /\ at = "idle" /\ at' = "while" /\ nsleep' = [sec |-> 0, nsec |-> Nsec \div rate]
        /\ pkt_sent' = 0 /\ beg' = now /\ UNCHANGED <<now, asleep>>
    BY DEF a_burst
  <1>2. asleep' = 0 /\ now \in Nat
    BY <1>1 DEF OnTime, Kept, TypeOK
  <1>3. nsleep'.nsec \in Nat
    BY <1>1, ThirdOfSecond
  <1>4. Slot(Paced)' = now /\ Slot(Paced - 1)' = now - nsleep'.nsec
        /\ Slot(Paced - 2)' = now - 2 * nsleep'.nsec
    BY <1>1, <1>2, <1>3 DEF Slot, Paced
  <1> QED
    BY <1>1, <1>2, <1>3, <1>4 DEF OnTime

LEMMA OnTimePace ==
  ASSUME Kept, Kept', OnPace, OnTime, pace
  PROVE  OnTime'
  <1> DEFINE n == nsleep.nsec
             d == deadline.nsec
             to == deadline'.nsec
  <1>1. /\ at = "pace" /\ at' = "sleep" /\ UNCHANGED <<now, pkt_sent, nsleep, beg>>
        /\ \E y \in Changed(deadline', Timespec(now)) :
             /\ result' = Difference(deadline', y)
             /\ asleep' = IF ~IsNegative(deadline', y) /\ Normal(result')
                          THEN Total(result') ELSE 0
    BY DEF pace, history
  <1>2. /\ now \in Nat /\ asleep = 0 /\ asleep' \in Nat /\ pkt_sent \in Nat /\ beg \in Int
    BY <1>1 DEF OnTime, Kept, TypeOK
  <1>3. /\ Nsec \in Nat \ {0} /\ UInt32Mod \in Nat
        /\ 4 * Nsec < UInt32Mod /\ UInt32Mod < 5 * Nsec
    BY TimespecAssumption
  <1>4. /\ Lap(to, n, Total(deadline') - (NextSlot + n))
        /\ to < Nsec \/ to = d + n + Nsec
        /\ NextSlot \in Int /\ n \in Nat /\ 3 * n <= Nsec
        /\ deadline' \in Stamp /\ d \in Int /\ to \in Int
    BY PaceEffect DEF ShortSleep, Stamp
  <1> DEFINE p == pkt_sent
  <1>5. /\ NextSlot = Slot(p) /\ Slot(p) \in Int
        /\ Slot(p - 1) = Slot(p) - n /\ Slot(p - 2) = Slot(p) - 2 * n
        /\ Slot(p - 3) = Slot(p) - 3 * n
    <2>1. NextSlot = Slot(p)
      BY <1>1 DEF NextSlot
    <2>2. /\ Slot((p - 1) + 1) = Slot(p - 1) + n /\ Slot(p) \in Int /\ Slot(p - 1) \in Int
          /\ Slot((p - 2) + 1) = Slot(p - 2) + n /\ Slot(p - 2) \in Int
          /\ Slot((p - 3) + 1) = Slot(p - 3) + n /\ Slot(p - 3) \in Int
      <3>1. p \in Int /\ p - 1 \in Int /\ p - 2 \in Int /\ p - 3 \in Int
        BY <1>2
      <3> QED
        BY <3>1, SlotAfter DEF Kept
    <2>3. (p - 1) + 1 = p /\ (p - 2) + 1 = p - 1 /\ (p - 3) + 1 = p - 2
      BY <1>2
    <2> QED
      BY <1>4, <2>1, <2>2, <2>3
  <1>6. /\ now >= Slot(p - 3)
        /\ d < 4 * Nsec => now >= Slot(p - 2)
        /\ d < 3 * Nsec => now >= Slot(p - 1)
    <2>1. /\ Paced = p - 1 /\ Paced - 1 = p - 2 /\ Paced - 2 = p - 3 /\ now + asleep = now
      BY <1>1, <1>2 DEF Paced
    <2> QED
      BY <1>1, <2>1 DEF OnTime
  <1>7. /\ Slot(Paced)' = Slot(p) /\ Slot(Paced - 1)' = Slot(p - 1)
        /\ Slot(Paced - 2)' = Slot(p - 2)
    BY <1>1 DEF Slot, Paced
  <1>8. deadline'.nsec \in 0 .. UInt32Mod - 1 /\ (to < Nsec \/ 2 * Nsec <= to)
        /\ Total(deadline') >= Slot(p) + n
    <2>1. Total(deadline') \in Int
      BY <1>3, <1>4 DEF Total, Stamp
    <2> QED
      BY <1>4, <1>5, <2>1 DEF Lap
  <1>9. to < 3 * Nsec => now + asleep' >= Slot(p)
    <2> SUFFICES ASSUME to < 3 * Nsec PROVE now + asleep' >= Slot(p)
      OBVIOUS
    <2>1. PICK y \in Changed(deadline', Timespec(now)) :
             /\ result' = Difference(deadline', y)
             /\ asleep' = IF ~IsNegative(deadline', y) /\ Normal(result')
                          THEN Total(result') ELSE 0
      BY <1>1
    <2>2. deadline'.nsec \in 0 .. 3 * Nsec - 1
      BY <1>3, <1>4, <1>8
    <2>3. /\ Normal(Difference(deadline', y))
          /\ ~IsNegative(deadline', y) => now + Total(Difference(deadline', y)) = Total(deadline')
          /\ IsNegative(deadline', y) => now >= Total(deadline')
      BY <1>2, <1>4, <1>8, <2>1, <2>2, SleepReaches
    <2>4. now + asleep' >= Total(deadline')
      <3>1. Total(deadline') \in Int
        BY <1>3, <1>4 DEF Total, Stamp
      <3>2. CASE IsNegative(deadline', y)
        BY <1>2, <2>1, <2>3, <3>1, <3>2
      <3>3. CASE ~IsNegative(deadline', y)
        BY <1>2, <2>1, <2>3, <3>1, <3>3
      <3> QED
        BY <3>2, <3>3
    <2>5. Total(deadline') \in Int
      BY <1>3, <1>4 DEF Total, Stamp
    <2> QED
      BY <1>2, <1>4, <1>5, <1>8, <2>4, <2>5
  <1> HIDE DEF n, d, to, p
  <1>10. to < 4 * Nsec => now + asleep' >= Slot(p - 1)
    <2>1. CASE to < 3 * Nsec
      BY <1>2, <1>4, <1>5, <1>9, <2>1
    <2>2. CASE to >= 3 * Nsec /\ to < 4 * Nsec
      <3>1. d < 3 * Nsec
        BY <1>3, <1>4, <2>2
      <3> QED
        BY <1>2, <1>4, <1>5, <1>6, <3>1
    <2> QED
      BY <1>3, <1>4, <2>1, <2>2
  <1>11. now + asleep' >= Slot(p - 2)
    <2>1. CASE to < 4 * Nsec
      BY <1>2, <1>4, <1>5, <1>10, <2>1
    <2>2. CASE to >= 4 * Nsec
      <3>1. to < UInt32Mod
        BY <1>3, <1>8 DEF to
      <3>2. d < 4 * Nsec
        BY <1>3, <1>4, <2>2, <3>1
      <3> QED
        BY <1>2, <1>4, <1>5, <1>6, <3>2
    <2> QED
      BY <1>3, <1>4, <2>1, <2>2
  <1> QED
    BY <1>1, <1>7, <1>9, <1>10, <1>11 DEF OnTime, to

LEMMA OnTimeStep ==
  AtLeastThree /\ Kept /\ OnPace /\ OnTime /\ [Next]_vars => OnTime'
  <1> SUFFICES ASSUME AtLeastThree, Kept, OnPace, OnTime, [Next]_vars PROVE OnTime'
    OBVIOUS
  <1>1. Kept'
    BY KeptStep
  <1>2. now \in Nat /\ asleep \in Nat /\ pkt_sent \in Nat
    BY DEF Kept, TypeOK
  <1>3. CASE leave \/ check \/ send \/ wake_up \/ UNCHANGED vars
    <2>1. UNCHANGED <<now, asleep, deadline, nsleep, beg>>
      BY <1>3 DEF leave, check, send, wake_up, vars, locals, history
    <2>2. at' # "idle" => at # "idle" /\ Paced' = Paced
      BY <1>2, <1>3 DEF leave, check, send, wake_up, vars, Paced
    <2>3. at' # "sleep" => asleep' = 0
      BY <1>3 DEF OnTime, leave, check, send, wake_up, vars
    <2> QED
      BY <2>1, <2>2, <2>3 DEF OnTime, Slot
  <1>4. CASE tick
    <2>1. UNCHANGED <<at, pkt_sent, deadline, nsleep, beg>>
      BY <1>4 DEF tick, locals, history
    <2>2. now' + asleep' >= now + asleep /\ (asleep = 0 => asleep' = 0)
      BY <1>2, <1>4 DEF tick
    <2>3. /\ Slot(Paced)' = Slot(Paced) /\ Slot(Paced - 1)' = Slot(Paced - 1)
          /\ Slot(Paced - 2)' = Slot(Paced - 2)
      BY <2>1 DEF Slot, Paced
    <2>4. Slot(Paced) \in Int /\ Slot(Paced - 1) \in Int /\ Slot(Paced - 2) \in Int
      <3>1. Paced \in Int /\ Paced - 1 \in Int /\ Paced - 2 \in Int
        BY <1>2 DEF Paced
      <3> QED
        BY <3>1, SlotAfter DEF Kept
    <2>5. \A slot \in Int : now + asleep >= slot => now' + asleep' >= slot
      <3>1. now' \in Int /\ asleep' \in Int
        BY <1>1 DEF Kept, TypeOK
      <3>2. \A a, b, slot \in Int : a >= b /\ b >= slot => a >= slot
        OBVIOUS
      <3>3. now' + asleep' \in Int /\ now + asleep \in Int
        BY <1>2, <3>1
      <3> QED
        BY <2>2, <3>2, <3>3
    <2>6. (deadline.nsec < 4 * Nsec)' = (deadline.nsec < 4 * Nsec)
          /\ (deadline.nsec < 3 * Nsec)' = (deadline.nsec < 3 * Nsec)
      BY <2>1
    <2> QED
      BY <2>1, <2>2, <2>3, <2>4, <2>5, <2>6 DEF OnTime
  <1> QED
    BY <1>1, <1>3, <1>4, OnTimeBurst, OnTimePace DEF Next, burst_step

\* A burst is never more than two packets ahead of its rate: the sleep of
\* a_burst, although nanosleep() refuses the deadlines of four seconds of
\* nanoseconds and more.
THEOREM NotTooFast ==
  ASSUME \A rate \in Rates : rate >= 3
  PROVE  Spec => NeverFasterThanAsked
  <1>1. AtLeastThree
    BY DEF AtLeastThree
  <1>2. Init => OnTime
    BY DEF Init, OnTime
  <1>3. Kept /\ OnPace /\ OnTime /\ [Next]_vars => OnTime'
    BY <1>1, OnTimeStep
  <1>4. Kept /\ OnTime => [Sends => now >= Slot(pkt_sent - 2)]_vars
    <2> SUFFICES ASSUME Kept, OnTime, at = "send" PROVE now >= Slot(pkt_sent - 2)
      BY DEF Sends
    <2>1. asleep = 0 /\ Paced = pkt_sent /\ now + asleep >= Slot(Paced - 2) /\ now \in Nat
      BY DEF OnTime, Paced, Kept, TypeOK
    <2> QED
      BY <2>1
  <1>5. Spec => [](Kept /\ OnPace)
    BY <1>1, OnPaceInvariant
  <1> QED
    BY <1>2, <1>3, <1>4, <1>5, PTL DEF Spec, NeverFasterThanAsked
=============================================================================
