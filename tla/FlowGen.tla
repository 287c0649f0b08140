------------------------------ MODULE FlowGen -------------------------------
(***************************************************************************)
(* FlowGen (FlowGen.cpp): a_burst() sends packets of ever new flows at a   *)
(* rate until last_sec seconds have passed.  It reads the clock three      *)
(* times per packet and sleeps until a deadline that moves on by nsleep.   *)
(*                                                                         *)
(* One FlowGen serves one burst after the other.  Time passes between any  *)
(* two steps; how much of it while the thread is not asleep is bounded.    *)
(***************************************************************************)
EXTENDS Timespec

CONSTANTS
  Rates,      \* the packets per second a burst may be asked for
  LastSec,    \* the seconds a burst lasts
  MacMod,     \* 2^24 in the code: the flows the MAC addresses tell apart
  MaxBursts,  \* bound: calls of a_burst
  MaxDelays   \* bound: units that pass while the thread is not asleep

ASSUME FlowGenAssumption ==
  /\ Rates \subseteq Nat \ {0}
  /\ {LastSec, MaxBursts, MaxDelays} \subseteq Nat
  /\ MacMod \in Nat \ {0, 1}

VARIABLES
  now,       \* the clock, in units
  is_run,
  at,        \* what a_burst does next; "idle": it is not running
  nsleep,
  sec_beg, deadline, result,
  asleep,    \* units left to sleep
  pkt_sent,
  failed,    \* packets pcap_sendpacket() refused; nothing reads it
  src, dst,  \* the counters make_pkt() takes the MAC addresses from
  delays,    \* units that have passed while the thread was not asleep
  bursts,    \* calls of a_burst so far
  beg,       \* when the burst began
  late,      \* its packets that were sent after it should have ended
  flows      \* the flows of the packets made so far

locals == <<nsleep, sec_beg, deadline, result>>
members == <<is_run, failed, src, dst>>
history == <<bursts, beg, late, flows>>
vars == <<now, at, asleep, pkt_sent, delays, locals, members, history>>

\* When last_sec seconds of the burst have passed.
End == beg + LastSec * Nsec

Zero == [sec |-> 0, nsec |-> 0]

Init ==
  /\ now \in 0 .. Nsec - 1
  /\ is_run = TRUE
  /\ at = "idle"
  /\ nsleep = Zero /\ sec_beg = Zero /\ deadline = Zero /\ result = Zero
  /\ asleep = 0 /\ pkt_sent = 0 /\ failed = 0
  /\ src = MacMod - 2 /\ dst = 0  \* of UINT_MAX - 1 the address keeps 24 bits
  /\ delays = 0 /\ bursts = 0 /\ beg = now /\ late = 0 /\ flows = {}

-----------------------------------------------------------------------------
a_burst(rate) ==
  /\ at = "idle" /\ bursts < MaxBursts
  /\ at' = "while"
  /\ nsleep' = [sec |-> 0, nsec |-> Nsec \div rate]
  /\ sec_beg' = Timespec(now)
  /\ deadline' = timespec_add(Timespec(now), nsleep')
  /\ pkt_sent' = 0
  /\ bursts' = bursts + 1
  /\ beg' = now /\ late' = 0
  /\ UNCHANGED <<now, asleep, delays, result, members, flows>>

\* A bug: the thread waits for is_run.
leave_waits == FALSE /\ UNCHANGED vars

\* while(is_run): an earlier burst has cleared it.
leave ==
  /\ at = "while" /\ ~is_run
  /\ at' = "idle"
  /\ UNCHANGED <<now, asleep, pkt_sent, delays, locals, members, history>>

\* A bug: is_run is cleared and the loop goes on.
check_without_break ==
  /\ at = "while" /\ is_run
  /\ sec_beg' \in Changed(Timespec(now), sec_beg)
  /\ result' = Difference(Timespec(now), sec_beg')
  /\ is_run' = (result'.sec < LastSec)
  /\ at' = "send"
  /\ UNCHANGED <<now, asleep, pkt_sent, delays, nsleep, deadline, failed, src, dst, history>>

\* A bug: the burst goes on until more than last_sec seconds have passed.
check_above ==
  /\ at = "while" /\ is_run
  /\ sec_beg' \in Changed(Timespec(now), sec_beg)
  /\ result' = Difference(Timespec(now), sec_beg')
  /\ is_run' = (result'.sec <= LastSec)
  /\ at' = IF is_run' THEN "send" ELSE "idle"
  /\ UNCHANGED <<now, asleep, pkt_sent, delays, nsleep, deadline, failed, src, dst, history>>

\* timeval_subtract() changes sec_beg, for every later check.
check ==
  /\ at = "while" /\ is_run
  /\ sec_beg' \in Changed(Timespec(now), sec_beg)
  /\ result' = Difference(Timespec(now), sec_beg')
  /\ is_run' = (result'.sec < LastSec)
  /\ at' = IF is_run' THEN "send" ELSE "idle"
  /\ UNCHANGED <<now, asleep, pkt_sent, delays, nsleep, deadline, failed, src, dst, history>>

\* A bug: the flow of the last packet again.
make_pkt_again == UNCHANGED <<src, dst>>

\* The MAC addresses keep the low 24 bits: byte 2 of each is overwritten.
make_pkt ==
  /\ src' = (src - 1) % MacMod
  /\ dst' = (dst + 1) % MacMod

\* Sent or refused by pcap, the packet is counted.
send ==
  /\ at = "send"
  /\ at' = "pace"
  /\ make_pkt
  /\ flows' = flows \cup {<<src, dst>>}
  /\ late' = IF now > End THEN late + 1 ELSE late
  /\ failed' \in {failed, failed + 1}
  /\ pkt_sent' = pkt_sent + 1
  /\ UNCHANGED <<now, asleep, delays, locals, is_run, bursts, beg>>

\* nanosleep() refuses nanoseconds that do not make less than a second.
pace ==
  /\ at = "pace"
  /\ deadline' = timespec_add(deadline, nsleep)
  /\ \E y \in Changed(deadline', Timespec(now)) :
       /\ result' = Difference(deadline', y)
       /\ asleep' = IF ~IsNegative(deadline', y) /\ Normal(result')
                    THEN Total(result') ELSE 0
  /\ at' = "sleep"
  /\ UNCHANGED <<now, pkt_sent, delays, nsleep, sec_beg, members, history>>

wake_up ==
  /\ at = "sleep" /\ asleep = 0
  /\ at' = "while"
  /\ UNCHANGED <<now, asleep, pkt_sent, delays, locals, members, history>>

\* A unit of time passes.
tick ==
  /\ now' = now + 1
  /\ \/ asleep > 0 /\ asleep' = asleep - 1 /\ UNCHANGED delays
     \/ asleep = 0 /\ delays < MaxDelays /\ delays' = delays + 1 /\ UNCHANGED asleep
  /\ UNCHANGED <<at, pkt_sent, locals, members, history>>

burst_step == leave \/ check \/ send \/ pace \/ wake_up
Next == burst_step \/ tick \/ \E rate \in Rates : a_burst(rate)

\* The thread is scheduled and a sleeping thread's time passes.  Nobody has to
\* begin a burst.
Spec == Init /\ [][Next]_vars /\ WF_vars(burst_step) /\ WF_vars(asleep > 0 /\ tick)

-----------------------------------------------------------------------------
TypeOK ==
  /\ now \in Nat /\ asleep \in Nat /\ delays \in 0 .. MaxDelays
  /\ at \in {"idle", "while", "send", "pace", "sleep"}
  /\ is_run \in BOOLEAN
  /\ {nsleep, sec_beg, deadline, result} \subseteq [sec : Int, nsec : Int]
  /\ src \in 0 .. MacMod - 1 /\ dst \in 0 .. MacMod - 1
  /\ pkt_sent \in Nat /\ failed \in Nat
  /\ bursts \in 0 .. MaxBursts /\ beg \in 0 .. now /\ late \in Nat
  /\ at \in {"send", "pace", "sleep"} => is_run

\* However often timeval_subtract() changes it, sec_beg stands for the instant
\* at which the burst began.
BurstStartKept == at # "idle" => Total(sec_beg) = beg

\* A packet's slot: the deadline behind which the code should sleep.
Slot(k) == beg + k * nsleep.nsec
NextSlot == Slot(IF at = "pace" THEN pkt_sent ELSE pkt_sent + 1)

\* The deadline is the next packet's slot as long as the slots have not crossed
\* a second.  Behind that timespec_add() goes wrong, but never so that the
\* deadline is earlier than the slot: at three packets a second or more, that
\* is (the tester asks for 100 to 2000).
DeadlineNotBehind ==
  at # "idle" =>
    /\ Total(deadline) >= NextSlot
    /\ NextSlot \div Nsec = beg \div Nsec => Total(deadline) = NextSlot

Sends == at = "send" /\ at' = "pace"

\* A burst is never more than two packets ahead of the rate it was asked for,
\* whatever delays it, although nanosleep() refuses what timespec_add() makes of
\* some deadlines.
NeverFasterThanAsked == [][Sends => now >= Slot(pkt_sent - 2)]_vars

\* The clock is read before a packet is made, and the thread may be delayed
\* between the two.  So a burst may send a packet after last_sec seconds, but
\* one at most, and that one no later than the thread has been delayed.  And
\* is_run is not cleared before last_sec seconds have passed, although every
\* check subtracts from the clock what the checks before it have left of
\* sec_beg: the burst that finds is_run set runs its time, and only the later
\* ones, which find it cleared, return at once.
CutOff ==
  [][/\ Sends => now <= End + delays /\ late' <= 1
     /\ is_run # is_run' => now >= End]_vars

\* Every packet is of a flow the switch has not seen, until the counters have
\* gone round.
FlowsAreNew ==
  [][Sends => <<src, dst>> \notin flows \/ \E f \in flows : f[2] = MacMod - 1]_vars

\* A burst returns.
BurstReturns == at # "idle" ~> at = "idle"

\* "determin if terminate this burst" (FlowGen.cpp:21): the check ends the burst
\* it is made in.
EveryBurstSends ==
  [][at = "while" /\ at' = "idle" => pkt_sent > 0]_vars
=============================================================================
