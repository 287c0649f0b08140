------------------------------- MODULE Eproxy -------------------------------
(***************************************************************************)
(* The proxy of eproxy.cpp: main connects to the controller, accepts one   *)
(* switch, starts the monitor's worker and both sessions and becomes the   *)
(* io thread.  What either session reads goes through its dispatcher to    *)
(* the other one's write(), the switch's PACKET_INs by way of the monitor; *)
(* the monitor's action is the migrator's switch_path, a write() to the    *)
(* switch from the worker thread.                                          *)
(*                                                                         *)
(* The components are instances over the variables of this module:         *)
(*   R  the receiving, W the sending half of both sessions, M the monitor  *)
(* and a step of the proxy conjoins steps of theirs.  The io thread is one *)
(* thread: while it is between add_counter and follow_ (following) it runs *)
(* no other handler; worker, peers and sockets go on.                      *)
(***************************************************************************)
EXTENDS PacketInMigrator, Dispatcher, Sequences, FiniteSets

CONSTANTS
  s_session, c_session,  \* the session of the switch, of the controller
  thresh_hold_,          \* 10 in main
  CounterMod, NoMessage, \* see PacketInMonitor
  FramesFrom, Closing, CutPoints, Uninitialised, MaxSent, MaxDispatched,
                         \* see SessionRead
  ShortCounts            \* see SessionWrite

VARIABLES
  sent, pos, open, cut, phase, data_, dispatched, failed,
  written, posted, sockq, stream, up,
  worker, is_running, counter, following, arrived, mark, triggers, lateTriggers,
  main                   \* what main does next

Sessions == {s_session, c_session}
Other(s) == IF s = s_session THEN c_session ELSE s_session

\* No peer sends the very FLOW_MOD of the proxy, so that they can be told apart.
ASSUME EproxyAssumption ==
  /\ s_session # c_session
  /\ thresh_hold_ \in Nat /\ CounterMod \in Nat \ {0}
  /\ NoMessage \notin ofp_header
  /\ FramesFrom \in [Sessions -> SUBSET (Message \ {prepare_switch})]
  /\ Closing \subseteq Sessions /\ CutPoints \subseteq Nat
  /\ Uninitialised \subseteq ofp_header
  /\ MaxSent \in [Sessions -> Nat] /\ MaxDispatched \in Nat
  /\ ShortCounts \subseteq Nat \ {0}

R == INSTANCE SessionRead
W == INSTANCE SessionWrite WITH
       Messages <- ofp_header, Breakable <- Closing, MaxWritten <- 0
M == INSTANCE PacketInMonitor WITH Messages <- ofp_header, MaxArrived <- 0

rvars == <<sent, pos, open, cut, phase, data_, dispatched, failed>>
wvars == <<written, posted, sockq, stream, up>>
mvars == <<worker, is_running, counter, following, arrived, mark, triggers, lateTriggers>>
vars == <<rvars, wvars, mvars, main>>

Main == {"connect", "listen", "monitor.start", "s_session.start",
         "c_session.start", "run", "returned", "failed"}

Init == R!Init /\ W!Init /\ M!Init /\ main = "connect"

-----------------------------------------------------------------------------
(* The callbacks main binds. *)

dispatcher_from_switch ==
  setCallBackOnMessage(setDefaultCallback(NewDispatcher, "c_session.write"),
                       "OFPT_PACKET_IN", "monitor.onMessage")

\* A bug: the controller's messages go back to it.
dispatcher_crossed == setDefaultCallback(NewDispatcher, "c_session.write")

dispatcher_from_controller == setDefaultCallback(NewDispatcher, "s_session.write")

dispatcher_(s) ==
  IF s = s_session THEN dispatcher_from_switch ELSE dispatcher_from_controller

Call(callback, message) ==
  \/ callback = "c_session.write" /\ W!write(c_session, message) /\ UNCHANGED mvars
  \/ callback = "s_session.write" /\ W!write(s_session, message) /\ UNCHANGED mvars
  \/ callback = "monitor.onMessage" /\ M!add_counter(message) /\ UNCHANGED wvars

\* A bug: the migrator is given the other session.
switch_path_crossed == W!write(c_session, prepare_switch)

switch_path == W!write(s_session, prepare_switch)

-----------------------------------------------------------------------------
(* main *)

Goes(from, to) == main = from /\ main' = to

\* A connect or accept that throws ends main, and so does run() when it returns,
\* once nothing is outstanding on either session.
connect ==
  /\ Goes("connect", "listen") \/ Goes("connect", "failed")
  /\ UNCHANGED <<rvars, wvars, mvars>>
listen ==
  /\ Goes("listen", "monitor.start") \/ Goes("listen", "failed")
  /\ UNCHANGED <<rvars, wvars, mvars>>
monitor_start ==
  /\ Goes("monitor.start", "s_session.start")
  /\ M!start /\ UNCHANGED <<rvars, wvars>>
session_start ==
  /\ \/ Goes("s_session.start", "c_session.start") /\ R!start(s_session)
     \/ Goes("c_session.start", "run") /\ R!start(c_session)
  /\ UNCHANGED <<wvars, mvars>>

\* A bug: io_service is stopped once both reads have ended.
run_stopped ==
  /\ Goes("run", "returned")
  /\ \A s \in Sessions : phase[s] = "stopped"
  /\ following = NoMessage
  /\ UNCHANGED <<rvars, wvars, mvars>>

run_returns ==
  /\ Goes("run", "returned")
  /\ \A s \in Sessions : phase[s] = "stopped" /\ sockq[s] = <<>>
  /\ posted = <<>> /\ following = NoMessage
  /\ UNCHANGED <<rvars, wvars, mvars>>

MainStep == connect \/ listen \/ monitor_start \/ session_start \/ run_returns

-----------------------------------------------------------------------------
(* The io thread *)

InRun == main = "run" /\ UNCHANGED main

\* A bug: two threads in run().
IoThreadPool == InRun

IoThreadIdle == InRun /\ following = NoMessage

Read(s) ==
  /\ IoThreadIdle
  /\ R!Handler(s)
  /\ \/ dispatched' = dispatched /\ UNCHANGED <<wvars, mvars>>
     \/ /\ dispatched' # dispatched
        /\ LET message == dispatched'[s][Len(dispatched'[s])]
           IN  Call(onMessage(dispatcher_(s), message.type), message)

\* A bug: the monitor keeps what it counts.
follow_forgotten == InRun /\ M!follow /\ UNCHANGED <<rvars, wvars>>

\* onMessage of the monitor passes the message on.
follow ==
  /\ InRun
  /\ M!follow
  /\ W!write(c_session, following)
  /\ UNCHANGED rvars

Write == IoThreadIdle /\ W!IoThread /\ UNCHANGED <<rvars, mvars>>

-----------------------------------------------------------------------------
(* The worker thread, until the process exits. *)

clear ==
  /\ main \notin {"returned", "failed"}
  /\ \/ (M!while \/ M!reset \/ M!sample) /\ UNCHANGED wvars
     \/ M!action /\ switch_path
  /\ UNCHANGED <<rvars, main>>

-----------------------------------------------------------------------------
(* Peers and sockets *)

Connected(s) ==
  main \notin {"connect", "returned", "failed"} /\ (s = s_session => main # "listen")

Peer(s) == Connected(s) /\ R!Peer(s) /\ UNCHANGED <<wvars, mvars, main>>

\* What is sent to a peer that has closed is answered with a reset.
Reset(s) ==
  /\ s \in Closing /\ ~open[s] /\ W!Break(s)
  /\ UNCHANGED <<rvars, mvars, main>>

Socket(s) == main \notin {"returned", "failed"} /\ W!Socket(s) /\ UNCHANGED <<rvars, mvars, main>>

-----------------------------------------------------------------------------
Next ==
  \/ MainStep
  \/ follow \/ Write \/ clear
  \/ \E s \in Sessions : Read(s) \/ Peer(s) \/ Reset(s) \/ Socket(s)

\* The two threads run, and a connected peer keeps reading.  The queue of
\* io_service is first in, first out, so that each of its handlers has its turn.
IoThread == MainStep \/ follow \/ Write \/ \E s \in Sessions : Read(s)
Fairness ==
  /\ WF_vars(IoThread)
  /\ WF_vars(clear)
  /\ WF_vars(\E s \in Sessions : Socket(s))

Spec == Init /\ [][Next]_vars /\ Fairness

-----------------------------------------------------------------------------
TypeOK == R!TypeOK /\ W!TypeOK /\ M!TypeOK /\ main \in Main

\* What the socket of s took, in whole messages (there are no partial writes).
Delivered(s) == [k \in DOMAIN stream[s] |-> written[s][stream[s][k].msg]]

Promise == INSTANCE Relay WITH
             delivered <- [s \in Sessions |-> Delivered(s)],
             switch_message <- prepare_switch,
             given_up <- main = "failed"

\* With both peers connected and no partial write, the proxy is a relay.
ImplementsRelay == Promise!Spec

\* A burst of thresh_hold_ PACKET_INs within a sample period has the FLOW_MOD
\* sent to the switch.
FlowMods(q) == Cardinality({k \in DOMAIN q : q[k] = prepare_switch})
BurstMovesPath ==
  \A n \in 0 .. MaxSent[s_session] :
    (worker = "sleep" /\ arrived - mark >= thresh_hold_ /\ triggers = n)
      ~> FlowMods(Delivered(s_session)) > n

\* How many of the first k messages of q are not the proxy's own.
FromPeer(q, k) == Cardinality({j \in 1 .. k : q[j] # prepare_switch})

\* Message k written to s is the i-th of those the peer sent.
Relays(s, k, i) ==
  FromPeer(written[s], k) = i /\ written[s][k] = sent[Other(s)][i]

\* Whoever closes and however the reads end, the messages a peer completed are
\* written to the other side before anything the proxy makes up from what is
\* left in the buffer.
PeerMessagesFirst ==
  \A s \in Sessions : \A k \in DOMAIN written[s] :
    LET i == FromPeer(written[s], k)
    IN  written[s][k] # prepare_switch /\ i \in DOMAIN sent[Other(s)] => Relays(s, k, i)

\* run() returns only when everything the peers sent has gone out, to its last
\* byte, to a side that is still there.
ReturnsAfterRelaying ==
  \A s \in Sessions :
    main = "returned" /\ up[s] =>
      \A i \in DOMAIN sent[Other(s)] :
        \E k \in DOMAIN written[s] : Relays(s, k, i) /\ W!Sent(s, k)

\* Closing does not cut off what was sent before it: a message a peer completed
\* reaches the other side if that is still there.
CompletedMessagesDelivered ==
  \A s \in Sessions : \A n \in 1 .. MaxSent[Other(s)] :
    n <= Len(sent[Other(s)]) ~>
      main = "failed" \/ ~up[s] \/ n <= Promise!FromPeer(Delivered(s))
=============================================================================
