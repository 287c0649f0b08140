------------------------------- MODULE Relay --------------------------------
(***************************************************************************)
(* What the proxy promises between a switch and a controller that both     *)
(* stay connected: either side is delivered what the other sent, whole,    *)
(* once and in order; the only thing added is the FLOW_MOD that moves the  *)
(* control path, on the way to the switch, and there is at most one for    *)
(* every thresh_hold_ PACKET_INs the switch sent.  The proxy may give up   *)
(* before both sides are there.                                            *)
(***************************************************************************)
EXTENDS Integers, Sequences, FiniteSets

CONSTANTS
  s_session, c_session,  \* the switch's side and the controller's
  FramesFrom,            \* FramesFrom[s]: what side s may send
  switch_message,        \* the FLOW_MOD of the proxy
  thresh_hold_

VARIABLES
  sent,      \* sent[s]: the messages side s sent, in order
  delivered, \* delivered[s]: the messages side s was delivered, in order
  given_up   \* the proxy gave up before both sides were connected

vars == <<sent, delivered, given_up>>

Sessions == {s_session, c_session}
Other(s) == IF s = s_session THEN c_session ELSE s_session

\* How many messages of q are the peer's, and how many are the proxy's own.
FromPeer(q) == Cardinality({k \in DOMAIN q : q[k] # switch_message})
Own(q) == Cardinality({k \in DOMAIN q : q[k] = switch_message})
PacketIns == Cardinality({i \in DOMAIN sent[s_session] :
                            sent[s_session][i].type = "OFPT_PACKET_IN"})

Init ==
  /\ sent = [s \in Sessions |-> <<>>]
  /\ delivered = [s \in Sessions |-> <<>>]
  /\ given_up = FALSE

Send(s) ==
  /\ \E f \in FramesFrom[s] : sent' = [sent EXCEPT ![s] = Append(@, f)]
  /\ UNCHANGED <<delivered, given_up>>

Deliver(s) ==
  LET n == FromPeer(delivered[s]) + 1
  IN  /\ ~given_up
      /\ n <= Len(sent[Other(s)])
      /\ delivered' = [delivered EXCEPT ![s] = Append(@, sent[Other(s)][n])]
      /\ UNCHANGED <<sent, given_up>>

Inject ==
  /\ ~given_up
  /\ (Own(delivered[s_session]) + 1) * thresh_hold_ <= PacketIns
  /\ delivered' = [delivered EXCEPT ![s_session] = Append(@, switch_message)]
  /\ UNCHANGED <<sent, given_up>>

GiveUp ==
  /\ \A s \in Sessions : delivered[s] = <<>>
  /\ given_up' = TRUE
  /\ UNCHANGED <<sent, delivered>>

Next == Inject \/ GiveUp \/ \E s \in Sessions : Send(s) \/ Deliver(s)

Spec == Init /\ [][Next]_vars /\ \A s \in Sessions : WF_vars(Deliver(s))
=============================================================================
