-------------------------- MODULE MCPacketInTester --------------------------
(***************************************************************************)
(* A switch that says HELLO, answers requests and sends PACKET_INs, and    *)
(* may close after any message or within the header of one more.           *)
(***************************************************************************)
EXTENDS PacketInTester, TLC

CONSTANTS s, p1, p2, p3

hello == [type |-> "OFPT_HELLO", len |-> 8, payload |-> p1]
features_reply == [type |-> "OFPT_FEATURES_REPLY", len |-> 32, payload |-> p2]
packet_in == [type |-> "OFPT_PACKET_IN", len |-> 264, payload |-> p3]

MCPayloads == {p1, p2, p3}
MCFramesFrom == s :> {hello, features_reply, packet_in}
MCZeroed == {[type |-> "OFPT_OTHER", len |-> 0, payload |-> Torn]}
MCSent == s :> 4
=============================================================================
