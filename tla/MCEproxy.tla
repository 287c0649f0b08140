------------------------------ MODULE MCEproxy ------------------------------
(***************************************************************************)
(* A switch that sends PACKET_INs and messages of one header, and a        *)
(* controller that sends messages with a body.                             *)
(***************************************************************************)
EXTENDS Eproxy, TLC

CONSTANTS s, c, p1, p2, p3

hello == [type |-> "OFPT_HELLO", len |-> 8, payload |-> p1]
packet_in == [type |-> "OFPT_PACKET_IN", len |-> 264, payload |-> p2]
other == [type |-> "OFPT_OTHER", len |-> 12, payload |-> p3]

MCPayloads == {p1, p2, p3, SwitchPath}
MCZeroed == {[type |-> "OFPT_OTHER", len |-> 0, payload |-> Torn]}
MCFramesFrom == (s :> {hello, packet_in}) @@ (c :> {other})
MCRelaySent == (s :> 3) @@ (c :> 1)
MCCloseSent == (s :> 2) @@ (c :> 0)
=============================================================================
