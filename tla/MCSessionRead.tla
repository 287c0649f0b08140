--------------------------- MODULE MCSessionRead ----------------------------
(***************************************************************************)
(* One session, three kinds of message: one that is only a header and two  *)
(* with a body, whose lengths differ in both bytes so that a header torn   *)
(* between them has yet another length (264 and 12 mix to 8 or to 268).    *)
(***************************************************************************)
EXTENDS SessionRead

CONSTANTS s1, p1, p2, p3

hello == [type |-> "OFPT_HELLO", len |-> 8, payload |-> p1]
packet_in == [type |-> "OFPT_PACKET_IN", len |-> 264, payload |-> p2]
other == [type |-> "OFPT_OTHER", len |-> 12, payload |-> p3]

MCPayloads == {p1, p2, p3}
MCThreeEach == [s \in {s1} |-> 3]
MCTwoEach == [s \in {s1} |-> 2]
MCFramesFrom == [s \in {s1} |-> {hello, packet_in, other}]
MCUninitialised == {[type |-> "OFPT_HELLO", len |-> n, payload |-> Torn] : n \in {0, 8, 9}}
MCZeroed == {[type |-> "OFPT_OTHER", len |-> 0, payload |-> Torn]}
=============================================================================
