--------------------------- MODULE MCSessionWrite ---------------------------
(***************************************************************************)
(* A message of 120 bytes and the empty message of draw_back.  A partial   *)
(* write takes 50 bytes, so a message leaves in up to three pieces.        *)
(***************************************************************************)
EXTENDS SessionWrite

CONSTANTS c, s

MCMessages == {[len |-> 0], [len |-> 120]}
=============================================================================
