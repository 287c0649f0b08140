---------------------------- MODULE MCOFPBuffer -----------------------------
(***************************************************************************)
(* Two threads push and two take.  The threads of a kind are alike.        *)
(***************************************************************************)
EXTENDS OFPBuffer

CONSTANTS p, q, t, u
=============================================================================
