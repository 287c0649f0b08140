----------------------------- MODULE MCFlowGen ------------------------------
(***************************************************************************)
(* A second is 11 units, so that 2^32 nanoseconds are 47 and an int holds  *)
(* -23 .. 23: as in the code, a uint32_t holds four seconds and not five,  *)
(* an int two and not three.  A burst of 5 seconds at 3 or 5 packets a     *)
(* second, begun anywhere in a second, crosses seconds often enough for    *)
(* both to wrap.                                                           *)
(***************************************************************************)
EXTENDS FlowGen
=============================================================================
