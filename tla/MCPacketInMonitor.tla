------------------------- MODULE MCPacketInMonitor --------------------------
(***************************************************************************)
(* One kind of PACKET_IN, a threshold of two.  The counter can reach       *)
(* MaxArrived without wrapping.                                            *)
(***************************************************************************)
EXTENDS PacketInMonitor

CONSTANTS packet_in
=============================================================================
