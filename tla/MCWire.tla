------------------------------- MODULE MCWire -------------------------------
(***************************************************************************)
(* Numbers whose bytes differ, so that none survives a wrong order, and    *)
(* the first values of the counters of make_pkt.                           *)
(***************************************************************************)
EXTENDS Wire

MCTypes == {<<0, 0, 0, 0>>, <<0, 0, 0, 5>>}
MCXids == {<<0, 0, 0, 1>>, <<1, 2, 3, 4>>}
MCPorts == {<<0, 0, 0, 2>>, <<5, 6, 7, 8>>}
MCCounters == {<<0, 0, 0, 0>>, <<255, 255, 255, 254>>, <<9, 8, 7, 6>>}
=============================================================================
