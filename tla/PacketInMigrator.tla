-------------------------- MODULE PacketInMigrator --------------------------
(***************************************************************************)
(* PKTMigrator (PacketInMigrator.h): the messages it writes to its session *)
(* when the control path is to be moved and when it is to be drawn back.   *)
(***************************************************************************)
EXTENDS OpenFlow

CONSTANT SwitchPath  \* "add: send all packets out of the proxy's port"

ASSUME SwitchPathAssumption == SwitchPath \in Payloads

\* A bug: the command in place of the type.
prepare_switch_mistyped ==
  [type |-> "OFPFC_ADD", len |-> 56 + 8 + 16, payload |-> SwitchPath]

\* ofp_flow_mod, ofp_instruction_actions and ofp_action_output.
prepare_switch == [type |-> "OFPT_FLOW_MOD", len |-> 56 + 8 + 16, payload |-> SwitchPath]
=============================================================================
