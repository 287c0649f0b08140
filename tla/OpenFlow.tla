------------------------------ MODULE OpenFlow ------------------------------
(***************************************************************************)
(* The part of the OpenFlow wire format that Euthenia looks at: the eight  *)
(* byte header that precedes every message (openflow.h, struct ofp_header) *)
(* and the size_t arithmetic the session does on its length field.         *)
(*                                                                         *)
(* A message is abstracted to the fields the program acts on:              *)
(*   type     the ofp_type; only the types some dispatcher is keyed on are *)
(*            told apart, every other type is "OFPT_OTHER"                 *)
(*   len      the 16 bit length field, header included                     *)
(*   payload  the xid and the body together, as one opaque value           *)
(***************************************************************************)
EXTENDS Integers

CONSTANTS
  SizeMod,   \* size_t is arithmetic modulo SizeMod (2^64 in the program)
  Payloads,  \* the contents peers put in messages
  Torn       \* content that mixes bytes of two messages, or is incomplete

HeaderLen == 8            \* sizeof(ofp_header)
Byte == 256
UInt16Max == Byte * Byte - 1
UInt16 == 0 .. UInt16Max

ASSUME SizeModAssumption == SizeMod \in Nat /\ SizeMod > UInt16Max
ASSUME TornAssumption == Torn \notin Payloads

ofp_type == {"OFPT_HELLO", "OFPT_FEATURES_REPLY", "OFPT_PACKET_IN",
             "OFPT_FLOW_MOD", "OFPT_OTHER"}

\* Whatever eight bytes a program takes for a header, and what follows them.
ofp_header == [type : ofp_type, len : UInt16, payload : Payloads \cup {Torn}]

\* A message as a conforming peer builds it: its length counts its header.
Message == [type : ofp_type, len : HeaderLen .. UInt16Max, payload : Payloads]

\* Bugs that the subtraction could have: the header counted as body, and a
\* short length taken for an empty body.
BodyLengthWithHeader(len) == len
BodyLengthSaturated(len) == IF len >= HeaderLen THEN len - HeaderLen ELSE 0

\* ntohs(header->length) - sizeof(ofp_header), in size_t: it wraps below zero.
BodyLength(len) ==
  IF len >= HeaderLen THEN len - HeaderLen ELSE SizeMod + len - HeaderLen
=============================================================================
