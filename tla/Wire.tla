-------------------------------- MODULE Wire --------------------------------
(***************************************************************************)
(* The bytes the program builds in uninitialised memory, assignment by     *)
(* assignment, and how the other side reads them:                          *)
(*   hello     send_hello and send_feature_request (PacketInTester.cpp)    *)
(*   flow_mod  prepare_switch (PacketInMigrator.h)                         *)
(*   packet    make_pkt (FlowGen.cpp), without its 1400 bytes of payload   *)
(*                                                                         *)
(* host is the machine it is compiled for: its byte order and how it lays  *)
(* out a struct.  A number is its bytes, the first the highest.            *)
(* The reader is external: it follows the lengths as the comments of       *)
(* openflow.h say.                                                         *)
(***************************************************************************)
EXTENDS OpenFlowStructs, FiniteSets, SequencesExt

CONSTANTS
  Types,    \* the type of a message that is only a header
  Xids,     \* what get_XID() returns
  Ports,    \* the eproxy_data_path_port_s
  Counters, \* the values of the counters src and dst of make_pkt
  Unset     \* a byte nothing was assigned to

ASSUME WireAssumption ==
  /\ Types \cup Xids \cup Ports \cup Counters \subseteq [1 .. 4 -> 0 .. 255]
  /\ Unset \notin 0 .. 255

VARIABLES
  host,    \* little: byte order; machine: its layout of structs
  what,    \* what is built, and its inputs
  memory,  \* the bytes of the buffer
  written, \* the assignments done
  cursor,  \* where the reader is
  inside,  \* where the instruction ends that it is in
  read     \* what it has read, in order

vars == <<host, what, memory, written, cursor, inside, read>>

At(struct, name) == offsetof(struct, name, host.machine)
Sizeof(struct) == sizeof(struct, host.machine)

-----------------------------------------------------------------------------
(* Numbers, in memory and in registers. *)

Uint8(n) == <<n>>
Uint16(n) == <<n \div 256, n % 256>>
Zeros(n) == [k \in 1 .. n |-> 0]
Ones(n) == [k \in 1 .. n |-> 255]
Number(bytes) == 256 * bytes[1] + bytes[2]  \* of a uint16_t

\* A number as the host stores it.
Stored(bytes) == IF host.little THEN Reverse(bytes) ELSE bytes

\* A bug: the conversion is forgotten.
hton_none(bytes) == bytes

\* htons, htonl and htobe64.
hton(bytes) == IF host.little THEN Reverse(bytes) ELSE bytes

\* base->name = value, for a struct at this offset of the buffer.
Set(base, struct, name, value) ==
  [at |-> base + At(struct, name), bytes |-> Stored(value)]

-----------------------------------------------------------------------------
(* The assignments, in the order of the code. *)

OFP_VERSION == Uint8(4)
OFPT_FLOW_MOD == Uint8(14)
OFPFC_ADD == Uint8(0)
OFP_NO_BUFFER == Ones(4)
OFPP_ANY == Ones(4)
OFPG_ANY == Ones(4)
OFPMT_OXM == Uint16(1)
OFPIT_APPLY_ACTIONS == Uint16(4)
OFPAT_OUTPUT == Uint16(0)
OFPCML_NO_BUFFER == Ones(2)
COOKIE_SWITCH == Zeros(6) \o Uint16(6 * 256 + 39)

send_header(type, xid) ==
  <<Set(0, ofp_header, "type", Uint8(type[4])),
    Set(0, ofp_header, "version", OFP_VERSION),
    Set(0, ofp_header, "length", hton(Uint16(Sizeof(ofp_header)))),
    Set(0, ofp_header, "xid", hton(xid))>>

InstructionAt == Sizeof(ofp_flow_mod)
ActionAt == InstructionAt + Sizeof(ofp_instruction_actions)
FlowModSize == ActionAt + Sizeof(ofp_action_output)
MatchAt == At(ofp_flow_mod, "match")

\* A bug: the length of the match counts its padding.
MatchLengthPadded == Sizeof(ofp_match)
MatchLength == Sizeof(ofp_match) - 4

prepare_switch(port) ==
  LET flow_mod(name, value) == Set(0, ofp_flow_mod, name, value)
      header(name, value) == Set(0, ofp_header, name, value)
      match(name, value) == Set(MatchAt, ofp_match, name, value)
      instruction(name, value) == Set(InstructionAt, ofp_instruction_actions, name, value)
      action(name, value) == Set(ActionAt, ofp_action_output, name, value)
  IN  <<header("version", OFP_VERSION),
        header("type", OFPT_FLOW_MOD),
        header("xid", hton(<<18, 52, 86, 120>>)),
        flow_mod("cookie", hton(COOKIE_SWITCH)),
        flow_mod("cookie_mask", Zeros(8)),
        flow_mod("table_id", Zeros(1)),
        flow_mod("command", OFPFC_ADD),
        flow_mod("idle_timeout", Zeros(2)),
        flow_mod("hard_timeout", Zeros(2)),
        flow_mod("priority", hton(Uint16(1))),
        flow_mod("buffer_id", OFP_NO_BUFFER),
        flow_mod("out_port", OFPP_ANY),
        flow_mod("out_group", OFPG_ANY),
        flow_mod("flags", Zeros(2)),
        flow_mod("pad", Zeros(2)),
        match("type", hton(OFPMT_OXM)),
        match("length", hton(Uint16(MatchLength))),
        match("pad", Zeros(4)),
        instruction("type", hton(OFPIT_APPLY_ACTIONS)),
        instruction("len", hton(Uint16(FlowModSize - InstructionAt))),
        instruction("pad", Zeros(4)),
        action("type", hton(OFPAT_OUTPUT)),
        action("len", hton(Uint16(FlowModSize - ActionAt))),
        action("port", hton(port)),
        action("max_len", OFPCML_NO_BUFFER),
        action("pad", Zeros(6)),
        header("length", hton(Uint16(FlowModSize)))>>

IpAt == Sizeof(sniff_ethernet)
TcpAt == IpAt + Sizeof(sniff_ip)

\* The constructors of the three headers, then make_pkt.  ip_len is not
\* converted; ip_sum and the ports, numbers and window of TCP are not set.
make_pkt(src, dst) ==
  LET eth(name, value) == Set(0, sniff_ethernet, name, value)
      ip(name, value) == Set(IpAt, sniff_ip, name, value)
      tcp(name, value) == Set(TcpAt, sniff_tcp, name, value)
      host_byte(name, k, value) == [at |-> At(sniff_ethernet, name) + k, bytes |-> value]
  IN  <<host_byte("ether_dhost", 0, Zeros(6)),
        host_byte("ether_shost", 0, Zeros(6)),
        eth("ether_type", hton(Uint16(8 * 256))),
        ip("ip_vhl", Uint8(69)), ip("ip_tos", Zeros(1)), ip("ip_len", Uint16(20)),
        ip("ip_id", Zeros(2)), ip("ip_off", Zeros(2)),
        ip("ip_ttl", Uint8(64)), ip("ip_p", Uint8(6)),
        ip("ip_src", hton(<<10, 0, 0, 1>>)), ip("ip_dst", hton(<<10, 0, 0, 2>>)),
        tcp("th_offx2", Uint8(80)), tcp("th_flags", Uint8(16)),
        tcp("th_sum", Zeros(2)), tcp("th_urp", Zeros(2)),
        ip("ip_len", Uint16(Sizeof(sniff_ip) + Sizeof(sniff_tcp) + 1400)),
        host_byte("ether_shost", 2, Stored(hton(src))),
        host_byte("ether_dhost", 2, Stored(hton(dst))),
        host_byte("ether_dhost", 2, Uint8(12)),
        host_byte("ether_shost", 0, <<0, 2, 179>>)>>

Assignments ==
  CASE what.kind = "hello" -> send_header(what.type, what.xid)
    [] what.kind = "flow_mod" -> prepare_switch(what.port)
    [] what.kind = "packet" -> make_pkt(what.src, what.dst)

Size ==
  CASE what.kind = "hello" -> Sizeof(ofp_header)
    [] what.kind = "flow_mod" -> FlowModSize
    [] what.kind = "packet" -> TcpAt + Sizeof(sniff_tcp)

Init ==
  /\ host \in [little : BOOLEAN, machine : Machines]
  /\ what \in [kind : {"hello"}, type : Types, xid : Xids]
            \cup [kind : {"flow_mod"}, port : Ports]
            \cup [kind : {"packet"}, src : Counters, dst : Counters]
  /\ memory = [k \in 1 .. Size |-> Unset]
  /\ written = 0 /\ cursor = 0 /\ inside = 0 /\ read = <<>>

Overwrite(a) ==
  [k \in DOMAIN memory |-> IF k - a.at \in DOMAIN a.bytes THEN a.bytes[k - a.at] ELSE memory[k]]

assign ==
  /\ written < Len(Assignments)
  /\ memory' = Overwrite(Assignments[written + 1])
  /\ written' = written + 1
  /\ UNCHANGED <<host, what, cursor, inside, read>>

-----------------------------------------------------------------------------
(* The reader. *)

Sent == written = Len(Assignments)

Get(base, struct, name) ==
  SubSeq(memory, base + At(struct, name) + 1,
         base + At(struct, name) + fieldsize(struct, name, host.machine))

Reads(item, next, end) ==
  /\ Sent
  /\ read' = Append(read, item)
  /\ cursor' = next
  /\ inside' = end
  /\ UNCHANGED <<host, what, memory, written>>

Here(kind, item) == what.kind = kind /\ Len(read) = item

read_header ==
  /\ Here("hello", 0) \/ Here("flow_mod", 0)
  /\ LET header(name) == Get(0, ofp_header, name)
     IN  Reads(<<header("version"), header("type"), Number(header("length")), header("xid")>>,
               Sizeof(ofp_header), 0)

read_flow_mod ==
  /\ Here("flow_mod", 1)
  /\ LET flow_mod(name) == Get(0, ofp_flow_mod, name)
     IN  Reads(<<flow_mod("command"), flow_mod("table_id"), flow_mod("cookie"),
                 Number(flow_mod("priority")), flow_mod("buffer_id"), flow_mod("out_port")>>,
               MatchAt, 0)

\* The length leaves out the padding, which makes the match a multiple of 8.
read_match ==
  /\ Here("flow_mod", 2)
  /\ LET length == Number(Get(cursor, ofp_match, "length"))
     IN  Reads(<<Number(Get(cursor, ofp_match, "type")), length - 4>>,
               cursor + AlignUp(length, 8), 0)

read_instruction ==
  /\ what.kind = "flow_mod" /\ Len(read) >= 3
  /\ inside = 0 /\ cursor < read[1][3]
  /\ Reads(<<Number(Get(cursor, ofp_instruction_actions, "type"))>>,
           cursor + Sizeof(ofp_instruction_actions),
           cursor + Number(Get(cursor, ofp_instruction_actions, "len")))

read_action ==
  /\ cursor < inside
  /\ LET action(name) == Get(cursor, ofp_action_output, name)
         next == cursor + Number(action("len"))
     IN  Reads(<<Number(action("type")), action("port"), action("max_len")>>,
               next, IF next = inside THEN 0 ELSE inside)

read_ethernet ==
  /\ Here("packet", 0)
  /\ LET eth(name) == Get(0, sniff_ethernet, name)
     IN  Reads(<<eth("ether_dhost"), eth("ether_shost"), eth("ether_type")>>, IpAt, 0)

read_ip ==
  /\ Here("packet", 1)
  /\ LET ip(name) == Get(cursor, sniff_ip, name)
     IN  Reads(<<ip("ip_len"), ip("ip_p"), ip("ip_src"), ip("ip_dst"), ip("ip_sum")>>,
               cursor + 4 * (ip("ip_vhl")[1] % 16), 0)

read_tcp ==
  /\ Here("packet", 2)
  /\ LET tcp(name) == Get(cursor, sniff_tcp, name)
     IN  Reads(<<tcp("th_flags"), tcp("th_dport")>>,
               cursor + 4 * (tcp("th_offx2")[1] \div 16), 0)

reader ==
  \/ read_header \/ read_flow_mod \/ read_match \/ read_instruction \/ read_action
  \/ read_ethernet \/ read_ip \/ read_tcp

Finished == Sent /\ cursor = Size /\ inside = 0
rest == Finished /\ UNCHANGED vars

Next == assign \/ reader \/ rest

Spec == Init /\ [][Next]_vars

-----------------------------------------------------------------------------
TypeOK ==
  /\ memory \in [1 .. Size -> 0 .. 255 \cup {Unset}]
  /\ written \in 0 .. Len(Assignments)
  /\ cursor \in 0 .. Size /\ inside \in {0} \cup cursor + 1 .. Size

\* On either machine every struct has the size its OFP_ASSERT states, and no
\* field lies behind a gap that the wire format does not have, which the
\* assertion alone would not show: the structs are not declared packed.
LayoutAsAsserted ==
  \A n \in DOMAIN Structs : LaidOutAsAsserted(Structs[n], host.machine)

UnsetBytes == Cardinality({k \in DOMAIN memory : memory[k] = Unset})

\* What the reader should find, whatever machine built it.
Meant ==
  CASE what.kind = "hello" ->
         <<<<OFP_VERSION, Uint8(what.type[4]), 8, what.xid>>>>
    [] what.kind = "flow_mod" ->
         <<<<OFP_VERSION, OFPT_FLOW_MOD, 80, <<18, 52, 86, 120>>>>,
           <<OFPFC_ADD, <<0>>, COOKIE_SWITCH, 1, OFP_NO_BUFFER, OFPP_ANY>>,
           <<1, 0>>,                            \* an empty OXM match
           <<4>>,                               \* apply one action:
           <<0, what.port, OFPCML_NO_BUFFER>>>> \* output to the port
    [] what.kind = "packet" ->
         <<<<<<0, 0, 12>> \o Tail(what.dst), <<0, 2, 179>> \o Tail(what.src), <<8, 0>>>>,
           <<Stored(Uint16(1440)), <<6>>, <<10, 0, 0, 1>>, <<10, 0, 0, 2>>, <<Unset, Unset>>>>,
           <<<<16>>, <<Unset, Unset>>>>>>

\* What was built says what was meant, on every machine, although some fields
\* are converted and some are not.  (That it can be read to its last byte is
\* that the run does not deadlock.)  Of a control
\* message every byte has been assigned.  Of a packet 16 bytes have not, and
\* its total length is right only where the host's byte order is the network's.
ReadAsMeant ==
  Finished =>
    /\ read = Meant
    /\ UnsetBytes = IF what.kind = "packet" THEN 16 ELSE 0
=============================================================================
