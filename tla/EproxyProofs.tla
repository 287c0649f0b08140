---------------------------- MODULE EproxyProofs ----------------------------
(***************************************************************************)
(* Proofs about the proxy: every step of it is a step of each component or *)
(* leaves the component alone, so that what was proved of the components   *)
(* holds of them in the proxy; and what is written to either side is what  *)
(* was dispatched from the other, with the proxy's own messages between.   *)
(* At the end: that its steps are those of Relay.                          *)
(***************************************************************************)
EXTENDS Eproxy, FiniteSetTheorems, SequenceTheorems, TLAPS

RP == INSTANCE SessionReadProofs
WP == INSTANCE SessionWriteProofs WITH
        Messages <- ofp_header, Breakable <- Closing, MaxWritten <- 0
MP == INSTANCE PacketInMonitorProofs WITH Messages <- ofp_header, MaxArrived <- 0

-----------------------------------------------------------------------------
(* The components are given what they assume. *)

LEMMA ConstantsFit ==
  /\ ofp_header = RP!ofp_header /\ Message = RP!Message
  /\ RP!ReadAssumption /\ WP!WriteAssumption /\ MP!MonitorAssumption
  /\ RP!SizeModAssumption /\ RP!TornAssumption
  <1>1. ofp_header = RP!ofp_header /\ Message = RP!Message
    BY DEF ofp_header, ofp_type, UInt16, UInt16Max, Byte, Message, HeaderLen,
           RP!ofp_header, RP!ofp_type, RP!UInt16, RP!UInt16Max, RP!Byte,
           RP!Message, RP!HeaderLen
  <1>2. RP!ReadAssumption
    BY <1>1, EproxyAssumption DEF RP!ReadAssumption
  <1>3. UInt16 \subseteq Nat
    BY DEF UInt16, UInt16Max, Byte
  <1>4. WP!WriteAssumption
    BY <1>3, EproxyAssumption DEF WP!WriteAssumption, ofp_header
  <1>5. MP!MonitorAssumption
    BY EproxyAssumption DEF MP!MonitorAssumption
  <1> QED
    BY <1>1, <1>2, <1>4, <1>5, SizeModAssumption, TornAssumption
    DEF RP!SizeModAssumption, RP!TornAssumption, UInt16Max, Byte, RP!UInt16Max, RP!Byte

LEMMA SwitchMessage == prepare_switch \in ofp_header
  BY SwitchPathAssumption DEF prepare_switch, ofp_header, ofp_type, UInt16, UInt16Max, Byte

\* The instances of Eproxy and those the components were proved about.
LEMMA SameRead ==
  /\ R!Init <=> RP!Init
  /\ R!TypeOK <=> RP!TypeOK
  /\ \A s : (R!start(s) <=> RP!start(s)) /\ (R!Peer(s) <=> RP!Peer(s))
            /\ (R!Handler(s) <=> RP!Handler(s))
  <1>1. R!Init <=> RP!Init
    BY DEF R!Init, RP!Init
  <1>2. R!TypeOK <=> RP!TypeOK
    BY DEF R!TypeOK, RP!TypeOK, R!Phase, RP!Phase, R!ofp_header, R!ofp_type, R!UInt16,
       R!UInt16Max, R!Byte, R!Message, R!HeaderLen, RP!ofp_header, RP!ofp_type, RP!UInt16,
       RP!UInt16Max, RP!Byte, RP!Message, RP!HeaderLen
  <1>3. \A s : R!start(s) <=> RP!start(s)
    BY DEF R!start, RP!start, R!read, RP!read
  <1>4. \A s : R!Peer(s) <=> RP!Peer(s)
    BY DEF R!Peer, RP!Peer, R!PeerSends, RP!PeerSends, R!PeerCloses, RP!PeerCloses
  <1>5. \A s : R!Handler(s) <=> RP!Handler(s)
    BY DEF R!Handler, RP!Handler, R!handle_read_header, RP!handle_read_header,
       R!handle_read_header_of_cut, RP!handle_read_header_of_cut, R!handle_read_header_error,
       RP!handle_read_header_error, R!handle_read, RP!handle_read, R!handle_read_error,
       RP!handle_read_error, R!ParseHeader, RP!ParseHeader, R!Received, RP!Received,
       R!Splice, RP!Splice, R!BodyLength, RP!BodyLength, R!StreamEnded, RP!StreamEnded,
       R!Dispatch, RP!Dispatch, R!read, RP!read, R!HeaderLen, RP!HeaderLen, R!Byte, RP!Byte
  <1> QED
    BY <1>1, <1>2, <1>3, <1>4, <1>5

LEMMA SameWrite ==
  /\ W!Init <=> WP!Init
  /\ W!TypeOK <=> WP!TypeOK
  /\ W!IoThread <=> WP!IoThread
  /\ \A s : (W!Socket(s) <=> WP!Socket(s)) /\ (W!Break(s) <=> WP!Break(s))
            /\ (\A m : W!write(s, m) <=> WP!write(s, m))
  <1>1. W!Init <=> WP!Init
    BY DEF W!Init, WP!Init
  <1>2. W!TypeOK <=> WP!TypeOK
    BY DEF W!TypeOK, WP!TypeOK, W!Handler, WP!Handler, W!Op, WP!Op, W!Piece, WP!Piece
  <1>3. W!IoThread <=> WP!IoThread
    BY DEF W!IoThread, WP!IoThread, W!write_in_io_thread, WP!write_in_io_thread,
       W!write_some, WP!write_some, W!handle_write, WP!handle_write, W!async_write_some,
       WP!async_write_some, W!Left, WP!Left, W!Post, WP!Post
  <1>4. \A s : (W!Socket(s) <=> WP!Socket(s)) /\ (W!Break(s) <=> WP!Break(s))
    BY DEF W!Socket, WP!Socket, W!SocketSend, WP!SocketSend, W!SocketFail, WP!SocketFail,
       W!Break, WP!Break, W!Left, WP!Left, W!Post, WP!Post
  <1>5. \A s, m : W!write(s, m) <=> WP!write(s, m)
    BY DEF W!write, WP!write, W!Post, WP!Post
  <1> QED
    BY <1>1, <1>2, <1>3, <1>4, <1>5

LEMMA SameMonitor ==
  /\ M!Init <=> MP!Init
  /\ M!TypeOK <=> MP!TypeOK
  /\ M!start <=> MP!start
  /\ M!follow <=> MP!follow
  /\ (M!while \/ M!reset \/ M!sample \/ M!action) <=> MP!clear
  /\ \A m : M!add_counter(m) <=> MP!add_counter(m)
  BY DEF M!Init, MP!Init, M!TypeOK, MP!TypeOK, M!Worker, MP!Worker, M!start, MP!start,
     M!follow, MP!follow, MP!clear, M!while, MP!while, M!reset, MP!reset, M!sample,
     MP!sample, M!action, MP!action, M!add_counter, MP!add_counter, M!Increment,
     MP!Increment, M!Reached, MP!Reached, M!Cleared, MP!Cleared, M!history, MP!history

-----------------------------------------------------------------------------
(* What a step of the proxy is to each of its components. *)

\* The callbacks main gives the two dispatchers.
LEMMA Callbacks ==
  \A type :
    /\ onMessage(dispatcher_(s_session), type) =
         IF type = "OFPT_PACKET_IN" THEN "monitor.onMessage" ELSE "c_session.write"
    /\ onMessage(dispatcher_(c_session), type) = "s_session.write"
  <1>1. dispatcher_(s_session).funs = [t \in {"OFPT_PACKET_IN"} |-> "monitor.onMessage"]
        /\ dispatcher_(s_session).defaultCallback = "c_session.write"
    BY DEF dispatcher_, dispatcher_from_switch, setCallBackOnMessage, setDefaultCallback,
           NewDispatcher
  <1>2. DOMAIN dispatcher_(c_session).funs = {}
        /\ dispatcher_(c_session).defaultCallback = "s_session.write"
    BY EproxyAssumption
    DEF dispatcher_, dispatcher_from_controller, setDefaultCallback, NewDispatcher
  <1> QED
    BY <1>1, <1>2 DEF onMessage

\* A message read goes to the other side's write() or to the monitor.
Passes(s, m) ==
  /\ dispatched' = [dispatched EXCEPT ![s] = Append(@, m)]
  /\ \/ /\ s = s_session /\ m.type = "OFPT_PACKET_IN"
        /\ MP!add_counter(m) /\ UNCHANGED wvars
     \/ /\ s = s_session /\ m.type # "OFPT_PACKET_IN"
        /\ WP!write(c_session, m) /\ UNCHANGED mvars
     \/ s = c_session /\ WP!write(s_session, m) /\ UNCHANGED mvars

LEMMA ReadCalls ==
  ASSUME RP!TypeOK, NEW s \in Sessions, Read(s)
  PROVE  \/ UNCHANGED <<dispatched, wvars, mvars>>
         \/ \E m \in ofp_header : Passes(s, m)
  <1>1. RP!Handler(s)
    BY SameRead DEF Read
  <1>2. SUFFICES ASSUME dispatched' # dispatched PROVE \E m \in ofp_header : Passes(s, m)
    BY DEF Read
  <1>3. PICK m \in ofp_header : dispatched' = [dispatched EXCEPT ![s] = Append(@, m)]
    BY <1>1, <1>2, ConstantsFit, RP!OneDispatched DEF RP!Dispatch
  <1>4. dispatched'[s][Len(dispatched'[s])] = m
    <2>1. dispatched[s] \in Seq(ofp_header) /\ dispatched'[s] = Append(dispatched[s], m)
      BY <1>3, ConstantsFit DEF RP!TypeOK
    <2> QED
      BY <1>3, <2>1
  <1>5. Call(onMessage(dispatcher_(s), m.type), m)
    BY <1>2, <1>4 DEF Read
  <1>6. s = s_session \/ s = c_session
    BY DEF Sessions
  <1>7. Passes(s, m)
    BY <1>3, <1>5, <1>6, Callbacks, SameWrite, SameMonitor DEF Passes, Call
  <1> QED
    BY <1>7

\* Every step of the proxy, named after what the components do in it.
LEMMA StepCases ==
  ASSUME RP!TypeOK, Next
  PROVE  \/ UNCHANGED <<dispatched, wvars, mvars>>
         \/ \E s \in Sessions, m \in ofp_header : Read(s) /\ Passes(s, m)
         \/ MP!start /\ UNCHANGED <<dispatched, wvars>>
         \/ MP!follow /\ WP!write(c_session, following) /\ UNCHANGED dispatched
         \/ MP!clear /\ UNCHANGED <<dispatched, wvars, triggers>>
         \/ M!action /\ WP!write(s_session, prepare_switch) /\ UNCHANGED dispatched
         \/ WP!IoThread /\ UNCHANGED <<dispatched, mvars>>
         \/ \E s \in Sessions : WP!Socket(s) /\ UNCHANGED <<dispatched, mvars>>
         \/ \E s \in Closing : WP!Break(s) /\ UNCHANGED <<dispatched, mvars>>
  <1>1. CASE MainStep
    BY <1>1, SameMonitor DEF MainStep, connect, listen, monitor_start, session_start,
       run_returns, R!start, rvars
  <1>2. CASE follow
    BY <1>2, SameMonitor, SameWrite DEF follow, rvars
  <1>3. CASE Write
    BY <1>3, SameWrite DEF Write, rvars
  <1>4. CASE clear
    <2>1. CASE M!action /\ switch_path
      BY <1>4, <2>1, SameWrite DEF clear, switch_path, rvars
    <2>2. CASE (M!while \/ M!reset \/ M!sample) /\ UNCHANGED wvars
      <3>1. MP!clear
        BY <2>2, SameMonitor
      <3>2. UNCHANGED triggers
        BY <2>2 DEF M!while, M!reset, M!sample, M!history
      <3> QED
        BY <1>4, <2>2, <3>1, <3>2 DEF clear, rvars
    <2> QED
      BY <1>4, <2>1, <2>2 DEF clear
  <1>5. ASSUME NEW s \in Sessions, Read(s)
        PROVE  \/ UNCHANGED <<dispatched, wvars, mvars>>
               \/ \E m \in ofp_header : Passes(s, m)
    BY <1>5, ReadCalls
  <1>6. ASSUME NEW s \in Sessions, Peer(s)
        PROVE  UNCHANGED <<dispatched, wvars, mvars>>
    BY <1>6 DEF Peer, R!Peer, R!PeerSends, R!PeerCloses
  <1>7. ASSUME NEW s \in Sessions, Reset(s) \/ Socket(s)
        PROVE  \/ WP!Socket(s) /\ UNCHANGED <<dispatched, mvars>>
               \/ s \in Closing /\ WP!Break(s) /\ UNCHANGED <<dispatched, mvars>>
    BY <1>7, SameWrite DEF Reset, Socket, rvars
  <1> QED
    BY <1>1, <1>2, <1>3, <1>4, <1>5, <1>6, <1>7 DEF Next

LEMMA ReadStep == Next => [RP!Next]_(RP!rvars)
  <1> SUFFICES ASSUME Next PROVE RP!Next \/ UNCHANGED rvars
    BY DEF rvars, RP!rvars
  <1>1. CASE MainStep
    <2>1. s_session \in Sessions /\ c_session \in Sessions
      BY DEF Sessions
    <2> QED
      BY <1>1, <2>1, SameRead DEF MainStep, connect, listen, monitor_start, session_start,
         run_returns, RP!Next
  <1>2. CASE follow \/ Write \/ clear
    BY <1>2 DEF follow, Write, clear
  <1>3. ASSUME NEW s \in Sessions, Read(s) \/ Peer(s) \/ Reset(s) \/ Socket(s)
        PROVE  RP!Next \/ UNCHANGED rvars
    BY <1>3, SameRead DEF Read, Peer, Reset, Socket, RP!Next
  <1> QED
    BY <1>1, <1>2, <1>3 DEF Next

LEMMA WriteStep ==
  ASSUME RP!TypeOK, MP!TypeOK, Next
  PROVE  WP!Steps
  <1>1. s_session \in Sessions /\ c_session \in Sessions
    BY DEF Sessions
  <1>2. \A s \in Sessions, m \in ofp_header : WP!write(s, m) => WP!Steps
    BY DEF WP!Steps
  <1>3. UNCHANGED wvars => WP!Steps
    BY DEF WP!Steps, WP!wvars, wvars
  <1>4. MP!follow => following \in ofp_header
    BY DEF MP!follow, MP!TypeOK
  <1>5. \A s, m : Passes(s, m) =>
          UNCHANGED wvars \/ WP!write(c_session, m) \/ WP!write(s_session, m)
    BY DEF Passes
  <1>6. WP!IoThread \/ (\E s \in Sessions : WP!Socket(s))
          \/ (\E s \in Closing : WP!Break(s)) => WP!Steps
    BY DEF WP!Steps
  <1> QED
    BY <1>1, <1>2, <1>3, <1>4, <1>5, <1>6, StepCases, SwitchMessage

LEMMA MonitorStep ==
  ASSUME RP!TypeOK, Next
  PROVE  MP!Steps
  <1>1. UNCHANGED mvars => MP!Steps
    BY DEF MP!Steps, MP!mvars, mvars
  <1>2. \A m \in ofp_header : MP!add_counter(m) => MP!Steps
    BY DEF MP!Steps
  <1>3. MP!start \/ MP!follow \/ MP!clear => MP!Steps
    BY DEF MP!Steps
  <1>4. M!action => MP!clear
    BY SameMonitor
  <1>5. \A s, m : Passes(s, m) => UNCHANGED mvars \/ MP!add_counter(m)
    BY DEF Passes
  <1> QED
    BY <1>1, <1>2, <1>3, <1>4, <1>5, StepCases

-----------------------------------------------------------------------------
(* The components keep their invariants. *)

Receiving == RP!TypeOK /\ RP!AllSound /\ RP!SentFrom
Sending == WP!Typed /\ WP!Ordered /\ WP!Single /\ WP!NoneLost
Monitoring == MP!TypeOK /\ MP!Paid /\ MP!Exact

LEMMA ComponentsInit == Init => Receiving /\ Sending /\ Monitoring
  <1> SUFFICES ASSUME Init PROVE Receiving /\ Sending /\ Monitoring
    OBVIOUS
  <1>1. RP!Init /\ WP!Init /\ MP!Init
    BY SameRead, SameWrite, SameMonitor DEF Init
  <1>2. Receiving
    BY <1>1, ConstantsFit, RP!TypedInit, RP!SoundInit, RP!SentFromInit DEF Receiving
  <1>3. Sending
    BY <1>1, ConstantsFit, WP!TypedInit, WP!OrderedInit, WP!SingleInit, WP!NoneLostInit
       DEF Sending
  <1>4. Monitoring
    BY <1>1, ConstantsFit, MP!TypedInit, MP!PaidInit, MP!ExactInit DEF Monitoring
  <1> QED
    BY <1>2, <1>3, <1>4

LEMMA ReceivingStep == Receiving /\ [Next]_vars => Receiving'
  <1> SUFFICES ASSUME Receiving, [Next]_vars PROVE Receiving'
    OBVIOUS
  <1>1. [RP!Next]_(RP!rvars)
    BY ReadStep DEF vars, rvars, RP!rvars
  <1> QED
    BY <1>1, ConstantsFit, RP!TypedStep, RP!SoundStep, RP!SentFromStep DEF Receiving

LEMMA SendingStep == Receiving /\ Sending /\ Monitoring /\ [Next]_vars => Sending'
  <1> SUFFICES ASSUME Receiving, Sending, Monitoring, [Next]_vars PROVE Sending'
    OBVIOUS
  <1>1. UNCHANGED vars => WP!Steps
    BY DEF vars, wvars, WP!Steps, WP!wvars
  <1>2. WP!Steps
    BY <1>1, WriteStep DEF Receiving, Monitoring
  <1> QED
    BY <1>2, ConstantsFit, WP!TypedStep, WP!OrderedStep, WP!SingleStep, WP!LostStep
       DEF Sending

LEMMA MonitoringStep == Receiving /\ Monitoring /\ [Next]_vars => Monitoring'
  <1> SUFFICES ASSUME Receiving, Monitoring, [Next]_vars PROVE Monitoring'
    OBVIOUS
  <1>1. UNCHANGED vars => MP!Steps
    BY DEF vars, mvars, MP!Steps, MP!mvars
  <1>2. MP!Steps
    BY <1>1, MonitorStep DEF Receiving
  <1> QED
    BY <1>2, ConstantsFit, MP!TypedStep, MP!PaidStep, MP!ExactStep DEF Monitoring

LEMMA ComponentsInvariant == Spec => [](Receiving /\ Sending /\ Monitoring)
  BY ComponentsInit, ReceivingStep, SendingStep, MonitoringStep, PTL DEF Spec

\* The proxy's variables keep their types, whatever the peers send and in
\* whatever order the two threads run.
THEOREM TypeCorrect == Spec => []TypeOK
  <1> DEFINE Known == main \in Main
  <1>1. Init => Known
    BY DEF Init, Main
  <1>2. Known /\ [Next]_vars => Known'
    BY DEF Main, Next, MainStep, Goes, connect, listen, monitor_start, session_start,
       run_returns, follow, Write, InRun, IoThreadIdle, clear, Read, Peer, Reset, Socket, vars
  <1>3. Receiving /\ Sending /\ Monitoring /\ Known => TypeOK
    BY SameRead, SameWrite, SameMonitor
    DEF Receiving, Sending, Monitoring, WP!Typed, TypeOK
  <1> HIDE DEF Known
  <1> QED
    BY <1>1, <1>2, <1>3, ComponentsInvariant, PTL DEF Spec

\* What holds of the components by themselves holds of them in the proxy: the
\* messages are read whole and in order, each byte goes out once and in order,
\* and no PACKET_IN pays for two FLOW_MODs.
THEOREM ComponentsHold ==
  Spec => [](/\ R!InOrderExactlyOnce /\ R!OnlyStaleHeadersAfterEnd
             /\ W!PiecesInOrder /\ W!HeadsInWriteOrder
             /\ M!EveryTriggerPaidFor /\ M!SleepCountsAll)
  <1>1. Receiving => R!InOrderExactlyOnce
    BY DEF Receiving, RP!AllSound, RP!Sound, RP!InOrder, R!InOrderExactlyOnce
  <1>2. Receiving => R!OnlyStaleHeadersAfterEnd
    BY ConstantsFit, RP!StaleFollows
    DEF Receiving, R!OnlyStaleHeadersAfterEnd, RP!OnlyStaleHeadersAfterEnd,
        R!HeaderLen, RP!HeaderLen
  <1>3. Sending => W!PiecesInOrder /\ W!HeadsInWriteOrder
    BY DEF Sending, WP!Single, WP!PiecesInOrder, W!PiecesInOrder, WP!Ordered,
           WP!HeadsInWriteOrder, W!HeadsInWriteOrder
  <1>4. Monitoring => M!EveryTriggerPaidFor /\ M!SleepCountsAll
    BY DEF Monitoring, MP!Paid, MP!Exact, MP!SleepCountsAll, M!EveryTriggerPaidFor,
           M!SleepCountsAll
  <1> QED
    BY <1>1, <1>2, <1>3, <1>4, ComponentsInvariant, PTL

-----------------------------------------------------------------------------
(* Counting the peer's messages in a sequence of written ones. *)

LEMMA CountType ==
  ASSUME NEW q, NEW k \in Nat
  PROVE  /\ FromPeer(q, k) \in Nat
         /\ IsFiniteSet({j \in 1 .. k : q[j] # prepare_switch})
  <1>1. IsFiniteSet(1 .. k)
    BY FS_Interval
  <1>2. IsFiniteSet({j \in 1 .. k : q[j] # prepare_switch})
    BY <1>1, FS_Subset
  <1> QED
    BY <1>2, FS_CardinalityType DEF FromPeer

\* A message more leaves the earlier counts alone.
LEMMA CountKept ==
  ASSUME NEW S, NEW q \in Seq(S), NEW m \in S, NEW k \in 0 .. Len(q)
  PROVE  FromPeer(Append(q, m), k) = FromPeer(q, k)
  <1>1. \A j \in 1 .. k : Append(q, m)[j] = q[j]
    OBVIOUS
  <1>2. {j \in 1 .. k : Append(q, m)[j] # prepare_switch} = {j \in 1 .. k : q[j] # prepare_switch}
    BY <1>1
  <1> QED
    BY <1>2 DEF FromPeer

\* It counts if it is the peer's.
LEMMA CountLast ==
  ASSUME NEW S, NEW q \in Seq(S), NEW m \in S
  PROVE  FromPeer(Append(q, m), Len(q) + 1) =
           IF m # prepare_switch THEN FromPeer(q, Len(q)) + 1 ELSE FromPeer(q, Len(q))
  <1> DEFINE n == Len(q)
             p == Append(q, m)
             Counted(r, k) == {j \in 1 .. k : r[j] # prepare_switch}
  <1>1. n \in Nat /\ p[n + 1] = m /\ \A j \in 1 .. n : p[j] = q[j]
    OBVIOUS
  <1>2. n + 1 \notin Counted(q, n) /\ IsFiniteSet(Counted(q, n))
    <2>1. IsFiniteSet(Counted(q, n))
      BY <1>1, CountType
    <2>2. n + 1 \notin 1 .. n
      BY <1>1
    <2> QED
      BY <2>1, <2>2
  <1>3. CASE m # prepare_switch
    <2>1. Counted(p, n + 1) = Counted(q, n) \cup {n + 1}
      BY <1>1, <1>3
    <2>2. Cardinality(Counted(q, n) \cup {n + 1}) = Cardinality(Counted(q, n)) + 1
      BY <1>2, FS_AddElement
    <2> QED
      BY <1>3, <2>1, <2>2 DEF FromPeer
  <1>4. CASE m = prepare_switch
    <2>1. Counted(p, n + 1) = Counted(q, n)
      BY <1>1, <1>4
    <2> QED
      BY <1>4, <2>1 DEF FromPeer
  <1> QED
    BY <1>3, <1>4

\* q without the proxy's own messages is d.
Copies(q, d) ==
  /\ FromPeer(q, Len(q)) = Len(d)
  /\ \A k \in DOMAIN q : q[k] # prepare_switch =>
       FromPeer(q, k) \in DOMAIN d /\ q[k] = d[FromPeer(q, k)]
  /\ \A i \in DOMAIN d : \E k \in DOMAIN q : q[k] # prepare_switch /\ FromPeer(q, k) = i

LEMMA CopiesNothing == Copies(<<>>, <<>>)
  <1>1. {j \in 1 .. 0 : <<>>[j] # prepare_switch} = {}
    OBVIOUS
  <1> QED
    BY <1>1, FS_EmptySet DEF Copies, FromPeer

\* Writing what was dispatched.
LEMMA CopiesOneMore ==
  ASSUME NEW S, NEW q \in Seq(S), NEW d \in Seq(S), NEW m \in S,
         m # prepare_switch, Copies(q, d)
  PROVE  Copies(Append(q, m), Append(d, m))
  <1> DEFINE n == Len(q)
             p == Append(q, m)
             e == Append(d, m)
  <1>1. /\ n \in Nat /\ Len(d) \in Nat /\ p[n + 1] = m /\ e[Len(d) + 1] = m
        /\ \A j \in 1 .. n : p[j] = q[j]
        /\ \A j \in 1 .. Len(d) : e[j] = d[j]
        /\ DOMAIN p = 1 .. n + 1 /\ DOMAIN e = 1 .. Len(d) + 1
        /\ DOMAIN q = 1 .. n /\ DOMAIN d = 1 .. Len(d)
        /\ Len(p) = n + 1 /\ Len(e) = Len(d) + 1
    OBVIOUS
  <1>2. /\ FromPeer(p, n + 1) = Len(d) + 1
        /\ \A k \in 1 .. n : FromPeer(p, k) = FromPeer(q, k)
    BY <1>1, CountLast, CountKept DEF Copies
  <1> HIDE DEF n, p, e
  <1>3. /\ \A k \in 1 .. n : q[k] # prepare_switch =>
             FromPeer(q, k) \in 1 .. Len(d) /\ q[k] = d[FromPeer(q, k)]
        /\ \A i \in 1 .. Len(d) : \E k \in 1 .. n :
             q[k] # prepare_switch /\ FromPeer(q, k) = i
    BY <1>1 DEF Copies, n
  <1>4. \A k \in 1 .. n + 1 : p[k] # prepare_switch =>
          FromPeer(p, k) \in 1 .. Len(d) + 1 /\ p[k] = e[FromPeer(p, k)]
    <2> SUFFICES ASSUME NEW k \in 1 .. n + 1, p[k] # prepare_switch
                 PROVE  FromPeer(p, k) \in 1 .. Len(d) + 1 /\ p[k] = e[FromPeer(p, k)]
      OBVIOUS
    <2>1. CASE k = n + 1
      BY <1>1, <1>2, <2>1
    <2>2. CASE k \in 1 .. n
      BY <1>1, <1>2, <1>3, <2>2
    <2> QED
      BY <1>1, <2>1, <2>2
  <1>5. \A i \in 1 .. Len(d) + 1 : \E k \in 1 .. n + 1 :
          p[k] # prepare_switch /\ FromPeer(p, k) = i
    <2> SUFFICES ASSUME NEW i \in 1 .. Len(d) + 1
                 PROVE  \E k \in 1 .. n + 1 : p[k] # prepare_switch /\ FromPeer(p, k) = i
      OBVIOUS
    <2>1. CASE i = Len(d) + 1
      BY <1>1, <1>2, <2>1
    <2>2. CASE i \in 1 .. Len(d)
      <3>1. PICK k \in 1 .. n : q[k] # prepare_switch /\ FromPeer(q, k) = i
        BY <1>3, <2>2
      <3> QED
        BY <1>1, <1>2, <3>1
    <2> QED
      BY <1>1, <2>1, <2>2
  <1>6. Copies(p, e)
    BY <1>1, <1>2, <1>4, <1>5 DEF Copies
  <1> QED
    BY <1>6 DEF p, e

\* Writing a message of the proxy's own.
LEMMA CopiesOwn ==
  ASSUME NEW q \in Seq(ofp_header), NEW d, Copies(q, d)
  PROVE  Copies(Append(q, prepare_switch), d)
  <1> DEFINE n == Len(q)
             p == Append(q, prepare_switch)
  <1>1. /\ n \in Nat /\ p[n + 1] = prepare_switch /\ Len(p) = n + 1
        /\ \A j \in 1 .. n : p[j] = q[j]
        /\ DOMAIN p = 1 .. n + 1 /\ DOMAIN q = 1 .. n
    OBVIOUS
  <1>2. /\ FromPeer(p, n + 1) = Len(d)
        /\ \A k \in 1 .. n : FromPeer(p, k) = FromPeer(q, k)
    BY <1>1, SwitchMessage, CountLast, CountKept DEF Copies
  <1> HIDE DEF n, p
  <1>3. \A k \in 1 .. n + 1 : p[k] # prepare_switch =>
          FromPeer(p, k) \in DOMAIN d /\ p[k] = d[FromPeer(p, k)]
    BY <1>1, <1>2 DEF Copies
  <1>4. \A i \in DOMAIN d : \E k \in 1 .. n + 1 :
          p[k] # prepare_switch /\ FromPeer(p, k) = i
    <2> SUFFICES ASSUME NEW i \in DOMAIN d
                 PROVE  \E k \in 1 .. n + 1 : p[k] # prepare_switch /\ FromPeer(p, k) = i
      OBVIOUS
    <2>1. PICK k \in 1 .. n : q[k] # prepare_switch /\ FromPeer(q, k) = i
      BY <1>1 DEF Copies
    <2> QED
      BY <1>1, <1>2, <2>1
  <1>5. Copies(p, d)
    BY <1>1, <1>2, <1>3, <1>4 DEF Copies
  <1> QED
    BY <1>5 DEF p

-----------------------------------------------------------------------------
(* What is written to one side is what was dispatched from the other, in    *)
(* order, with only the proxy's own message between; the one PACKET_IN that *)
(* is counted and not yet passed on is missing at the end.                  *)

\* What a session dispatches is never the proxy's own message: it is one the
\* peer sent, or has no body.
NotOwn == \A s \in Sessions : \A i \in DOMAIN dispatched[s] : dispatched[s][i] # prepare_switch

LEMMA DispatchedFromPeer ==
  ASSUME Receiving, NEW s \in Sessions
  PROVE  /\ Len(dispatched[s]) \in Nat /\ DOMAIN dispatched[s] = 1 .. Len(dispatched[s])
         /\ Len(sent[s]) \in Nat /\ DOMAIN sent[s] = 1 .. Len(sent[s])
         /\ \A i \in DOMAIN dispatched[s] :
              \/ i \in DOMAIN sent[s] /\ dispatched[s][i] = sent[s][i]
              \/ i > Len(sent[s]) /\ dispatched[s][i].len = RP!HeaderLen
  <1>1. /\ dispatched[s] \in Seq(ofp_header) /\ sent[s] \in Seq(Message) /\ pos[s] \in Nat
    BY ConstantsFit DEF Receiving, RP!TypeOK
  <1>2. /\ pos[s] <= Len(sent[s])
        /\ ~failed[s] => Len(dispatched[s]) = pos[s]
        /\ \A i \in 1 .. pos[s] : dispatched[s][i] = sent[s][i]
    BY DEF Receiving, RP!AllSound, RP!Sound, RP!Boundary, RP!InOrder
  <1>3. failed[s] =>
          /\ \A i \in 1 .. Len(sent[s]) : dispatched[s][i] = sent[s][i]
          /\ \A i \in Len(sent[s]) + 1 .. Len(dispatched[s]) :
               dispatched[s][i].len = RP!HeaderLen
    BY ConstantsFit, RP!StaleFollows DEF Receiving, RP!OnlyStaleHeadersAfterEnd
  <1> QED
    BY <1>1, <1>2, <1>3

LEMMA NothingOwn == Receiving => NotOwn
  <1> SUFFICES ASSUME Receiving, NEW s \in Sessions, NEW i \in DOMAIN dispatched[s]
               PROVE  dispatched[s][i] # prepare_switch
    BY DEF NotOwn
  <1>1. CASE i \in DOMAIN sent[s] /\ dispatched[s][i] = sent[s][i]
    <2>1. sent[s][i] \in FramesFrom[s]
      BY <1>1 DEF Receiving, RP!SentFrom
    <2> QED
      BY <1>1, <2>1, EproxyAssumption
  <1>2. CASE dispatched[s][i].len = RP!HeaderLen
    BY <1>2 DEF RP!HeaderLen, prepare_switch
  <1> QED
    BY <1>1, <1>2, DispatchedFromPeer

Relaying ==
  /\ Copies(written[s_session], dispatched[c_session])
  /\ following = NoMessage => Copies(written[c_session], dispatched[s_session])
  /\ following # NoMessage =>
       \E d \in Seq(ofp_header) :
         dispatched[s_session] = Append(d, following) /\ Copies(written[c_session], d)

LEMMA RelayingInit == Init => Relaying
  <1> SUFFICES ASSUME Init PROVE Relaying
    OBVIOUS
  <1>1. RP!Init /\ WP!Init /\ MP!Init
    BY SameRead, SameWrite, SameMonitor DEF Init
  <1>2. /\ \A s \in Sessions : written[s] = <<>> /\ dispatched[s] = <<>>
        /\ following = NoMessage
    BY <1>1 DEF RP!Init, WP!Init, MP!Init
  <1> QED
    BY <1>2, CopiesNothing DEF Relaying, Sessions

LEMMA RelayingRead ==
  ASSUME Receiving, Sending, Relaying, NotOwn',
         NEW s \in Sessions, NEW m \in ofp_header, Read(s), Passes(s, m)
  PROVE  Relaying'
  <1>1. s_session \in Sessions /\ c_session \in Sessions /\ s_session # c_session
    BY EproxyAssumption DEF Sessions
  <1>2. /\ following = NoMessage /\ Copies(written[s_session], dispatched[c_session])
        /\ Copies(written[c_session], dispatched[s_session])
    BY DEF Read, IoThreadIdle, Relaying
  <1>3. /\ written \in [Sessions -> Seq(ofp_header)]
        /\ dispatched \in [Sessions -> Seq(ofp_header)]
    BY ConstantsFit DEF Receiving, Sending, RP!TypeOK, WP!Typed, WP!TypeOK
  <1>4. /\ dispatched'[s] = Append(dispatched[s], m)
        /\ \A r \in Sessions \ {s} : dispatched'[r] = dispatched[r]
    BY <1>3 DEF Passes
  <1>5. m # prepare_switch
    <2>1. /\ Len(dispatched[s]) + 1 \in DOMAIN dispatched'[s]
          /\ dispatched'[s][Len(dispatched[s]) + 1] = m
      BY <1>3, <1>4
    <2> QED
      BY <2>1 DEF NotOwn
  <1>6. CASE s = s_session /\ MP!add_counter(m) /\ UNCHANGED wvars
    <2>1. following' = m /\ m # NoMessage /\ UNCHANGED written
      BY <1>6, EproxyAssumption DEF MP!add_counter, wvars
    <2> QED
      BY <1>1, <1>2, <1>3, <1>4, <1>6, <2>1 DEF Relaying
  <1>7. CASE s = s_session /\ WP!write(c_session, m) /\ UNCHANGED mvars
    <2>1. /\ following' = NoMessage /\ written'[s_session] = written[s_session]
          /\ written'[c_session] = Append(written[c_session], m)
      BY <1>1, <1>2, <1>3, <1>7 DEF WP!write, mvars
    <2>2. Copies(Append(written[c_session], m), Append(dispatched[s_session], m))
      BY <1>1, <1>2, <1>3, <1>5, CopiesOneMore
    <2> QED
      BY <1>1, <1>2, <1>4, <1>7, <2>1, <2>2 DEF Relaying
  <1>8. CASE s = c_session /\ WP!write(s_session, m) /\ UNCHANGED mvars
    <2>1. /\ following' = NoMessage /\ written'[c_session] = written[c_session]
          /\ written'[s_session] = Append(written[s_session], m)
      BY <1>1, <1>2, <1>3, <1>8 DEF WP!write, mvars
    <2>2. Copies(Append(written[s_session], m), Append(dispatched[c_session], m))
      BY <1>1, <1>2, <1>3, <1>5, CopiesOneMore
    <2> QED
      BY <1>1, <1>2, <1>4, <1>8, <2>1, <2>2 DEF Relaying
  <1> QED
    BY <1>6, <1>7, <1>8 DEF Passes

LEMMA RelayingFollow ==
  ASSUME Receiving, Sending, Relaying, NotOwn,
         MP!follow, WP!write(c_session, following), UNCHANGED dispatched
  PROVE  Relaying'
  <1>1. s_session \in Sessions /\ c_session \in Sessions /\ s_session # c_session
    BY EproxyAssumption DEF Sessions
  <1>2. following # NoMessage /\ following' = NoMessage
    BY DEF MP!follow
  <1>3. PICK d \in Seq(ofp_header) :
          dispatched[s_session] = Append(d, following) /\ Copies(written[c_session], d)
    BY <1>2 DEF Relaying
  <1>4. written \in [Sessions -> Seq(ofp_header)]
        /\ dispatched[s_session] \in Seq(ofp_header)
    BY <1>1, ConstantsFit DEF Receiving, Sending, RP!TypeOK, WP!Typed, WP!TypeOK
  <1>5. following \in ofp_header /\ following # prepare_switch
    <2>1. /\ Len(d) + 1 \in DOMAIN dispatched[s_session]
          /\ dispatched[s_session][Len(d) + 1] = following
      BY <1>3
    <2> QED
      BY <1>1, <1>4, <2>1 DEF NotOwn
  <1>6. Copies(Append(written[c_session], following), Append(d, following))
    BY <1>1, <1>3, <1>4, <1>5, CopiesOneMore
  <1>7. /\ written'[c_session] = Append(written[c_session], following)
        /\ written'[s_session] = written[s_session]
    BY <1>1, <1>4 DEF WP!write
  <1> QED
    BY <1>2, <1>3, <1>6, <1>7 DEF Relaying

LEMMA RelayingStep ==
  Receiving /\ Sending /\ Monitoring /\ NotOwn /\ NotOwn' /\ Relaying /\ [Next]_vars => Relaying'
  <1> SUFFICES ASSUME Receiving, Sending, Monitoring, NotOwn, NotOwn', Relaying, [Next]_vars
               PROVE  Relaying'
    OBVIOUS
  <1>1. ASSUME UNCHANGED <<dispatched, written, following>> PROVE Relaying'
    BY <1>1 DEF Relaying
  <1>2. CASE M!action /\ WP!write(s_session, prepare_switch) /\ UNCHANGED dispatched
    <2>1. s_session \in Sessions /\ c_session \in Sessions /\ s_session # c_session
      BY EproxyAssumption DEF Sessions
    <2>2. written \in [Sessions -> Seq(ofp_header)]
      BY DEF Sending, WP!Typed, WP!TypeOK
    <2>3. /\ written'[s_session] = Append(written[s_session], prepare_switch)
          /\ written'[c_session] = written[c_session] /\ UNCHANGED following
      BY <1>2, <2>1, <2>2 DEF WP!write, M!action
    <2>4. Copies(Append(written[s_session], prepare_switch), dispatched[c_session])
      BY <2>1, <2>2, CopiesOwn DEF Relaying
    <2> QED
      BY <1>2, <2>3, <2>4 DEF Relaying
  <1>3. UNCHANGED wvars => UNCHANGED written
    BY DEF wvars
  <1>4. UNCHANGED mvars \/ MP!start \/ MP!clear => UNCHANGED following
    BY DEF mvars, MP!start, MP!clear, MP!while, MP!reset, MP!sample, MP!action, MP!history
  <1>5. \A s : WP!IoThread \/ WP!Socket(s) \/ WP!Break(s) => UNCHANGED written
    BY DEF WP!IoThread, WP!write_in_io_thread, WP!write_some, WP!handle_write,
       WP!async_write_some, WP!Socket, WP!SocketSend, WP!SocketFail, WP!Break
  <1>6. CASE UNCHANGED vars
    BY <1>1, <1>6 DEF vars, rvars, wvars, mvars
  <1>7. CASE Next
    BY <1>1, <1>2, <1>3, <1>4, <1>5, <1>7, StepCases, RelayingRead, RelayingFollow
       DEF Receiving
  <1> QED
    BY <1>6, <1>7

\* What was dispatched to a side is what was written for the other, message by
\* message, each once and in order, the FLOW_MODs of switch_path aside; only the
\* PACKET_IN that onMessage is counting is still to be written.
THEOREM NothingDropped == Spec => []Relaying
  BY NothingOwn, RelayingInit, RelayingStep, ComponentsInvariant, PTL DEF Spec

\* All but the PACKET_IN that is being counted.
LEMMA Relayed ==
  ASSUME Receiving, Relaying, NEW s \in Sessions
  PROVE  \E d \in Seq(ofp_header) :
           /\ Copies(written[s], d)
           /\ \A i \in DOMAIN d : i \in DOMAIN dispatched[Other(s)]
                                  /\ d[i] = dispatched[Other(s)][i]
           /\ following = NoMessage => d = dispatched[Other(s)]
  <1>1. /\ s_session \in Sessions /\ c_session \in Sessions
        /\ Other(s_session) = c_session /\ Other(c_session) = s_session
        /\ s = s_session \/ s = c_session
    BY EproxyAssumption DEF Sessions, Other
  <1>2. dispatched \in [Sessions -> Seq(ofp_header)]
    BY ConstantsFit DEF Receiving, RP!TypeOK
  <1>3. CASE s = s_session \/ following = NoMessage
    <2>1. Copies(written[s], dispatched[Other(s)]) /\ dispatched[Other(s)] \in Seq(ofp_header)
      BY <1>1, <1>2, <1>3 DEF Relaying
    <2> QED
      BY <2>1
  <1>4. CASE s = c_session /\ following # NoMessage
    <2>1. PICK d \in Seq(ofp_header) :
            dispatched[s_session] = Append(d, following) /\ Copies(written[c_session], d)
      BY <1>4 DEF Relaying
    <2>2. \A i \in DOMAIN d : i \in DOMAIN dispatched[s_session]
                              /\ d[i] = dispatched[s_session][i]
      BY <2>1
    <2> QED
      BY <1>1, <1>4, <2>1, <2>2
  <1> QED
    BY <1>1, <1>3, <1>4

LEMMA OtherSession == \A s \in Sessions : Other(s) \in Sessions
  BY DEF Sessions, Other

\* Whoever closes, and whatever the proxy makes up from what is left in its
\* buffers: the messages a peer completed are written to the other side first,
\* each in its place, and nothing but the FLOW_MOD comes between.
THEOREM PeerFirst == Spec => []PeerMessagesFirst
  <1>1. Receiving /\ Relaying => PeerMessagesFirst
    <2> SUFFICES ASSUME Receiving, Relaying, NEW s \in Sessions, NEW k \in DOMAIN written[s],
                        written[s][k] # prepare_switch,
                        FromPeer(written[s], k) \in DOMAIN sent[Other(s)]
                 PROVE  written[s][k] = sent[Other(s)][FromPeer(written[s], k)]
      BY DEF PeerMessagesFirst, Relays
    <2> DEFINE i == FromPeer(written[s], k)
    <2>1. i \in DOMAIN dispatched[Other(s)] /\ written[s][k] = dispatched[Other(s)][i]
      BY Relayed DEF Copies
    <2>2. dispatched[Other(s)][i] = sent[Other(s)][i]
      BY <2>1, OtherSession, DispatchedFromPeer
    <2> QED
      BY <2>1, <2>2
  <1> QED
    BY <1>1, ComponentsInvariant, NothingDropped, PTL

-----------------------------------------------------------------------------
(* When run() returns: both reads have ended, at the end of the streams,    *)
(* and io_service has nothing left to run.                                  *)

Drained ==
  main = "returned" =>
    /\ \A s \in Sessions : phase[s] = "stopped" /\ sockq[s] = <<>>
    /\ posted = <<>> /\ following = NoMessage

LEMMA DrainedStep == Drained /\ [Next]_vars => Drained'
  <1> SUFFICES ASSUME Drained, [Next]_vars, main' = "returned" PROVE Drained'
    BY DEF Drained
  <1>1. CASE run_returns
    BY <1>1 DEF run_returns, Drained, rvars, wvars, mvars
  <1>2. CASE UNCHANGED vars
    BY <1>2 DEF Drained, vars, rvars, wvars, mvars
  <1>3. ASSUME NEW s \in Sessions, Reset(s) PROVE Drained'
    BY <1>3 DEF Reset, W!Break, Drained, rvars, mvars
  <1>4. ~connect /\ ~listen /\ ~monitor_start /\ ~session_start
    BY DEF connect, listen, monitor_start, session_start, Goes
  <1>5. ~follow /\ ~Write /\ ~clear
    BY DEF follow, Write, clear, InRun, IoThreadIdle
  <1>6. \A s \in Sessions : ~Read(s) /\ ~Peer(s) /\ ~Socket(s)
    BY DEF Read, IoThreadIdle, InRun, Peer, Connected, Socket
  <1> QED
    BY <1>1, <1>2, <1>3, <1>4, <1>5, <1>6 DEF Next, MainStep

\* run() returns only when all that the peers sent has gone out, to the last
\* byte, to a side that is still there, however the socket cut it.
THEOREM ReturnsRelayed == Spec => []ReturnsAfterRelaying
  <1>1. Receiving /\ Sending /\ Relaying /\ Drained => ReturnsAfterRelaying
    <2> SUFFICES ASSUME Receiving, Sending, Relaying, Drained,
                        NEW s \in Sessions, main = "returned", up[s],
                        NEW i \in DOMAIN sent[Other(s)]
                 PROVE  \E k \in DOMAIN written[s] : Relays(s, k, i) /\ W!Sent(s, k)
      BY DEF ReturnsAfterRelaying
    <2>1. i \in DOMAIN dispatched[Other(s)]
          /\ dispatched[Other(s)][i] = sent[Other(s)][i]
      <3> DEFINE o == Other(s)
      <3>1. o \in Sessions /\ phase[o] = "stopped"
        BY OtherSession DEF Drained
      <3> HIDE DEF o
      <3>2. pos[o] = Len(sent[o]) /\ pos[o] <= Len(dispatched[o])
        BY <3>1 DEF Receiving, RP!AllSound, RP!Sound, RP!Boundary, RP!InOrder
      <3>3. \A j \in DOMAIN sent[o] :
              j \in DOMAIN dispatched[o] /\ dispatched[o][j] = sent[o][j]
        BY <3>1, <3>2, DispatchedFromPeer
      <3> QED
        BY <3>3 DEF o
    <2>2. Copies(written[s], dispatched[Other(s)])
      BY Relayed DEF Drained
    <2>3. PICK k \in DOMAIN written[s] :
            written[s][k] # prepare_switch /\ FromPeer(written[s], k) = i
      BY <2>1, <2>2 DEF Copies
    <2>4. written[s][k] = sent[Other(s)][i]
      BY <2>1, <2>2, <2>3 DEF Copies
    <2>5. written[s][k].len # 0
      <3>1. sent[Other(s)] \in Seq(Message)
        BY OtherSession, ConstantsFit DEF Receiving, RP!TypeOK
      <3>2. sent[Other(s)][i] \in Message
        BY <3>1
      <3> QED
        BY <2>4, <3>2 DEF Message, HeaderLen
    <2>6. WP!Sent(s, k)
      <3>1. ~WP!ToHandle(s, k) /\ ~WP!InLine(s, k)
        BY DEF Drained, WP!ToHandle, WP!InLine
      <3> QED
        BY <2>3, <2>5, <3>1 DEF Sending, WP!NoneLost
    <2> QED
      BY <2>3, <2>4, <2>6 DEF Relays, WP!Sent, W!Sent
  <1>2. Init => Drained
    BY DEF Init, Drained
  <1> QED
    BY <1>1, <1>2, DrainedStep, ComponentsInvariant, NothingDropped, PTL DEF Spec

-----------------------------------------------------------------------------
(* The FLOW_MODs written are the monitor's triggers, and its arrivals are   *)
(* the PACKET_INs dispatched: what the monitor promises, end to end.        *)

PacketIns(q) == Cardinality({k \in DOMAIN q : q[k].type = "OFPT_PACKET_IN"})

LEMMA OneMoreCounted ==
  ASSUME NEW S, NEW q \in Seq(S), NEW m \in S
  PROVE  /\ FlowMods(Append(q, m)) =
              IF m = prepare_switch THEN FlowMods(q) + 1 ELSE FlowMods(q)
         /\ PacketIns(Append(q, m)) =
              IF m.type = "OFPT_PACKET_IN" THEN PacketIns(q) + 1 ELSE PacketIns(q)
  <1> DEFINE n == Len(q)
             p == Append(q, m)
             Mods(r) == {k \in DOMAIN r : r[k] = prepare_switch}
             Ins(r) == {k \in DOMAIN r : r[k].type = "OFPT_PACKET_IN"}
  <1>1. /\ n \in Nat /\ DOMAIN q = 1 .. n /\ DOMAIN p = 1 .. n + 1
        /\ p[n + 1] = m /\ \A k \in 1 .. n : p[k] = q[k]
    OBVIOUS
  <1>2. /\ IsFiniteSet(Mods(q)) /\ IsFiniteSet(Ins(q))
        /\ n + 1 \notin Mods(q) /\ n + 1 \notin Ins(q)
    <2>1. IsFiniteSet(1 .. n)
      BY <1>1, FS_Interval
    <2>2. Mods(q) \in SUBSET (1 .. n) /\ Ins(q) \in SUBSET (1 .. n)
      BY <1>1
    <2>3. n + 1 \notin 1 .. n
      BY <1>1
    <2> QED
      BY <2>1, <2>2, <2>3, FS_Subset
  <1>3. Mods(p) = IF m = prepare_switch THEN Mods(q) \cup {n + 1} ELSE Mods(q)
    BY <1>1
  <1>4. Ins(p) = IF m.type = "OFPT_PACKET_IN" THEN Ins(q) \cup {n + 1} ELSE Ins(q)
    BY <1>1
  <1>5. /\ Cardinality(Mods(q) \cup {n + 1}) = Cardinality(Mods(q)) + 1
        /\ Cardinality(Ins(q) \cup {n + 1}) = Cardinality(Ins(q)) + 1
    BY <1>2, FS_AddElement
  <1> QED
    BY <1>3, <1>4, <1>5 DEF FlowMods, PacketIns

Counted ==
  /\ FlowMods(written[s_session]) = triggers
  /\ FlowMods(written[c_session]) = 0
  /\ PacketIns(dispatched[s_session]) = arrived

LEMMA CountedInit == Init => Counted
  <1> SUFFICES ASSUME Init PROVE Counted
    OBVIOUS
  <1>1. RP!Init /\ WP!Init /\ MP!Init
    BY SameRead, SameWrite, SameMonitor DEF Init
  <1>2. /\ \A s \in Sessions : written[s] = <<>> /\ dispatched[s] = <<>>
        /\ triggers = 0 /\ arrived = 0
    BY <1>1 DEF RP!Init, WP!Init, MP!Init
  <1>3. FlowMods(<<>>) = 0 /\ PacketIns(<<>>) = 0
    BY FS_EmptySet DEF FlowMods, PacketIns
  <1> QED
    BY <1>2, <1>3 DEF Counted, Sessions

LEMMA CountedRead ==
  ASSUME Receiving, Sending, Counted, NotOwn',
         NEW s \in Sessions, NEW m \in ofp_header, Passes(s, m)
  PROVE  Counted'
  <1>1. s_session \in Sessions /\ c_session \in Sessions /\ s_session # c_session
    BY EproxyAssumption DEF Sessions
  <1>2. /\ written \in [Sessions -> Seq(ofp_header)]
        /\ dispatched \in [Sessions -> Seq(ofp_header)]
    BY ConstantsFit DEF Receiving, Sending, RP!TypeOK, WP!Typed, WP!TypeOK
  <1>3. /\ dispatched'[s] = Append(dispatched[s], m)
        /\ \A r \in Sessions \ {s} : dispatched'[r] = dispatched[r]
    BY <1>2 DEF Passes
  <1>4. m # prepare_switch
    <2>1. /\ Len(dispatched[s]) + 1 \in DOMAIN dispatched'[s]
          /\ dispatched'[s][Len(dispatched[s]) + 1] = m
      BY <1>2, <1>3
    <2> QED
      BY <2>1 DEF NotOwn
  <1>5. CASE s = s_session /\ m.type = "OFPT_PACKET_IN" /\ MP!add_counter(m) /\ UNCHANGED wvars
    <2>1. arrived' = arrived + 1 /\ UNCHANGED <<written, triggers>>
      BY <1>5 DEF MP!add_counter, wvars
    <2>2. dispatched[s] \in Seq(ofp_header)
      BY <1>2
    <2>3. PacketIns(Append(dispatched[s], m)) = PacketIns(dispatched[s]) + 1
      BY <1>5, <2>2, OneMoreCounted
    <2> QED
      BY <1>3, <1>5, <2>1, <2>3 DEF Counted
  <1>6. CASE /\ s = s_session /\ m.type # "OFPT_PACKET_IN"
             /\ WP!write(c_session, m) /\ UNCHANGED mvars
    <2>1. /\ UNCHANGED <<arrived, triggers>> /\ written'[s_session] = written[s_session]
          /\ written'[c_session] = Append(written[c_session], m)
      BY <1>1, <1>2, <1>6 DEF WP!write, mvars
    <2>2. dispatched[s] \in Seq(ofp_header) /\ written[c_session] \in Seq(ofp_header)
      BY <1>1, <1>2
    <2>3. PacketIns(Append(dispatched[s], m)) = PacketIns(dispatched[s])
      BY <1>6, <2>2, OneMoreCounted
    <2>4. FlowMods(Append(written[c_session], m)) = FlowMods(written[c_session])
      BY <1>4, <2>2, OneMoreCounted
    <2> QED
      BY <1>3, <1>6, <2>1, <2>3, <2>4 DEF Counted
  <1>7. CASE s = c_session /\ WP!write(s_session, m) /\ UNCHANGED mvars
    <2>1. /\ UNCHANGED <<arrived, triggers>> /\ written'[c_session] = written[c_session]
          /\ written'[s_session] = Append(written[s_session], m)
      BY <1>1, <1>2, <1>7 DEF WP!write, mvars
    <2>2. FlowMods(written'[s_session]) = FlowMods(written[s_session])
      <3>1. written[s_session] \in Seq(ofp_header)
        BY <1>1, <1>2
      <3> QED
        BY <1>4, <2>1, <3>1, OneMoreCounted
    <2> QED
      BY <1>1, <1>3, <1>7, <2>1, <2>2 DEF Counted
  <1> QED
    BY <1>5, <1>6, <1>7 DEF Passes

LEMMA CountedFollow ==
  ASSUME Receiving, Sending, Relaying, Counted, NotOwn,
         MP!follow, WP!write(c_session, following), UNCHANGED dispatched
  PROVE  Counted'
  <1>1. s_session \in Sessions /\ c_session \in Sessions /\ s_session # c_session
    BY EproxyAssumption DEF Sessions
  <1>2. following # NoMessage /\ UNCHANGED <<arrived, triggers>>
    BY DEF MP!follow, MP!history
  <1>3. PICK d \in Seq(ofp_header) : dispatched[s_session] = Append(d, following)
    BY <1>2 DEF Relaying
  <1>4. written \in [Sessions -> Seq(ofp_header)]
        /\ dispatched[s_session] \in Seq(ofp_header)
    BY <1>1, ConstantsFit DEF Receiving, Sending, RP!TypeOK, WP!Typed, WP!TypeOK
  <1>5. following \in ofp_header /\ following # prepare_switch
    <2>1. /\ Len(d) + 1 \in DOMAIN dispatched[s_session]
          /\ dispatched[s_session][Len(d) + 1] = following
      BY <1>3
    <2> QED
      BY <1>1, <1>4, <2>1 DEF NotOwn
  <1>6. /\ written'[c_session] = Append(written[c_session], following)
        /\ written'[s_session] = written[s_session]
    BY <1>1, <1>4 DEF WP!write
  <1>7. FlowMods(written'[c_session]) = FlowMods(written[c_session])
    BY <1>1, <1>4, <1>5, <1>6, OneMoreCounted
  <1> QED
    BY <1>2, <1>6, <1>7 DEF Counted

LEMMA CountedStep ==
  /\ Receiving /\ Sending /\ Monitoring /\ NotOwn /\ NotOwn'
  /\ Relaying /\ Counted /\ [Next]_vars
  => Counted'
  <1> SUFFICES ASSUME Receiving, Sending, Monitoring, NotOwn, NotOwn', Relaying, Counted,
                      [Next]_vars
               PROVE  Counted'
    OBVIOUS
  <1>1. ASSUME UNCHANGED <<dispatched, written, triggers, arrived>> PROVE Counted'
    BY <1>1 DEF Counted
  <1>2. CASE M!action /\ WP!write(s_session, prepare_switch) /\ UNCHANGED dispatched
    <2>1. s_session \in Sessions /\ c_session \in Sessions /\ s_session # c_session
      BY EproxyAssumption DEF Sessions
    <2>2. written \in [Sessions -> Seq(ofp_header)]
      BY DEF Sending, WP!Typed, WP!TypeOK
    <2>3. /\ written'[s_session] = Append(written[s_session], prepare_switch)
          /\ written'[c_session] = written[c_session]
          /\ triggers' = triggers + 1 /\ UNCHANGED arrived
      BY <1>2, <2>1, <2>2 DEF WP!write, M!action
    <2>4. FlowMods(written'[s_session]) = FlowMods(written[s_session]) + 1
      BY <2>1, <2>2, <2>3, SwitchMessage, OneMoreCounted
    <2> QED
      BY <1>2, <2>3, <2>4 DEF Counted
  <1>3. UNCHANGED wvars => UNCHANGED written
    BY DEF wvars
  <1>4. UNCHANGED mvars \/ MP!start => UNCHANGED <<triggers, arrived>>
    BY DEF mvars, MP!start, MP!history
  <1>5. MP!clear => UNCHANGED arrived
    BY DEF MP!clear, MP!while, MP!reset, MP!sample, MP!action, MP!history
  <1>6. \A s : WP!IoThread \/ WP!Socket(s) \/ WP!Break(s) => UNCHANGED written
    BY DEF WP!IoThread, WP!write_in_io_thread, WP!write_some, WP!handle_write,
       WP!async_write_some, WP!Socket, WP!SocketSend, WP!SocketFail, WP!Break
  <1>7. CASE UNCHANGED vars
    BY <1>1, <1>7 DEF vars, rvars, wvars, mvars
  <1>8. CASE Next
    BY <1>1, <1>2, <1>3, <1>4, <1>5, <1>6, <1>8, StepCases, CountedRead, CountedFollow
       DEF Receiving
  <1> QED
    BY <1>7, <1>8

\* Every FLOW_MOD of the proxy has thresh_hold_ PACKET_INs of its own among
\* those the switch sent, and the controller is never given one: onMessage,
\* clear and switch_path together.
THEOREM FlowModsPaidFor ==
  Spec => [](/\ FlowMods(written[s_session]) * thresh_hold_ <= PacketIns(dispatched[s_session])
             /\ FlowMods(written[c_session]) = 0)
  <1>1. Monitoring /\ Counted =>
          /\ FlowMods(written[s_session]) * thresh_hold_ <= PacketIns(dispatched[s_session])
          /\ FlowMods(written[c_session]) = 0
    BY DEF Monitoring, MP!Paid, Counted
  <1> QED
    BY <1>1, NothingOwn, CountedInit, CountedStep, ComponentsInvariant, NothingDropped, PTL
    DEF Spec

LEMMA SwitchMessageLength == prepare_switch.len \in Nat \ {0}
  BY DEF prepare_switch

\* When run() returns with the switch's connection up, every trigger has sent
\* the switch its own FLOW_MOD, to the last byte, although the monitor's
\* thread posted it and the io_service's thread wrote it, in between the
\* messages relayed: start, switch_path, write and write_in_io_thread together.
THEOREM TriggersReachSwitch ==
  Spec => [](main = "returned" /\ up[s_session] =>
               Cardinality({k \in DOMAIN written[s_session] :
                              written[s_session][k] = prepare_switch
                              /\ W!Sent(s_session, k)}) = triggers)
  <1>1. Sending /\ Drained /\ Counted /\ main = "returned" /\ up[s_session] =>
          Cardinality({k \in DOMAIN written[s_session] :
                         written[s_session][k] = prepare_switch
                         /\ W!Sent(s_session, k)}) = triggers
    <2> SUFFICES ASSUME Sending, Drained, Counted, main = "returned", up[s_session]
                 PROVE  \A k \in DOMAIN written[s_session] :
                          written[s_session][k] = prepare_switch => W!Sent(s_session, k)
      BY DEF Counted, FlowMods
    <2> SUFFICES ASSUME NEW k \in DOMAIN written[s_session],
                        written[s_session][k] = prepare_switch
                 PROVE  W!Sent(s_session, k)
      OBVIOUS
    <2>1. ~WP!ToHandle(s_session, k) /\ ~WP!InLine(s_session, k)
      BY DEF Drained, WP!ToHandle, WP!InLine, Sessions
    <2>2. WP!Sent(s_session, k)
      BY <2>1, SwitchMessageLength DEF Sending, WP!NoneLost, Sessions
    <2> QED
      BY <2>2 DEF WP!Sent, W!Sent
  <1>2. Init => Drained
    BY DEF Init, Drained
  <1> QED
    BY <1>1, <1>2, DrainedStep, NothingOwn, CountedInit, CountedStep, ComponentsInvariant,
       NothingDropped, PTL DEF Spec

-----------------------------------------------------------------------------
(* The proxy implements Relay, step by step, for any two peers that stay    *)
(* connected and a socket that takes what it is offered: each piece the     *)
(* socket takes is the delivery of the peer's next message, or the one      *)
(* FLOW_MOD the switch has paid for with PACKET_INs.                        *)

LEMMA TwoSessions ==
  /\ s_session \in Sessions /\ c_session \in Sessions /\ s_session # c_session
  /\ \A s \in Sessions : s = s_session \/ s = c_session
  /\ Promise!Sessions = Sessions
  /\ \A s : Promise!Other(s) = Other(s)
  BY EproxyAssumption DEF Sessions, Promise!Sessions, Other, Promise!Other

-----------------------------------------------------------------------------
(* Nobody closes, so that no read fails and no connection breaks.           *)

NoneFails == \A s \in Sessions : open[s] /\ ~failed[s] /\ up[s]

LEMMA NoneFailsInit == Init => NoneFails
  BY DEF Init, R!Init, W!Init, NoneFails

\* The halves of the sessions that a step leaves alone.
LEMMA ReadsOnly ==
  ASSUME Next
  PROVE  \/ \E s \in Sessions : Read(s) \/ Peer(s)
         \/ UNCHANGED <<sent, open, failed>>
  BY DEF Next, MainStep, connect, listen, monitor_start, session_start, run_returns, follow,
         Write, clear, Reset, Socket, R!start, rvars

LEMMA NoneFailsStep ==
  ASSUME Closing = {}, Receiving, Sending, Monitoring, NoneFails, [Next]_vars
  PROVE  NoneFails'
  <1>1. UNCHANGED open /\ UNCHANGED failed
    <2>1. ASSUME NEW s \in Sessions, Peer(s) PROVE UNCHANGED open /\ UNCHANGED failed
      BY <2>1 DEF Peer, R!Peer, R!PeerSends
    <2>2. ASSUME NEW s \in Sessions, Read(s) PROVE UNCHANGED open /\ UNCHANGED failed
      <3>1. ~R!StreamEnded(s)
        BY DEF NoneFails, R!StreamEnded
      <3> QED
        BY <2>2, <3>1
        DEF Read, R!Handler, R!handle_read_header, R!handle_read_header_of_cut,
            R!handle_read_header_error, R!handle_read, R!handle_read_error, R!ParseHeader
    <2>3. CASE UNCHANGED vars
      BY <2>3 DEF vars, rvars
    <2> QED
      BY <2>1, <2>2, <2>3, ReadsOnly
  <1>2. UNCHANGED up
    <2>1. UNCHANGED vars => UNCHANGED up
      BY DEF vars, wvars
    <2>2. UNCHANGED wvars => UNCHANGED up
      BY DEF wvars
    <2>3. \A s, m : WP!write(s, m) => UNCHANGED up
      BY DEF WP!write
    <2>4. \A s : WP!IoThread \/ WP!Socket(s) => UNCHANGED up
      BY DEF WP!IoThread, WP!write_in_io_thread, WP!write_some, WP!handle_write,
         WP!async_write_some, WP!Socket, WP!SocketSend, WP!SocketFail
    <2>5. \A s, m : Passes(s, m) => UNCHANGED up
      BY <2>2, <2>3 DEF Passes
    <2> QED
      BY <2>1, <2>2, <2>3, <2>4, <2>5, StepCases DEF Receiving
  <1> QED
    BY <1>1, <1>2 DEF NoneFails

\* Before both sides are there, nothing has gone out.
Quiet ==
  main \in {"connect", "listen"} =>
    worker = "NULL" /\ \A s \in Sessions : stream[s] = <<>> /\ sockq[s] = <<>>

LEMMA QuietInit == Init => Quiet
  BY DEF Init, W!Init, M!Init, Quiet

LEMMA QuietStep ==
  ASSUME Quiet, [Next]_vars
  PROVE  Quiet'
  <1> SUFFICES ASSUME main' \in {"connect", "listen"}
               PROVE  UNCHANGED <<main, worker, stream, sockq>>
                      \/ (main = "connect" /\ UNCHANGED <<worker, stream, sockq>>)
    BY DEF Quiet
  <1>1. CASE MainStep
    BY <1>1 DEF MainStep, connect, listen, monitor_start, session_start, run_returns, Goes,
                wvars, mvars
  <1>2. ~follow /\ ~Write /\ \A s \in Sessions : ~Read(s)
    BY DEF follow, Write, Read, IoThreadIdle, InRun
  <1>3. ~clear
    BY DEF clear, Quiet, M!while, M!reset, M!sample, M!action
  <1>4. \A s \in Sessions : ~Socket(s)
    BY DEF Socket, W!Socket, W!SocketSend, W!SocketFail, Quiet
  <1>5. ASSUME NEW s \in Sessions, Peer(s) \/ Reset(s)
        PROVE  UNCHANGED <<main, worker, stream, sockq>>
    BY <1>5 DEF Peer, Reset, W!Break, wvars, mvars
  <1>6. CASE UNCHANGED vars
    BY <1>6 DEF vars, wvars, mvars
  <1> QED
    BY <1>1, <1>2, <1>3, <1>4, <1>5, <1>6 DEF Next

-----------------------------------------------------------------------------
(* The invariant of the proxy between such peers.                           *)

\* Whatever is written has bytes: it is the FLOW_MOD or a peer's message.
LEMMA NothingEmpty ==
  ASSUME Receiving, Relaying, NoneFails
  PROVE  WP!NonEmpty
  <1> SUFFICES ASSUME NEW s \in Sessions, NEW k \in DOMAIN written[s], written[s][k] # prepare_switch
               PROVE  written[s][k].len # 0
    BY DEF WP!NonEmpty, prepare_switch
  <1> DEFINE o == Other(s)
  <1>1. PICK i \in DOMAIN dispatched[o] : written[s][k] = dispatched[o][i]
    <2>1. PICK d \in Seq(ofp_header) :
            /\ Copies(written[s], d)
            /\ \A i \in DOMAIN d : i \in DOMAIN dispatched[o] /\ d[i] = dispatched[o][i]
      BY Relayed
    <2>2. FromPeer(written[s], k) \in DOMAIN d /\ written[s][k] = d[FromPeer(written[s], k)]
      BY <2>1 DEF Copies
    <2> QED
      BY <2>1, <2>2
  <1>2. o \in Sessions
    BY OtherSession
  <1> HIDE DEF o
  <1>3. dispatched[o][i].len # 0
    <2>1. CASE i \in DOMAIN sent[o] /\ dispatched[o][i] = sent[o][i]
      <3>1. sent[o] \in Seq(Message)
        BY <1>2, ConstantsFit DEF Receiving, RP!TypeOK
      <3>2. sent[o][i] \in Message
        BY <2>1, <3>1
      <3> QED
        BY <2>1, <3>2 DEF Message, HeaderLen
    <2>2. CASE dispatched[o][i].len = RP!HeaderLen
      BY <2>2 DEF RP!HeaderLen
    <2> QED
      BY <1>1, <1>2, <2>1, <2>2, DispatchedFromPeer
  <1> QED
    BY <1>1, <1>3

Between == Receiving /\ Sending /\ Monitoring /\ Relaying /\ Counted
Whole == NoneFails /\ Quiet /\ WP!Whole /\ WP!InPlace

LEMMA BetweenInvariant == Spec => []Between
  BY NothingOwn, RelayingInit, RelayingStep, CountedInit, CountedStep, ComponentsInvariant, PTL
  DEF Spec, Between

LEMMA WholeInit == Init => Whole
  <1> SUFFICES ASSUME Init PROVE Whole
    OBVIOUS
  <1>1. WP!Init
    BY SameWrite DEF Init
  <1> QED
    BY <1>1, NoneFailsInit, QuietInit, ConstantsFit, WP!WholeInit, WP!InPlaceInit DEF Whole

LEMMA WholeStep ==
  ASSUME Closing = {}, ShortCounts = {}, Between, Whole, [Next]_vars
  PROVE  Whole'
  <1>1. NoneFails' /\ Quiet'
    BY NoneFailsStep, QuietStep DEF Between, Whole
  <1>2. WP!Steps
    <2>1. UNCHANGED vars => WP!Steps
      BY DEF vars, wvars, WP!Steps, WP!wvars
    <2> QED
      BY <2>1, WriteStep DEF Between, Receiving, Monitoring
  <1>3. WP!Whole'
    BY <1>2, ConstantsFit, WP!WholeStep DEF Between, Sending, Whole
  <1>4. WP!InPlace'
    BY <1>2, ConstantsFit, NothingEmpty, WP!InPlaceStep DEF Between, Sending, Whole
  <1> QED
    BY <1>1, <1>3, <1>4 DEF Whole

-----------------------------------------------------------------------------
(* What was delivered, and what the Relay counts of it.                     *)

LEMMA DeliveredSoFar ==
  ASSUME Between, WP!InPlace, NEW s \in Sessions
  PROVE  LET T == Len(stream[s])
         IN  /\ T \in Nat /\ DOMAIN stream[s] = 1 .. T
             /\ 1 .. T \subseteq DOMAIN written[s]
             /\ written[s] \in Seq(ofp_header)
             /\ Delivered(s) = [k \in 1 .. T |-> written[s][k]]
             /\ Delivered(s) \in Seq(ofp_header) /\ Len(Delivered(s)) = T
  <1> DEFINE T == Len(stream[s])
  <1>1. T \in Nat /\ DOMAIN stream[s] = 1 .. T /\ written[s] \in Seq(ofp_header)
    BY DEF Between, Sending, WP!Typed, WP!TypeOK
  <1>2. \A k \in 1 .. T : stream[s][k].msg = k /\ k \in DOMAIN written[s]
    BY <1>1 DEF Between, Sending, WP!Typed, WP!StreamWithin, WP!InPlace
  <1>3. Delivered(s) = [k \in 1 .. T |-> written[s][k]]
    BY <1>1, <1>2 DEF Delivered
  <1>4. \A k \in 1 .. T : written[s][k] \in ofp_header
    BY <1>1, <1>2
  <1> HIDE DEF T
  <1>5. [k \in 1 .. T |-> written[s][k]] \in Seq(ofp_header)
    BY <1>1, <1>4, IsASeq
  <1> DEFINE q == [k \in 1 .. T |-> written[s][k]]
  <1>6. DOMAIN q = 1 .. T
    OBVIOUS
  <1> HIDE DEF q
  <1>7. q \in Seq(ofp_header) /\ Len(q) = T
    BY <1>1, <1>5, <1>6, LenProperties DEF q
  <1> QED
    BY <1>1, <1>2, <1>3, <1>7 DEF T, q

LEMMA SameCardinality == \A S : Promise!Cardinality(S) = Cardinality(S)
  BY DEF Promise!Cardinality, Cardinality

LEMMA CountsAgree ==
  ASSUME NEW q, NEW T \in Nat, NEW p, p = [k \in 1 .. T |-> q[k]]
  PROVE  /\ Promise!FromPeer(p) = FromPeer(q, T)
         /\ Promise!Own(p) = Cardinality({k \in 1 .. T : q[k] = prepare_switch})
  <1>1. DOMAIN p = 1 .. T /\ \A k \in 1 .. T : p[k] = q[k]
    OBVIOUS
  <1>2. /\ {k \in DOMAIN p : p[k] # prepare_switch} = {j \in 1 .. T : q[j] # prepare_switch}
        /\ {k \in DOMAIN p : p[k] = prepare_switch} = {k \in 1 .. T : q[k] = prepare_switch}
    BY <1>1
  <1>3. /\ Promise!FromPeer(p) = Cardinality({k \in DOMAIN p : p[k] # prepare_switch})
        /\ Promise!Own(p) = Cardinality({k \in DOMAIN p : p[k] = prepare_switch})
        /\ FromPeer(q, T) = Cardinality({j \in 1 .. T : q[j] # prepare_switch})
    BY SameCardinality DEF Promise!FromPeer, Promise!Own, FromPeer
  <1> QED
    BY <1>2, <1>3

\* The next message counts with those before it, if it is the peer's.
LEMMA CountNext ==
  ASSUME NEW q, NEW T \in Nat
  PROVE  /\ q[T + 1] # prepare_switch => FromPeer(q, T + 1) = FromPeer(q, T) + 1
         /\ FromPeer(q, T) \in Nat
  <1> DEFINE C(k) == {j \in 1 .. k : q[j] # prepare_switch}
  <1>1. IsFiniteSet(C(T)) /\ Cardinality(C(T)) \in Nat
    BY CountType, FS_CardinalityType
  <1>2. T + 1 \notin C(T)
    <2>1. T + 1 \notin 1 .. T
      OBVIOUS
    <2> QED
      BY <2>1
  <1>3. q[T + 1] # prepare_switch => C(T + 1) = C(T) \cup {T + 1}
    <2>1. 1 .. T + 1 = (1 .. T) \cup {T + 1}
      OBVIOUS
    <2> QED
      BY <2>1
  <1>4. Cardinality(C(T) \cup {T + 1}) = Cardinality(C(T)) + 1
    BY <1>1, <1>2, FS_AddElement
  <1> QED
    BY <1>1, <1>3, <1>4 DEF FromPeer

\* A FLOW_MOD that is next is not among those delivered.
LEMMA OwnNext ==
  ASSUME NEW S, NEW q \in Seq(S), NEW T \in Nat, T + 1 \in DOMAIN q, q[T + 1] = prepare_switch
  PROVE  LET own == Cardinality({k \in 1 .. T : q[k] = prepare_switch})
         IN  own \in Nat /\ FlowMods(q) \in Nat /\ own + 1 <= FlowMods(q)
  <1> DEFINE C == {k \in 1 .. T : q[k] = prepare_switch}
             D == {k \in DOMAIN q : q[k] = prepare_switch}
  <1>1. DOMAIN q = 1 .. Len(q) /\ Len(q) \in Nat
    OBVIOUS
  <1>2. IsFiniteSet(1 .. T) /\ IsFiniteSet(1 .. Len(q))
    BY <1>1, FS_Interval
  <1>3. C \subseteq 1 .. T /\ D \subseteq 1 .. Len(q)
    BY <1>1
  <1>4. T + 1 \notin 1 .. T /\ 1 .. T \subseteq DOMAIN q
    BY <1>1
  <1>5. T + 1 \notin C /\ C \cup {T + 1} \subseteq D
    BY <1>3, <1>4
  <1> HIDE DEF C, D
  <1>6. IsFiniteSet(C) /\ IsFiniteSet(D)
    BY <1>2, <1>3, FS_Subset
  <1>7. Cardinality(C) \in Nat /\ Cardinality(D) \in Nat
    BY <1>6, FS_CardinalityType
  <1>8. Cardinality(C \cup {T + 1}) = Cardinality(C) + 1
    BY <1>5, <1>6, FS_AddElement
  <1>9. Cardinality(C \cup {T + 1}) <= Cardinality(D)
    BY <1>5, <1>6, FS_Subset
  <1> QED
    BY <1>7, <1>8, <1>9 DEF C, D, FlowMods

-----------------------------------------------------------------------------
(* What a step of the proxy is to the Relay.                                *)

\* What was written stays as it is.
LEMMA WrittenKept ==
  ASSUME Between, Next
  PROVE  \A s \in Sessions : \A k \in DOMAIN written[s] : written'[s][k] = written[s][k]
  <1> DEFINE Keeps == \A s \in Sessions : \A k \in DOMAIN written[s] :
                        written'[s][k] = written[s][k]
  <1>1. ASSUME NEW s \in Sessions, NEW m \in ofp_header, WP!write(s, m) PROVE Keeps
    BY <1>1, ConstantsFit, WP!WriteEffect DEF Between, Sending, WP!Typed
  <1>2. UNCHANGED written => Keeps
    OBVIOUS
  <1>3. MP!follow => following \in ofp_header
    BY DEF MP!follow, MP!TypeOK, Between, Monitoring
  <1>4. UNCHANGED wvars => UNCHANGED written
    BY DEF wvars
  <1>5. \A s : WP!IoThread \/ WP!Socket(s) \/ WP!Break(s) => UNCHANGED written
    BY DEF WP!IoThread, WP!write_in_io_thread, WP!write_some, WP!handle_write,
       WP!async_write_some, WP!Socket, WP!SocketSend, WP!SocketFail, WP!Break
  <1>6. ASSUME NEW s \in Sessions, NEW m \in ofp_header, Passes(s, m) PROVE Keeps
    BY <1>1, <1>2, <1>4, <1>6, TwoSessions DEF Passes
  <1> HIDE DEF Keeps
  <1>7. Keeps
    BY <1>1, <1>2, <1>3, <1>4, <1>5, <1>6, TwoSessions, StepCases, SwitchMessage
       DEF Between, Receiving
  <1> QED
    BY <1>7 DEF Keeps

LEMMA DeliveredKept ==
  ASSUME Between, Next, UNCHANGED stream
  PROVE  \A s \in Sessions : Delivered(s)' = Delivered(s)
  <1> SUFFICES ASSUME NEW s \in Sessions PROVE Delivered(s)' = Delivered(s)
    OBVIOUS
  <1>1. \A k \in DOMAIN stream[s] : stream[s][k].msg \in DOMAIN written[s]
    BY DEF Between, Sending, WP!Typed, WP!StreamWithin
  <1>2. \A k \in DOMAIN stream[s] :
          written'[s][stream[s][k].msg] = written[s][stream[s][k].msg]
    BY <1>1, WrittenKept
  <1> QED
    BY <1>2 DEF Delivered

relayvars == <<sent, [s \in Sessions |-> Delivered(s)], main = "failed">>

\* The socket takes the next message: the peer's, or one that is paid for.
LEMMA DeliveredOneMore ==
  ASSUME Between, Whole, NEW s \in Sessions, WP!SocketSend(s)
  PROVE  LET T == Len(stream[s])
         IN  /\ T + 1 \in DOMAIN written[s]
             /\ Delivered(s)' = Append(Delivered(s), written[s][T + 1])
             /\ \A r \in Sessions \ {s} : Delivered(r)' = Delivered(r)
  <1> DEFINE T == Len(stream[s])
             m == written[s][T + 1]
  <1>1. /\ T \in Nat /\ T + 1 \in DOMAIN written[s] /\ UNCHANGED written
        /\ DOMAIN stream[s] = 1 .. T /\ DOMAIN stream'[s] = 1 .. T + 1
        /\ \A k \in 1 .. T : stream'[s][k] = stream[s][k]
        /\ stream'[s][T + 1].msg = T + 1
        /\ \A r \in Sessions \ {s} : stream'[r] = stream[r]
    BY ConstantsFit, NothingEmpty, WP!OneMoreOut DEF Between, Sending, Whole
  <1>2. /\ Delivered(s) = [k \in 1 .. T |-> written[s][k]]
        /\ Delivered(s) \in Seq(ofp_header) /\ Len(Delivered(s)) = T
        /\ written[s] \in Seq(ofp_header)
    BY DeliveredSoFar DEF Whole
  <1>3. m \in ofp_header
    BY <1>1, <1>2
  <1>4. \A k \in 1 .. T : stream[s][k].msg = k
    BY <1>1 DEF Whole, WP!InPlace
  <1>5. Delivered(s)' = [k \in 1 .. T + 1 |-> written[s][k]]
    <2>1. \A k \in 1 .. T + 1 : stream'[s][k].msg = k
      <3>1. \A k \in 1 .. T + 1 : k \in 1 .. T \/ k = T + 1
        BY <1>1
      <3> QED
        BY <1>1, <1>4, <3>1
    <2>2. Delivered(s)' = [k \in DOMAIN stream'[s] |-> written'[s][stream'[s][k].msg]]
      BY DEF Delivered
    <2> QED
      BY <1>1, <2>1, <2>2
  <1> DEFINE p == Delivered(s)
  <1>6. /\ Append(p, m) \in Seq(ofp_header) /\ DOMAIN Append(p, m) = 1 .. T + 1
        /\ \A k \in 1 .. T : Append(p, m)[k] = p[k]
        /\ Append(p, m)[T + 1] = m
    <2> HIDE DEF p, m
    <2> QED
      BY <1>2, <1>3, AppendProperties DEF p
  <1>7. Append(p, m) = [k \in 1 .. T + 1 |-> written[s][k]]
    <2>1. \A k \in 1 .. T + 1 : Append(p, m)[k] = written[s][k]
      <3>1. \A k \in 1 .. T + 1 : k \in 1 .. T \/ k = T + 1
        BY <1>1
      <3> QED
        BY <1>2, <1>6, <3>1
    <2>2. Append(p, m) = [k \in 1 .. T + 1 |-> Append(p, m)[k]]
      <3> DEFINE a == Append(p, m)
      <3> HIDE DEF a
      <3>1. a \in Seq(ofp_header) /\ DOMAIN a = 1 .. T + 1
        BY <1>6 DEF a
      <3>2. a = [k \in DOMAIN a |-> a[k]]
        BY <3>1
      <3> QED
        BY <3>1, <3>2 DEF a
    <2> QED
      BY <2>1, <2>2
  <1>8. \A r \in Sessions \ {s} : Delivered(r)' = Delivered(r)
    BY <1>1 DEF Delivered
  <1> QED
    BY <1>1, <1>5, <1>7, <1>8

\* What the switch sent pays for as much as what was dispatched.
LEMMA PacketInsSent ==
  ASSUME Between, NoneFails
  PROVE  /\ PacketIns(dispatched[s_session]) \in Nat /\ Promise!PacketIns \in Nat
         /\ PacketIns(dispatched[s_session]) <= Promise!PacketIns
  <1> DEFINE s == s_session
             D == {k \in DOMAIN dispatched[s] : dispatched[s][k].type = "OFPT_PACKET_IN"}
             P == {k \in DOMAIN sent[s] : sent[s][k].type = "OFPT_PACKET_IN"}
  <1>1. s \in Sessions /\ ~failed[s]
    BY TwoSessions DEF NoneFails
  <1>2. pos[s] <= Len(sent[s]) /\ Len(dispatched[s]) = pos[s] /\ pos[s] \in Nat
        /\ \A i \in 1 .. pos[s] : dispatched[s][i] = sent[s][i]
    BY <1>1, ConstantsFit DEF Between, Receiving, RP!TypeOK, RP!AllSound, RP!Sound,
                              RP!Boundary, RP!InOrder
  <1>3. /\ DOMAIN sent[s] = 1 .. Len(sent[s]) /\ Len(sent[s]) \in Nat
        /\ DOMAIN dispatched[s] = 1 .. Len(dispatched[s])
    BY <1>1, DispatchedFromPeer DEF Between
  <1>4. D \subseteq P /\ P \subseteq 1 .. Len(sent[s])
    BY <1>2, <1>3
  <1>5. PacketIns(dispatched[s]) = Cardinality(D) /\ Promise!PacketIns = Cardinality(P)
    BY SameCardinality DEF PacketIns, Promise!PacketIns
  <1> HIDE DEF D, P, s
  <1>6. IsFiniteSet(P)
    <2>1. IsFiniteSet(1 .. Len(sent[s]))
      BY <1>3, FS_Interval
    <2> QED
      BY <1>4, <2>1, FS_Subset
  <1>7. IsFiniteSet(D) /\ Cardinality(D) <= Cardinality(P)
    BY <1>4, <1>6, FS_Subset
  <1>8. Cardinality(D) \in Nat /\ Cardinality(P) \in Nat
    BY <1>6, <1>7, FS_CardinalityType
  <1> QED
    BY <1>5, <1>7, <1>8 DEF s

LEMMA Times == \A a, b, c \in Nat : a <= b => a * c <= b * c
  <1> SUFFICES ASSUME NEW a \in Nat, NEW b \in Nat, NEW c \in Nat, a <= b
               PROVE  a * c <= b * c
    OBVIOUS
  <1> DEFINE x == b - a
  <1>1. x \in Nat /\ b = a + x
    OBVIOUS
  <1> HIDE DEF x
  <1>2. b * c = a * c + x * c
    BY <1>1
  <1>3. x * c \in Nat /\ a * c \in Nat
    BY <1>1
  <1> QED
    BY <1>2, <1>3

LEMMA SocketRefines ==
  ASSUME Between, Whole,
         FlowMods(written[s_session]) * thresh_hold_ <= PacketIns(dispatched[s_session]),
         FlowMods(written[c_session]) = 0,
         NEW s \in Sessions, WP!SocketSend(s), UNCHANGED <<sent, main>>, main # "failed"
  PROVE  Promise!Next
  <1> DEFINE T == Len(stream[s])
             m == written[s][T + 1]
             all == [r \in Sessions |-> Delivered(r)]
  <1>1. /\ T \in Nat /\ T + 1 \in DOMAIN written[s] /\ written[s] \in Seq(ofp_header)
        /\ Delivered(s) = [k \in 1 .. T |-> written[s][k]]
    BY DeliveredOneMore, DeliveredSoFar DEF Whole
  <1>2. all' = [all EXCEPT ![s] = Append(all[s], m)]
    <2>1. all' = [r \in Sessions |-> Delivered(r)']
      OBVIOUS
    <2>2. /\ Delivered(s)' = Append(Delivered(s), m)
          /\ \A r \in Sessions \ {s} : Delivered(r)' = Delivered(r)
      BY DeliveredOneMore
    <2> QED
      BY <2>1, <2>2
  <1>3. /\ Promise!FromPeer(all[s]) = FromPeer(written[s], T)
        /\ Promise!Own(all[s]) = Cardinality({k \in 1 .. T : written[s][k] = prepare_switch})
    BY <1>1, CountsAgree
  <1>4. CASE m # prepare_switch
    <2> DEFINE n == Promise!FromPeer(all[s]) + 1
               o == Other(s)
    <2>1. n = FromPeer(written[s], T + 1) /\ n \in Nat
      BY <1>1, <1>3, <1>4, CountNext
    <2>2. n \in DOMAIN dispatched[o] /\ m = dispatched[o][n]
      <3>1. PICK d \in Seq(ofp_header) :
              /\ Copies(written[s], d)
              /\ \A i \in DOMAIN d : i \in DOMAIN dispatched[o] /\ d[i] = dispatched[o][i]
        BY Relayed DEF Between
      <3>2. n \in DOMAIN d /\ m = d[n]
        BY <1>1, <1>4, <2>1, <3>1 DEF Copies
      <3> QED
        BY <3>1, <3>2
    <2>3. n <= Len(sent[o]) /\ m = sent[o][n]
      <3>1. o \in Sessions /\ ~failed[o]
        BY OtherSession DEF Whole, NoneFails
      <3> HIDE DEF o, n
      <3>2. Len(dispatched[o]) = pos[o] /\ pos[o] <= Len(sent[o]) /\ pos[o] \in Nat
            /\ \A i \in 1 .. pos[o] : dispatched[o][i] = sent[o][i]
        BY <3>1, ConstantsFit DEF Between, Receiving, RP!TypeOK, RP!AllSound, RP!Sound,
                                  RP!Boundary, RP!InOrder
      <3>3. DOMAIN dispatched[o] = 1 .. Len(dispatched[o]) /\ Len(sent[o]) \in Nat
        BY <3>1, DispatchedFromPeer DEF Between
      <3> QED
        BY <2>2, <3>2, <3>3
    <2>4. Promise!Deliver(s)
      BY <1>2, <2>3, TwoSessions DEF Promise!Deliver
    <2> QED
      BY <2>4, TwoSessions DEF Promise!Next
  <1>5. CASE m = prepare_switch
    <2> DEFINE own == Cardinality({k \in 1 .. T : written[s][k] = prepare_switch})
    <2>1. own \in Nat /\ FlowMods(written[s]) \in Nat /\ own + 1 <= FlowMods(written[s])
      BY <1>1, <1>5, OwnNext
    <2>2. s = s_session
      BY <2>1, TwoSessions
    <2>3. (own + 1) * thresh_hold_ <= Promise!PacketIns
      <3> DEFINE mods == FlowMods(written[s])
                 paid == (own + 1) * thresh_hold_
                 asked == mods * thresh_hold_
      <3>1. thresh_hold_ \in Nat
        BY EproxyAssumption
      <3>2. asked <= PacketIns(dispatched[s_session])
        BY <2>2
      <3> HIDE DEF own, mods
      <3>3. own + 1 \in Nat /\ mods \in Nat /\ own + 1 <= mods
        BY <2>1 DEF mods
      <3>4. paid <= asked /\ paid \in Nat /\ asked \in Nat
        BY <3>1, <3>3, Times
      <3> HIDE DEF paid, asked
      <3>5. paid <= Promise!PacketIns
        BY <3>2, <3>4, PacketInsSent DEF Whole
      <3> QED
        BY <3>5 DEF paid
    <2>4. Promise!Inject
      BY <1>2, <1>3, <1>5, <2>2, <2>3 DEF Promise!Inject
    <2> QED
      BY <2>4 DEF Promise!Next
  <1> QED
    BY <1>4, <1>5

\* Every step is one of the Relay, or changes nothing the Relay speaks of.
LEMMA StepRefines ==
  ASSUME Closing = {}, Between, Whole,
         FlowMods(written[s_session]) * thresh_hold_ <= PacketIns(dispatched[s_session]),
         FlowMods(written[c_session]) = 0,
         [Next]_vars
  PROVE  [Promise!Next]_relayvars
  <1> DEFINE all == [r \in Sessions |-> Delivered(r)]
  <1>1. CASE UNCHANGED vars
    <2>1. UNCHANGED <<sent, written, stream, main>>
      BY <1>1 DEF vars, rvars, wvars
    <2> QED
      BY <2>1 DEF relayvars, Delivered
  <1>2. ASSUME Next, UNCHANGED stream PROVE all' = all
    BY <1>2, DeliveredKept
  <1>3. ASSUME Next, UNCHANGED <<stream, sent>>, main' = "failed" <=> main = "failed"
        PROVE  UNCHANGED relayvars
    BY <1>2, <1>3 DEF relayvars
  <1>4. ASSUME MainStep, Next PROVE Promise!Next \/ UNCHANGED relayvars
    <2>1. UNCHANGED <<stream, sent>> /\ main # "failed"
      BY <1>4 DEF MainStep, connect, listen, monitor_start, session_start, run_returns,
                  Goes, R!start, rvars, wvars
    <2>2. CASE main' = "failed"
      <3>1. main \in {"connect", "listen"}
        BY <1>4, <2>2 DEF MainStep, connect, listen, monitor_start, session_start,
                          run_returns, Goes
      <3>2. \A r \in Sessions : all[r] = <<>>
        <4> SUFFICES ASSUME NEW r \in Sessions PROVE Delivered(r) = <<>>
          OBVIOUS
        <4>1. stream[r] = <<>>
          BY <3>1 DEF Whole, Quiet
        <4>2. Delivered(r) \in Seq(ofp_header) /\ Len(Delivered(r)) = 0
          BY <4>1, DeliveredSoFar DEF Whole
        <4> QED
          BY <4>2, EmptySeq
      <3>3. Promise!GiveUp
        BY <1>2, <1>4, <2>1, <2>2, <3>2, TwoSessions DEF Promise!GiveUp
      <3> QED
        BY <3>3 DEF Promise!Next
    <2>3. CASE main' # "failed"
      BY <1>3, <1>4, <2>1, <2>3
    <2> QED
      BY <2>2, <2>3
  <1>5. ASSUME Next, follow \/ Write \/ clear \/ \E s \in Sessions : Read(s)
        PROVE  UNCHANGED relayvars
    <2>1. UNCHANGED <<sent, main>>
      BY <1>5 DEF follow, Write, clear, Read, InRun, IoThreadIdle, rvars, R!Handler,
         R!handle_read_header, R!handle_read_header_of_cut, R!handle_read_header_error,
         R!handle_read, R!handle_read_error, R!ParseHeader
    <2>2. UNCHANGED stream
      <3>1. \A s, m : W!write(s, m) => UNCHANGED stream
        BY DEF W!write
      <3>2. UNCHANGED wvars => UNCHANGED stream
        BY DEF wvars
      <3>3. W!IoThread => UNCHANGED stream
        BY DEF W!IoThread, W!write_in_io_thread, W!write_some, W!handle_write,
           W!async_write_some
      <3> QED
        BY <1>5, <3>1, <3>2, <3>3 DEF follow, Write, clear, switch_path, Read, Call
    <2> QED
      BY <1>3, <1>5, <2>1, <2>2
  <1>6. ASSUME NEW s \in Sessions, Peer(s), Next PROVE Promise!Next
    <2>1. UNCHANGED <<stream, main>>
      BY <1>6 DEF Peer, wvars
    <2>2. \E f \in FramesFrom[s] : sent' = [sent EXCEPT ![s] = Append(@, f)]
      BY <1>6 DEF Peer, R!Peer, R!PeerSends
    <2>3. Promise!Send(s)
      BY <1>2, <1>6, <2>1, <2>2 DEF Promise!Send
    <2> QED
      BY <2>3, TwoSessions DEF Promise!Next
  <1>7. ASSUME NEW s \in Sessions, Socket(s) PROVE Promise!Next
    <2>1. WP!Socket(s) /\ UNCHANGED <<sent, main>> /\ main # "failed"
      BY <1>7, SameWrite DEF Socket, rvars
    <2>2. WP!SocketSend(s)
      BY <2>1 DEF WP!Socket, WP!SocketFail, Whole, NoneFails
    <2> QED
      BY <2>1, <2>2, SocketRefines DEF Between, Sending
  <1>8. \A s \in Sessions : ~Reset(s)
    BY DEF Reset
  <1>9. CASE Next
    BY <1>4, <1>5, <1>6, <1>7, <1>8, <1>9 DEF Next
  <1> QED
    BY <1>1, <1>9

\* With both peers connected and no partial write, the proxy is a relay: each
\* of its steps is a step of Relay or a stutter.  Either side is delivered what
\* the other sent, whole, once and in order, and nothing else but the FLOW_MOD,
\* at most one for every thresh_hold_ PACKET_INs the switch sent.
THEOREM StepsOfRelay ==
  ASSUME Closing = {}, ShortCounts = {}
  PROVE  Spec => Promise!Init /\ [][Promise!Next]_relayvars
  <1>1. Init => Promise!Init
    <2> SUFFICES ASSUME Init PROVE Promise!Init
      OBVIOUS
    <2>1. /\ sent = [s \in Sessions |-> <<>>] /\ main # "failed"
          /\ stream = [s \in Sessions |-> <<>>]
      BY DEF Init, R!Init, W!Init
    <2>2. \A s \in Sessions : Delivered(s) = <<>>
      BY <2>1 DEF Delivered
    <2> QED
      BY <2>1, <2>2, TwoSessions DEF Promise!Init
  <1>2. Between /\ Whole /\ [Next]_vars => Whole'
    BY WholeStep
  <1> DEFINE Pays == /\ FlowMods(written[s_session]) * thresh_hold_
                          <= PacketIns(dispatched[s_session])
                     /\ FlowMods(written[c_session]) = 0
  <1>3. Between /\ Whole /\ Pays /\ [Next]_vars => [Promise!Next]_relayvars
    BY StepRefines
  <1>4. Spec => []Pays
    BY FlowModsPaidFor
  <1> HIDE DEF Pays
  <1> QED
    BY <1>1, <1>2, <1>3, <1>4, WholeInit, BetweenInvariant, PTL DEF Spec
=============================================================================
