------------------------- MODULE SessionReadProofs --------------------------
(***************************************************************************)
(* Proofs about SessionRead, for any number of sessions, any messages and  *)
(* any way the peers cut their streams.                                    *)
(***************************************************************************)
EXTENDS SessionRead, TLAPS

LEMMA UInt16MaxFact == UInt16Max \in Nat /\ UInt16Max > HeaderLen
  BY DEF UInt16Max, Byte, HeaderLen

LEMMA UInt16MaxValue == UInt16Max = 256 * 255 + 255
  BY DEF UInt16Max, Byte

LEMMA BodyLengthZero ==
  ASSUME NEW len \in UInt16
  PROVE  BodyLength(len) = 0 <=> len = HeaderLen
  BY SizeModAssumption, UInt16MaxFact DEF BodyLength, UInt16, HeaderLen

LEMMA MessageIsHeader == ASSUME NEW m \in Message PROVE m \in ofp_header
  BY UInt16MaxFact DEF Message, ofp_header, UInt16, HeaderLen

\* The high byte of one length and the low byte of another make a length.
LEMMA TornLength ==
  ASSUME NEW a \in UInt16, NEW b \in UInt16
  PROVE  Splice(a, b) \in UInt16
  <1> DEFINE q == a \div 256
             r == b % 256
  <1>1. a \in Nat /\ a <= UInt16Max /\ b \in Nat
    BY UInt16MaxFact DEF UInt16
  <1>2. q \in Nat /\ q <= 255 /\ r \in Nat /\ r <= 255
    BY <1>1, UInt16MaxValue
  <1>3. Splice(a, b) = 256 * q + r
    BY DEF Splice, Byte
  <1> HIDE DEF q, r
  <1>4. 256 * q + r \in Nat /\ 256 * q + r <= UInt16Max
    BY <1>2, UInt16MaxValue
  <1>5. 256 * q + r \in UInt16
    BY <1>4, UInt16MaxFact DEF UInt16
  <1> QED
    BY <1>3, <1>5

\* Bytes received over bytes received before still read as a header.
LEMMA ReceivedType ==
  ASSUME NEW old \in ofp_header, NEW f \in ofp_header, NEW k \in Nat
  PROVE  Received(old, f, k) \in ofp_header
  <1> DEFINE mixed == Splice(f.len, old.len)
  <1>1. old.len \in UInt16 /\ f.len \in UInt16
    BY DEF ofp_header
  <1>2. mixed \in UInt16
    BY <1>1, TornLength
  <1> HIDE DEF mixed
  <1>3. (CASE k >= 4 -> f.len [] k = 3 -> mixed [] OTHER -> old.len) \in UInt16
    BY <1>1, <1>2
  <1> QED
    BY <1>3 DEF Received, ofp_header, mixed

\* A whole header replaces what was there.
LEMMA ReceivedHeader ==
  ASSUME NEW old \in ofp_header, NEW f \in Message
  PROVE  /\ Received(old, f, HeaderLen).type = f.type
         /\ Received(old, f, HeaderLen).len = f.len
         /\ f.len = HeaderLen => Received(old, f, HeaderLen) = f
  BY UInt16MaxFact DEF Received, HeaderLen, Message

\* Nothing received leaves what was there.
LEMMA ReceivedNothing ==
  ASSUME NEW old \in ofp_header, NEW f \in Message
  PROVE  Received(old, f, 0) = old
  BY UInt16MaxFact DEF Received, HeaderLen, Message, ofp_header

\* What ParseHeader keeps typed, whichever bytes came in.
LEMMA ParseHeaderType ==
  ASSUME TypeOK, NEW s \in Sessions, NEW f \in ofp_header, NEW k \in Nat,
         ParseHeader(s, f, k)
  PROVE  /\ data_' \in [Sessions -> ofp_header]
         /\ phase' \in [Sessions -> Phase]
         /\ dispatched' \in [Sessions -> Seq(ofp_header)]
  <1> DEFINE header == Received(data_[s], f, k)
  <1>1. header \in ofp_header
    BY ReceivedType DEF TypeOK
  <1> HIDE DEF header
  <1>2. data_' = [data_ EXCEPT ![s] = header]
    BY DEF ParseHeader, header
  <1>3. \/ Dispatch(s, header) /\ phase' = [phase EXCEPT ![s] = "header"]
        \/ phase' = [phase EXCEPT ![s] = "body"] /\ UNCHANGED dispatched
    BY DEF ParseHeader, read, header
  <1>4. Append(dispatched[s], header) \in Seq(ofp_header)
    BY <1>1 DEF TypeOK
  <1>5. dispatched' \in [Sessions -> Seq(ofp_header)]
    BY <1>3, <1>4 DEF TypeOK, Dispatch
  <1>6. phase' \in [Sessions -> Phase]
    BY <1>3 DEF TypeOK, Dispatch, Phase
  <1> QED
    BY <1>1, <1>2, <1>5, <1>6 DEF TypeOK

LEMMA TypedInit == Init => TypeOK
  BY ReadAssumption DEF Init, TypeOK, Phase

LEMMA TypedStep == TypeOK /\ [Next]_rvars => TypeOK'
  <1> SUFFICES ASSUME TypeOK, [Next]_rvars PROVE TypeOK'
    OBVIOUS
  <1>1. ASSUME NEW s \in Sessions, NEW f \in FramesFrom[s], PeerSends(s, f)
        PROVE  TypeOK'
    <2>1. f \in Message
      BY ReadAssumption
    <2> QED
      BY <1>1, <2>1 DEF PeerSends, TypeOK
  <1>2. ASSUME NEW s \in Sessions, NEW f \in FramesFrom[s], NEW k \in CutPoints,
               PeerCloses(s, f, k)
        PROVE  TypeOK'
    <2>1. f \in ofp_header /\ k \in Nat
      BY ReadAssumption, MessageIsHeader
    <2> QED
      BY <1>2, <2>1 DEF PeerCloses, TypeOK
  <1>3. ASSUME NEW s \in Sessions, start(s) PROVE TypeOK'
    BY <1>3 DEF start, read, TypeOK, Phase
  <1>4. ASSUME NEW s \in Sessions, handle_read_header(s) PROVE TypeOK'
    <2> DEFINE f == sent[s][pos[s] + 1]
    <2>1. f \in Message /\ f \in ofp_header
      BY <1>4, MessageIsHeader DEF handle_read_header, TypeOK
    <2>2. ParseHeader(s, f, HeaderLen)
      BY <1>4 DEF handle_read_header
    <2>3. pos' = [pos EXCEPT ![s] = @ + (IF f.len = HeaderLen THEN 1 ELSE 0)]
      BY <1>4 DEF handle_read_header
    <2>4. UNCHANGED <<sent, open, cut, failed>>
      BY <1>4 DEF handle_read_header, ParseHeader
    <2> HIDE DEF f
    <2>5. pos' \in [Sessions -> Nat]
      BY <2>3 DEF TypeOK
    <2>6. HeaderLen \in Nat
      BY DEF HeaderLen
    <2> QED
      BY <2>1, <2>2, <2>4, <2>5, <2>6, ParseHeaderType DEF TypeOK
  <1>5. ASSUME NEW s \in Sessions, handle_read_header_of_cut(s) PROVE TypeOK'
    <2>1. cut[s].msg \in ofp_header /\ HeaderLen \in Nat
      BY DEF TypeOK, HeaderLen
    <2>2. ParseHeader(s, cut[s].msg, HeaderLen) /\ UNCHANGED <<sent, open, pos, cut, failed>>
      BY <1>5 DEF handle_read_header_of_cut, ParseHeader
    <2> QED
      BY <2>1, <2>2, ParseHeaderType DEF TypeOK
  <1>6. ASSUME NEW s \in Sessions, handle_read_header_error(s) PROVE TypeOK'
    <2>1. cut[s].msg \in ofp_header /\ cut[s].got \in Nat
      BY DEF TypeOK
    <2>2. ParseHeader(s, cut[s].msg, cut[s].got) /\ UNCHANGED <<sent, open, pos>>
      BY <1>6 DEF handle_read_header_error, ParseHeader
    <2>3. cut' \in [Sessions -> [msg : ofp_header, got : Nat]]
          /\ failed' \in [Sessions -> BOOLEAN]
      BY <1>6 DEF handle_read_header_error, TypeOK
    <2> QED
      BY <2>1, <2>2, <2>3, ParseHeaderType DEF TypeOK
  <1>7. ASSUME NEW s \in Sessions, handle_read(s) PROVE TypeOK'
    <2> DEFINE message == [data_[s] EXCEPT !.payload = sent[s][pos[s] + 1].payload]
    <2>1. sent[s][pos[s] + 1] \in Message
      BY <1>7 DEF handle_read, TypeOK
    <2>2. message \in ofp_header
      BY <2>1 DEF TypeOK, ofp_header, Message
    <2>3. /\ data_' = [data_ EXCEPT ![s] = message]
          /\ dispatched' = [dispatched EXCEPT ![s] = Append(@, message)]
          /\ pos' = [pos EXCEPT ![s] = @ + 1]
          /\ phase' = [phase EXCEPT ![s] = "header"]
          /\ UNCHANGED <<sent, open, cut, failed>>
      BY <1>7 DEF handle_read, read, Dispatch
    <2> HIDE DEF message
    <2> QED
      BY <2>2, <2>3 DEF TypeOK, Phase
  <1>8. ASSUME NEW s \in Sessions, handle_read_error(s) PROVE TypeOK'
    <2>1. [data_[s] EXCEPT !.payload = Torn] \in ofp_header
      BY DEF TypeOK, ofp_header
    <2> QED
      BY <1>8, <2>1 DEF handle_read_error, TypeOK, Phase
  <1>9. CASE UNCHANGED rvars
    BY <1>9 DEF rvars, TypeOK
  <1> QED
    BY <1>1, <1>2, <1>3, <1>4, <1>5, <1>6, <1>7, <1>8, <1>9
       DEF Next, Peer, Handler

\* The session's variables keep their types, whatever a peer sends: a header
\* read into data_ is a header, however little of it arrived.
THEOREM TypeCorrect == Spec => []TypeOK
  BY TypedInit, TypedStep, PTL DEF Spec

-----------------------------------------------------------------------------
(* Why messages are dispatched in order and once: the buffer holds either  *)
(* nothing of the next message or its whole header, and a header read can  *)
(* fail only when every message was read.  What a failed one leaves in the *)
(* buffer is what it dispatches, and no later one changes it.              *)

Boundary(s) ==
  /\ pos[s] <= Len(sent[s])
  /\ ~open[s] => cut[s].msg \in Message /\ cut[s].got < cut[s].msg.len
  /\ phase[s] = "body" /\ pos[s] < Len(sent[s]) =>
       /\ data_[s].type = sent[s][pos[s] + 1].type
       /\ data_[s].len = sent[s][pos[s] + 1].len
  /\ phase[s] = "body" /\ pos[s] = Len(sent[s]) => ~open[s]
  /\ phase[s] = "stopped" => ~open[s] /\ pos[s] = Len(sent[s])

InOrder(s) ==
  /\ pos[s] <= Len(dispatched[s])
  /\ ~failed[s] => Len(dispatched[s]) = pos[s]
  /\ \A i \in 1 .. pos[s] : dispatched[s][i] = sent[s][i]

Stale(s) ==
  failed[s] =>
    /\ ~open[s] /\ pos[s] = Len(sent[s]) /\ cut[s].got = 0
    /\ phase[s] \in {"header", "body", "stopped"}
    /\ phase[s] = "header" => data_[s].len = HeaderLen
    /\ phase[s] # "header" => Len(dispatched[s]) = pos[s]
    /\ \A i \in pos[s] + 1 .. Len(dispatched[s]) : dispatched[s][i] = data_[s]

Sound(s) == Boundary(s) /\ InOrder(s) /\ Stale(s)

Same(s) ==
  /\ sent'[s] = sent[s] /\ pos'[s] = pos[s] /\ open'[s] = open[s]
  /\ cut'[s] = cut[s] /\ phase'[s] = phase[s] /\ data_'[s] = data_[s]
  /\ dispatched'[s] = dispatched[s] /\ failed'[s] = failed[s]

LEMMA SoundSame == ASSUME NEW s \in Sessions, Sound(s), Same(s) PROVE Sound(s)'
  BY DEF Sound, Boundary, InOrder, Stale, Same

\* A step of one session or its peer leaves the other sessions alone.
LEMMA StepsOfOthers ==
  ASSUME TypeOK, NEW s \in Sessions, NEW t \in Sessions, t # s,
         Peer(t) \/ start(t) \/ Handler(t)
  PROVE  Same(s)
  <1>1. CASE Peer(t)
    BY <1>1 DEF Peer, PeerSends, PeerCloses, Same, TypeOK
  <1>2. CASE start(t)
    BY <1>2 DEF start, read, Same, TypeOK
  <1>3. CASE handle_read_header(t)
    BY <1>3 DEF handle_read_header, ParseHeader, read, Dispatch, Same, TypeOK
  <1>4. CASE handle_read_header_of_cut(t)
    BY <1>4 DEF handle_read_header_of_cut, ParseHeader, read, Dispatch, Same, TypeOK
  <1>5. CASE handle_read_header_error(t)
    BY <1>5 DEF handle_read_header_error, ParseHeader, read, Dispatch, Same, TypeOK
  <1>6. CASE handle_read(t)
    BY <1>6 DEF handle_read, read, Dispatch, Same, TypeOK
  <1>7. CASE handle_read_error(t)
    BY <1>7 DEF handle_read_error, Same, TypeOK
  <1> QED
    BY <1>1, <1>2, <1>3, <1>4, <1>5, <1>6, <1>7 DEF Handler

LEMMA SoundPeerSends ==
  ASSUME TypeOK, NEW s \in Sessions, Sound(s), NEW f \in Message, PeerSends(s, f)
  PROVE  Sound(s)'
  <1>1. /\ sent'[s] = Append(sent[s], f)
        /\ pos'[s] = pos[s] /\ open'[s] = open[s] /\ cut'[s] = cut[s]
        /\ phase'[s] = phase[s] /\ data_'[s] = data_[s]
        /\ dispatched'[s] = dispatched[s] /\ failed'[s] = failed[s] /\ open[s]
    BY DEF PeerSends, TypeOK
  <1>2. sent[s] \in Seq(Message) /\ pos[s] \in Nat
    BY DEF TypeOK
  <1>3. /\ Len(sent'[s]) = Len(sent[s]) + 1
        /\ \A i \in 1 .. Len(sent[s]) : sent'[s][i] = sent[s][i]
    BY <1>1, <1>2
  <1>4. Boundary(s)'
    BY <1>1, <1>2, <1>3 DEF Sound, Boundary
  <1>5. InOrder(s)'
    BY <1>1, <1>2, <1>3 DEF Sound, Boundary, InOrder
  <1>6. Stale(s)'
    BY <1>1 DEF Sound, Stale
  <1> QED
    BY <1>4, <1>5, <1>6 DEF Sound

LEMMA SoundPeerCloses ==
  ASSUME TypeOK, NEW s \in Sessions, Sound(s), NEW f \in Message, NEW k \in Nat,
         PeerCloses(s, f, k)
  PROVE  Sound(s)'
  BY DEF PeerCloses, TypeOK, Sound, Boundary, InOrder, Stale

LEMMA SoundStart ==
  ASSUME TypeOK, NEW s \in Sessions, Sound(s), start(s)
  PROVE  Sound(s)'
  BY DEF start, read, TypeOK, Sound, Boundary, InOrder, Stale

LEMMA SoundHeader ==
  ASSUME TypeOK, NEW s \in Sessions, Sound(s), handle_read_header(s)
  PROVE  Sound(s)'
  <1> DEFINE f == sent[s][pos[s] + 1]
             h == Received(data_[s], f, HeaderLen)
  <1>1. f \in Message /\ pos[s] < Len(sent[s]) /\ pos[s] \in Nat /\ ~failed[s]
    BY DEF handle_read_header, TypeOK, Sound, Stale
  <1>2. h.type = f.type /\ h.len = f.len /\ (f.len = HeaderLen => h = f)
    BY <1>1, ReceivedHeader DEF TypeOK
  <1>3. f.len \in UInt16
    BY <1>1, UInt16MaxFact DEF Message, UInt16, HeaderLen
  <1>4. /\ data_'[s] = h /\ sent'[s] = sent[s] /\ open'[s] = open[s]
        /\ cut'[s] = cut[s] /\ failed'[s] = failed[s] /\ phase[s] = "header"
    BY DEF handle_read_header, ParseHeader, TypeOK
  <1>5. CASE f.len = HeaderLen
    <2>1. BodyLength(h.len) = 0
      BY <1>2, <1>3, <1>5, BodyLengthZero
    <2>2. /\ pos'[s] = pos[s] + 1 /\ phase'[s] = "header"
          /\ dispatched'[s] = Append(dispatched[s], f)
      BY <1>2, <1>4, <1>5, <2>1 DEF handle_read_header, ParseHeader, read, Dispatch, TypeOK
    <2> HIDE DEF h, f
    <2>3. Len(dispatched[s]) = pos[s] /\ dispatched[s] \in Seq(ofp_header)
      BY <1>1 DEF Sound, InOrder, TypeOK
    <2>4. InOrder(s)'
      BY <1>1, <1>4, <2>2, <2>3 DEF Sound, InOrder, f
    <2>5. Boundary(s)' /\ Stale(s)'
      BY <1>1, <1>4, <2>2 DEF Sound, Boundary, Stale, TypeOK
    <2> QED
      BY <2>4, <2>5 DEF Sound
  <1>6. CASE f.len # HeaderLen
    <2>1. BodyLength(h.len) # 0
      BY <1>2, <1>3, <1>6, BodyLengthZero
    <2>2. /\ pos'[s] = pos[s] /\ phase'[s] = "body"
          /\ dispatched'[s] = dispatched[s]
      BY <1>1, <1>6, <2>1 DEF handle_read_header, ParseHeader, TypeOK
    <2> HIDE DEF h
    <2>3. Boundary(s)'
      BY <1>1, <1>2, <1>4, <2>2 DEF Sound, Boundary, TypeOK
    <2>4. InOrder(s)' /\ Stale(s)'
      BY <1>1, <1>4, <2>2 DEF Sound, InOrder, Stale
    <2> QED
      BY <2>3, <2>4 DEF Sound
  <1> QED
    BY <1>5, <1>6

LEMMA SoundHeaderOfCut ==
  ASSUME TypeOK, NEW s \in Sessions, Sound(s), handle_read_header_of_cut(s)
  PROVE  Sound(s)'
  <1> DEFINE f == cut[s].msg
             h == Received(data_[s], f, HeaderLen)
  <1>1. f \in Message /\ pos[s] = Len(sent[s]) /\ ~open[s] /\ cut[s].got # 0
    BY DEF handle_read_header_of_cut, StreamEnded, HeaderLen, Sound, Boundary
  <1>2. h.len = f.len /\ f.len \in UInt16
    BY <1>1, ReceivedHeader, UInt16MaxFact DEF TypeOK, Message, UInt16, HeaderLen
  <1>3. BodyLength(h.len) # 0
    <2>1. cut[s].got >= HeaderLen /\ cut[s].got < f.len /\ cut[s].got \in Nat
      BY <1>1 DEF handle_read_header_of_cut, Sound, Boundary, TypeOK
    <2>2. f.len # HeaderLen
      BY <2>1, <1>2 DEF HeaderLen
    <2> QED
      BY <1>2, <2>2, BodyLengthZero
  <1>4. /\ data_'[s] = h /\ sent'[s] = sent[s] /\ open'[s] = open[s]
        /\ cut'[s] = cut[s] /\ failed'[s] = failed[s] /\ phase'[s] = "body"
        /\ pos'[s] = pos[s] /\ dispatched'[s] = dispatched[s]
    BY <1>3 DEF handle_read_header_of_cut, ParseHeader, TypeOK
  <1> HIDE DEF h
  <1>5. ~failed[s]
    BY <1>1 DEF Sound, Stale
  <1> QED
    BY <1>1, <1>4, <1>5 DEF Sound, Boundary, InOrder, Stale, TypeOK

LEMMA SoundHeaderError ==
  ASSUME TypeOK, NEW s \in Sessions, Sound(s), handle_read_header_error(s)
  PROVE  Sound(s)'
  <1> DEFINE f == cut[s].msg
             h == Received(data_[s], f, cut[s].got)
  <1>1. /\ f \in Message /\ pos[s] = Len(sent[s]) /\ ~open[s]
        /\ pos[s] \in Nat /\ dispatched[s] \in Seq(ofp_header)
    BY DEF handle_read_header_error, StreamEnded, Sound, Boundary, TypeOK
  <1>2. h \in ofp_header
    BY ReceivedType DEF TypeOK
  <1>3. failed[s] => h = data_[s] /\ data_[s].len = HeaderLen
    BY <1>1, ReceivedNothing DEF handle_read_header_error, ParseHeader, Sound, Stale, TypeOK
  <1>4. /\ data_'[s] = h /\ sent'[s] = sent[s] /\ open'[s] = open[s]
        /\ cut'[s].msg = f /\ cut'[s].got = 0 /\ failed'[s] = TRUE
        /\ phase[s] = "header" /\ pos'[s] = pos[s]
    BY DEF handle_read_header_error, ParseHeader, TypeOK
  <1>5. \/ BodyLength(h.len) = 0 /\ phase'[s] = "header"
           /\ dispatched'[s] = Append(dispatched[s], h)
        \/ BodyLength(h.len) # 0 /\ phase'[s] = "body" /\ dispatched'[s] = dispatched[s]
    BY <1>4 DEF handle_read_header_error, ParseHeader, read, Dispatch, TypeOK
  <1>6. BodyLength(h.len) = 0 <=> h.len = HeaderLen
    BY <1>2, BodyLengthZero DEF ofp_header
  <1>7. 0 < f.len
    BY <1>1, UInt16MaxFact DEF Message, HeaderLen
  <1> HIDE DEF h, f
  <1>8. CASE BodyLength(h.len) = 0
    <2>1. phase'[s] = "header" /\ dispatched'[s] = Append(dispatched[s], h)
      BY <1>5, <1>8
    <2>2. /\ Len(dispatched'[s]) = Len(dispatched[s]) + 1
          /\ dispatched'[s][Len(dispatched[s]) + 1] = h
          /\ \A i \in 1 .. Len(dispatched[s]) : dispatched'[s][i] = dispatched[s][i]
          /\ Len(dispatched[s]) \in Nat
      BY <1>1, <1>2, <2>1
    <2>3. Boundary(s)'
      BY <1>1, <1>4, <1>7, <2>1 DEF Sound, Boundary
    <2>4. InOrder(s)'
      <3>1. /\ pos[s] <= Len(dispatched[s])
            /\ \A i \in 1 .. pos[s] : dispatched[s][i] = sent[s][i]
        BY DEF Sound, InOrder
      <3>2. pos'[s] <= Len(dispatched'[s]) /\ failed'[s]
        BY <1>1, <1>4, <2>2, <3>1
      <3>3. \A i \in 1 .. pos[s] : i \in 1 .. Len(dispatched[s])
        BY <1>1, <2>2, <3>1
      <3>4. \A i \in 1 .. pos'[s] : dispatched'[s][i] = sent'[s][i]
        BY <1>4, <2>2, <3>1, <3>3
      <3> QED
        BY <3>2, <3>4 DEF InOrder
    <2>5. \A i \in pos[s] + 1 .. Len(dispatched[s]) : dispatched[s][i] = h
      BY <1>1, <1>3, <2>2 DEF Sound, InOrder, Stale
    <2>6. \A i \in pos'[s] + 1 .. Len(dispatched'[s]) : dispatched'[s][i] = data_'[s]
      BY <1>1, <1>4, <2>2, <2>5
    <2>7. Stale(s)'
      BY <1>1, <1>4, <1>6, <1>8, <2>1, <2>6 DEF Stale
    <2> QED
      BY <2>3, <2>4, <2>7 DEF Sound
  <1>9. CASE BodyLength(h.len) # 0
    <2>1. ~failed[s] /\ phase'[s] = "body" /\ dispatched'[s] = dispatched[s]
      BY <1>3, <1>5, <1>6, <1>9
    <2>2. Boundary(s)'
      BY <1>1, <1>4, <1>7, <2>1 DEF Sound, Boundary
    <2>3. InOrder(s)' /\ Stale(s)'
      BY <1>1, <1>4, <2>1 DEF Sound, InOrder, Stale
    <2> QED
      BY <2>2, <2>3 DEF Sound
  <1> QED
    BY <1>8, <1>9

LEMMA SoundBody ==
  ASSUME TypeOK, NEW s \in Sessions, Sound(s), handle_read(s)
  PROVE  Sound(s)'
  <1> DEFINE f == sent[s][pos[s] + 1]
             m == [data_[s] EXCEPT !.payload = f.payload]
  <1>1. /\ f \in Message /\ pos[s] < Len(sent[s]) /\ pos[s] \in Nat /\ ~failed[s]
        /\ dispatched[s] \in Seq(ofp_header) /\ Len(dispatched[s]) = pos[s]
    BY DEF handle_read, TypeOK, Sound, Stale, InOrder
  <1>2. data_[s].type = f.type /\ data_[s].len = f.len
    BY DEF handle_read, Sound, Boundary
  <1>3. m = f
    BY <1>1, <1>2 DEF Message, TypeOK, ofp_header
  <1>4. /\ dispatched'[s] = Append(dispatched[s], m)
        /\ sent'[s] = sent[s] /\ open'[s] = open[s]
        /\ cut'[s] = cut[s] /\ failed'[s] = failed[s] /\ phase'[s] = "header"
        /\ pos'[s] = pos[s] + 1
    BY DEF handle_read, read, Dispatch, TypeOK
  <1> HIDE DEF m
  <1>5. Boundary(s)' /\ Stale(s)'
    BY <1>1, <1>4 DEF Sound, Boundary, Stale, TypeOK
  <1>6. dispatched'[s] = Append(dispatched[s], f)
    BY <1>3, <1>4
  <1>7. InOrder(s)'
    BY <1>1, <1>4, <1>6 DEF Sound, InOrder
  <1> QED
    BY <1>5, <1>7 DEF Sound

LEMMA SoundBodyError ==
  ASSUME TypeOK, NEW s \in Sessions, Sound(s), handle_read_error(s)
  PROVE  Sound(s)'
  <1>1. /\ phase[s] = "body" /\ pos[s] = Len(sent[s])
        /\ sent'[s] = sent[s] /\ open'[s] = open[s] /\ pos'[s] = pos[s]
        /\ cut'[s] = cut[s] /\ failed'[s] = failed[s] /\ phase'[s] = "stopped"
        /\ dispatched'[s] = dispatched[s]
    BY DEF handle_read_error, StreamEnded, TypeOK
  <1>2. Boundary(s)' /\ InOrder(s)'
    BY <1>1 DEF Sound, Boundary, InOrder
  <1>3. Stale(s)'
    BY <1>1 DEF Sound, Stale, TypeOK
  <1> QED
    BY <1>2, <1>3 DEF Sound

AllSound == \A s \in Sessions : Sound(s)

LEMMA SoundInit == Init => AllSound
  BY DEF Init, AllSound, Sound, Boundary, InOrder, Stale

LEMMA SoundStep == TypeOK /\ AllSound /\ [Next]_rvars => AllSound'
  <1> SUFFICES ASSUME TypeOK, AllSound, [Next]_rvars, NEW s \in Sessions, Sound(s)
               PROVE  Sound(s)'
    BY DEF AllSound
  <1>1. CASE Peer(s)
    BY <1>1, ReadAssumption, SoundPeerSends, SoundPeerCloses DEF Peer
  <1>2. CASE start(s)
    BY <1>2, SoundStart
  <1>3. CASE Handler(s)
    BY <1>3, SoundHeader, SoundHeaderOfCut, SoundHeaderError, SoundBody, SoundBodyError
       DEF Handler
  <1>4. ASSUME NEW t \in Sessions, t # s, Peer(t) \/ start(t) \/ Handler(t)
        PROVE  Sound(s)'
    BY <1>4, StepsOfOthers, SoundSame
  <1>5. CASE UNCHANGED rvars
    BY <1>5, SoundSame DEF rvars, Same
  <1> QED
    BY <1>1, <1>2, <1>3, <1>4, <1>5 DEF Next

LEMMA SoundInvariant == Spec => []AllSound
  BY SoundInit, SoundStep, TypeCorrect, PTL DEF Spec

\* Until a header read fails, the dispatcher is given exactly the messages
\* read, whole and in order, whatever their lengths and number.
THEOREM DispatchedInOrder == Spec => []InOrderExactlyOnce
  <1>1. AllSound => InOrderExactlyOnce
    BY DEF AllSound, Sound, InOrder, InOrderExactlyOnce
  <1> QED
    BY <1>1, SoundInvariant, PTL

LEMMA StaleFollows == TypeOK /\ AllSound => OnlyStaleHeadersAfterEnd
  <1> SUFFICES ASSUME TypeOK, NEW s \in Sessions, Sound(s), failed[s]
               PROVE  /\ Len(sent[s]) <= Len(dispatched[s])
                      /\ \A i \in 1 .. Len(sent[s]) : dispatched[s][i] = sent[s][i]
                      /\ \A i \in Len(sent[s]) + 1 .. Len(dispatched[s]) :
                           /\ dispatched[s][i].len = HeaderLen
                           /\ dispatched[s][i] = data_[s]
    BY DEF AllSound, OnlyStaleHeadersAfterEnd
  <1>1. /\ Len(sent[s]) <= Len(dispatched[s])
        /\ \A i \in 1 .. Len(sent[s]) : dispatched[s][i] = sent[s][i]
        /\ \A i \in Len(sent[s]) + 1 .. Len(dispatched[s]) : dispatched[s][i] = data_[s]
    BY DEF Sound, InOrder, Stale
  <1>2. Len(dispatched[s]) # Len(sent[s]) => data_[s].len = HeaderLen
    BY DEF Sound, Stale
  <1>3. Len(sent[s]) \in Nat /\ Len(dispatched[s]) \in Nat
    BY DEF TypeOK
  <1> QED
    BY <1>1, <1>2, <1>3

\* What handle_read_header makes up from a stale buffer comes after all that
\* the peer sent, has no body, and is one message over and over.
THEOREM StaleAtTheEnd == Spec => []OnlyStaleHeadersAfterEnd
  BY StaleFollows, SoundInvariant, TypeCorrect, PTL

-----------------------------------------------------------------------------
(* For a module that says what becomes of the messages dispatched. *)

\* A handler dispatches one message or none.
LEMMA OneDispatched ==
  ASSUME TypeOK, NEW s \in Sessions, Handler(s)
  PROVE  \/ UNCHANGED dispatched
         \/ \E m \in ofp_header : Dispatch(s, m)
  <1>1. ASSUME NEW f \in ofp_header, NEW k \in Nat, ParseHeader(s, f, k)
        PROVE  UNCHANGED dispatched \/ \E m \in ofp_header : Dispatch(s, m)
    BY <1>1, ReceivedType DEF ParseHeader, TypeOK
  <1>2. cut[s].msg \in ofp_header /\ cut[s].got \in Nat /\ HeaderLen \in Nat
    BY DEF TypeOK, HeaderLen
  <1>3. ASSUME pos[s] < Len(sent[s])
        PROVE  sent[s][pos[s] + 1] \in Message /\ sent[s][pos[s] + 1] \in ofp_header
    BY <1>3, MessageIsHeader DEF TypeOK
  <1>4. CASE handle_read_header(s)
    BY <1>1, <1>2, <1>3, <1>4 DEF handle_read_header
  <1>5. CASE handle_read_header_of_cut(s)
    BY <1>1, <1>2, <1>5 DEF handle_read_header_of_cut
  <1>6. CASE handle_read_header_error(s)
    BY <1>1, <1>2, <1>6 DEF handle_read_header_error
  <1>7. CASE handle_read(s)
    <2> DEFINE m == [data_[s] EXCEPT !.payload = sent[s][pos[s] + 1].payload]
    <2>1. data_[s] \in ofp_header /\ sent[s][pos[s] + 1].payload \in Payloads
      BY <1>3, <1>7 DEF handle_read, TypeOK, Message
    <2>2. m \in ofp_header
      BY <2>1 DEF ofp_header
    <2>3. Dispatch(s, m)
      BY <1>7 DEF handle_read
    <2> QED
      BY <2>2, <2>3
  <1>8. CASE handle_read_error(s)
    BY <1>8 DEF handle_read_error
  <1> QED
    BY <1>4, <1>5, <1>6, <1>7, <1>8 DEF Handler

\* A peer sends only what it may send.
SentFrom == \A s \in Sessions : \A i \in DOMAIN sent[s] : sent[s][i] \in FramesFrom[s]

LEMMA SentFromInit == Init => SentFrom
  BY DEF Init, SentFrom

LEMMA SentFromStep == TypeOK /\ SentFrom /\ [Next]_rvars => SentFrom'
  <1> SUFFICES ASSUME TypeOK, SentFrom, [Next]_rvars PROVE SentFrom'
    OBVIOUS
  <1>1. ASSUME NEW s \in Sessions, NEW f \in FramesFrom[s], PeerSends(s, f)
        PROVE  SentFrom'
    <2>1. sent[s] \in Seq(Message) /\ f \in Message
      BY ReadAssumption DEF TypeOK
    <2>2. /\ DOMAIN Append(sent[s], f) = 1 .. Len(sent[s]) + 1
          /\ \A i \in 1 .. Len(sent[s]) : Append(sent[s], f)[i] = sent[s][i]
          /\ Append(sent[s], f)[Len(sent[s]) + 1] = f
          /\ DOMAIN sent[s] = 1 .. Len(sent[s]) /\ Len(sent[s]) \in Nat
      BY <2>1
    <2>3. sent' = [sent EXCEPT ![s] = Append(sent[s], f)]
      BY <1>1 DEF PeerSends
    <2>4. sent'[s] = Append(sent[s], f) /\ \A r \in Sessions \ {s} : sent'[r] = sent[r]
      BY <2>3 DEF TypeOK
    <2>5. ASSUME NEW i \in DOMAIN sent'[s] PROVE sent'[s][i] \in FramesFrom[s]
      <3>1. CASE i = Len(sent[s]) + 1
        BY <2>2, <2>4, <3>1
      <3>2. CASE i # Len(sent[s]) + 1
        <4>1. i \in DOMAIN sent[s] /\ sent'[s][i] = sent[s][i]
          BY <2>2, <2>4, <3>2
        <4> QED
          BY <4>1 DEF SentFrom
      <3> QED
        BY <3>1, <3>2
    <2>6. \A r \in Sessions \ {s} : \A i \in DOMAIN sent'[r] : sent'[r][i] \in FramesFrom[r]
      BY <2>4 DEF SentFrom
    <2> QED
      BY <2>5, <2>6 DEF SentFrom
  <1>2. CASE UNCHANGED sent
    BY <1>2 DEF SentFrom
  <1>3. ASSUME NEW s \in Sessions, Handler(s) PROVE UNCHANGED sent
    BY <1>3 DEF Handler, handle_read_header, handle_read_header_of_cut,
         handle_read_header_error, ParseHeader, handle_read, handle_read_error
  <1> QED
    BY <1>1, <1>2, <1>3 DEF Next, Peer, PeerCloses, start, rvars

-----------------------------------------------------------------------------
(* For a module that says what starts something: the types dispatched. *)

\* The types that the handlers of s can have seen.
TypesSeen(s) ==
  {m.type : m \in Uninitialised} \cup {sent[s][k].type : k \in DOMAIN sent[s]}
    \cup {type \in {cut[s].msg.type} : failed[s]}

TypeSeen(s) ==
  \/ phase[s] \in {"idle", "header"}
  \/ phase[s] = "body" /\ pos[s] < Len(sent[s])
  => data_[s].type \in TypesSeen(s)

AllTypesSeen == \A s \in Sessions : TypeSeen(s)

LEMMA TypesSeenGrow ==
  ASSUME TypeOK, AllSound, NEW s \in Sessions, Peer(s) \/ start(s) \/ Handler(s)
  PROVE  TypesSeen(s) \subseteq TypesSeen(s)'
  <1>1. /\ sent[s] \in Seq(Message) /\ Len(sent[s]) \in Nat
        /\ sent \in [Sessions -> Seq(Message)] /\ cut \in [Sessions -> [msg : ofp_header, got : Nat]]
        /\ failed \in [Sessions -> BOOLEAN]
        /\ failed[s] => ~open[s]
    BY DEF TypeOK, AllSound, Sound, Stale
  <1>2. CASE Peer(s)
    <2>1. ASSUME NEW f \in FramesFrom[s], PeerSends(s, f)
          PROVE  TypesSeen(s) \subseteq TypesSeen(s)'
      <3>1. sent'[s] = Append(sent[s], f) /\ UNCHANGED <<cut, failed>>
        BY <1>1, <2>1 DEF PeerSends
      <3>2. f \in Message
        BY ReadAssumption
      <3>3. \A k \in DOMAIN sent[s] : k \in DOMAIN sent'[s] /\ sent'[s][k] = sent[s][k]
        BY <1>1, <3>1, <3>2
      <3> QED
        BY <3>1, <3>3 DEF TypesSeen
    <2>2. ASSUME NEW f \in FramesFrom[s], NEW k \in CutPoints, PeerCloses(s, f, k)
          PROVE  TypesSeen(s) \subseteq TypesSeen(s)'
      <3>1. ~failed[s] /\ UNCHANGED <<sent, failed>>
        BY <1>1, <2>2 DEF PeerCloses
      <3> QED
        BY <3>1 DEF TypesSeen
    <2> QED
      BY <1>2, <2>1, <2>2 DEF Peer
  <1>3. CASE start(s) \/ Handler(s)
    <2>1. /\ UNCHANGED sent /\ cut'[s].msg = cut[s].msg
          /\ failed[s] => failed'[s]
      BY <1>1, <1>3 DEF start, Handler, handle_read_header, handle_read_header_of_cut,
         handle_read_header_error, ParseHeader, handle_read, handle_read_error
    <2> QED
      BY <2>1 DEF TypesSeen
  <1> QED
    BY <1>2, <1>3

LEMMA TypesSeenInit == Init => AllTypesSeen
  <1> SUFFICES ASSUME Init, NEW s \in Sessions PROVE data_[s].type \in TypesSeen(s)
    BY DEF AllTypesSeen, TypeSeen
  <1>1. data_[s] \in Uninitialised
    BY DEF Init
  <1> QED
    BY <1>1 DEF TypesSeen

\* Of one session's own step.
LEMMA TypeSeenStep ==
  ASSUME TypeOK, AllSound, NEW s \in Sessions, TypeSeen(s), Peer(s) \/ start(s) \/ Handler(s)
  PROVE  TypeSeen(s)'
  <1>1. TypesSeen(s) \subseteq TypesSeen(s)'
    BY TypesSeenGrow
  <1>2. Sound(s) /\ data_[s] \in ofp_header /\ pos[s] \in Nat /\ Len(sent[s]) \in Nat
        /\ sent[s] \in Seq(Message) /\ cut[s].msg \in ofp_header /\ cut[s].got \in Nat
    BY DEF AllSound, TypeOK
  <1>3. CASE Peer(s)
    <2>1. ASSUME NEW f \in FramesFrom[s], PeerSends(s, f)
          PROVE  TypeSeen(s)'
      <3>1. open[s] /\ UNCHANGED <<phase, pos, data_>> /\ Len(sent'[s]) = Len(sent[s]) + 1
        <4>1. f \in Message
          BY ReadAssumption
        <4> QED
          BY <1>2, <2>1, <4>1 DEF PeerSends, TypeOK
      <3>2. phase[s] = "body" => pos[s] < Len(sent[s])
        BY <1>2, <3>1 DEF Sound, Boundary
      <3> QED
        BY <1>1, <3>1, <3>2 DEF TypeSeen
    <2>2. ASSUME NEW f \in FramesFrom[s], NEW k \in CutPoints, PeerCloses(s, f, k)
          PROVE  TypeSeen(s)'
      BY <1>1, <2>2 DEF PeerCloses, TypeSeen
    <2> QED
      BY <1>3, <2>1, <2>2 DEF Peer
  <1>4. CASE start(s)
    BY <1>1, <1>4 DEF start, read, TypeSeen, TypeOK
  <1>5. CASE handle_read_header(s)
    <2> DEFINE f == sent[s][pos[s] + 1]
    <2>1. /\ data_'[s] = Received(data_[s], f, HeaderLen) /\ f \in Message /\ sent' = sent
          /\ pos[s] + 1 \in DOMAIN sent[s]
      BY <1>2, <1>5 DEF handle_read_header, ParseHeader, TypeOK
    <2>2. data_'[s].type = f.type
      BY <1>2, <2>1, ReceivedHeader
    <2> QED
      BY <2>1, <2>2 DEF TypeSeen, TypesSeen
  <1>6. CASE handle_read_header_of_cut(s)
    <2> DEFINE f == cut[s].msg
    <2>1. /\ f \in Message /\ f.len > HeaderLen /\ pos[s] = Len(sent[s])
      <3>1. ~open[s] /\ cut[s].got >= HeaderLen /\ pos[s] = Len(sent[s])
        BY <1>6 DEF handle_read_header_of_cut, StreamEnded
      <3>2. f \in Message /\ cut[s].got < f.len
        BY <1>2, <3>1 DEF Sound, Boundary
      <3>3. f.len \in Nat /\ HeaderLen \in Nat
        BY <3>2, UInt16MaxFact DEF Message, HeaderLen
      <3> QED
        BY <1>2, <3>1, <3>2, <3>3
    <2>2. Received(data_[s], f, HeaderLen).len = f.len
      BY <1>2, <2>1, ReceivedHeader
    <2>3. f.len \in UInt16 /\ f.len # HeaderLen
      BY <2>1, UInt16MaxFact DEF Message, UInt16, HeaderLen
    <2>4. BodyLength(f.len) # 0
      BY <2>3, BodyLengthZero
    <2>5. phase'[s] = "body" /\ UNCHANGED <<pos, sent>>
      BY <1>6, <2>2, <2>4 DEF handle_read_header_of_cut, ParseHeader, TypeOK
    <2> QED
      BY <1>2, <2>1, <2>5 DEF TypeSeen
  <1>7. CASE handle_read_header_error(s)
    <2>1. /\ phase[s] = "header" /\ failed'[s] /\ cut'[s].msg = cut[s].msg
          /\ data_'[s] = Received(data_[s], cut[s].msg, cut[s].got)
      BY <1>7 DEF handle_read_header_error, ParseHeader, TypeOK
    <2>2. data_'[s].type \in {cut[s].msg.type, data_[s].type}
      BY <2>1 DEF Received
    <2>3. data_[s].type \in TypesSeen(s) /\ cut[s].msg.type \in TypesSeen(s)'
      BY <2>1 DEF TypeSeen, TypesSeen
    <2> QED
      BY <1>1, <2>2, <2>3 DEF TypeSeen
  <1>8. CASE handle_read(s)
    <2>1. /\ phase[s] = "body" /\ pos[s] < Len(sent[s])
          /\ data_'[s] = [data_[s] EXCEPT !.payload = sent[s][pos[s] + 1].payload]
      BY <1>8 DEF handle_read, TypeOK
    <2>2. data_'[s].type = data_[s].type
      BY <1>2, <2>1 DEF ofp_header
    <2> QED
      BY <1>1, <2>1, <2>2 DEF TypeSeen
  <1>9. CASE handle_read_error(s)
    BY <1>9 DEF handle_read_error, TypeSeen, TypeOK
  <1> QED
    BY <1>3, <1>4, <1>5, <1>6, <1>7, <1>8, <1>9 DEF Handler

LEMMA TypesSeenStep == TypeOK /\ AllSound /\ AllTypesSeen /\ [Next]_rvars => AllTypesSeen'
  <1> SUFFICES ASSUME TypeOK, AllSound, AllTypesSeen, [Next]_rvars, NEW s \in Sessions
               PROVE  TypeSeen(s)'
    BY DEF AllTypesSeen
  <1>1. CASE Peer(s) \/ start(s) \/ Handler(s)
    BY <1>1, TypeSeenStep DEF AllTypesSeen
  <1>2. CASE Same(s)
    BY <1>2 DEF Same, AllTypesSeen, TypeSeen, TypesSeen
  <1>3. UNCHANGED rvars => Same(s)
    BY DEF rvars, Same
  <1> QED
    BY <1>1, <1>2, <1>3, StepsOfOthers DEF Next

\* What is dispatched is the buffer, and the next header is read behind it.
LEMMA BufferDispatched ==
  ASSUME TypeOK, NEW s \in Sessions, Handler(s)
  PROVE  \/ UNCHANGED dispatched
         \/ /\ phase'[s] = "header"
            /\ dispatched'[s] = Append(dispatched[s], data_'[s])
            /\ dispatched[s] \in Seq(ofp_header)
  BY DEF Handler, handle_read_header, handle_read_header_of_cut, handle_read_header_error,
     ParseHeader, handle_read, handle_read_error, Dispatch, read, TypeOK
=============================================================================
