---------------------------- MODULE SessionRead -----------------------------
(***************************************************************************)
(* The receiving half of Session (Session.h, Session.cpp): the loop        *)
(*   read -> handle_read_header -> (handle_read ->) dispatcher -> read     *)
(* that cuts a TCP byte stream into OpenFlow messages through the one      *)
(* buffer data_ and hands each message to the session's dispatcher.        *)
(*                                                                         *)
(* The peer and its TCP connection are the environment.  The stream is     *)
(* kept whole: sent[s] holds every message the peer completed and pos[s]   *)
(* counts those the session has taken; a peer that closes may leave the    *)
(* first bytes of one more message behind (cut[s]).                        *)
(***************************************************************************)
EXTENDS OpenFlow, Sequences

CONSTANTS
  Sessions,       \* the Session objects
  FramesFrom,     \* FramesFrom[s]: the messages the peer of s may send
  Closing,        \* the sessions whose peer may close the connection
  CutPoints,      \* how many bytes of a last message a closing peer may send
  Uninitialised,  \* what data_ may hold before the first byte is read
  MaxSent,        \* bound: messages the peer of each session sends
  MaxDispatched   \* bound: messages dispatched after the stream has ended

ASSUME ReadAssumption ==
  /\ FramesFrom \in [Sessions -> SUBSET Message]
  /\ Closing \subseteq Sessions
  /\ CutPoints \subseteq Nat
  /\ Uninitialised \subseteq ofp_header
  /\ MaxSent \in [Sessions -> Nat]
  /\ MaxDispatched \in Nat

VARIABLES
  sent,        \* sent[s]: the complete messages the peer of s wrote, in order
  pos,         \* pos[s]: how many of them the session has read completely
  open,        \* open[s]: the peer has not closed
  cut,         \* cut[s]: the incomplete last message, got bytes of msg
  phase,       \* phase[s]: which async_read is outstanding, if any
  data_,       \* data_[s]: header and content in the receive buffer
  dispatched,  \* dispatched[s]: every message given to the dispatcher of s
  failed       \* failed[s]: a header read of s has completed with an error

rvars == <<sent, pos, open, cut, phase, data_, dispatched, failed>>

Phase == {"idle", "header", "body", "stopped"}

\* data_ is a member array that no constructor sets.
Init ==
  /\ sent = [s \in Sessions |-> <<>>]
  /\ pos = [s \in Sessions |-> 0]
  /\ open = [s \in Sessions |-> TRUE]
  /\ data_ \in [Sessions -> Uninitialised]
  /\ cut = [s \in Sessions |-> [msg |-> data_[s], got |-> 0]]
  /\ phase = [s \in Sessions |-> "idle"]
  /\ dispatched = [s \in Sessions |-> <<>>]
  /\ failed = [s \in Sessions |-> FALSE]

-----------------------------------------------------------------------------
(* The peer. *)

PeerSends(s, f) ==
  /\ open[s]
  /\ Len(sent[s]) < MaxSent[s]
  /\ sent' = [sent EXCEPT ![s] = Append(@, f)]
  /\ UNCHANGED <<pos, open, cut, phase, data_, dispatched, failed>>

PeerCloses(s, f, k) ==
  /\ open[s]
  /\ k < f.len
  /\ open' = [open EXCEPT ![s] = FALSE]
  /\ cut' = [cut EXCEPT ![s] = [msg |-> f, got |-> k]]
  /\ UNCHANGED <<sent, pos, phase, data_, dispatched, failed>>

-----------------------------------------------------------------------------
(* The session. *)

\* A bug: the next read is not started.
read_forgotten(s) == phase' = [phase EXCEPT ![s] = "stopped"]

\* read(): an async_read of one header is outstanding.
read(s) == phase' = [phase EXCEPT ![s] = "header"]

start(s) ==
  /\ phase[s] = "idle"
  /\ read(s)
  /\ UNCHANGED <<sent, pos, open, cut, data_, dispatched, failed>>

\* A bug: the high byte is not cut off.
SpliceUncut(a, b) == Byte * a + (b % Byte)

\* The high byte of length a in front of the low byte of length b.
Splice(a, b) == Byte * (a \div Byte) + (b % Byte)

\* data_ after the first k bytes of f came in over what it held: the version
\* is byte 0, the type byte 1, the length bytes 2 and 3, the xid bytes 4 to 7.
Received(old, f, k) ==
  [type    |-> IF k >= 2 THEN f.type ELSE old.type,
   len     |-> CASE k >= 4 -> f.len
                 [] k = 3  -> Splice(f.len, old.len)
                 [] OTHER  -> old.len,
   payload |-> IF k >= f.len THEN f.payload ELSE IF k > 4 THEN Torn ELSE old.payload]

Dispatch(s, m) == dispatched' = [dispatched EXCEPT ![s] = Append(@, m)]

\* What handle_read_header does once k bytes of the header of f are in data_.
\* It never looks at its error argument.
ParseHeader(s, f, k) ==
  LET header == Received(data_[s], f, k)
  IN  /\ phase[s] = "header"
      /\ data_' = [data_ EXCEPT ![s] = header]
      /\ \/ /\ BodyLength(header.len) = 0
            /\ Dispatch(s, header)
            /\ read(s)
         \/ /\ BodyLength(header.len) # 0
            /\ phase' = [phase EXCEPT ![s] = "body"]
            /\ UNCHANGED dispatched
      /\ UNCHANGED <<sent, open>>

StreamEnded(s) == pos[s] = Len(sent[s]) /\ ~open[s]

\* The header of a complete message arrives.
handle_read_header(s) ==
  /\ pos[s] < Len(sent[s])
  /\ LET f == sent[s][pos[s] + 1]
     IN  /\ ParseHeader(s, f, HeaderLen)
         /\ pos' = [pos EXCEPT ![s] = @ + (IF f.len = HeaderLen THEN 1 ELSE 0)]
  /\ UNCHANGED <<cut, failed>>

\* The header of the message the peer left incomplete arrives.
handle_read_header_of_cut(s) ==
  /\ StreamEnded(s)
  /\ cut[s].got >= HeaderLen
  /\ ParseHeader(s, cut[s].msg, HeaderLen)
  /\ UNCHANGED <<pos, cut, failed>>

\* End of file before a whole header: the handler runs with an error and with
\* what is left of older messages behind the cut[s].got bytes that did arrive.
handle_read_header_error(s) ==
  /\ StreamEnded(s)
  /\ cut[s].got < HeaderLen
  /\ Len(dispatched[s]) < MaxDispatched
  /\ ParseHeader(s, cut[s].msg, cut[s].got)
  /\ cut' = [cut EXCEPT ![s].got = 0]
  /\ failed' = [failed EXCEPT ![s] = TRUE]
  /\ UNCHANGED pos

\* The body is complete: dispatch the message, then read() again.
handle_read(s) ==
  /\ phase[s] = "body"
  /\ pos[s] < Len(sent[s])
  /\ LET message == [data_[s] EXCEPT !.payload = sent[s][pos[s] + 1].payload]
     IN  /\ data_' = [data_ EXCEPT ![s] = message]
         /\ Dispatch(s, message)
  /\ pos' = [pos EXCEPT ![s] = @ + 1]
  /\ read(s)
  /\ UNCHANGED <<sent, open, cut, failed>>

\* A bug: handle_read ignores its error as handle_read_header does.
handle_read_error_ignored(s) ==
  /\ phase[s] = "body"
  /\ StreamEnded(s)
  /\ Len(dispatched[s]) < MaxDispatched
  /\ data_' = [data_ EXCEPT ![s].payload = Torn]
  /\ Dispatch(s, data_'[s])
  /\ read(s)
  /\ UNCHANGED <<sent, pos, open, cut, failed>>

\* End of file inside the body: a log line, and no further read.
handle_read_error(s) ==
  /\ phase[s] = "body"
  /\ StreamEnded(s)
  /\ data_' = [data_ EXCEPT ![s].payload = Torn]
  /\ phase' = [phase EXCEPT ![s] = "stopped"]
  /\ UNCHANGED <<sent, pos, open, cut, dispatched, failed>>

-----------------------------------------------------------------------------
Peer(s) ==
  \/ \E f \in FramesFrom[s] : PeerSends(s, f)
  \/ s \in Closing /\ \E f \in FramesFrom[s], k \in CutPoints : PeerCloses(s, f, k)

Handler(s) ==
  \/ handle_read_header(s)
  \/ handle_read_header_of_cut(s)
  \/ handle_read_header_error(s)
  \/ handle_read(s)
  \/ handle_read_error(s)

Next == \E s \in Sessions : Peer(s) \/ start(s) \/ Handler(s)

\* main starts every session, and io_service::run() runs every handler whose
\* operation has completed; nothing obliges a peer to send or to close.
Fairness == \A s \in Sessions : WF_rvars(start(s)) /\ WF_rvars(Handler(s))

Spec == Init /\ [][Next]_rvars /\ Fairness

-----------------------------------------------------------------------------
TypeOK ==
  /\ sent \in [Sessions -> Seq(Message)]
  /\ pos \in [Sessions -> Nat]
  /\ open \in [Sessions -> BOOLEAN]
  /\ cut \in [Sessions -> [msg : ofp_header, got : Nat]]
  /\ phase \in [Sessions -> Phase]
  /\ data_ \in [Sessions -> ofp_header]
  /\ dispatched \in [Sessions -> Seq(ofp_header)]
  /\ failed \in [Sessions -> BOOLEAN]

\* As long as no header read has failed, the dispatcher has been given exactly
\* the messages read so far, whole and in the order the peer sent them: data_
\* is refilled only after the message in it was handed on.
InOrderExactlyOnce ==
  \A s \in Sessions :
    ~failed[s] => /\ Len(dispatched[s]) = pos[s]
                  /\ \A i \in 1 .. pos[s] : dispatched[s][i] = sent[s][i]

\* What the dispatcher is given after the stream has ended (the error argument
\* of handle_read_header is ignored) comes after every message the peer
\* completed, never has a body, and is the same message each time.
OnlyStaleHeadersAfterEnd ==
  \A s \in Sessions :
    failed[s] =>
      /\ Len(sent[s]) <= Len(dispatched[s])
      /\ \A i \in 1 .. Len(sent[s]) : dispatched[s][i] = sent[s][i]
      /\ \A i \in Len(sent[s]) + 1 .. Len(dispatched[s]) :
           dispatched[s][i].len = HeaderLen /\ dispatched[s][i] = data_[s]

\* The first n elements of q, or all of them.
Prefix(q, n) == [i \in (1 .. n) \cap DOMAIN q |-> q[i]]

\* Every message the peer completes reaches the dispatcher, in its place, also
\* when the peer closes right after it: bytes that were received are read
\* before the end of the stream is.
EveryMessageDispatched ==
  \A s \in Sessions : \A n \in 1 .. MaxSent[s] :
    n \in DOMAIN sent[s] ~> Prefix(dispatched[s], n) = Prefix(sent[s], n)

EndsWithBody(s) ==
  \E i \in DOMAIN sent[s] : i = Len(sent[s]) /\ sent[s][i].len > HeaderLen

\* A stream that ends inside a body, or before the length field of a header
\* when the last message had a body, ends the read loop for good: the stale
\* length then asks for a body, and reading that fails.
EndOfStreamStops ==
  \A s \in Sessions :
    (/\ ~open[s] /\ ~failed[s]
     /\ cut[s].got >= HeaderLen \/ (cut[s].got < 3 /\ EndsWithBody(s)))
      ~> [](phase[s] = "stopped")

\* The dispatcher is called when a message has come in, and only then: no more
\* calls than messages.
DispatchOnlyOnMessage ==
  \A s \in Sessions : Len(dispatched[s]) <= Len(sent[s])
=============================================================================
