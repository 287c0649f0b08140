---------------------------- MODULE SessionWrite ----------------------------
(***************************************************************************)
(* The sending half of Session (Session.h, Session.cpp):                   *)
(*   write -> post -> write_in_io_thread -> async_write -> handle_write    *)
(* Any thread may call write(); the handlers run one at a time on the      *)
(* thread in io_service::run().  A session keeps no queue of its own: each *)
(* message gets its own async_write, which hands the socket what is left   *)
(* of the message as often as it takes.                                    *)
(*                                                                         *)
(* io_service and the socket are external.  posted is the queue of ready   *)
(* handlers and sockq[s] the queue of writes that wait for the socket; the *)
(* socket takes all of what it is offered or, when it is short of room,    *)
(* one of the ShortCounts.                                                 *)
(***************************************************************************)
EXTENDS Integers, Sequences

CONSTANTS
  Sessions,     \* the Session objects
  Messages,     \* what write() is called with: records with a field len
  ShortCounts,  \* the byte counts of a partial write
  Breakable,    \* the sessions whose connection may break
  MaxWritten    \* bound: calls of write() on one session

ASSUME WriteAssumption ==
  /\ \A m \in Messages : m.len \in Nat
  /\ ShortCounts \subseteq Nat \ {0}
  /\ Breakable \subseteq Sessions
  /\ MaxWritten \in Nat

VARIABLES
  written,  \* written[s]: the messages write() was called with, in order
  posted,   \* the write handlers that are ready to run, first in first out
  sockq,    \* sockq[s]: the writes that wait for the socket, in order
  stream,   \* stream[s]: the pieces the socket has taken, in order
  up        \* up[s]: the connection takes data

wvars == <<written, posted, sockq, stream, up>>

\* An asynchronous write of message msg of session to, bytes off onwards.
Op == [to : Sessions, msg : Nat \ {0}, off : Nat]
Handler == [run : {"write_in_io_thread", "write_some", "error"}, op : Op]
Piece == [msg : Nat \ {0}, off : Nat, n : Nat \ {0}]

Init ==
  /\ written = [s \in Sessions |-> <<>>]
  /\ posted = <<>>
  /\ sockq = [s \in Sessions |-> <<>>]
  /\ stream = [s \in Sessions |-> <<>>]
  /\ up = [s \in Sessions |-> TRUE]

\* A bug: the handler posted last runs first.
PostFirst(q, name, op) == <<[run |-> name, op |-> op]>> \o q

\* io_service_.post, and the posting of completions.
Post(q, name, op) == Append(q, [run |-> name, op |-> op])

\* Bugs: the difference the wrong way round, the offset forgotten.
LeftSwapped(op) == op.off - written[op.to][op.msg].len
LeftWhole(op) == written[op.to][op.msg].len

\* The bytes of the message still to be sent.
Left(op) == written[op.to][op.msg].len - op.off

-----------------------------------------------------------------------------
(* Session. *)

write(s, m) ==
  /\ written' = [written EXCEPT ![s] = Append(@, m)]
  /\ posted' = Post(posted, "write_in_io_thread",
                    [to |-> s, msg |-> Len(written[s]) + 1, off |-> 0])
  /\ UNCHANGED <<sockq, stream, up>>

\* The socket is asked to take the rest of the message.
async_write_some(op) ==
  /\ posted' = Tail(posted)
  /\ sockq' = [sockq EXCEPT ![op.to] = Append(@, op)]
  /\ UNCHANGED <<written, stream, up>>

\* async_write of an empty message completes without the socket.
write_in_io_thread ==
  /\ posted # <<>>
  /\ Head(posted).run = "write_in_io_thread"
  /\ LET op == Head(posted).op
     IN  \/ Left(op) # 0 /\ async_write_some(op)
         \/ /\ Left(op) = 0
            /\ posted' = Post(Tail(posted), "write_some", op)
            /\ UNCHANGED <<written, sockq, stream, up>>

\* A bug: one async_write_some per message instead of async_write.
write_some_once ==
  /\ posted # <<>>
  /\ Head(posted).run = "write_some"
  /\ Left(Head(posted).op) # 0
  /\ posted' = Tail(posted)
  /\ UNCHANGED <<written, sockq, stream, up>>

\* Inside async_write: some bytes went out, others are left.
write_some ==
  /\ posted # <<>>
  /\ Head(posted).run = "write_some"
  /\ Left(Head(posted).op) # 0
  /\ async_write_some(Head(posted).op)

\* Everything was sent, or the socket failed: a log line either way.
handle_write ==
  /\ posted # <<>>
  /\ \/ Head(posted).run = "write_some" /\ Left(Head(posted).op) = 0
     \/ Head(posted).run = "error"
  /\ posted' = Tail(posted)
  /\ UNCHANGED <<written, sockq, stream, up>>

IoThread == write_in_io_thread \/ write_some \/ handle_write

-----------------------------------------------------------------------------
(* The socket. *)

SocketSend(s) ==
  /\ up[s]
  /\ sockq[s] # <<>>
  /\ LET op == Head(sockq[s])
     IN  \E n \in {Left(op)} \cup {k \in ShortCounts : k < Left(op)} :
           /\ stream' = [stream EXCEPT ![s] =
                           Append(@, [msg |-> op.msg, off |-> op.off, n |-> n])]
           /\ posted' = Post(posted, "write_some", [op EXCEPT !.off = @ + n])
  /\ sockq' = [sockq EXCEPT ![s] = Tail(@)]
  /\ UNCHANGED <<written, up>>

SocketFail(s) ==
  /\ ~up[s]
  /\ sockq[s] # <<>>
  /\ posted' = Post(posted, "error", Head(sockq[s]))
  /\ sockq' = [sockq EXCEPT ![s] = Tail(@)]
  /\ UNCHANGED <<written, stream, up>>

\* The peer is gone: its host answers what is sent with a reset.
Break(s) ==
  /\ up[s]
  /\ up' = [up EXCEPT ![s] = FALSE]
  /\ UNCHANGED <<written, posted, sockq, stream>>

Socket(s) == SocketSend(s) \/ SocketFail(s)

-----------------------------------------------------------------------------
Next ==
  \/ \E s \in Sessions, m \in Messages :
       Len(written[s]) < MaxWritten /\ write(s, m)
  \/ IoThread
  \/ \E s \in Sessions : Socket(s)
  \/ \E s \in Breakable : Break(s)

\* run() runs every ready handler; a connected peer keeps reading.
Fairness == WF_wvars(IoThread) /\ \A s \in Sessions : WF_wvars(Socket(s))

Spec == Init /\ [][Next]_wvars /\ Fairness

-----------------------------------------------------------------------------
TypeOK ==
  /\ written \in [Sessions -> Seq(Messages)]
  /\ posted \in Seq(Handler)
  /\ sockq \in [Sessions -> Seq(Op)]
  /\ stream \in [Sessions -> Seq(Piece)]
  /\ up \in [Sessions -> BOOLEAN]

\* Of every message the peer gets each byte at most once and in order, however
\* the socket cuts it: a piece starts where an earlier one of the message
\* ended, no two start at the same byte, and none goes beyond the end.
PiecesInOrder ==
  \A s \in Sessions : \A k \in DOMAIN stream[s] :
    LET piece == stream[s][k]
        Before == {j \in 1 .. k - 1 : stream[s][j].msg = piece.msg}
    IN  /\ \A j \in Before : stream[s][j].off # piece.off
        /\ piece.off # 0 =>
             \E j \in Before : stream[s][j].off + stream[s][j].n = piece.off
        /\ piece.off + piece.n <= written[s][piece.msg].len

\* Messages start on the wire in the order write() was called in, none left
\* out, whichever threads called it and whatever writes were cut or failed.
HeadsInWriteOrder ==
  \A s \in Sessions : \A k \in DOMAIN stream[s] :
    \A i \in 1 .. stream[s][k].msg - 1 :
      written[s][i].len # 0 =>
        \E j \in 1 .. k - 1 : stream[s][j].msg = i /\ stream[s][j].off = 0

\* The peer of s has been sent message i to its last byte.
Sent(s, i) ==
  \E k \in DOMAIN stream[s] :
    /\ stream[s][k].msg = i
    /\ stream[s][k].off + stream[s][k].n = written[s][i].len

\* A message write() was called with goes out completely, unless it is empty
\* or the connection breaks first.
WritesComplete ==
  \A s \in Sessions : \A i \in 1 .. MaxWritten :
    i \in DOMAIN written[s] ~>
      \/ ~up[s]
      \/ i \in DOMAIN written[s] /\ (written[s][i].len = 0 \/ Sent(s, i))

\* A message is contiguous in the byte stream, its header first and the length
\* in that header true of the bytes that follow (openflow.h, ofp_header).
FramesContiguous ==
  \A s \in Sessions : \A k \in DOMAIN stream[s] :
    stream[s][k].off # 0 => k > 1 /\ stream[s][k - 1].msg = stream[s][k].msg
=============================================================================
