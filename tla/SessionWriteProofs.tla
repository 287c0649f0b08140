------------------------- MODULE SessionWriteProofs -------------------------
(***************************************************************************)
(* Proofs, for any sessions, messages, threads that write and cuts of the  *)
(* socket, of the order in which a session's messages go out.              *)
(***************************************************************************)
EXTENDS SessionWrite, SequenceTheorems, TLAPS

-----------------------------------------------------------------------------
(* What the queues hold after one step, entry by entry. *)

LEMMA Appended ==
  ASSUME NEW S, NEW q \in Seq(S), NEW e \in S
  PROVE  /\ Append(q, e) \in Seq(S)
         /\ DOMAIN Append(q, e) = 1 .. Len(q) + 1
         /\ Len(Append(q, e)) = Len(q) + 1
         /\ \A k \in 1 .. Len(q) : Append(q, e)[k] = q[k]
         /\ Append(q, e)[Len(q) + 1] = e
  BY AppendProperties

LEMMA FirstGone ==
  ASSUME NEW S, NEW q \in Seq(S), q # <<>>
  PROVE  /\ Tail(q) \in Seq(S)
         /\ Head(q) = q[1] /\ q[1] \in S
         /\ Len(q) \in Nat \ {0} /\ Len(Tail(q)) = Len(q) - 1
         /\ DOMAIN Tail(q) = 1 .. Len(q) - 1
         /\ \A k \in 1 .. Len(q) - 1 : Tail(q)[k] = q[k + 1]
  BY HeadTailProperties, EmptySeq

\* The handler at the head of posted runs and posts one of its own.
LEMMA Reposted ==
  ASSUME NEW S, NEW q \in Seq(S), q # <<>>, NEW e \in S
  PROVE  /\ Append(Tail(q), e) \in Seq(S)
         /\ DOMAIN Append(Tail(q), e) = 1 .. Len(q)
         /\ Len(Append(Tail(q), e)) = Len(q)
         /\ \A k \in 1 .. Len(q) - 1 : Append(Tail(q), e)[k] = q[k + 1]
         /\ Append(Tail(q), e)[Len(q)] = e
  <1>1. Tail(q) \in Seq(S) /\ Len(Tail(q)) = Len(q) - 1 /\ Len(q) \in Nat \ {0}
        /\ \A k \in 1 .. Len(q) - 1 : Tail(q)[k] = q[k + 1]
    BY FirstGone
  <1> DEFINE t == Tail(q)
  <1>2. /\ Append(t, e) \in Seq(S)
        /\ DOMAIN Append(t, e) = 1 .. Len(t) + 1
        /\ Len(Append(t, e)) = Len(t) + 1
        /\ \A k \in 1 .. Len(t) : Append(t, e)[k] = t[k]
        /\ Append(t, e)[Len(t) + 1] = e
    BY <1>1, Appended
  <1> QED
    BY <1>1, <1>2

-----------------------------------------------------------------------------
(* Types, and where the writes in progress are. *)

\* A write in progress is of a message written, and not beyond its end.
Within(op) ==
  /\ op.msg \in DOMAIN written[op.to]
  /\ op.off <= written[op.to][op.msg].len

HandlerWithin(h) ==
  /\ Within(h.op)
  /\ h.run = "write_in_io_thread" => h.op.off = 0
  /\ h.run = "write_some" /\ h.op.off = 0 => Left(h.op) = 0

WaitsWithin(s, op) == op.to = s /\ Within(op) /\ Left(op) # 0

PostedWithin == \A k \in DOMAIN posted : HandlerWithin(posted[k])

WaitingWithin ==
  \A s \in Sessions : \A k \in DOMAIN sockq[s] : WaitsWithin(s, sockq[s][k])

StreamWithin ==
  \A s \in Sessions : \A k \in DOMAIN stream[s] :
    stream[s][k].msg \in DOMAIN written[s]

Typed == TypeOK /\ PostedWithin /\ WaitingWithin /\ StreamWithin

\* What can happen to the sending halves, however often write() is called.
Steps ==
  \/ \E s \in Sessions, m \in Messages : write(s, m)
  \/ IoThread
  \/ \E s \in Sessions : Socket(s)
  \/ \E s \in Breakable : Break(s)
  \/ UNCHANGED wvars

LEMMA NextSteps == [Next]_wvars => Steps
  BY DEF Next, Steps

LEMMA TypedInit == Init => Typed
  BY DEF Init, Typed, TypeOK, PostedWithin, WaitingWithin, StreamWithin

LEMMA LengthType ==
  ASSUME TypeOK, NEW s \in Sessions, NEW i \in DOMAIN written[s]
  PROVE  written[s][i].len \in Nat /\ i \in Nat \ {0}
  <1>1. written[s] \in Seq(Messages)
    BY DEF TypeOK
  <1>2. written[s][i] \in Messages
    BY <1>1
  <1> QED
    BY <1>1, <1>2, WriteAssumption

\* What is left of a write in progress is a number.
LEMMA LeftType ==
  ASSUME TypeOK, NEW op \in Op, Within(op)
  PROVE  Left(op) \in Nat /\ op.off \in Nat /\ op.msg \in Nat \ {0} /\ op.to \in Sessions
         /\ Left(op) = written[op.to][op.msg].len - op.off
  BY LengthType DEF Op, Within, Left

LEMMA HandlerType ==
  ASSUME NEW op \in Op, NEW run \in {"write_in_io_thread", "write_some", "error"}
  PROVE  [run |-> run, op |-> op] \in Handler
  BY DEF Handler

\* write() changes nothing about the messages written before.
LEMMA WriteEffect ==
  ASSUME TypeOK, NEW s \in Sessions, NEW m \in Messages, write(s, m)
  PROVE  LET op == [to |-> s, msg |-> Len(written[s]) + 1, off |-> 0]
         IN  /\ written' \in [Sessions -> Seq(Messages)]
             /\ \A r \in Sessions : \A i \in DOMAIN written[r] :
                  i \in DOMAIN written'[r] /\ written'[r][i] = written[r][i]
             /\ DOMAIN written'[s] = 1 .. Len(written[s]) + 1
             /\ DOMAIN written[s] = 1 .. Len(written[s])
             /\ Len(written[s]) \in Nat
             /\ \A r \in Sessions \ {s} : written'[r] = written[r]
             /\ op \in Op
             /\ posted' \in Seq(Handler)
             /\ DOMAIN posted' = 1 .. Len(posted) + 1
             /\ \A k \in 1 .. Len(posted) : posted'[k] = posted[k]
             /\ posted'[Len(posted) + 1] = [run |-> "write_in_io_thread", op |-> op]
             /\ UNCHANGED <<sockq, stream, up>>
  <1> DEFINE op == [to |-> s, msg |-> Len(written[s]) + 1, off |-> 0]
             h == [run |-> "write_in_io_thread", op |-> op]
  <1>1. written[s] \in Seq(Messages)
    BY DEF TypeOK
  <1>2. op \in Op
    BY <1>1 DEF Op
  <1> HIDE DEF op
  <1>3. h \in Handler
    BY <1>2, HandlerType
  <1> HIDE DEF h
  <1>4. posted' = Append(posted, h) /\ written' = [written EXCEPT ![s] = Append(written[s], m)]
        /\ UNCHANGED <<sockq, stream, up>>
    BY DEF write, Post, op, h
  <1>5. /\ Append(written[s], m) \in Seq(Messages)
        /\ DOMAIN Append(written[s], m) = 1 .. Len(written[s]) + 1
        /\ \A i \in 1 .. Len(written[s]) : Append(written[s], m)[i] = written[s][i]
    BY <1>1, Appended
  <1> DEFINE w == Append(written[s], m)
  <1> HIDE DEF w
  <1>6. written' \in [Sessions -> Seq(Messages)] /\ written'[s] = w
        /\ \A r \in Sessions \ {s} : written'[r] = written[r]
    BY <1>4, <1>5 DEF TypeOK, w
  <1>7. /\ posted' \in Seq(Handler)
        /\ DOMAIN posted' = 1 .. Len(posted) + 1
        /\ \A k \in 1 .. Len(posted) : posted'[k] = posted[k]
        /\ posted'[Len(posted) + 1] = h
    BY <1>3, <1>4, Appended DEF TypeOK
  <1>8. DOMAIN written[s] = 1 .. Len(written[s]) /\ Len(written[s]) \in Nat
    BY <1>1
  <1>9. \A r \in Sessions : \A i \in DOMAIN written[r] :
          i \in DOMAIN written'[r] /\ written'[r][i] = written[r][i]
    <2>1. \A i \in DOMAIN written[s] :
            i \in DOMAIN written'[s] /\ written'[s][i] = written[s][i]
      BY <1>5, <1>6, <1>8 DEF w
    <2> QED
      BY <1>6, <2>1
  <1> QED
    BY <1>2, <1>4, <1>5, <1>6, <1>7, <1>8, <1>9 DEF h, op, w

\* The handler at the head of posted has the socket take the rest.
LEMMA AsyncEffect ==
  ASSUME TypeOK, posted # <<>>, NEW op, op = Head(posted).op, async_write_some(op)
  PROVE  /\ op = posted[1].op /\ op \in Op /\ op.to \in Sessions
         /\ Len(posted) \in Nat \ {0}
         /\ posted' \in Seq(Handler)
         /\ DOMAIN posted' = 1 .. Len(posted) - 1
         /\ \A k \in 1 .. Len(posted) - 1 : posted'[k] = posted[k + 1]
         /\ sockq' \in [Sessions -> Seq(Op)]
         /\ DOMAIN sockq[op.to] = 1 .. Len(sockq[op.to]) /\ Len(sockq[op.to]) \in Nat
         /\ DOMAIN sockq'[op.to] = 1 .. Len(sockq[op.to]) + 1
         /\ \A k \in 1 .. Len(sockq[op.to]) : sockq'[op.to][k] = sockq[op.to][k]
         /\ sockq'[op.to][Len(sockq[op.to]) + 1] = op
         /\ \A r \in Sessions \ {op.to} : sockq'[r] = sockq[r]
         /\ UNCHANGED <<written, stream, up>>
  <1>1. posted' = Tail(posted) /\ UNCHANGED <<written, stream, up>>
        /\ sockq' = [sockq EXCEPT ![op.to] = Append(sockq[op.to], op)]
    BY DEF async_write_some
  <1>2. /\ Tail(posted) \in Seq(Handler)
        /\ Head(posted) = posted[1] /\ posted[1] \in Handler
        /\ Len(posted) \in Nat \ {0}
        /\ DOMAIN Tail(posted) = 1 .. Len(posted) - 1
        /\ \A k \in 1 .. Len(posted) - 1 : Tail(posted)[k] = posted[k + 1]
    BY FirstGone DEF TypeOK
  <1>3. op = posted[1].op /\ op \in Op /\ op.to \in Sessions
    BY <1>2 DEF Handler, Op
  <1>4. sockq[op.to] \in Seq(Op)
    BY <1>3 DEF TypeOK
  <1> DEFINE q == Append(sockq[op.to], op)
  <1>5. /\ q \in Seq(Op)
        /\ DOMAIN q = 1 .. Len(sockq[op.to]) + 1
        /\ \A k \in 1 .. Len(sockq[op.to]) : q[k] = sockq[op.to][k]
        /\ q[Len(sockq[op.to]) + 1] = op
    BY <1>3, <1>4, Appended
  <1> HIDE DEF q
  <1>6. sockq' \in [Sessions -> Seq(Op)] /\ sockq'[op.to] = q
        /\ \A r \in Sessions \ {op.to} : sockq'[r] = sockq[r]
    BY <1>1, <1>3, <1>5 DEF TypeOK, q
  <1>7. DOMAIN sockq[op.to] = 1 .. Len(sockq[op.to]) /\ Len(sockq[op.to]) \in Nat
    BY <1>4
  <1>8. /\ DOMAIN sockq'[op.to] = 1 .. Len(sockq[op.to]) + 1
        /\ \A k \in 1 .. Len(sockq[op.to]) : sockq'[op.to][k] = sockq[op.to][k]
        /\ sockq'[op.to][Len(sockq[op.to]) + 1] = op
    BY <1>5, <1>6
  <1>9. /\ posted' \in Seq(Handler) /\ DOMAIN posted' = 1 .. Len(posted) - 1
        /\ \A k \in 1 .. Len(posted) - 1 : posted'[k] = posted[k + 1]
    BY <1>1, <1>2
  <1> HIDE DEF q
  <1> QED
    BY <1>1, <1>2, <1>3, <1>6, <1>7, <1>8, <1>9, Zenon

\* async_write of an empty message: its completion is posted.
LEMMA EmptyEffect ==
  ASSUME TypeOK, posted # <<>>, NEW op, op = Head(posted).op,
         posted' = Post(Tail(posted), "write_some", op)
  PROVE  /\ op = posted[1].op /\ op \in Op /\ op.to \in Sessions
         /\ Len(posted) \in Nat \ {0}
         /\ posted' \in Seq(Handler)
         /\ DOMAIN posted' = 1 .. Len(posted)
         /\ \A k \in 1 .. Len(posted) - 1 : posted'[k] = posted[k + 1]
         /\ posted'[Len(posted)] = [run |-> "write_some", op |-> op]
  <1> DEFINE h == [run |-> "write_some", op |-> op]
  <1>1. Head(posted) = posted[1] /\ posted[1] \in Handler /\ Len(posted) \in Nat \ {0}
    BY FirstGone DEF TypeOK
  <1>2. op = posted[1].op /\ op \in Op /\ op.to \in Sessions
    BY <1>1 DEF Handler, Op
  <1>3. h \in Handler
    BY <1>2, HandlerType
  <1> HIDE DEF h
  <1> DEFINE p == Append(Tail(posted), h)
  <1>4. posted' = p
    BY DEF Post, h
  <1>5. /\ p \in Seq(Handler)
        /\ DOMAIN p = 1 .. Len(posted)
        /\ \A k \in 1 .. Len(posted) - 1 : p[k] = posted[k + 1]
        /\ p[Len(posted)] = h
    <2>1. posted \in Seq(Handler)
      BY DEF TypeOK
    <2> QED
      BY <1>3, <2>1, Reposted
  <1> QED
    BY <1>1, <1>2, <1>4, <1>5 DEF h

\* The socket takes n bytes of the write that is first in line.
Takes(s, n) ==
  LET op == sockq[s][1]
      piece == [msg |-> op.msg, off |-> op.off, n |-> n]
      next == [to |-> s, msg |-> op.msg, off |-> op.off + n]
  IN  /\ up[s]
      /\ op \in Op /\ op.to = s /\ Within(op)
      /\ op.off + n <= written[s][op.msg].len
      /\ next \in Op
      /\ stream' \in [Sessions -> Seq(Piece)]
      /\ DOMAIN stream[s] = 1 .. Len(stream[s]) /\ Len(stream[s]) \in Nat
      /\ DOMAIN stream'[s] = 1 .. Len(stream[s]) + 1
      /\ \A k \in 1 .. Len(stream[s]) : stream'[s][k] = stream[s][k]
      /\ stream'[s][Len(stream[s]) + 1] = piece
      /\ \A r \in Sessions \ {s} : stream'[r] = stream[r]
      /\ posted' \in Seq(Handler)
      /\ Len(posted) \in Nat
      /\ DOMAIN posted' = 1 .. Len(posted) + 1
      /\ \A k \in 1 .. Len(posted) : posted'[k] = posted[k]
      /\ posted'[Len(posted) + 1] = [run |-> "write_some", op |-> next]
      /\ sockq' \in [Sessions -> Seq(Op)]
      /\ Len(sockq[s]) \in Nat \ {0} /\ DOMAIN sockq[s] = 1 .. Len(sockq[s])
      /\ DOMAIN sockq'[s] = 1 .. Len(sockq[s]) - 1
      /\ \A k \in 1 .. Len(sockq[s]) - 1 : sockq'[s][k] = sockq[s][k + 1]
      /\ \A r \in Sessions \ {s} : sockq'[r] = sockq[r]
      /\ UNCHANGED <<written, up>>

LEMMA SendEffect ==
  ASSUME Typed, NEW s \in Sessions, SocketSend(s)
  PROVE  \E n \in Nat \ {0} :
           Takes(s, n) /\ (ShortCounts = {} => n = Left(sockq[s][1]))
  <1> DEFINE op == Head(sockq[s])
  <1>1. sockq[s] \in Seq(Op) /\ sockq[s] # <<>>
    BY DEF SocketSend, Typed, TypeOK
  <1>2. /\ Tail(sockq[s]) \in Seq(Op)
        /\ op = sockq[s][1] /\ op \in Op
        /\ Len(sockq[s]) \in Nat \ {0}
        /\ DOMAIN Tail(sockq[s]) = 1 .. Len(sockq[s]) - 1
        /\ \A k \in 1 .. Len(sockq[s]) - 1 : Tail(sockq[s])[k] = sockq[s][k + 1]
    BY <1>1, FirstGone
  <1>3. DOMAIN sockq[s] = 1 .. Len(sockq[s])
    BY <1>1
  <1>4. op.to = s /\ Within(op) /\ Left(op) # 0
    BY <1>2, <1>3 DEF Typed, WaitingWithin, WaitsWithin
  <1>5. /\ Left(op) \in Nat /\ op.off \in Nat /\ op.msg \in Nat \ {0}
        /\ Left(op) = written[s][op.msg].len - op.off
        /\ written[s][op.msg].len \in Nat
    BY <1>2, <1>4, LeftType, LengthType DEF Typed, Within
  <1>6. PICK n \in {Left(op)} \cup {k \in ShortCounts : k < Left(op)} :
          /\ stream' = [stream EXCEPT ![s] =
                          Append(@, [msg |-> op.msg, off |-> op.off, n |-> n])]
          /\ posted' = Post(posted, "write_some", [op EXCEPT !.off = @ + n])
    BY DEF SocketSend
  <1> DEFINE piece == [msg |-> op.msg, off |-> op.off, n |-> n]
             next == [to |-> s, msg |-> op.msg, off |-> op.off + n]
             h == [run |-> "write_some", op |-> next]
  <1>7. n \in Nat \ {0} /\ n <= Left(op) /\ (ShortCounts = {} => n = Left(op))
    BY <1>4, <1>5, <1>6, WriteAssumption
  <1>8. piece \in Piece /\ next \in Op
    BY <1>5, <1>7 DEF Piece, Op
  <1>9. [op EXCEPT !.off = op.off + n] = next
    BY <1>2, <1>4 DEF Op
  <1>10. h \in Handler
    BY <1>8, HandlerType
  <1>11. posted' = Append(posted, h)
    BY <1>6, <1>9 DEF Post
  <1>12. /\ sockq' = [sockq EXCEPT ![s] = Tail(sockq[s])]
         /\ up[s] /\ UNCHANGED <<written, up>>
    BY DEF SocketSend
  <1>13. stream' = [stream EXCEPT ![s] = Append(stream[s], piece)]
    BY <1>6
  <1>14. op.off + n <= written[s][op.msg].len
    BY <1>5, <1>7
  <1> HIDE DEF op, piece, next, h
  <1>15. stream[s] \in Seq(Piece) /\ posted \in Seq(Handler)
    BY DEF Typed, TypeOK
  <1> DEFINE st == Append(stream[s], piece)
  <1>16. /\ st \in Seq(Piece)
         /\ DOMAIN st = 1 .. Len(stream[s]) + 1
         /\ \A k \in 1 .. Len(stream[s]) : st[k] = stream[s][k]
         /\ st[Len(stream[s]) + 1] = piece
    BY <1>8, <1>15, Appended
  <1>17. /\ posted' \in Seq(Handler)
         /\ DOMAIN posted' = 1 .. Len(posted) + 1
         /\ \A k \in 1 .. Len(posted) : posted'[k] = posted[k]
         /\ posted'[Len(posted) + 1] = h
    BY <1>10, <1>11, <1>15, Appended
  <1> HIDE DEF st
  <1>18. /\ stream' \in [Sessions -> Seq(Piece)] /\ stream'[s] = st
         /\ \A r \in Sessions \ {s} : stream'[r] = stream[r]
    BY <1>13, <1>16 DEF st, Typed, TypeOK
  <1> DEFINE sq == Tail(sockq[s])
  <1> HIDE DEF sq
  <1>19. /\ sockq' \in [Sessions -> Seq(Op)] /\ sockq'[s] = sq
         /\ \A r \in Sessions \ {s} : sockq'[r] = sockq[r]
    BY <1>2, <1>12 DEF sq, Typed, TypeOK
  <1>20. DOMAIN stream[s] = 1 .. Len(stream[s]) /\ Len(stream[s]) \in Nat /\ Len(posted) \in Nat
    BY <1>15
  <1>21. DOMAIN sockq'[s] = 1 .. Len(sockq[s]) - 1
         /\ \A k \in 1 .. Len(sockq[s]) - 1 : sockq'[s][k] = sockq[s][k + 1]
    BY <1>2, <1>19 DEF sq
  <1>22. /\ DOMAIN stream'[s] = 1 .. Len(stream[s]) + 1
         /\ \A k \in 1 .. Len(stream[s]) : stream'[s][k] = stream[s][k]
         /\ stream'[s][Len(stream[s]) + 1] = piece
    BY <1>16, <1>18
  <1>23. Takes(s, n)
    BY <1>2, <1>3, <1>4, <1>8, <1>12, <1>14, <1>17, <1>18, <1>19, <1>20, <1>21, <1>22
    DEF piece, next, h, Takes
  <1>24. ShortCounts = {} => n = Left(sockq[s][1])
    BY <1>2, <1>7
  <1> QED
    BY <1>7, <1>23, <1>24

\* The write that is first in line fails: its error is posted.
LEMMA FailEffect ==
  ASSUME Typed, NEW s \in Sessions, SocketFail(s)
  PROVE  LET op == sockq[s][1]
         IN  /\ ~up[s]
             /\ op \in Op /\ op.to = s /\ Within(op)
             /\ posted' \in Seq(Handler)
             /\ Len(posted) \in Nat
             /\ DOMAIN posted' = 1 .. Len(posted) + 1
             /\ \A k \in 1 .. Len(posted) : posted'[k] = posted[k]
             /\ posted'[Len(posted) + 1] = [run |-> "error", op |-> op]
             /\ sockq' \in [Sessions -> Seq(Op)]
             /\ Len(sockq[s]) \in Nat \ {0} /\ DOMAIN sockq[s] = 1 .. Len(sockq[s])
             /\ DOMAIN sockq'[s] = 1 .. Len(sockq[s]) - 1
             /\ \A k \in 1 .. Len(sockq[s]) - 1 : sockq'[s][k] = sockq[s][k + 1]
             /\ \A r \in Sessions \ {s} : sockq'[r] = sockq[r]
             /\ UNCHANGED <<written, stream, up>>
  <1> DEFINE op == Head(sockq[s])
             h == [run |-> "error", op |-> op]
  <1>1. sockq[s] \in Seq(Op) /\ sockq[s] # <<>>
    BY DEF SocketFail, Typed, TypeOK
  <1>2. /\ Tail(sockq[s]) \in Seq(Op)
        /\ op = sockq[s][1] /\ op \in Op
        /\ Len(sockq[s]) \in Nat \ {0}
        /\ DOMAIN Tail(sockq[s]) = 1 .. Len(sockq[s]) - 1
        /\ \A k \in 1 .. Len(sockq[s]) - 1 : Tail(sockq[s])[k] = sockq[s][k + 1]
    BY <1>1, FirstGone
  <1>3. DOMAIN sockq[s] = 1 .. Len(sockq[s])
    BY <1>1
  <1>4. op.to = s /\ Within(op)
    BY <1>2, <1>3 DEF Typed, WaitingWithin, WaitsWithin
  <1>5. h \in Handler
    BY <1>2, HandlerType
  <1>6. /\ posted' = Append(posted, h)
        /\ sockq' = [sockq EXCEPT ![s] = Tail(sockq[s])]
        /\ ~up[s] /\ UNCHANGED <<written, stream, up>>
    BY DEF SocketFail, Post
  <1> HIDE DEF op, h
  <1>7. posted \in Seq(Handler) /\ Len(posted) \in Nat
    BY DEF Typed, TypeOK
  <1>8. /\ posted' \in Seq(Handler)
        /\ DOMAIN posted' = 1 .. Len(posted) + 1
        /\ \A k \in 1 .. Len(posted) : posted'[k] = posted[k]
        /\ posted'[Len(posted) + 1] = h
    BY <1>5, <1>6, <1>7, Appended
  <1> DEFINE sq == Tail(sockq[s])
  <1> HIDE DEF sq
  <1>9. /\ sockq' \in [Sessions -> Seq(Op)] /\ sockq'[s] = sq
        /\ \A r \in Sessions \ {s} : sockq'[r] = sockq[r]
    BY <1>2, <1>6 DEF sq, Typed, TypeOK
  <1>10. DOMAIN sockq'[s] = 1 .. Len(sockq[s]) - 1
         /\ \A k \in 1 .. Len(sockq[s]) - 1 : sockq'[s][k] = sockq[s][k + 1]
    BY <1>2, <1>9 DEF sq
  <1> QED
    BY <1>2, <1>3, <1>4, <1>6, <1>7, <1>8, <1>9, <1>10 DEF h
-----------------------------------------------------------------------------
(* Types: what a step does to a write in progress, named after the step. *)

WithinNext(op) ==
  /\ op.msg \in DOMAIN written'[op.to]
  /\ op.off <= written'[op.to][op.msg].len
LeftNext(op) == written'[op.to][op.msg].len - op.off
HandlerWithinNext(h) ==
  /\ WithinNext(h.op)
  /\ h.run = "write_in_io_thread" => h.op.off = 0
  /\ h.run = "write_some" /\ h.op.off = 0 => LeftNext(h.op) = 0
WaitsWithinNext(s, op) == op.to = s /\ WithinNext(op) /\ LeftNext(op) # 0

LEMMA NextForms ==
  /\ PostedWithin' <=> \A k \in DOMAIN posted' : HandlerWithinNext(posted'[k])
  /\ WaitingWithin' <=>
       \A s \in Sessions : \A k \in DOMAIN sockq'[s] : WaitsWithinNext(s, sockq'[s][k])
  BY DEF PostedWithin, WaitingWithin, HandlerWithin, HandlerWithinNext, WaitsWithin,
         WaitsWithinNext, Within, WithinNext, Left, LeftNext

LEMMA SameMessages ==
  ASSUME UNCHANGED written
  PROVE  /\ \A h : HandlerWithin(h) <=> HandlerWithinNext(h)
         /\ \A s, op : WaitsWithin(s, op) <=> WaitsWithinNext(s, op)
         /\ \A op : Within(op) <=> WithinNext(op)
  BY DEF HandlerWithin, HandlerWithinNext, WaitsWithin, WaitsWithinNext,
         Within, WithinNext, Left, LeftNext

LEMMA EntryTypes ==
  ASSUME TypeOK
  PROVE  /\ \A k \in DOMAIN posted : posted[k] \in Handler /\ posted[k].op \in Op
         /\ \A s \in Sessions : \A k \in DOMAIN sockq[s] : sockq[s][k] \in Op
         /\ \A s \in Sessions : \A k \in DOMAIN stream[s] : stream[s][k] \in Piece
         /\ DOMAIN posted = 1 .. Len(posted) /\ Len(posted) \in Nat
  <1>1. \A k \in DOMAIN posted : posted[k] \in Handler
    BY DEF TypeOK
  <1>2. \A h \in Handler : h.op \in Op
    BY DEF Handler
  <1>3. ASSUME NEW s \in Sessions
        PROVE  /\ \A k \in DOMAIN sockq[s] : sockq[s][k] \in Op
               /\ \A k \in DOMAIN stream[s] : stream[s][k] \in Piece
    <2>1. sockq[s] \in Seq(Op) /\ stream[s] \in Seq(Piece)
      BY DEF TypeOK
    <2> QED
      BY <2>1
  <1>4. DOMAIN posted = 1 .. Len(posted) /\ Len(posted) \in Nat
    BY DEF TypeOK
  <1> QED
    BY <1>1, <1>2, <1>3, <1>4

LEMMA WithinKept ==
  ASSUME TypeOK, NEW s \in Sessions, NEW m \in Messages, write(s, m),
         NEW op \in Op, Within(op)
  PROVE  WithinNext(op) /\ LeftNext(op) = Left(op)
  <1>1. op.to \in Sessions
    BY DEF Op
  <1> QED
    BY <1>1, WriteEffect DEF Within, Left, WithinNext, LeftNext

LEMMA TypedWrite ==
  ASSUME Typed, NEW s \in Sessions, NEW m \in Messages, write(s, m)
  PROVE  Typed'
  <1> DEFINE op == [to |-> s, msg |-> Len(written[s]) + 1, off |-> 0]
             h == [run |-> "write_in_io_thread", op |-> op]
  <1>0. TypeOK /\ PostedWithin /\ WaitingWithin /\ StreamWithin
    BY DEF Typed
  <1>1. TypeOK'
    BY <1>0, WriteEffect DEF TypeOK
  <1>2. WithinNext(op)
    <2>0. /\ DOMAIN written'[s] = 1 .. Len(written[s]) + 1 /\ Len(written[s]) \in Nat
          /\ written' \in [Sessions -> Seq(Messages)]
      BY <1>0, WriteEffect
    <2>1. op.msg \in DOMAIN written'[s] /\ written'[s] \in Seq(Messages)
      BY <2>0
    <2>2. written'[s][op.msg] \in Messages
      BY <2>1
    <2> QED
      BY <2>1, <2>2, WriteAssumption DEF WithinNext
  <1>3. HandlerWithinNext(h)
    BY <1>2 DEF HandlerWithinNext
  <1>4. /\ DOMAIN posted' = 1 .. Len(posted) + 1 /\ Len(posted) \in Nat
        /\ \A k \in 1 .. Len(posted) : posted'[k] = posted[k] /\ k \in DOMAIN posted
        /\ posted'[Len(posted) + 1] = h
        /\ UNCHANGED <<sockq, stream>>
    BY <1>0, WriteEffect, EntryTypes
  <1> HIDE DEF op, h
  <1>5. PostedWithin'
    <2>1. \A k \in DOMAIN posted : HandlerWithinNext(posted[k])
      BY <1>0, WithinKept, EntryTypes DEF PostedWithin, HandlerWithin, HandlerWithinNext
    <2>2. \A k \in DOMAIN posted' : HandlerWithinNext(posted'[k])
      BY <1>3, <1>4, <2>1
    <2> QED
      BY <2>2, NextForms
  <1>6. WaitingWithin'
    <2>1. \A r \in Sessions : \A k \in DOMAIN sockq[r] : WaitsWithinNext(r, sockq[r][k])
      BY <1>0, WithinKept, EntryTypes DEF WaitingWithin, WaitsWithin, WaitsWithinNext
    <2> QED
      BY <1>4, <2>1, NextForms
  <1>7. StreamWithin'
    BY <1>0, <1>4, WriteEffect DEF StreamWithin
  <1> QED
    BY <1>1, <1>5, <1>6, <1>7 DEF Typed

LEMMA TypedAsync ==
  ASSUME Typed, posted # <<>>, NEW op, op = Head(posted).op,
         Left(op) # 0, async_write_some(op)
  PROVE  Typed'
  <1>0. TypeOK /\ PostedWithin /\ WaitingWithin /\ StreamWithin
    BY DEF Typed
  <1>1. TypeOK' /\ UNCHANGED <<written, stream>>
    BY <1>0, AsyncEffect DEF TypeOK
  <1>2. PostedWithin'
    <2>1. /\ DOMAIN posted' = 1 .. Len(posted) - 1 /\ Len(posted) \in Nat
          /\ \A k \in 1 .. Len(posted) - 1 : posted'[k] = posted[k + 1] /\ k + 1 \in DOMAIN posted
      BY <1>0, AsyncEffect, EntryTypes
    <2> QED
      BY <1>0, <1>1, <2>1, SameMessages, NextForms DEF PostedWithin
  <1>3. WaitsWithin(op.to, op)
    <2>1. op = posted[1].op /\ 1 \in DOMAIN posted
      BY <1>0, AsyncEffect, EntryTypes
    <2> QED
      BY <1>0, <2>1 DEF PostedWithin, HandlerWithin, WaitsWithin
  <1>4. WaitingWithin'
    <2> SUFFICES ASSUME NEW s \in Sessions, NEW k \in DOMAIN sockq'[s]
                 PROVE  WaitsWithin(s, sockq'[s][k])
      BY <1>1, SameMessages, NextForms
    <2>1. CASE s # op.to
      <3>1. sockq'[s] = sockq[s]
        BY <1>0, <2>1, AsyncEffect
      <3> QED
        BY <1>0, <3>1 DEF WaitingWithin
    <2>2. CASE s = op.to /\ k \in DOMAIN sockq[s]
      <3>1. sockq'[s][k] = sockq[s][k]
        BY <1>0, <2>2, AsyncEffect
      <3> QED
        BY <1>0, <2>2, <3>1 DEF WaitingWithin
    <2>3. CASE s = op.to /\ k = Len(sockq[s]) + 1
      BY <1>0, <1>3, <2>3, AsyncEffect
    <2> QED
      BY <1>0, <2>1, <2>2, <2>3, AsyncEffect
  <1> QED
    BY <1>0, <1>1, <1>2, <1>4 DEF Typed, StreamWithin

LEMMA TypedEmpty ==
  ASSUME Typed, posted # <<>>, NEW op, op = Head(posted).op, Left(op) = 0,
         posted' = Post(Tail(posted), "write_some", op),
         UNCHANGED <<written, sockq, stream, up>>
  PROVE  Typed'
  <1>0. TypeOK /\ PostedWithin /\ WaitingWithin /\ StreamWithin
    BY DEF Typed
  <1>1. TypeOK'
    BY <1>0, EmptyEffect DEF TypeOK
  <1>2. WaitingWithin' /\ StreamWithin'
    BY <1>0, SameMessages, NextForms DEF WaitingWithin, StreamWithin
  <1> DEFINE h == [run |-> "write_some", op |-> op]
  <1>3. /\ DOMAIN posted' = 1 .. Len(posted) /\ Len(posted) \in Nat
        /\ \A k \in 1 .. Len(posted) - 1 : posted'[k] = posted[k + 1] /\ k + 1 \in DOMAIN posted
        /\ posted'[Len(posted)] = h
        /\ op = posted[1].op /\ 1 \in DOMAIN posted
    BY <1>0, EmptyEffect, EntryTypes
  <1>4. HandlerWithin(h)
    BY <1>0, <1>3 DEF PostedWithin, HandlerWithin
  <1> HIDE DEF h
  <1>5. \A k \in DOMAIN posted' : HandlerWithin(posted'[k])
    BY <1>0, <1>3, <1>4 DEF PostedWithin
  <1>6. PostedWithin'
    BY <1>5, SameMessages, NextForms
  <1> QED
    BY <1>1, <1>2, <1>6 DEF Typed
LEMMA HandledEffect ==
  ASSUME TypeOK, handle_write
  PROVE  /\ posted' \in Seq(Handler)
         /\ DOMAIN posted' = 1 .. Len(posted) - 1
         /\ \A k \in 1 .. Len(posted) - 1 : posted'[k] = posted[k + 1] /\ k + 1 \in DOMAIN posted
         /\ Len(posted) \in Nat
         /\ UNCHANGED <<written, sockq, stream, up>>
  <1>1. posted # <<>> /\ posted' = Tail(posted) /\ UNCHANGED <<written, sockq, stream, up>>
    BY DEF handle_write
  <1>2. posted \in Seq(Handler) /\ DOMAIN posted = 1 .. Len(posted) /\ Len(posted) \in Nat
    BY EntryTypes DEF TypeOK
  <1> DEFINE t == Tail(posted)
  <1>3. /\ t \in Seq(Handler)
        /\ DOMAIN t = 1 .. Len(posted) - 1
        /\ \A k \in 1 .. Len(posted) - 1 : t[k] = posted[k + 1]
    BY <1>1, <1>2, FirstGone
  <1> QED
    BY <1>1, <1>2, <1>3

LEMMA TypedHandled ==
  ASSUME Typed, handle_write
  PROVE  Typed'
  <1>0. TypeOK /\ PostedWithin /\ WaitingWithin /\ StreamWithin
    BY DEF Typed
  <1>1. TypeOK'
    BY <1>0, HandledEffect DEF TypeOK
  <1>2. PostedWithin'
    <2>1. \A k \in DOMAIN posted' : HandlerWithin(posted'[k])
      BY <1>0, HandledEffect DEF PostedWithin
    <2> QED
      BY <1>0, <2>1, HandledEffect, SameMessages, NextForms
  <1>3. UNCHANGED <<written, sockq, stream>>
    BY <1>0, HandledEffect
  <1>4. WaitingWithin' /\ StreamWithin'
    BY <1>0, <1>3, SameMessages, NextForms DEF WaitingWithin, StreamWithin
  <1> QED
    BY <1>1, <1>2, <1>4 DEF Typed

LEMMA TypedSend ==
  ASSUME Typed, NEW s \in Sessions, SocketSend(s)
  PROVE  Typed'
  <1>0. TypeOK /\ PostedWithin /\ WaitingWithin /\ StreamWithin
    BY DEF Typed
  <1>1. PICK n \in Nat \ {0} : Takes(s, n)
    BY SendEffect
  <1> DEFINE op == sockq[s][1]
             next == [to |-> s, msg |-> op.msg, off |-> op.off + n]
             piece == [msg |-> op.msg, off |-> op.off, n |-> n]
             h == [run |-> "write_some", op |-> next]
  <1>2. op.off \in Nat /\ op.msg \in DOMAIN written[s]
    BY <1>1 DEF Takes, Op, Within
  <1>3. TypeOK' /\ UNCHANGED written
    BY <1>0, <1>1 DEF TypeOK, Takes
  <1>4. HandlerWithin(h)
    BY <1>1, <1>2 DEF Takes, HandlerWithin, Within
  <1>5. /\ DOMAIN posted' = 1 .. Len(posted) + 1 /\ Len(posted) \in Nat
        /\ \A k \in 1 .. Len(posted) : posted'[k] = posted[k] /\ k \in DOMAIN posted
        /\ posted'[Len(posted) + 1] = h
    BY <1>0, <1>1, EntryTypes DEF Takes
  <1>6. /\ DOMAIN stream'[s] = 1 .. Len(stream[s]) + 1 /\ Len(stream[s]) \in Nat
        /\ \A k \in 1 .. Len(stream[s]) : stream'[s][k] = stream[s][k] /\ k \in DOMAIN stream[s]
        /\ stream'[s][Len(stream[s]) + 1] = piece /\ piece.msg = op.msg
        /\ \A r \in Sessions \ {s} : stream'[r] = stream[r]
    BY <1>1 DEF Takes
  <1>7. /\ DOMAIN sockq'[s] = 1 .. Len(sockq[s]) - 1
        /\ \A k \in 1 .. Len(sockq[s]) - 1 :
             sockq'[s][k] = sockq[s][k + 1] /\ k + 1 \in DOMAIN sockq[s]
        /\ \A r \in Sessions \ {s} : sockq'[r] = sockq[r]
    BY <1>1 DEF Takes
  <1> HIDE DEF op, next, piece, h
  <1>8. PostedWithin'
    <2>1. \A k \in DOMAIN posted' : HandlerWithin(posted'[k])
      BY <1>0, <1>4, <1>5 DEF PostedWithin
    <2> QED
      BY <1>3, <2>1, SameMessages, NextForms
  <1>9. WaitingWithin'
    <2>1. \A r \in Sessions : \A k \in DOMAIN sockq'[r] : WaitsWithin(r, sockq'[r][k])
      BY <1>0, <1>7 DEF WaitingWithin
    <2> QED
      BY <1>3, <2>1, SameMessages, NextForms
  <1>10. StreamWithin'
    BY <1>0, <1>2, <1>3, <1>6 DEF StreamWithin
  <1> QED
    BY <1>3, <1>8, <1>9, <1>10 DEF Typed

LEMMA TypedFail ==
  ASSUME Typed, NEW s \in Sessions, SocketFail(s)
  PROVE  Typed'
  <1>0. TypeOK /\ PostedWithin /\ WaitingWithin /\ StreamWithin
    BY DEF Typed
  <1> DEFINE op == sockq[s][1]
             h == [run |-> "error", op |-> op]
  <1>1. TypeOK' /\ UNCHANGED <<written, stream>>
    BY <1>0, FailEffect DEF TypeOK
  <1>2. HandlerWithin(h)
    BY FailEffect DEF HandlerWithin
  <1>3. /\ DOMAIN posted' = 1 .. Len(posted) + 1 /\ Len(posted) \in Nat
        /\ \A k \in 1 .. Len(posted) : posted'[k] = posted[k] /\ k \in DOMAIN posted
        /\ posted'[Len(posted) + 1] = h
    BY <1>0, FailEffect, EntryTypes
  <1>4. /\ DOMAIN sockq'[s] = 1 .. Len(sockq[s]) - 1
        /\ \A k \in 1 .. Len(sockq[s]) - 1 :
             sockq'[s][k] = sockq[s][k + 1] /\ k + 1 \in DOMAIN sockq[s]
        /\ \A r \in Sessions \ {s} : sockq'[r] = sockq[r]
    <2>1. /\ DOMAIN sockq[s] = 1 .. Len(sockq[s]) /\ Len(sockq[s]) \in Nat \ {0}
          /\ DOMAIN sockq'[s] = 1 .. Len(sockq[s]) - 1
          /\ \A k \in 1 .. Len(sockq[s]) - 1 : sockq'[s][k] = sockq[s][k + 1]
          /\ \A r \in Sessions \ {s} : sockq'[r] = sockq[r]
      BY FailEffect
    <2> QED
      BY <2>1
  <1> HIDE DEF op, h
  <1>5. PostedWithin'
    <2>1. \A k \in DOMAIN posted' : HandlerWithin(posted'[k])
      BY <1>0, <1>2, <1>3 DEF PostedWithin
    <2> QED
      BY <1>1, <2>1, SameMessages, NextForms
  <1>6. WaitingWithin'
    <2>1. \A r \in Sessions : \A k \in DOMAIN sockq'[r] : WaitsWithin(r, sockq'[r][k])
      BY <1>0, <1>4 DEF WaitingWithin
    <2> QED
      BY <1>1, <2>1, SameMessages, NextForms
  <1> QED
    BY <1>0, <1>1, <1>5, <1>6 DEF Typed, StreamWithin

LEMMA TypedStep == Typed /\ Steps => Typed'
  <1> SUFFICES ASSUME Typed, Steps PROVE Typed'
    OBVIOUS
  <1>1. CASE write_in_io_thread \/ write_some
    BY <1>1, TypedAsync, TypedEmpty DEF write_in_io_thread, write_some
  <1>2. CASE \/ \E s \in Breakable : Break(s)
             \/ UNCHANGED wvars
    <2>1. UNCHANGED <<written, posted, sockq, stream>> /\ TypeOK'
      BY <1>2 DEF Break, wvars, Typed, TypeOK
    <2>2. PostedWithin' /\ WaitingWithin'
      BY <2>1, SameMessages, NextForms DEF Typed, PostedWithin, WaitingWithin
    <2> QED
      BY <2>1, <2>2 DEF Typed, StreamWithin
  <1> QED
    BY <1>1, <1>2, TypedWrite, TypedHandled, TypedSend, TypedFail DEF Steps, IoThread, Socket

\* The variables keep their types; in particular every piece the socket takes
\* has bytes: write_in_io_thread, async_write and handle_write.
THEOREM TypeCorrect == Spec => []TypeOK
  <1>1. Typed => TypeOK
    BY DEF Typed
  <1> QED
    BY NextSteps, TypedInit, TypedStep, <1>1, PTL DEF Spec

-----------------------------------------------------------------------------
(* Messages start on the wire in the order of write(): the handlers that    *)
(* have yet to start one, and the first parts that wait for the socket,     *)
(* are in that order, and none is missing while the connection is up.       *)

Starts(h) == h.run = "write_in_io_thread"

StartsPosted ==
  \A j, k \in DOMAIN posted :
    j < k /\ Starts(posted[j]) /\ Starts(posted[k]) /\ posted[j].op.to = posted[k].op.to
      => posted[j].op.msg < posted[k].op.msg

StartsWaiting ==
  \A s \in Sessions : \A j, k \in DOMAIN sockq[s] :
    j < k /\ sockq[s][j].off = 0 /\ sockq[s][k].off = 0
      => sockq[s][j].msg < sockq[s][k].msg

WaitingFirst ==
  \A s \in Sessions : \A j \in DOMAIN sockq[s] : \A k \in DOMAIN posted :
    sockq[s][j].off = 0 /\ Starts(posted[k]) /\ posted[k].op.to = s
      => sockq[s][j].msg < posted[k].op.msg

Begun(s, i) == \E k \in DOMAIN stream[s] : stream[s][k].msg = i /\ stream[s][k].off = 0
ToBegin(s, i) ==
  \E k \in DOMAIN posted :
    Starts(posted[k]) /\ posted[k].op.to = s /\ posted[k].op.msg = i
Waits(s, i) == \E k \in DOMAIN sockq[s] : sockq[s][k].msg = i /\ sockq[s][k].off = 0

NoneLeftOut ==
  \A s \in Sessions : up[s] =>
    \A i \in DOMAIN written[s] :
      written[s][i].len # 0 => Begun(s, i) \/ ToBegin(s, i) \/ Waits(s, i)

\* What is left of a message continues a piece that went out.
Continues(op) ==
  op.off # 0 =>
    \E k \in DOMAIN stream[op.to] :
      /\ stream[op.to][k].msg = op.msg
      /\ stream[op.to][k].off + stream[op.to][k].n = op.off

Continued ==
  /\ \A k \in DOMAIN posted : Continues(posted[k].op)
  /\ \A s \in Sessions : \A k \in DOMAIN sockq[s] : Continues(sockq[s][k])

Ordered ==
  /\ StartsPosted /\ StartsWaiting /\ WaitingFirst
  /\ NoneLeftOut /\ Continued /\ HeadsInWriteOrder

LEMMA OrderedInit == Init => Ordered
  BY DEF Init, Ordered, StartsPosted, StartsWaiting, WaitingFirst, NoneLeftOut, Continued,
         HeadsInWriteOrder

ContinuesNext(op) ==
  op.off # 0 =>
    \E k \in DOMAIN stream'[op.to] :
      /\ stream'[op.to][k].msg = op.msg
      /\ stream'[op.to][k].off + stream'[op.to][k].n = op.off

LEMMA ContinuedNext ==
  Continued' <=>
    /\ \A k \in DOMAIN posted' : ContinuesNext(posted'[k].op)
    /\ \A s \in Sessions : \A k \in DOMAIN sockq'[s] : ContinuesNext(sockq'[s][k])
  BY DEF Continued, Continues, ContinuesNext

LEMMA SameStream ==
  ASSUME UNCHANGED stream
  PROVE  \A op : Continues(op) <=> ContinuesNext(op)
  BY DEF Continues, ContinuesNext

\* The order is about the kind of a handler and about its message.
LEMMA OrderedWrite ==
  ASSUME Typed, Ordered, NEW s \in Sessions, NEW m \in Messages, write(s, m)
  PROVE  Ordered'
  <1> DEFINE L == Len(posted)
             W == Len(written[s])
  <1>0. TypeOK /\ PostedWithin /\ WaitingWithin /\ StreamWithin
    BY DEF Typed
  <1>1. /\ StartsPosted /\ StartsWaiting /\ WaitingFirst
        /\ NoneLeftOut /\ Continued /\ HeadsInWriteOrder
    BY DEF Ordered
  <1>2. /\ DOMAIN posted' = 1 .. L + 1 /\ DOMAIN posted = 1 .. L /\ L \in Nat
        /\ \A k \in 1 .. L : posted'[k] = posted[k]
        /\ Starts(posted'[L + 1]) /\ posted'[L + 1].op.to = s
        /\ posted'[L + 1].op.msg = W + 1 /\ posted'[L + 1].op.off = 0
        /\ UNCHANGED <<sockq, stream, up>>
    <2> DEFINE op == [to |-> s, msg |-> W + 1, off |-> 0]
               h == [run |-> "write_in_io_thread", op |-> op]
    <2>1. Starts(h) /\ h.op.to = s /\ h.op.msg = W + 1 /\ h.op.off = 0
      BY DEF Starts
    <2>2. /\ DOMAIN posted' = 1 .. L + 1
          /\ \A k \in 1 .. L : posted'[k] = posted[k]
          /\ posted'[L + 1] = h
          /\ UNCHANGED <<sockq, stream, up>>
      BY <1>0, WriteEffect
    <2>3. DOMAIN posted = 1 .. L /\ L \in Nat
      BY <1>0, EntryTypes
    <2> HIDE DEF h
    <2> QED
      BY <2>1, <2>2, <2>3
  <1>3. /\ DOMAIN written[s] = 1 .. W /\ W \in Nat /\ DOMAIN written'[s] = 1 .. W + 1
        /\ \A i \in 1 .. W : written'[s][i] = written[s][i]
        /\ \A r \in Sessions \ {s} : written'[r] = written[r]
    BY <1>0, WriteEffect
  <1> HIDE DEF L, W
  <1>4. \A k \in 1 .. L : posted[k].op.to = s => posted[k].op.msg \in 1 .. W
    BY <1>0, <1>2, <1>3 DEF PostedWithin, HandlerWithin, Within
  <1>5. \A k \in DOMAIN sockq[s] : sockq[s][k].msg \in 1 .. W
    BY <1>0, <1>3 DEF WaitingWithin, WaitsWithin, Within
  <1>6. StartsPosted'
    <2> SUFFICES ASSUME NEW j \in DOMAIN posted', NEW k \in DOMAIN posted', j < k,
                        Starts(posted'[j]), Starts(posted'[k]),
                        posted'[j].op.to = posted'[k].op.to
                 PROVE  posted'[j].op.msg < posted'[k].op.msg
      BY DEF StartsPosted, Starts
    <2>1. j \in DOMAIN posted /\ posted'[j] = posted[j]
      BY <1>2
    <2>2. CASE k \in DOMAIN posted
      <3>1. posted'[k] = posted[k]
        BY <1>2, <2>2
      <3> QED
        BY <1>1, <2>1, <2>2, <3>1 DEF StartsPosted
    <2>3. CASE k = L + 1
      <3>1. posted'[k].op.to = s /\ posted'[k].op.msg = W + 1
        BY <1>2, <2>3
      <3>2. posted[j].op.msg \in 1 .. W
        BY <1>2, <1>4, <2>1, <3>1
      <3> QED
        BY <1>3, <2>1, <3>1, <3>2
    <2> QED
      BY <1>2, <2>2, <2>3
  <1>7. StartsWaiting'
    BY <1>1, <1>2 DEF StartsWaiting
  <1>8. WaitingFirst'
    <2> SUFFICES ASSUME NEW r \in Sessions, NEW j \in DOMAIN sockq[r], sockq[r][j].off = 0,
                        NEW k \in DOMAIN posted', Starts(posted'[k]), posted'[k].op.to = r
                 PROVE  sockq[r][j].msg < posted'[k].op.msg
      BY <1>2 DEF WaitingFirst, Starts
    <2>1. CASE k \in DOMAIN posted
      <3>1. posted'[k] = posted[k]
        BY <1>2, <2>1
      <3> QED
        BY <1>1, <2>1, <3>1 DEF WaitingFirst
    <2>2. CASE k = L + 1
      <3>1. r = s /\ posted'[k].op.msg = W + 1
        BY <1>2, <2>2
      <3>2. sockq[r][j].msg \in 1 .. W
        BY <1>5, <3>1
      <3> QED
        BY <1>3, <3>1, <3>2
    <2> QED
      BY <1>2, <2>1, <2>2
  <1>9. NoneLeftOut'
    <2> SUFFICES ASSUME NEW r \in Sessions, up[r], NEW i \in DOMAIN written'[r],
                        written'[r][i].len # 0,
                        ~(Begun(r, i) \/ Waits(r, i))
                 PROVE  \E k \in DOMAIN posted' :
                          Starts(posted'[k]) /\ posted'[k].op.to = r /\ posted'[k].op.msg = i
      BY <1>2 DEF NoneLeftOut, Begun, ToBegin, Waits, Starts
    <2>1. CASE r = s /\ i = W + 1
      BY <1>2, <2>1
    <2>2. CASE ~(r = s /\ i = W + 1)
      <3>1. i \in DOMAIN written[r] /\ written[r][i].len # 0
        BY <1>3, <2>2
      <3> QED
        BY <1>1, <1>2, <3>1 DEF NoneLeftOut, ToBegin
    <2> QED
      BY <2>1, <2>2
  <1>10. Continued'
    <2>1. \A k \in DOMAIN posted' : Continues(posted'[k].op)
      BY <1>1, <1>2 DEF Continued, Continues
    <2>2. \A r \in Sessions : \A k \in DOMAIN sockq'[r] : Continues(sockq'[r][k])
      BY <1>1, <1>2 DEF Continued
    <2> QED
      BY <1>2, <2>1, <2>2, SameStream, ContinuedNext
  <1>11. HeadsInWriteOrder'
    <2> SUFFICES ASSUME NEW r \in Sessions, NEW k \in DOMAIN stream[r],
                        NEW i \in 1 .. stream[r][k].msg - 1, written'[r][i].len # 0
                 PROVE  \E j \in 1 .. k - 1 : stream[r][j].msg = i /\ stream[r][j].off = 0
      BY <1>2 DEF HeadsInWriteOrder
    <2>1. stream[r][k].msg \in DOMAIN written[r] /\ written[r] \in Seq(Messages)
      BY <1>0 DEF StreamWithin, TypeOK
    <2>2. i \in DOMAIN written[r]
      BY <2>1
    <2>3. written'[r][i] = written[r][i]
      BY <1>3, <2>2
    <2> QED
      BY <1>1, <2>3 DEF HeadsInWriteOrder
  <1> QED
    BY <1>6, <1>7, <1>8, <1>9, <1>10, <1>11 DEF Ordered

LEMMA OrderedAsync ==
  ASSUME Typed, Ordered, posted # <<>>, NEW op, op = Head(posted).op,
         Head(posted).run \in {"write_in_io_thread", "write_some"},
         Left(op) # 0, async_write_some(op)
  PROVE  Ordered'
  <1> DEFINE L == Len(posted)
             s == op.to
             Q == Len(sockq[s])
  <1>0. TypeOK /\ PostedWithin /\ WaitingWithin /\ StreamWithin
    BY DEF Typed
  <1>1. /\ StartsPosted /\ StartsWaiting /\ WaitingFirst
        /\ NoneLeftOut /\ Continued /\ HeadsInWriteOrder
    BY DEF Ordered
  <1>2. /\ DOMAIN posted' = 1 .. L - 1 /\ DOMAIN posted = 1 .. L /\ L \in Nat \ {0}
        /\ \A k \in 1 .. L - 1 : posted'[k] = posted[k + 1]
        /\ op = posted[1].op /\ op.to \in Sessions
        /\ UNCHANGED <<written, stream, up>>
    BY <1>0, AsyncEffect, EntryTypes
  <1>3. /\ DOMAIN sockq[s] = 1 .. Q /\ Q \in Nat /\ DOMAIN sockq'[s] = 1 .. Q + 1
        /\ \A k \in 1 .. Q : sockq'[s][k] = sockq[s][k]
        /\ sockq'[s][Q + 1] = op
        /\ \A r \in Sessions \ {s} : sockq'[r] = sockq[r]
    BY <1>0, AsyncEffect
  <1>4. op.off = 0 => Starts(posted[1])
    <2>1. Head(posted) = posted[1] /\ posted[1] \in Handler /\ HandlerWithin(posted[1])
      <3>1. posted \in Seq(Handler) /\ 1 \in DOMAIN posted
        BY <1>0, <1>2 DEF TypeOK
      <3>2. Head(posted) = posted[1] /\ posted[1] \in Handler
        BY <3>1, FirstGone
      <3> QED
        BY <1>0, <3>1, <3>2 DEF PostedWithin
    <2> QED
      BY <1>2, <2>1 DEF Starts, HandlerWithin
  <1>5. Starts(posted[1]) => op.off = 0
    BY <1>0, <1>2 DEF Starts, PostedWithin, HandlerWithin
  <1> HIDE DEF L, Q, s
  <1>6. s \in Sessions /\ op.to = s
    BY <1>2 DEF s
  <1>7. StartsPosted'
    <2> SUFFICES ASSUME NEW j \in DOMAIN posted', NEW k \in DOMAIN posted', j < k,
                        Starts(posted'[j]), Starts(posted'[k]),
                        posted'[j].op.to = posted'[k].op.to
                 PROVE  posted'[j].op.msg < posted'[k].op.msg
      BY DEF StartsPosted, Starts
    <2>1. /\ j + 1 \in DOMAIN posted /\ k + 1 \in DOMAIN posted /\ j + 1 < k + 1
          /\ posted'[j] = posted[j + 1] /\ posted'[k] = posted[k + 1]
      BY <1>2
    <2> QED
      BY <1>1, <2>1 DEF StartsPosted
  <1>8. StartsWaiting'
    <2> SUFFICES ASSUME NEW r \in Sessions,
                        NEW j \in DOMAIN sockq'[r], NEW k \in DOMAIN sockq'[r], j < k,
                        sockq'[r][j].off = 0, sockq'[r][k].off = 0
                 PROVE  sockq'[r][j].msg < sockq'[r][k].msg
      BY DEF StartsWaiting
    <2>1. CASE r # s
      BY <1>1, <1>3, <2>1 DEF StartsWaiting
    <2>2. CASE r = s /\ k \in 1 .. Q
      BY <1>1, <1>3, <2>2 DEF StartsWaiting
    <2>3. CASE r = s /\ k = Q + 1
      <3>1. j \in DOMAIN sockq[s] /\ sockq'[s][j] = sockq[s][j]
        BY <1>3, <2>3
      <3>2. Starts(posted[1]) /\ posted[1].op = op /\ 1 \in DOMAIN posted
        BY <1>2, <1>3, <1>4, <2>3
      <3> QED
        BY <1>1, <1>3, <1>6, <2>3, <3>1, <3>2 DEF WaitingFirst
    <2> QED
      BY <1>3, <2>1, <2>2, <2>3
  <1>9. WaitingFirst'
    <2> SUFFICES ASSUME NEW r \in Sessions, NEW j \in DOMAIN sockq'[r], sockq'[r][j].off = 0,
                        NEW k \in DOMAIN posted', Starts(posted'[k]), posted'[k].op.to = r
                 PROVE  sockq'[r][j].msg < posted'[k].op.msg
      BY DEF WaitingFirst, Starts
    <2>1. k + 1 \in DOMAIN posted /\ posted'[k] = posted[k + 1] /\ 1 < k + 1
          /\ 1 \in DOMAIN posted
      BY <1>2
    <2>2. CASE r # s \/ j \in 1 .. Q
      <3>1. j \in DOMAIN sockq[r] /\ sockq'[r][j] = sockq[r][j]
        BY <1>3, <2>2
      <3> QED
        BY <1>1, <2>1, <3>1 DEF WaitingFirst
    <2>3. CASE r = s /\ j = Q + 1
      <3>1. sockq'[r][j] = op /\ Starts(posted[1]) /\ posted[1].op = op
        BY <1>2, <1>3, <1>4, <2>3
      <3>2. Starts(posted[k + 1]) /\ posted[k + 1].op.to = posted[1].op.to
        BY <1>6, <2>1, <2>3, <3>1
      <3> QED
        BY <1>1, <2>1, <3>1, <3>2 DEF StartsPosted
    <2> QED
      BY <1>3, <2>2, <2>3
  <1>10. NoneLeftOut'
    <2> SUFFICES ASSUME NEW r \in Sessions, up[r], NEW i \in DOMAIN written[r],
                        written[r][i].len # 0, ~Begun(r, i)
                 PROVE  \/ \E k \in DOMAIN posted' :
                             Starts(posted'[k]) /\ posted'[k].op.to = r /\ posted'[k].op.msg = i
                        \/ \E k \in DOMAIN sockq'[r] :
                             sockq'[r][k].msg = i /\ sockq'[r][k].off = 0
      BY <1>2 DEF NoneLeftOut, Begun, ToBegin, Waits, Starts
    <2>1. CASE Waits(r, i)
      <3>1. PICK k \in DOMAIN sockq[r] : sockq[r][k].msg = i /\ sockq[r][k].off = 0
        BY <2>1 DEF Waits
      <3>2. k \in DOMAIN sockq'[r] /\ sockq'[r][k] = sockq[r][k]
        <4>1. CASE r = s
          BY <1>3, <4>1
        <4>2. CASE r # s
          BY <1>3, <4>2
        <4> QED
          BY <4>1, <4>2
      <3> QED
        BY <3>1, <3>2
    <2>2. CASE ToBegin(r, i)
      <3>1. PICK k \in DOMAIN posted :
              Starts(posted[k]) /\ posted[k].op.to = r /\ posted[k].op.msg = i
        BY <2>2 DEF ToBegin
      <3>2. CASE k = 1
        BY <1>2, <1>3, <1>5, <1>6, <3>1, <3>2
      <3>3. CASE k # 1
        <4>1. k - 1 \in DOMAIN posted' /\ posted'[k - 1] = posted[k]
          BY <1>2, <3>3
        <4> QED
          BY <3>1, <4>1
      <3> QED
        BY <3>2, <3>3
    <2> QED
      BY <1>1, <2>1, <2>2 DEF NoneLeftOut
  <1>11. Continued'
    <2>1. \A k \in DOMAIN posted' : Continues(posted'[k].op)
      <3>1. \A k \in DOMAIN posted' : k + 1 \in DOMAIN posted /\ posted'[k] = posted[k + 1]
        BY <1>2
      <3> QED
        BY <1>1, <3>1 DEF Continued
    <2>2. Continues(op)
      BY <1>1, <1>2 DEF Continued
    <2>3. \A r \in Sessions : \A k \in DOMAIN sockq'[r] : Continues(sockq'[r][k])
      BY <1>1, <1>3, <2>2 DEF Continued
    <2> QED
      BY <1>2, <2>1, <2>3, SameStream, ContinuedNext
  <1>12. HeadsInWriteOrder'
    BY <1>1, <1>2 DEF HeadsInWriteOrder
  <1> QED
    BY <1>7, <1>8, <1>9, <1>10, <1>11, <1>12 DEF Ordered

\* A handler that starts nothing new leaves the head of posted, and perhaps
\* its completion, of the same write, is posted in its place.
LEMMA OrderedHandled ==
  ASSUME Typed, Ordered, handle_write
  PROVE  Ordered'
  <1> DEFINE L == Len(posted)
  <1>0. TypeOK /\ PostedWithin /\ WaitingWithin /\ StreamWithin
    BY DEF Typed
  <1>1. /\ StartsPosted /\ StartsWaiting /\ WaitingFirst
        /\ NoneLeftOut /\ Continued /\ HeadsInWriteOrder
    BY DEF Ordered
  <1>2. /\ DOMAIN posted' = 1 .. L - 1 /\ DOMAIN posted = 1 .. L /\ L \in Nat
        /\ \A k \in 1 .. L - 1 : posted'[k] = posted[k + 1]
        /\ UNCHANGED <<written, sockq, stream, up>>
    <2>1. /\ DOMAIN posted' = 1 .. L - 1
          /\ \A k \in 1 .. L - 1 : posted'[k] = posted[k + 1]
          /\ UNCHANGED <<written, sockq, stream, up>>
      BY <1>0, HandledEffect
    <2> QED
      BY <1>0, <2>1, EntryTypes
  <1>3. ~Starts(posted[1])
    <2>1. posted # <<>> /\ posted \in Seq(Handler)
      BY <1>0 DEF handle_write, TypeOK
    <2>2. Head(posted) = posted[1]
      BY <2>1, FirstGone
    <2> QED
      BY <2>2 DEF handle_write, Starts
  <1> HIDE DEF L
  <1>4. \A k \in DOMAIN posted' : k + 1 \in DOMAIN posted /\ posted'[k] = posted[k + 1]
    BY <1>2
  <1>5. StartsPosted'
    <2> SUFFICES ASSUME NEW j \in DOMAIN posted', NEW k \in DOMAIN posted', j < k,
                        Starts(posted'[j]), Starts(posted'[k]),
                        posted'[j].op.to = posted'[k].op.to
                 PROVE  posted'[j].op.msg < posted'[k].op.msg
      BY DEF StartsPosted, Starts
    <2>1. j + 1 < k + 1
      BY <1>2
    <2> QED
      BY <1>1, <1>4, <2>1 DEF StartsPosted
  <1>6. StartsWaiting' /\ HeadsInWriteOrder'
    BY <1>1, <1>2 DEF StartsWaiting, HeadsInWriteOrder
  <1>7. WaitingFirst'
    <2> SUFFICES ASSUME NEW r \in Sessions, NEW j \in DOMAIN sockq[r], sockq[r][j].off = 0,
                        NEW k \in DOMAIN posted', Starts(posted'[k]), posted'[k].op.to = r
                 PROVE  sockq[r][j].msg < posted'[k].op.msg
      BY <1>2 DEF WaitingFirst, Starts
    <2> QED
      BY <1>1, <1>4 DEF WaitingFirst
  <1>8. NoneLeftOut'
    <2> SUFFICES ASSUME NEW r \in Sessions, up[r], NEW i \in DOMAIN written[r],
                        written[r][i].len # 0, ToBegin(r, i)
                 PROVE  \E k \in DOMAIN posted' :
                          Starts(posted'[k]) /\ posted'[k].op.to = r /\ posted'[k].op.msg = i
      BY <1>1, <1>2 DEF NoneLeftOut, Begun, ToBegin, Waits, Starts
    <2>1. PICK k \in DOMAIN posted :
            Starts(posted[k]) /\ posted[k].op.to = r /\ posted[k].op.msg = i
      BY DEF ToBegin
    <2>2. k # 1
      BY <1>3, <2>1
    <2>3. k - 1 \in DOMAIN posted' /\ posted'[k - 1] = posted[k]
      BY <1>2, <2>2
    <2> QED
      BY <2>1, <2>3
  <1>9. Continued'
    <2>1. \A k \in DOMAIN posted' : Continues(posted'[k].op)
      BY <1>1, <1>4 DEF Continued
    <2> QED
      BY <1>1, <1>2, <2>1, SameStream, ContinuedNext DEF Continued
  <1> QED
    BY <1>5, <1>6, <1>7, <1>8, <1>9 DEF Ordered

LEMMA OrderedEmpty ==
  ASSUME Typed, Ordered, posted # <<>>, NEW op, op = Head(posted).op, Left(op) = 0,
         Head(posted).run = "write_in_io_thread",
         posted' = Post(Tail(posted), "write_some", op),
         UNCHANGED <<written, sockq, stream, up>>
  PROVE  Ordered'
  <1> DEFINE L == Len(posted)
  <1>0. TypeOK /\ PostedWithin /\ WaitingWithin /\ StreamWithin
    BY DEF Typed
  <1>1. /\ StartsPosted /\ StartsWaiting /\ WaitingFirst
        /\ NoneLeftOut /\ Continued /\ HeadsInWriteOrder
    BY DEF Ordered
  <1>2. /\ DOMAIN posted' = 1 .. L /\ DOMAIN posted = 1 .. L /\ L \in Nat \ {0}
        /\ \A k \in 1 .. L - 1 : posted'[k] = posted[k + 1]
        /\ posted'[L].op = op /\ ~Starts(posted'[L])
        /\ op = posted[1].op /\ op \in Op
    <2> DEFINE h == [run |-> "write_some", op |-> op]
    <2>1. /\ DOMAIN posted' = 1 .. L /\ L \in Nat \ {0}
          /\ \A k \in 1 .. L - 1 : posted'[k] = posted[k + 1]
          /\ posted'[L] = h
          /\ op = posted[1].op /\ op \in Op
      BY <1>0, EmptyEffect
    <2>2. h.op = op /\ ~Starts(h)
      BY DEF Starts
    <2> HIDE DEF h
    <2> QED
      BY <1>0, <2>1, <2>2, EntryTypes
  <1>3. written[op.to][op.msg].len = 0
    <2>1. posted \in Seq(Handler) /\ 1 \in DOMAIN posted
      BY <1>0, <1>2 DEF TypeOK
    <2>2. Head(posted) = posted[1]
      BY <2>1, FirstGone
    <2>3. op.off = 0 /\ Within(op)
      BY <1>0, <1>2, <2>1, <2>2 DEF PostedWithin, HandlerWithin
    <2> QED
      BY <1>0, <1>2, <2>3, LeftType, LengthType DEF Within, Op
  <1> HIDE DEF L
  <1>4. \A k \in DOMAIN posted' :
          \/ k = L
          \/ k # L /\ k + 1 \in DOMAIN posted /\ posted'[k] = posted[k + 1]
    BY <1>2
  <1>5. StartsPosted'
    <2> SUFFICES ASSUME NEW j \in DOMAIN posted', NEW k \in DOMAIN posted', j < k,
                        Starts(posted'[j]), Starts(posted'[k]),
                        posted'[j].op.to = posted'[k].op.to
                 PROVE  posted'[j].op.msg < posted'[k].op.msg
      BY DEF StartsPosted, Starts
    <2>1. j + 1 < k + 1 /\ j # L /\ k # L
      BY <1>2
    <2> QED
      BY <1>1, <1>4, <2>1 DEF StartsPosted
  <1>6. StartsWaiting' /\ HeadsInWriteOrder'
    BY <1>1 DEF StartsWaiting, HeadsInWriteOrder
  <1>7. WaitingFirst'
    <2> SUFFICES ASSUME NEW r \in Sessions, NEW j \in DOMAIN sockq[r], sockq[r][j].off = 0,
                        NEW k \in DOMAIN posted', Starts(posted'[k]), posted'[k].op.to = r
                 PROVE  sockq[r][j].msg < posted'[k].op.msg
      BY DEF WaitingFirst, Starts
    <2> QED
      BY <1>1, <1>2, <1>4 DEF WaitingFirst
  <1>8. NoneLeftOut'
    <2> SUFFICES ASSUME NEW r \in Sessions, up[r], NEW i \in DOMAIN written[r],
                        written[r][i].len # 0, ToBegin(r, i)
                 PROVE  \E k \in DOMAIN posted' :
                          Starts(posted'[k]) /\ posted'[k].op.to = r /\ posted'[k].op.msg = i
      BY <1>1 DEF NoneLeftOut, Begun, ToBegin, Waits, Starts
    <2>1. PICK k \in DOMAIN posted :
            Starts(posted[k]) /\ posted[k].op.to = r /\ posted[k].op.msg = i
      BY DEF ToBegin
    <2>2. k # 1
      BY <1>2, <1>3, <2>1
    <2>3. k - 1 \in DOMAIN posted' /\ posted'[k - 1] = posted[k]
      BY <1>2, <2>2
    <2> QED
      BY <2>1, <2>3
  <1>9. Continued'
    <2>1. \A k \in DOMAIN posted' : Continues(posted'[k].op)
      BY <1>1, <1>2, <1>4 DEF Continued
    <2> QED
      BY <1>1, <2>1, SameStream, ContinuedNext DEF Continued
  <1> QED
    BY <1>5, <1>6, <1>7, <1>8, <1>9 DEF Ordered

\* The socket takes a piece: of a message that had begun, or the head of one
\* before which nothing is left to begin.
LEMMA OrderedSend ==
  ASSUME Typed, Ordered, NEW s \in Sessions, SocketSend(s)
  PROVE  Ordered'
  <1>0. TypeOK /\ PostedWithin /\ WaitingWithin /\ StreamWithin
    BY DEF Typed
  <1>1. /\ StartsPosted /\ StartsWaiting /\ WaitingFirst
        /\ NoneLeftOut /\ Continued /\ HeadsInWriteOrder
    BY DEF Ordered
  <1>2. PICK n \in Nat \ {0} : Takes(s, n)
    BY SendEffect
  <1> DEFINE op == sockq[s][1]
             next == [to |-> s, msg |-> op.msg, off |-> op.off + n]
             piece == [msg |-> op.msg, off |-> op.off, n |-> n]
             h == [run |-> "write_some", op |-> next]
             L == Len(posted)
             Q == Len(sockq[s])
             S == Len(stream[s])
  <1>3. /\ DOMAIN posted' = 1 .. L + 1 /\ DOMAIN posted = 1 .. L /\ L \in Nat
        /\ \A k \in 1 .. L : posted'[k] = posted[k]
        /\ posted'[L + 1] = h
    BY <1>0, <1>2, EntryTypes DEF Takes
  <1>4. /\ DOMAIN stream[s] = 1 .. S /\ S \in Nat /\ DOMAIN stream'[s] = 1 .. S + 1
        /\ \A k \in 1 .. S : stream'[s][k] = stream[s][k]
        /\ stream'[s][S + 1] = piece
        /\ \A r \in Sessions \ {s} : stream'[r] = stream[r]
    BY <1>2 DEF Takes
  <1>5. /\ DOMAIN sockq[s] = 1 .. Q /\ Q \in Nat \ {0} /\ DOMAIN sockq'[s] = 1 .. Q - 1
        /\ \A k \in 1 .. Q - 1 : sockq'[s][k] = sockq[s][k + 1]
        /\ \A r \in Sessions \ {s} : sockq'[r] = sockq[r]
    BY <1>2 DEF Takes
  <1>6. /\ op.to = s /\ op.off \in Nat /\ op.msg \in DOMAIN written[s] /\ up[s]
        /\ op.msg \in Nat \ {0}
        /\ UNCHANGED <<written, up>>
    BY <1>2 DEF Takes, Op, Within
  <1>7. /\ ~Starts(h) /\ h.op.to = s /\ h.op.msg = op.msg /\ h.op.off = op.off + n
        /\ piece.msg = op.msg /\ piece.off = op.off /\ piece.n = n
    BY DEF Starts
  <1> HIDE DEF op, next, piece, h, L, Q, S
  <1>8. \A k \in DOMAIN sockq'[s] : k + 1 \in DOMAIN sockq[s] /\ sockq'[s][k] = sockq[s][k + 1]
    BY <1>5
  <1>9. \A k \in DOMAIN posted' : Starts(posted'[k]) =>
          k \in DOMAIN posted /\ posted'[k] = posted[k]
    BY <1>3, <1>7
  <1>10. StartsPosted'
    <2> SUFFICES ASSUME NEW j \in DOMAIN posted', NEW k \in DOMAIN posted', j < k,
                        Starts(posted'[j]), Starts(posted'[k]),
                        posted'[j].op.to = posted'[k].op.to
                 PROVE  posted'[j].op.msg < posted'[k].op.msg
      BY DEF StartsPosted, Starts
    <2> QED
      BY <1>1, <1>9 DEF StartsPosted
  <1>11. StartsWaiting'
    <2> SUFFICES ASSUME NEW r \in Sessions,
                        NEW j \in DOMAIN sockq'[r], NEW k \in DOMAIN sockq'[r], j < k,
                        sockq'[r][j].off = 0, sockq'[r][k].off = 0
                 PROVE  sockq'[r][j].msg < sockq'[r][k].msg
      BY DEF StartsWaiting
    <2>1. CASE r # s
      BY <1>1, <1>5, <2>1 DEF StartsWaiting
    <2>2. CASE r = s
      <3>1. j + 1 < k + 1
        BY <1>5, <2>2
      <3> QED
        BY <1>1, <1>8, <2>2, <3>1 DEF StartsWaiting
    <2> QED
      BY <2>1, <2>2
  <1>12. WaitingFirst'
    <2> SUFFICES ASSUME NEW r \in Sessions, NEW j \in DOMAIN sockq'[r], sockq'[r][j].off = 0,
                        NEW k \in DOMAIN posted', Starts(posted'[k]), posted'[k].op.to = r
                 PROVE  sockq'[r][j].msg < posted'[k].op.msg
      BY DEF WaitingFirst, Starts
    <2> QED
      <3>1. k \in DOMAIN posted /\ posted'[k] = posted[k]
        BY <1>9
      <3>2. CASE r # s
        BY <1>1, <1>5, <3>1, <3>2 DEF WaitingFirst
      <3>3. CASE r = s
        BY <1>1, <1>8, <3>1, <3>3 DEF WaitingFirst
      <3> QED
        BY <3>2, <3>3
  <1>13. NoneLeftOut'
    <2> SUFFICES ASSUME NEW r \in Sessions, up[r], NEW i \in DOMAIN written[r],
                        written[r][i].len # 0
                 PROVE  \/ \E k \in DOMAIN stream'[r] :
                             stream'[r][k].msg = i /\ stream'[r][k].off = 0
                        \/ \E k \in DOMAIN posted' :
                             Starts(posted'[k]) /\ posted'[k].op.to = r /\ posted'[k].op.msg = i
                        \/ \E k \in DOMAIN sockq'[r] :
                             sockq'[r][k].msg = i /\ sockq'[r][k].off = 0
      BY <1>6 DEF NoneLeftOut, Begun, ToBegin, Waits, Starts
    <2>1. CASE Begun(r, i)
      <3>1. PICK k \in DOMAIN stream[r] : stream[r][k].msg = i /\ stream[r][k].off = 0
        BY <2>1 DEF Begun
      <3>2. k \in DOMAIN stream'[r] /\ stream'[r][k] = stream[r][k]
        <4>1. CASE r = s
          BY <1>4, <4>1
        <4>2. CASE r # s
          BY <1>4, <4>2
        <4> QED
          BY <4>1, <4>2
      <3> QED
        BY <3>1, <3>2
    <2>2. CASE ToBegin(r, i)
      <3>1. PICK k \in DOMAIN posted :
              Starts(posted[k]) /\ posted[k].op.to = r /\ posted[k].op.msg = i
        BY <2>2 DEF ToBegin
      <3>2. k \in DOMAIN posted' /\ posted'[k] = posted[k]
        BY <1>3
      <3> QED
        BY <3>1, <3>2
    <2>3. CASE Waits(r, i)
      <3>1. PICK k \in DOMAIN sockq[r] : sockq[r][k].msg = i /\ sockq[r][k].off = 0
        BY <2>3 DEF Waits
      <3>2. CASE r # s
        BY <1>5, <3>1, <3>2
      <3>3. CASE r = s /\ k = 1
        <4>1. S + 1 \in DOMAIN stream'[s]
          BY <1>4
        <4>2. stream'[s][S + 1].msg = i /\ stream'[s][S + 1].off = 0
          BY <1>4, <1>7, <3>1, <3>3 DEF op
        <4> QED
          BY <3>3, <4>1, <4>2
      <3>4. CASE r = s /\ k # 1
        <4>1. k - 1 \in DOMAIN sockq'[s] /\ sockq'[s][k - 1] = sockq[s][k]
          BY <1>5, <3>4
        <4> QED
          BY <3>1, <3>4, <4>1
      <3> QED
        BY <3>2, <3>3, <3>4
    <2> QED
      BY <1>1, <2>1, <2>2, <2>3 DEF NoneLeftOut
  <1>14. Continued'
    <2>1. ASSUME NEW o, o.to \in Sessions, Continues(o)
          PROVE  ContinuesNext(o)
      <3>1. \A k \in DOMAIN stream[o.to] :
              k \in DOMAIN stream'[o.to] /\ stream'[o.to][k] = stream[o.to][k]
        <4>1. CASE o.to = s
          BY <1>4, <4>1
        <4>2. CASE o.to # s
          BY <1>4, <2>1, <4>2
        <4> QED
          BY <4>1, <4>2
      <3> QED
        BY <2>1, <3>1 DEF Continues, ContinuesNext
    <2>2. ContinuesNext(h.op)
      <3>1. S + 1 \in DOMAIN stream'[s]
        BY <1>4
      <3> QED
        BY <1>4, <1>7, <3>1 DEF ContinuesNext
    <2>3. \A k \in DOMAIN posted' : ContinuesNext(posted'[k].op)
      <3>1. \A k \in DOMAIN posted : posted[k].op.to \in Sessions
        BY <1>0, EntryTypes DEF Op
      <3> QED
        BY <1>1, <1>3, <2>1, <2>2, <3>1 DEF Continued
    <2>4. \A r \in Sessions : \A k \in DOMAIN sockq'[r] : ContinuesNext(sockq'[r][k])
      <3>1. \A r \in Sessions : \A k \in DOMAIN sockq[r] : sockq[r][k].to \in Sessions
        BY <1>0, EntryTypes DEF Op
      <3> QED
        BY <1>1, <1>5, <1>8, <2>1, <3>1 DEF Continued
    <2> QED
      BY <2>3, <2>4, ContinuedNext
  <1>15. HeadsInWriteOrder'
    <2> SUFFICES ASSUME NEW r \in Sessions, NEW k \in DOMAIN stream'[r],
                        NEW i \in 1 .. stream'[r][k].msg - 1, written[r][i].len # 0
                 PROVE  \E j \in 1 .. k - 1 : stream'[r][j].msg = i /\ stream'[r][j].off = 0
      BY <1>6 DEF HeadsInWriteOrder
    <2>1. CASE r # s
      BY <1>1, <1>4, <2>1 DEF HeadsInWriteOrder
    <2>2. CASE r = s /\ k \in 1 .. S
      <3>1. \E j \in 1 .. k - 1 : stream[s][j].msg = i /\ stream[s][j].off = 0
        <4>1. k \in DOMAIN stream[s] /\ stream'[s][k] = stream[s][k]
          BY <1>4, <2>2
        <4>2. i \in 1 .. stream[s][k].msg - 1 /\ written[s][i].len # 0
          BY <2>2, <4>1
        <4> QED
          BY <1>1, <4>1, <4>2 DEF HeadsInWriteOrder
      <3>2. PICK j \in 1 .. k - 1 : stream[s][j].msg = i /\ stream[s][j].off = 0
        BY <3>1
      <3>3. stream'[s][j] = stream[s][j]
        BY <1>4, <2>2
      <3> QED
        BY <2>2, <3>2, <3>3
    <2>3. CASE r = s /\ k = S + 1
      <3>0. i \in 1 .. op.msg - 1
        BY <1>4, <1>7, <2>3
      <3>1. \E j \in 1 .. S : stream[s][j].msg = i /\ stream[s][j].off = 0
        <4>1. CASE op.off # 0
          <5>1. 1 \in DOMAIN sockq[s]
            BY <1>5
          <5>2. Continues(op)
            BY <1>1, <5>1 DEF Continued, op
          <5>3. PICK j \in DOMAIN stream[s] : stream[s][j].msg = op.msg
            BY <1>6, <4>1, <5>2 DEF Continues
          <5>4. \E l \in 1 .. j - 1 : stream[s][l].msg = i /\ stream[s][l].off = 0
            BY <1>1, <2>3, <3>0, <5>3 DEF HeadsInWriteOrder
          <5> QED
            BY <1>4, <5>3, <5>4
        <4>2. CASE op.off = 0
          <5>1. i \in DOMAIN written[s]
            <6>1. written[s] \in Seq(Messages)
              BY <1>0 DEF TypeOK
            <6> QED
              BY <1>6, <3>0, <6>1
          <5>2. 1 \in DOMAIN sockq[s]
            BY <1>5
          <5>3. ~ToBegin(s, i)
            <6> SUFFICES ASSUME NEW l \in DOMAIN posted,
                                Starts(posted[l]), posted[l].op.to = s, posted[l].op.msg = i
                         PROVE  FALSE
              BY DEF ToBegin
            <6>1. op.msg < i
              BY <1>1, <4>2, <5>2 DEF WaitingFirst, op
            <6> QED
              BY <1>6, <3>0, <6>1
          <5>4. ~Waits(s, i)
            <6> SUFFICES ASSUME NEW l \in DOMAIN sockq[s],
                                sockq[s][l].msg = i, sockq[s][l].off = 0
                         PROVE  FALSE
              BY DEF Waits
            <6>1. CASE l = 1
              BY <1>6, <3>0, <6>1 DEF op
            <6>2. CASE l # 1
              <7>1. 1 < l
                BY <1>5, <6>2
              <7>2. op.msg < i
                BY <1>1, <4>2, <5>2, <7>1 DEF StartsWaiting, op
              <7> QED
                BY <1>6, <3>0, <7>2
            <6> QED
              BY <6>1, <6>2
          <5> QED
            BY <1>1, <1>4, <1>6, <2>3, <5>1, <5>3, <5>4 DEF NoneLeftOut, Begun
        <4> QED
          BY <4>1, <4>2
      <3> QED
        BY <1>4, <2>3, <3>1
    <2> QED
      BY <1>4, <2>1, <2>2, <2>3
  <1> QED
    BY <1>10, <1>11, <1>12, <1>13, <1>14, <1>15 DEF Ordered

\* Once the connection is broken nothing more need begin.
LEMMA OrderedFail ==
  ASSUME Typed, Ordered, NEW s \in Sessions, SocketFail(s)
  PROVE  Ordered'
  <1>0. TypeOK /\ PostedWithin /\ WaitingWithin /\ StreamWithin
    BY DEF Typed
  <1>1. /\ StartsPosted /\ StartsWaiting /\ WaitingFirst
        /\ NoneLeftOut /\ Continued /\ HeadsInWriteOrder
    BY DEF Ordered
  <1> DEFINE op == sockq[s][1]
             h == [run |-> "error", op |-> op]
             L == Len(posted)
             Q == Len(sockq[s])
  <1>2. /\ DOMAIN posted' = 1 .. L + 1 /\ DOMAIN posted = 1 .. L /\ L \in Nat
        /\ \A k \in 1 .. L : posted'[k] = posted[k]
        /\ posted'[L + 1] = h
        /\ ~up[s] /\ UNCHANGED <<written, stream, up>>
    BY <1>0, FailEffect, EntryTypes
  <1>3. /\ DOMAIN sockq[s] = 1 .. Q /\ Q \in Nat \ {0} /\ DOMAIN sockq'[s] = 1 .. Q - 1
        /\ \A k \in 1 .. Q - 1 : sockq'[s][k] = sockq[s][k + 1]
        /\ \A r \in Sessions \ {s} : sockq'[r] = sockq[r]
    BY FailEffect
  <1>4. ~Starts(h) /\ h.op = op
    BY DEF Starts
  <1>5. Continues(op)
    BY <1>1, <1>3 DEF Continued
  <1> HIDE DEF op, h, L, Q
  <1>6. \A k \in DOMAIN sockq'[s] : k + 1 \in DOMAIN sockq[s] /\ sockq'[s][k] = sockq[s][k + 1]
    BY <1>3
  <1>7. \A k \in DOMAIN posted' : Starts(posted'[k]) =>
          k \in DOMAIN posted /\ posted'[k] = posted[k]
    BY <1>2, <1>4
  <1>8. StartsPosted'
    <2> SUFFICES ASSUME NEW j \in DOMAIN posted', NEW k \in DOMAIN posted', j < k,
                        Starts(posted'[j]), Starts(posted'[k]),
                        posted'[j].op.to = posted'[k].op.to
                 PROVE  posted'[j].op.msg < posted'[k].op.msg
      BY DEF StartsPosted, Starts
    <2> QED
      BY <1>1, <1>7 DEF StartsPosted
  <1>9. StartsWaiting'
    <2> SUFFICES ASSUME NEW r \in Sessions,
                        NEW j \in DOMAIN sockq'[r], NEW k \in DOMAIN sockq'[r], j < k,
                        sockq'[r][j].off = 0, sockq'[r][k].off = 0
                 PROVE  sockq'[r][j].msg < sockq'[r][k].msg
      BY DEF StartsWaiting
    <2>1. CASE r # s
      BY <1>1, <1>3, <2>1 DEF StartsWaiting
    <2>2. CASE r = s
      <3>1. j + 1 < k + 1
        BY <1>3, <2>2
      <3> QED
        BY <1>1, <1>6, <2>2, <3>1 DEF StartsWaiting
    <2> QED
      BY <2>1, <2>2
  <1>10. WaitingFirst'
    <2> SUFFICES ASSUME NEW r \in Sessions, NEW j \in DOMAIN sockq'[r], sockq'[r][j].off = 0,
                        NEW k \in DOMAIN posted', Starts(posted'[k]), posted'[k].op.to = r
                 PROVE  sockq'[r][j].msg < posted'[k].op.msg
      BY DEF WaitingFirst, Starts
    <2>1. k \in DOMAIN posted /\ posted'[k] = posted[k]
      BY <1>7
    <2>2. CASE r # s
      BY <1>1, <1>3, <2>1, <2>2 DEF WaitingFirst
    <2>3. CASE r = s
      BY <1>1, <1>6, <2>1, <2>3 DEF WaitingFirst
    <2> QED
      BY <2>2, <2>3
  <1>11. NoneLeftOut'
    <2> SUFFICES ASSUME NEW r \in Sessions, up[r], NEW i \in DOMAIN written[r],
                        written[r][i].len # 0, ~Begun(r, i)
                 PROVE  \/ \E k \in DOMAIN posted' :
                             Starts(posted'[k]) /\ posted'[k].op.to = r /\ posted'[k].op.msg = i
                        \/ \E k \in DOMAIN sockq'[r] :
                             sockq'[r][k].msg = i /\ sockq'[r][k].off = 0
      BY <1>2 DEF NoneLeftOut, Begun, ToBegin, Waits, Starts
    <2>1. r # s
      BY <1>2
    <2>2. CASE ToBegin(r, i)
      <3>1. PICK k \in DOMAIN posted :
              Starts(posted[k]) /\ posted[k].op.to = r /\ posted[k].op.msg = i
        BY <2>2 DEF ToBegin
      <3>2. k \in DOMAIN posted' /\ posted'[k] = posted[k]
        BY <1>2
      <3> QED
        BY <3>1, <3>2
    <2>3. CASE Waits(r, i)
      BY <1>3, <2>1, <2>3 DEF Waits
    <2> QED
      BY <1>1, <2>2, <2>3 DEF NoneLeftOut
  <1>12. Continued'
    <2>1. \A k \in DOMAIN posted' : Continues(posted'[k].op)
      BY <1>1, <1>2, <1>4, <1>5 DEF Continued
    <2>2. \A r \in Sessions : \A k \in DOMAIN sockq'[r] : Continues(sockq'[r][k])
      BY <1>1, <1>3, <1>6 DEF Continued
    <2> QED
      BY <1>2, <2>1, <2>2, SameStream, ContinuedNext
  <1>13. HeadsInWriteOrder'
    BY <1>1, <1>2 DEF HeadsInWriteOrder
  <1> QED
    BY <1>8, <1>9, <1>10, <1>11, <1>12, <1>13 DEF Ordered

LEMMA OrderedStep == Typed /\ Ordered /\ Steps => Ordered'
  <1> SUFFICES ASSUME Typed, Ordered, Steps PROVE Ordered'
    OBVIOUS
  <1>1. CASE write_in_io_thread
    BY <1>1, OrderedAsync, OrderedEmpty DEF write_in_io_thread
  <1>2. CASE write_some
    BY <1>2, OrderedAsync DEF write_some
  <1>3. CASE \/ \E s \in Breakable : Break(s)
             \/ UNCHANGED wvars
    <2>1. UNCHANGED <<written, posted, sockq, stream>> /\ \A s \in Sessions : up'[s] => up[s]
      BY <1>3 DEF Break, wvars, Typed, TypeOK
    <2>2. StartsPosted' /\ StartsWaiting' /\ WaitingFirst' /\ HeadsInWriteOrder'
      BY <2>1 DEF Ordered, StartsPosted, StartsWaiting, WaitingFirst, HeadsInWriteOrder, Starts
    <2>3. NoneLeftOut'
      BY <2>1 DEF Ordered, NoneLeftOut, Begun, ToBegin, Waits, Starts
    <2>4. Continued'
      BY <2>1, SameStream, ContinuedNext DEF Ordered, Continued
    <2> QED
      BY <2>2, <2>3, <2>4 DEF Ordered
  <1> QED
    BY <1>1, <1>2, <1>3, OrderedWrite, OrderedHandled, OrderedSend, OrderedFail
    DEF Steps, IoThread, Socket

\* Whatever threads call write(), however the socket cuts what it is offered
\* and whichever connections break, messages start on the wire in the order
\* of write(), none left out: write, write_in_io_thread and async_write.
THEOREM StartsInWriteOrder == Spec => []HeadsInWriteOrder
  <1>1. Ordered => HeadsInWriteOrder
    BY DEF Ordered
  <1> QED
    BY NextSteps, TypedInit, TypedStep, OrderedInit, OrderedStep, <1>1, PTL DEF Spec

-----------------------------------------------------------------------------
(* Each byte goes out at most once and in order: at most one write of a     *)
(* message is in progress, and it is where the pieces that went out end.    *)

SameWrite(a, b) == a.to = b.to /\ a.msg = b.msg

AlonePosted ==
  \A j, k \in DOMAIN posted : j # k => ~SameWrite(posted[j].op, posted[k].op)

AloneWaiting ==
  \A s \in Sessions : \A j, k \in DOMAIN sockq[s] :
    j # k => sockq[s][j].msg # sockq[s][k].msg

AloneAcross ==
  \A s \in Sessions : \A j \in DOMAIN sockq[s] : \A k \in DOMAIN posted :
    posted[k].op.to = s => sockq[s][j].msg # posted[k].op.msg

Ahead(op) ==
  \A k \in DOMAIN stream[op.to] :
    stream[op.to][k].msg = op.msg => stream[op.to][k].off + stream[op.to][k].n <= op.off

AllAhead ==
  /\ \A k \in DOMAIN posted : Ahead(posted[k].op)
  /\ \A s \in Sessions : \A k \in DOMAIN sockq[s] : Ahead(sockq[s][k])

Single == AlonePosted /\ AloneWaiting /\ AloneAcross /\ AllAhead /\ PiecesInOrder

LEMMA SingleInit == Init => Single
  BY DEF Init, Single, AlonePosted, AloneWaiting, AloneAcross, AllAhead, PiecesInOrder

AheadNext(op) ==
  \A k \in DOMAIN stream'[op.to] :
    stream'[op.to][k].msg = op.msg => stream'[op.to][k].off + stream'[op.to][k].n <= op.off

LEMMA AllAheadNext ==
  AllAhead' <=>
    /\ \A k \in DOMAIN posted' : AheadNext(posted'[k].op)
    /\ \A s \in Sessions : \A k \in DOMAIN sockq'[s] : AheadNext(sockq'[s][k])
  BY DEF AllAhead, Ahead, AheadNext

LEMMA SameAhead ==
  ASSUME UNCHANGED stream
  PROVE  \A op : Ahead(op) <=> AheadNext(op)
  BY DEF Ahead, AheadNext

LEMMA SingleWrite ==
  ASSUME Typed, Single, NEW s \in Sessions, NEW m \in Messages, write(s, m)
  PROVE  Single'
  <1> DEFINE L == Len(posted)
             W == Len(written[s])
             op == [to |-> s, msg |-> W + 1, off |-> 0]
             h == [run |-> "write_in_io_thread", op |-> op]
  <1>0. TypeOK /\ PostedWithin /\ WaitingWithin /\ StreamWithin
    BY DEF Typed
  <1>1. AlonePosted /\ AloneWaiting /\ AloneAcross /\ AllAhead /\ PiecesInOrder
    BY DEF Single
  <1>2. /\ DOMAIN posted' = 1 .. L + 1 /\ DOMAIN posted = 1 .. L /\ L \in Nat
        /\ \A k \in 1 .. L : posted'[k] = posted[k]
        /\ posted'[L + 1] = h
        /\ UNCHANGED <<sockq, stream, up>>
    BY <1>0, WriteEffect, EntryTypes
  <1>3. /\ DOMAIN written[s] = 1 .. W /\ W \in Nat /\ DOMAIN written'[s] = 1 .. W + 1
        /\ \A i \in 1 .. W : written'[s][i] = written[s][i]
        /\ \A r \in Sessions \ {s} : written'[r] = written[r]
    BY <1>0, WriteEffect
  <1>4. h.op = op /\ op.to = s /\ op.msg = W + 1 /\ op.off = 0
    OBVIOUS
  <1> HIDE DEF L, W, op, h
  <1>5. \A k \in 1 .. L : posted[k].op.to = s => posted[k].op.msg \in 1 .. W
    BY <1>0, <1>2, <1>3 DEF PostedWithin, HandlerWithin, Within
  <1>6. \A k \in DOMAIN sockq[s] : sockq[s][k].msg \in 1 .. W
    BY <1>0, <1>3 DEF WaitingWithin, WaitsWithin, Within
  <1>7. \A k \in DOMAIN stream[s] : stream[s][k].msg \in 1 .. W
    BY <1>0, <1>3 DEF StreamWithin
  <1>8. AlonePosted'
    <2> SUFFICES ASSUME NEW j \in DOMAIN posted', NEW k \in DOMAIN posted', j # k,
                        SameWrite(posted'[j].op, posted'[k].op)
                 PROVE  FALSE
      BY DEF AlonePosted, SameWrite
    <2>1. CASE j \in 1 .. L /\ k \in 1 .. L
      BY <1>1, <1>2, <2>1 DEF AlonePosted, SameWrite
    <2>2. CASE j = L + 1 \/ k = L + 1
      BY <1>2, <1>3, <1>4, <1>5, <2>2 DEF SameWrite
    <2> QED
      BY <1>2, <2>1, <2>2
  <1>9. AloneWaiting'
    BY <1>1, <1>2 DEF AloneWaiting
  <1>10. AloneAcross'
    <2> SUFFICES ASSUME NEW r \in Sessions, NEW j \in DOMAIN sockq[r],
                        NEW k \in DOMAIN posted', posted'[k].op.to = r,
                        sockq[r][j].msg = posted'[k].op.msg
                 PROVE  FALSE
      BY <1>2 DEF AloneAcross
    <2>1. CASE k \in 1 .. L
      BY <1>1, <1>2, <2>1 DEF AloneAcross
    <2>2. CASE k = L + 1
      BY <1>2, <1>3, <1>4, <1>6, <2>2
    <2> QED
      BY <1>2, <2>1, <2>2
  <1>11. AllAhead'
    <2>1. Ahead(op)
      BY <1>3, <1>4, <1>7 DEF Ahead
    <2>2. \A k \in DOMAIN posted' : Ahead(posted'[k].op)
      BY <1>1, <1>2, <1>4, <2>1 DEF AllAhead
    <2> QED
      BY <1>1, <1>2, <2>2, SameAhead, AllAheadNext DEF AllAhead
  <1>12. PiecesInOrder'
    <2>1. \A r \in Sessions : \A k \in DOMAIN stream[r] :
            written'[r][stream[r][k].msg] = written[r][stream[r][k].msg]
      BY <1>3, <1>7
    <2> QED
      BY <1>1, <1>2, <2>1 DEF PiecesInOrder
  <1> QED
    BY <1>8, <1>9, <1>10, <1>11, <1>12 DEF Single

LEMMA SingleHandled ==
  ASSUME Typed, Single, handle_write
  PROVE  Single'
  <1> DEFINE L == Len(posted)
  <1>1. AlonePosted /\ AloneWaiting /\ AloneAcross /\ AllAhead /\ PiecesInOrder
    BY DEF Single
  <1>2. /\ UNCHANGED <<written, sockq, stream, up>>
        /\ DOMAIN posted' = 1 .. L - 1 /\ L \in Nat
        /\ \A k \in 1 .. L - 1 : k + 1 \in DOMAIN posted /\ posted'[k] = posted[k + 1]
    BY HandledEffect DEF Typed
  <1> HIDE DEF L
  <1>3. AlonePosted'
    <2> SUFFICES ASSUME NEW j \in DOMAIN posted', NEW k \in DOMAIN posted', j # k,
                        SameWrite(posted'[j].op, posted'[k].op)
                 PROVE  FALSE
      BY DEF AlonePosted, SameWrite
    <2>1. j + 1 # k + 1
      BY <1>2
    <2> QED
      BY <1>1, <1>2, <2>1 DEF AlonePosted
  <1>4. AloneAcross'
    <2> SUFFICES ASSUME NEW r \in Sessions, NEW j \in DOMAIN sockq[r],
                        NEW k \in DOMAIN posted', posted'[k].op.to = r
                 PROVE  sockq[r][j].msg # posted'[k].op.msg
      BY <1>2 DEF AloneAcross
    <2> QED
      BY <1>1, <1>2 DEF AloneAcross
  <1>5. AloneWaiting' /\ PiecesInOrder'
    BY <1>1, <1>2 DEF AloneWaiting, PiecesInOrder
  <1>6. AllAhead'
    <2>1. \A k \in DOMAIN posted' : Ahead(posted'[k].op)
      BY <1>1, <1>2 DEF AllAhead
    <2> QED
      BY <1>1, <1>2, <2>1, SameAhead, AllAheadNext DEF AllAhead
  <1> QED
    BY <1>3, <1>4, <1>5, <1>6 DEF Single

LEMMA SingleAsync ==
  ASSUME Typed, Single, posted # <<>>, NEW op, op = Head(posted).op, async_write_some(op)
  PROVE  Single'
  <1> DEFINE L == Len(posted)
             s == op.to
             Q == Len(sockq[s])
  <1>0. TypeOK
    BY DEF Typed
  <1>1. AlonePosted /\ AloneWaiting /\ AloneAcross /\ AllAhead /\ PiecesInOrder
    BY DEF Single
  <1>2. /\ DOMAIN posted' = 1 .. L - 1 /\ DOMAIN posted = 1 .. L /\ L \in Nat \ {0}
        /\ \A k \in 1 .. L - 1 : posted'[k] = posted[k + 1]
        /\ op = posted[1].op /\ op.to \in Sessions
        /\ UNCHANGED <<written, stream, up>>
    BY <1>0, AsyncEffect, EntryTypes
  <1>3. /\ DOMAIN sockq[s] = 1 .. Q /\ Q \in Nat /\ DOMAIN sockq'[s] = 1 .. Q + 1
        /\ \A k \in 1 .. Q : sockq'[s][k] = sockq[s][k]
        /\ sockq'[s][Q + 1] = op
        /\ \A r \in Sessions \ {s} : sockq'[r] = sockq[r]
    BY <1>0, AsyncEffect
  <1> HIDE DEF L, Q, s
  <1>4. s \in Sessions /\ op.to = s /\ 1 \in DOMAIN posted
    BY <1>2 DEF s
  <1>5. \A k \in DOMAIN posted' :
          k + 1 \in DOMAIN posted /\ k + 1 # 1 /\ posted'[k] = posted[k + 1]
    BY <1>2
  <1>6. AlonePosted'
    <2> SUFFICES ASSUME NEW j \in DOMAIN posted', NEW k \in DOMAIN posted', j # k,
                        SameWrite(posted'[j].op, posted'[k].op)
                 PROVE  FALSE
      BY DEF AlonePosted, SameWrite
    <2>1. j + 1 # k + 1
      BY <1>2
    <2> QED
      BY <1>1, <1>5, <2>1 DEF AlonePosted
  <1>7. AloneWaiting'
    <2> SUFFICES ASSUME NEW r \in Sessions,
                        NEW j \in DOMAIN sockq'[r], NEW k \in DOMAIN sockq'[r], j # k,
                        sockq'[r][j].msg = sockq'[r][k].msg
                 PROVE  FALSE
      BY DEF AloneWaiting
    <2>1. CASE r # s
      BY <1>1, <1>3, <2>1 DEF AloneWaiting
    <2>2. CASE r = s /\ j \in 1 .. Q /\ k \in 1 .. Q
      BY <1>1, <1>3, <2>2 DEF AloneWaiting
    <2>3. CASE r = s /\ (j = Q + 1 \/ k = Q + 1)
      <3>1. \A l \in 1 .. Q : sockq'[s][l].msg # op.msg
        <4> SUFFICES ASSUME NEW l \in 1 .. Q PROVE sockq'[s][l].msg # op.msg
          OBVIOUS
        <4>1. l \in DOMAIN sockq[s] /\ sockq'[s][l] = sockq[s][l]
          BY <1>3
        <4>2. posted[1].op.to = s /\ posted[1].op.msg = op.msg
          BY <1>2, <1>4
        <4> QED
          BY <1>1, <1>4, <4>1, <4>2 DEF AloneAcross
      <3> QED
        BY <1>3, <2>3, <3>1
    <2> QED
      BY <1>3, <2>1, <2>2, <2>3
  <1>8. AloneAcross'
    <2> SUFFICES ASSUME NEW r \in Sessions, NEW j \in DOMAIN sockq'[r],
                        NEW k \in DOMAIN posted', posted'[k].op.to = r,
                        sockq'[r][j].msg = posted'[k].op.msg
                 PROVE  FALSE
      BY DEF AloneAcross
    <2>1. CASE r # s \/ j \in 1 .. Q
      <3>1. j \in DOMAIN sockq[r] /\ sockq'[r][j] = sockq[r][j]
        BY <1>3, <2>1
      <3> QED
        BY <1>1, <1>5, <3>1 DEF AloneAcross
    <2>2. CASE r = s /\ j = Q + 1
      <3>1. SameWrite(posted[k + 1].op, posted[1].op)
        BY <1>2, <1>3, <1>4, <1>5, <2>2 DEF SameWrite
      <3> QED
        BY <1>1, <1>4, <1>5, <3>1 DEF AlonePosted
    <2> QED
      BY <1>3, <2>1, <2>2
  <1>9. AllAhead'
    <2>1. \A k \in DOMAIN posted' : Ahead(posted'[k].op)
      BY <1>1, <1>5 DEF AllAhead
    <2>2. Ahead(op)
      BY <1>1, <1>2, <1>4 DEF AllAhead
    <2>3. \A r \in Sessions : \A k \in DOMAIN sockq'[r] : Ahead(sockq'[r][k])
      BY <1>1, <1>3, <2>2 DEF AllAhead
    <2> QED
      BY <1>2, <2>1, <2>3, SameAhead, AllAheadNext
  <1>10. PiecesInOrder'
    BY <1>1, <1>2 DEF PiecesInOrder
  <1> QED
    BY <1>6, <1>7, <1>8, <1>9, <1>10 DEF Single

LEMMA SingleEmpty ==
  ASSUME Typed, Single, posted # <<>>, NEW op, op = Head(posted).op,
         posted' = Post(Tail(posted), "write_some", op),
         UNCHANGED <<written, sockq, stream, up>>
  PROVE  Single'
  <1> DEFINE L == Len(posted)
             h == [run |-> "write_some", op |-> op]
             Origin(k) == IF k = L THEN 1 ELSE k + 1
  <1>1. AlonePosted /\ AloneWaiting /\ AloneAcross /\ AllAhead /\ PiecesInOrder
    BY DEF Single
  <1>2. /\ DOMAIN posted' = 1 .. L /\ DOMAIN posted = 1 .. L /\ L \in Nat \ {0}
        /\ \A k \in 1 .. L - 1 : posted'[k] = posted[k + 1]
        /\ posted'[L] = h /\ h.op = op /\ op = posted[1].op
    BY EmptyEffect, EntryTypes DEF Typed
  <1> HIDE DEF L, h
  <1>3. /\ \A k \in DOMAIN posted' :
             Origin(k) \in DOMAIN posted /\ posted'[k].op = posted[Origin(k)].op
        /\ \A j, k \in DOMAIN posted' : j # k => Origin(j) # Origin(k)
    BY <1>2
  <1> HIDE DEF Origin
  <1>4. AlonePosted'
    <2> SUFFICES ASSUME NEW j \in DOMAIN posted', NEW k \in DOMAIN posted', j # k,
                        SameWrite(posted'[j].op, posted'[k].op)
                 PROVE  FALSE
      BY DEF AlonePosted, SameWrite
    <2> QED
      BY <1>1, <1>3 DEF AlonePosted
  <1>5. AloneAcross'
    <2> SUFFICES ASSUME NEW r \in Sessions, NEW j \in DOMAIN sockq[r],
                        NEW k \in DOMAIN posted', posted'[k].op.to = r
                 PROVE  sockq[r][j].msg # posted'[k].op.msg
      BY DEF AloneAcross
    <2> QED
      BY <1>1, <1>3 DEF AloneAcross
  <1>6. AloneWaiting' /\ PiecesInOrder'
    BY <1>1 DEF AloneWaiting, PiecesInOrder
  <1>7. AllAhead'
    <2>1. \A k \in DOMAIN posted' : Ahead(posted'[k].op)
      BY <1>1, <1>3 DEF AllAhead
    <2> QED
      BY <1>1, <2>1, SameAhead, AllAheadNext DEF AllAhead
  <1> QED
    BY <1>4, <1>5, <1>6, <1>7 DEF Single

\* The write that is first in line at the socket leaves it, and what follows
\* it, of the same message, is posted.
LEMMA AloneMoved ==
  ASSUME Single, NEW s \in Sessions, NEW L \in Nat, NEW Q \in Nat \ {0},
         DOMAIN posted = 1 .. L, DOMAIN posted' = 1 .. L + 1,
         \A k \in 1 .. L : posted'[k] = posted[k],
         posted'[L + 1].op.to = s, posted'[L + 1].op.msg = sockq[s][1].msg,
         DOMAIN sockq[s] = 1 .. Q, DOMAIN sockq'[s] = 1 .. Q - 1,
         \A k \in 1 .. Q - 1 : sockq'[s][k] = sockq[s][k + 1],
         \A r \in Sessions \ {s} : sockq'[r] = sockq[r]
  PROVE  AlonePosted' /\ AloneWaiting' /\ AloneAcross'
  <1>1. AlonePosted /\ AloneWaiting /\ AloneAcross
    BY DEF Single
  <1>2. 1 \in DOMAIN sockq[s]
    OBVIOUS
  <1>3. \A k \in DOMAIN sockq'[s] :
          k + 1 \in DOMAIN sockq[s] /\ k + 1 # 1 /\ sockq'[s][k] = sockq[s][k + 1]
    OBVIOUS
  <1>4. AlonePosted'
    <2> SUFFICES ASSUME NEW j \in DOMAIN posted', NEW k \in DOMAIN posted', j # k,
                        SameWrite(posted'[j].op, posted'[k].op)
                 PROVE  FALSE
      BY DEF AlonePosted, SameWrite
    <2>1. CASE j \in 1 .. L /\ k \in 1 .. L
      BY <1>1, <2>1 DEF AlonePosted
    <2>2. CASE j = L + 1 \/ k = L + 1
      <3>1. \A l \in 1 .. L : ~(posted[l].op.to = s /\ posted[l].op.msg = sockq[s][1].msg)
        <4> SUFFICES ASSUME NEW l \in DOMAIN posted, posted[l].op.to = s
                     PROVE  posted[l].op.msg # sockq[s][1].msg
          OBVIOUS
        <4> QED
          BY <1>1, <1>2 DEF AloneAcross
      <3> QED
        BY <2>2, <3>1 DEF SameWrite
    <2> QED
      BY <2>1, <2>2
  <1>5. AloneWaiting'
    <2> SUFFICES ASSUME NEW r \in Sessions,
                        NEW j \in DOMAIN sockq'[r], NEW k \in DOMAIN sockq'[r], j # k,
                        sockq'[r][j].msg = sockq'[r][k].msg
                 PROVE  FALSE
      BY DEF AloneWaiting
    <2>1. CASE r # s
      BY <1>1, <2>1 DEF AloneWaiting
    <2>2. CASE r = s
      <3>1. j + 1 # k + 1
        BY <2>2
      <3> QED
        <4>1. /\ j + 1 \in DOMAIN sockq[s] /\ sockq'[s][j] = sockq[s][j + 1]
              /\ k + 1 \in DOMAIN sockq[s] /\ sockq'[s][k] = sockq[s][k + 1]
          BY <1>3, <2>2
        <4>2. sockq[s][j + 1].msg # sockq[s][k + 1].msg
          BY <1>1, <3>1, <4>1 DEF AloneWaiting
        <4> QED
          BY <2>2, <4>1, <4>2
    <2> QED
      BY <2>1, <2>2
  <1>6. AloneAcross'
    <2> SUFFICES ASSUME NEW r \in Sessions, NEW j \in DOMAIN sockq'[r],
                        NEW k \in DOMAIN posted', posted'[k].op.to = r,
                        sockq'[r][j].msg = posted'[k].op.msg
                 PROVE  FALSE
      BY DEF AloneAcross
    <2>1. CASE k \in 1 .. L
      <3>1. k \in DOMAIN posted /\ posted'[k] = posted[k]
        BY <2>1
      <3>2. CASE r # s
        BY <1>1, <3>1, <3>2 DEF AloneAcross
      <3>3. CASE r = s
        <4>1. j + 1 \in DOMAIN sockq[s] /\ sockq'[s][j] = sockq[s][j + 1]
          BY <1>3, <3>3
        <4> QED
          BY <1>1, <3>1, <3>3, <4>1 DEF AloneAcross
      <3> QED
        BY <3>2, <3>3
    <2>2. CASE k = L + 1
      <3>1. r = s /\ sockq'[s][j].msg = sockq[s][1].msg
        BY <2>2
      <3>2. /\ j + 1 \in DOMAIN sockq[s] /\ j + 1 # 1
            /\ sockq'[s][j] = sockq[s][j + 1]
        BY <1>3, <3>1
      <3>3. sockq[s][j + 1].msg # sockq[s][1].msg
        BY <1>1, <1>2, <3>2 DEF AloneWaiting
      <3> QED
        BY <3>1, <3>2, <3>3
    <2> QED
      BY <2>1, <2>2
  <1> QED
    BY <1>4, <1>5, <1>6

LEMMA SingleFail ==
  ASSUME Typed, Single, NEW s \in Sessions, SocketFail(s)
  PROVE  Single'
  <1> DEFINE op == sockq[s][1]
             h == [run |-> "error", op |-> op]
             L == Len(posted)
             Q == Len(sockq[s])
  <1>1. AllAhead /\ PiecesInOrder
    BY DEF Single
  <1>2. /\ DOMAIN posted' = 1 .. L + 1 /\ DOMAIN posted = 1 .. L /\ L \in Nat
        /\ \A k \in 1 .. L : posted'[k] = posted[k]
        /\ posted'[L + 1] = h /\ h.op = op /\ op.to = s
        /\ UNCHANGED <<written, stream>>
    BY FailEffect, EntryTypes DEF Typed
  <1>3. /\ DOMAIN sockq[s] = 1 .. Q /\ Q \in Nat \ {0} /\ DOMAIN sockq'[s] = 1 .. Q - 1
        /\ \A k \in 1 .. Q - 1 : sockq'[s][k] = sockq[s][k + 1]
        /\ \A r \in Sessions \ {s} : sockq'[r] = sockq[r]
    BY FailEffect
  <1> HIDE DEF h, L, Q
  <1>4. AlonePosted' /\ AloneWaiting' /\ AloneAcross'
    BY <1>2, <1>3, AloneMoved
  <1>5. AllAhead'
    <2>1. Ahead(op)
      BY <1>1, <1>3 DEF AllAhead
    <2> HIDE DEF op
    <2>2. \A k \in DOMAIN posted' : Ahead(posted'[k].op)
      BY <1>1, <1>2, <2>1 DEF AllAhead
    <2>3. \A k \in DOMAIN sockq'[s] :
            k + 1 \in DOMAIN sockq[s] /\ sockq'[s][k] = sockq[s][k + 1]
      BY <1>3
    <2>4. \A r \in Sessions : \A k \in DOMAIN sockq'[r] : Ahead(sockq'[r][k])
      BY <1>1, <1>3, <2>3 DEF AllAhead
    <2> QED
      BY <1>2, <2>2, <2>4, SameAhead, AllAheadNext
  <1>6. PiecesInOrder'
    BY <1>1, <1>2 DEF PiecesInOrder
  <1> QED
    BY <1>4, <1>5, <1>6 DEF Single

\* The piece starts where the write is, which every earlier piece of the
\* message is behind; what is left of the write starts where it ends.
LEMMA SingleSend ==
  ASSUME Typed, Ordered, Single, NEW s \in Sessions, SocketSend(s)
  PROVE  Single'
  <1>0. TypeOK
    BY DEF Typed
  <1>1. AlonePosted /\ AloneWaiting /\ AloneAcross /\ AllAhead /\ PiecesInOrder
    BY DEF Single
  <1>2. PICK n \in Nat \ {0} : Takes(s, n)
    BY SendEffect
  <1> DEFINE op == sockq[s][1]
             next == [to |-> s, msg |-> op.msg, off |-> op.off + n]
             piece == [msg |-> op.msg, off |-> op.off, n |-> n]
             h == [run |-> "write_some", op |-> next]
             L == Len(posted)
             Q == Len(sockq[s])
             S == Len(stream[s])
  <1>3. /\ DOMAIN posted' = 1 .. L + 1 /\ DOMAIN posted = 1 .. L /\ L \in Nat
        /\ \A k \in 1 .. L : posted'[k] = posted[k]
        /\ posted'[L + 1] = h
    BY <1>0, <1>2, EntryTypes DEF Takes
  <1>4. /\ DOMAIN stream[s] = 1 .. S /\ S \in Nat /\ DOMAIN stream'[s] = 1 .. S + 1
        /\ \A k \in 1 .. S : stream'[s][k] = stream[s][k]
        /\ stream'[s][S + 1] = piece
        /\ \A r \in Sessions \ {s} : stream'[r] = stream[r]
    BY <1>2 DEF Takes
  <1>5. /\ DOMAIN sockq[s] = 1 .. Q /\ Q \in Nat \ {0} /\ DOMAIN sockq'[s] = 1 .. Q - 1
        /\ \A k \in 1 .. Q - 1 : sockq'[s][k] = sockq[s][k + 1]
        /\ \A r \in Sessions \ {s} : sockq'[r] = sockq[r]
    BY <1>2 DEF Takes
  <1>6. /\ op.to = s /\ op.off \in Nat /\ op.off + n <= written[s][op.msg].len
        /\ UNCHANGED <<written, up>>
    BY <1>2 DEF Takes, Op
  <1>7. /\ h.op = next /\ next.to = s /\ next.msg = op.msg /\ next.off = op.off + n
        /\ piece.msg = op.msg /\ piece.off = op.off /\ piece.n = n
    OBVIOUS
  <1>8. Ahead(op) /\ Continues(op)
    BY <1>1, <1>5 DEF AllAhead, Ordered, Continued
  <1> HIDE DEF next, piece, h, L, Q, S
  <1>9. AlonePosted' /\ AloneWaiting' /\ AloneAcross'
    BY <1>3, <1>5, <1>7, AloneMoved
  <1>10. \A k \in DOMAIN posted : ~SameWrite(posted[k].op, op)
    <2> SUFFICES ASSUME NEW k \in DOMAIN posted, posted[k].op.to = s
                 PROVE  posted[k].op.msg # op.msg
      BY <1>6 DEF SameWrite
    <2> QED
      BY <1>1, <1>5 DEF AloneAcross
  <1>11. \A k \in DOMAIN sockq'[s] :
           /\ k + 1 \in DOMAIN sockq[s] /\ sockq'[s][k] = sockq[s][k + 1]
           /\ sockq[s][k + 1].msg # op.msg
    <2> SUFFICES ASSUME NEW k \in DOMAIN sockq'[s]
                 PROVE  /\ k + 1 \in DOMAIN sockq[s] /\ sockq'[s][k] = sockq[s][k + 1]
                        /\ sockq[s][k + 1].msg # op.msg
      OBVIOUS
    <2>1. k + 1 \in DOMAIN sockq[s] /\ 1 \in DOMAIN sockq[s] /\ k + 1 # 1
          /\ sockq'[s][k] = sockq[s][k + 1]
      BY <1>5
    <2> QED
      BY <1>1, <2>1 DEF AloneWaiting
  <1> HIDE DEF op
  <1>12. ASSUME NEW o, o.to \in Sessions, Ahead(o), ~SameWrite(o, op)
         PROVE  AheadNext(o)
    <2> SUFFICES ASSUME NEW k \in DOMAIN stream'[o.to], stream'[o.to][k].msg = o.msg
                 PROVE  stream'[o.to][k].off + stream'[o.to][k].n <= o.off
      BY DEF AheadNext
    <2>1. CASE o.to # s
      BY <1>4, <1>12, <2>1 DEF Ahead
    <2>2. CASE o.to = s /\ k \in 1 .. S
      BY <1>4, <1>12, <2>2 DEF Ahead
    <2>3. CASE o.to = s /\ k = S + 1
      BY <1>4, <1>6, <1>7, <1>12, <2>3 DEF SameWrite
    <2> QED
      BY <1>4, <2>1, <2>2, <2>3
  <1>13. AheadNext(next)
    <2> SUFFICES ASSUME NEW k \in DOMAIN stream'[s], stream'[s][k].msg = op.msg
                 PROVE  stream'[s][k].off + stream'[s][k].n <= op.off + n
      BY <1>7 DEF AheadNext
    <2>1. CASE k = S + 1
      BY <1>4, <1>6, <1>7, <2>1
    <2>2. CASE k \in 1 .. S
      <3>1. stream[s][k].off + stream[s][k].n <= op.off
        BY <1>4, <1>6, <1>8, <2>2 DEF Ahead
      <3>2. stream[s][k] \in Piece
        BY <1>0, <1>4, <2>2, EntryTypes
      <3> QED
        <4>1. stream[s][k].off \in Nat /\ stream[s][k].n \in Nat
          BY <3>2 DEF Piece
        <4>2. stream[s][k].off + stream[s][k].n <= op.off + n
          BY <1>6, <3>1, <4>1
        <4>3. stream'[s][k] = stream[s][k]
          BY <1>4, <2>2
        <4> QED
          BY <4>2, <4>3
    <2> QED
      BY <1>4, <2>1, <2>2
  <1>14. AllAhead'
    <2>1. \A k \in DOMAIN posted' : AheadNext(posted'[k].op)
      <3>1. \A k \in DOMAIN posted : posted[k].op.to \in Sessions
        BY <1>0, EntryTypes DEF Op
      <3> QED
        BY <1>1, <1>3, <1>7, <1>10, <1>12, <1>13, <3>1 DEF AllAhead
    <2>2. \A r \in Sessions : \A k \in DOMAIN sockq'[r] : AheadNext(sockq'[r][k])
      <3> SUFFICES ASSUME NEW r \in Sessions, NEW k \in DOMAIN sockq'[r]
                   PROVE  AheadNext(sockq'[r][k])
        OBVIOUS
      <3>1. CASE r # s
        <4>1. k \in DOMAIN sockq[r] /\ sockq'[r][k] = sockq[r][k]
          BY <1>5, <3>1
        <4>2. sockq[r][k].to = r
          BY <4>1 DEF Typed, WaitingWithin, WaitsWithin
        <4>3. Ahead(sockq[r][k])
          BY <1>1, <4>1 DEF AllAhead
        <4> QED
          BY <1>6, <1>12, <3>1, <4>1, <4>2, <4>3 DEF SameWrite
      <3>2. CASE r = s
        <4>1. sockq[s][k + 1].to = s
          BY <1>11, <3>2 DEF Typed, WaitingWithin, WaitsWithin
        <4>2. Ahead(sockq[s][k + 1])
          BY <1>1, <1>11, <3>2 DEF AllAhead
        <4> QED
          BY <1>11, <1>12, <3>2, <4>1, <4>2 DEF SameWrite
      <3> QED
        BY <3>1, <3>2
    <2> QED
      BY <2>1, <2>2, AllAheadNext
  <1>15. PiecesInOrder'
    <2> DEFINE InOrder(q, w, k) ==
                 /\ \A j \in 1 .. k - 1 : q[j].msg = q[k].msg => q[j].off # q[k].off
                 /\ q[k].off # 0 =>
                      \E j \in 1 .. k - 1 : q[j].msg = q[k].msg /\ q[j].off + q[j].n = q[k].off
                 /\ q[k].off + q[k].n <= w[q[k].msg].len
    <2>1. /\ PiecesInOrder <=> \A r \in Sessions : \A k \in DOMAIN stream[r] :
                                 InOrder(stream[r], written[r], k)
          /\ PiecesInOrder' <=> \A r \in Sessions : \A k \in DOMAIN stream'[r] :
                                  InOrder(stream'[r], written'[r], k)
      BY DEF PiecesInOrder
    <2> SUFFICES ASSUME NEW r \in Sessions, NEW k \in DOMAIN stream'[r]
                 PROVE  InOrder(stream'[r], written[r], k)
      BY <1>6, <2>1
    <2>2. CASE r # s
      <3>1. stream'[r] = stream[r]
        BY <1>4, <2>2
      <3> HIDE DEF InOrder
      <3> QED
        BY <1>1, <2>1, <3>1
    <2>3. CASE r = s /\ k \in 1 .. S
      <3>1. InOrder(stream[s], written[s], k)
        <4> HIDE DEF InOrder
        <4> QED
          BY <1>1, <1>4, <2>1, <2>3
      <3>2. \A j \in 1 .. k : stream'[s][j] = stream[s][j]
        BY <1>4, <2>3
      <3>3. stream'[s][k] = stream[s][k] /\ \A j \in 1 .. k - 1 : stream'[s][j] = stream[s][j]
        BY <1>4, <2>3, <3>2
      <3> QED
        BY <2>3, <3>1, <3>3
    <2>4. CASE r = s /\ k = S + 1
      <3>1. \A j \in 1 .. S : stream'[s][j] = stream[s][j] /\ stream[s][j] \in Piece
        BY <1>0, <1>4, EntryTypes
      <3>2. \A j \in 1 .. S : stream[s][j].msg = op.msg => stream[s][j].off # op.off
        <4> SUFFICES ASSUME NEW j \in 1 .. S, stream[s][j].msg = op.msg
                     PROVE  stream[s][j].off # op.off
          OBVIOUS
        <4>1. stream[s][j].off + stream[s][j].n <= op.off
          BY <1>4, <1>6, <1>8 DEF Ahead
        <4>2. stream[s][j].off \in Nat /\ stream[s][j].n \in Nat \ {0}
          BY <3>1 DEF Piece
        <4> QED
          BY <1>6, <4>1, <4>2
      <3>3. op.off # 0 => \E j \in 1 .. S : stream[s][j].msg = op.msg
                                            /\ stream[s][j].off + stream[s][j].n = op.off
        BY <1>4, <1>6, <1>8 DEF Continues
      <3>4. k - 1 = S /\ stream'[s][k].msg = op.msg /\ stream'[s][k].off = op.off
            /\ stream'[s][k].n = n
        BY <1>4, <1>7, <2>4
      <3> QED
        BY <1>6, <2>4, <3>1, <3>2, <3>3, <3>4
    <2> QED
      BY <1>4, <2>2, <2>3, <2>4
  <1> QED
    BY <1>9, <1>14, <1>15 DEF Single

LEMMA SingleStep == Typed /\ Ordered /\ Single /\ Steps => Single'
  <1> SUFFICES ASSUME Typed, Ordered, Single, Steps PROVE Single'
    OBVIOUS
  <1>1. CASE write_in_io_thread
    BY <1>1, SingleAsync, SingleEmpty DEF write_in_io_thread
  <1>2. CASE write_some
    BY <1>2, SingleAsync DEF write_some
  <1>3. CASE \/ \E s \in Breakable : Break(s)
             \/ UNCHANGED wvars
    <2>1. UNCHANGED <<written, posted, sockq, stream>>
      BY <1>3 DEF Break, wvars
    <2>2. AlonePosted' /\ AloneWaiting' /\ AloneAcross' /\ PiecesInOrder'
      BY <2>1 DEF Single, AlonePosted, AloneWaiting, AloneAcross, PiecesInOrder, SameWrite
    <2>3. AllAhead'
      BY <2>1, SameAhead, AllAheadNext DEF Single, AllAhead
    <2> QED
      BY <2>2, <2>3 DEF Single
  <1> QED
    BY <1>1, <1>2, <1>3, SingleWrite, SingleHandled, SingleSend, SingleFail
    DEF Steps, IoThread, Socket

\* The peer gets each byte of a message at most once and in order, however the
\* socket cuts it: async_write goes on where the last piece ended.
THEOREM EachByteOnceInOrder == Spec => []PiecesInOrder
  <1>1. Single => PiecesInOrder
    BY DEF Single
  <1> QED
    BY NextSteps, TypedInit, TypedStep, OrderedInit, OrderedStep, SingleInit, SingleStep, <1>1, PTL DEF Spec

-----------------------------------------------------------------------------
(* A message is not lost while the connection is up: until its last byte is *)
(* out, one of its handlers is posted or its write waits for the socket.    *)

ToHandle(s, i) ==
  \E k \in DOMAIN posted :
    posted[k].run # "error" /\ posted[k].op.to = s /\ posted[k].op.msg = i
InLine(s, i) == \E k \in DOMAIN sockq[s] : sockq[s][k].msg = i

NoneLost ==
  \A s \in Sessions : up[s] =>
    \A i \in DOMAIN written[s] :
      written[s][i].len # 0 => Sent(s, i) \/ ToHandle(s, i) \/ InLine(s, i)

LEMMA NoneLostInit == Init => NoneLost
  BY DEF Init, NoneLost

LEMMA LostWrite ==
  ASSUME Typed, NoneLost, NEW s \in Sessions, NEW m \in Messages, write(s, m)
  PROVE  NoneLost'
  <1>1. TypeOK /\ DOMAIN posted = 1 .. Len(posted) /\ Len(posted) \in Nat
    BY EntryTypes DEF Typed
  <1> DEFINE op == [to |-> s, msg |-> Len(written[s]) + 1, off |-> 0]
             L == Len(posted) + 1
  <1>0. /\ \A r \in Sessions : \A i \in DOMAIN written[r] :
             i \in DOMAIN written'[r] /\ written'[r][i] = written[r][i]
        /\ DOMAIN written'[s] = 1 .. Len(written[s]) + 1
        /\ DOMAIN written[s] = 1 .. Len(written[s]) /\ Len(written[s]) \in Nat
        /\ \A r \in Sessions \ {s} : written'[r] = written[r]
        /\ DOMAIN posted' = 1 .. L
        /\ \A k \in 1 .. Len(posted) : posted'[k] = posted[k]
        /\ posted'[L] = [run |-> "write_in_io_thread", op |-> op]
        /\ UNCHANGED <<sockq, stream, up>>
    BY <1>1, WriteEffect
  <1>2. SUFFICES ASSUME NEW r \in Sessions, up'[r], NEW i \in DOMAIN written'[r],
                        written'[r][i].len # 0
                 PROVE  Sent(r, i)' \/ ToHandle(r, i)' \/ InLine(r, i)'
    BY DEF NoneLost
  <1>3. UNCHANGED <<sockq, stream, up>> /\ \A k \in DOMAIN posted :
          k \in DOMAIN posted' /\ posted'[k] = posted[k]
    BY <1>0, <1>1
  <1>4. CASE i \in DOMAIN written[r]
    <2>1. written'[r][i] = written[r][i]
      BY <1>0, <1>4
    <2>2. Sent(r, i) \/ ToHandle(r, i) \/ InLine(r, i)
      BY <1>2, <1>3, <1>4, <2>1 DEF NoneLost
    <2> QED
      BY <1>3, <2>1, <2>2 DEF Sent, ToHandle, InLine
  <1>5. CASE i \notin DOMAIN written[r]
    <2>1. r = s /\ i = Len(written[s]) + 1
      BY <1>0, <1>2, <1>5
    <2>2. L \in DOMAIN posted' /\ posted'[L].run # "error"
          /\ posted'[L].op.to = s /\ posted'[L].op.msg = i
      BY <1>0, <1>1, <2>1
    <2> QED
      BY <2>1, <2>2 DEF ToHandle
  <1> QED
    BY <1>4, <1>5

\* Where message i of s is after the step.
Kept(s, i) == Sent(s, i)' \/ ToHandle(s, i)' \/ InLine(s, i)'

\* A step that writes nothing: where each message is has to be followed only
\* while the connection is up.
LEMMA LostUnless ==
  ASSUME NoneLost, UNCHANGED written, \A s \in Sessions : up'[s] => up[s],
         \A s \in Sessions : up'[s] =>
           \A i \in DOMAIN written[s] :
             written[s][i].len # 0 =>
               /\ Sent(s, i) => Kept(s, i)
               /\ ToHandle(s, i) => Kept(s, i)
               /\ InLine(s, i) => Kept(s, i)
  PROVE  NoneLost'
  <1>1. SUFFICES ASSUME NEW s \in Sessions, up'[s], NEW i \in DOMAIN written[s],
                        written[s][i].len # 0
                 PROVE  Kept(s, i)
    BY DEF NoneLost, Kept
  <1>2. Sent(s, i) \/ ToHandle(s, i) \/ InLine(s, i)
    BY <1>1 DEF NoneLost
  <1> QED
    BY <1>1, <1>2

LEMMA LostAsync ==
  ASSUME Typed, NoneLost, posted # <<>>, NEW op, op = Head(posted).op, async_write_some(op)
  PROVE  NoneLost'
  <1> DEFINE L == Len(posted)
             Q == Len(sockq[op.to])
  <1>1. TypeOK /\ DOMAIN posted = 1 .. L
    BY EntryTypes DEF Typed
  <1>2. /\ op = posted[1].op /\ op.to \in Sessions /\ L \in Nat \ {0}
        /\ DOMAIN posted' = 1 .. L - 1
        /\ \A k \in 1 .. L - 1 : posted'[k] = posted[k + 1]
        /\ DOMAIN sockq[op.to] = 1 .. Q /\ Q \in Nat
        /\ DOMAIN sockq'[op.to] = 1 .. Q + 1
        /\ \A k \in 1 .. Q : sockq'[op.to][k] = sockq[op.to][k]
        /\ sockq'[op.to][Q + 1] = op
        /\ \A r \in Sessions \ {op.to} : sockq'[r] = sockq[r]
        /\ UNCHANGED <<written, stream, up>>
    BY <1>1, AsyncEffect
  <1>3. ASSUME NEW s \in Sessions, NEW i, Sent(s, i) PROVE Kept(s, i)
    BY <1>2, <1>3 DEF Sent, Kept
  <1>4. ASSUME NEW s \in Sessions, NEW i, ToHandle(s, i) PROVE Kept(s, i)
    <2>1. PICK k \in DOMAIN posted :
            posted[k].run # "error" /\ posted[k].op.to = s /\ posted[k].op.msg = i
      BY <1>4 DEF ToHandle
    <2>2. CASE k = 1
      <3>1. s = op.to /\ Q + 1 \in DOMAIN sockq'[s] /\ sockq'[s][Q + 1].msg = i
        BY <1>2, <2>1, <2>2
      <3> QED
        BY <3>1 DEF InLine, Kept
    <2>3. CASE k # 1
      <3>1. k - 1 \in DOMAIN posted' /\ posted'[k - 1] = posted[k]
        BY <1>1, <1>2, <2>3
      <3> QED
        BY <2>1, <3>1 DEF ToHandle, Kept
    <2> QED
      BY <2>2, <2>3
  <1>5. ASSUME NEW s \in Sessions, NEW i, InLine(s, i) PROVE Kept(s, i)
    <2>1. PICK k \in DOMAIN sockq[s] : sockq[s][k].msg = i
      BY <1>5 DEF InLine
    <2>2. k \in DOMAIN sockq'[s] /\ sockq'[s][k] = sockq[s][k]
      <3>1. CASE s = op.to
        <4>1. k \in 1 .. Q /\ k \in 1 .. Q + 1
          BY <1>2, <2>1, <3>1
        <4> QED
          BY <1>2, <3>1, <4>1
      <3>2. CASE s # op.to
        BY <1>2, <2>1, <3>2
      <3> QED
        BY <3>1, <3>2
    <2> QED
      BY <2>1, <2>2 DEF InLine, Kept
  <1> QED
    BY <1>2, <1>3, <1>4, <1>5, LostUnless

LEMMA LostEmpty ==
  ASSUME Typed, NoneLost, posted # <<>>, NEW op, op = Head(posted).op,
         posted' = Post(Tail(posted), "write_some", op),
         UNCHANGED <<written, sockq, stream, up>>
  PROVE  NoneLost'
  <1> DEFINE L == Len(posted)
  <1>1. TypeOK /\ DOMAIN posted = 1 .. L
    BY EntryTypes DEF Typed
  <1>2. /\ op = posted[1].op /\ L \in Nat \ {0} /\ DOMAIN posted' = 1 .. L
        /\ \A k \in 1 .. L - 1 : posted'[k] = posted[k + 1]
        /\ posted'[L] = [run |-> "write_some", op |-> op]
    BY <1>1, EmptyEffect
  <1>3. ASSUME NEW s \in Sessions, NEW i, Sent(s, i) \/ InLine(s, i) PROVE Kept(s, i)
    BY <1>3 DEF Sent, InLine, Kept
  <1>4. ASSUME NEW s \in Sessions, NEW i, ToHandle(s, i) PROVE Kept(s, i)
    <2>1. PICK k \in DOMAIN posted :
            posted[k].run # "error" /\ posted[k].op.to = s /\ posted[k].op.msg = i
      BY <1>4 DEF ToHandle
    <2>2. CASE k = 1
      <3>1. /\ L \in DOMAIN posted' /\ posted'[L].run # "error"
            /\ posted'[L].op.to = s /\ posted'[L].op.msg = i
        BY <1>2, <2>1, <2>2
      <3> QED
        BY <3>1 DEF ToHandle, Kept
    <2>3. CASE k # 1
      <3>1. k - 1 \in DOMAIN posted' /\ posted'[k - 1] = posted[k]
        BY <1>1, <1>2, <2>3
      <3> QED
        BY <2>1, <3>1 DEF ToHandle, Kept
    <2> QED
      BY <2>2, <2>3
  <1> QED
    BY <1>3, <1>4, LostUnless

\* handle_write ends a message that is out, or one of a broken connection.
LEMMA LostHandled ==
  ASSUME Typed, Ordered, NoneLost, handle_write
  PROVE  NoneLost'
  <1> DEFINE L == Len(posted)
  <1>1. TypeOK /\ DOMAIN posted = 1 .. L /\ posted \in Seq(Handler)
    BY EntryTypes DEF Typed, TypeOK
  <1>2. /\ DOMAIN posted' = 1 .. L - 1 /\ L \in Nat
        /\ \A k \in 1 .. L - 1 : posted'[k] = posted[k + 1]
        /\ UNCHANGED <<written, sockq, stream, up>>
    BY <1>1, HandledEffect
  <1>3. ASSUME NEW s \in Sessions, NEW i, Sent(s, i) \/ InLine(s, i) PROVE Kept(s, i)
    BY <1>2, <1>3 DEF Sent, InLine, Kept
  <1>4. ASSUME NEW s \in Sessions, NEW i \in DOMAIN written[s], written[s][i].len # 0,
               ToHandle(s, i)
        PROVE  Kept(s, i)
    <2>1. PICK k \in DOMAIN posted :
            posted[k].run # "error" /\ posted[k].op.to = s /\ posted[k].op.msg = i
      BY <1>4 DEF ToHandle
    <2>2. CASE k = 1
      <3> DEFINE op == posted[1].op
      <3>1. posted[1].run = "write_some" /\ Left(op) = 0
        BY <1>1, <2>1, <2>2, FirstGone DEF handle_write
      <3>2. op \in Op /\ Within(op) /\ Continues(op)
        BY <1>1, <2>1, <2>2, EntryTypes
           DEF Typed, PostedWithin, HandlerWithin, Ordered, Continued
      <3>3. op.off = written[s][i].len
        <4>1. written[s][i].len \in Nat /\ op.off \in Nat
              /\ Left(op) = written[s][i].len - op.off
          BY <1>1, <2>1, <2>2, <3>2, LeftType, LengthType DEF Within
        <4> QED
          BY <3>1, <4>1
      <3>4. Sent(s, i)
        BY <1>4, <2>1, <2>2, <3>2, <3>3 DEF Continues, Sent
      <3> QED
        BY <1>3, <3>4
    <2>3. CASE k # 1
      <3>1. k - 1 \in DOMAIN posted' /\ posted'[k - 1] = posted[k]
        BY <1>1, <1>2, <2>3
      <3> QED
        BY <2>1, <3>1 DEF ToHandle, Kept
    <2> QED
      BY <2>2, <2>3
  <1> QED
    BY <1>2, <1>3, <1>4, LostUnless

LEMMA LostSend ==
  ASSUME Typed, NoneLost, NEW s \in Sessions, SocketSend(s)
  PROVE  NoneLost'
  <1>1. PICK n \in Nat \ {0} : Takes(s, n)
    BY SendEffect
  <1> DEFINE op == sockq[s][1]
             next == [to |-> s, msg |-> op.msg, off |-> op.off + n]
             L == Len(posted) + 1
             Q == Len(sockq[s])
  <1>2. /\ \A r \in Sessions : \A k \in DOMAIN stream[r] :
             k \in DOMAIN stream'[r] /\ stream'[r][k] = stream[r][k]
        /\ DOMAIN posted' = 1 .. L /\ Len(posted) \in Nat
        /\ \A k \in 1 .. Len(posted) : posted'[k] = posted[k]
        /\ posted'[L] = [run |-> "write_some", op |-> next]
        /\ Q \in Nat \ {0} /\ DOMAIN sockq[s] = 1 .. Q /\ DOMAIN sockq'[s] = 1 .. Q - 1
        /\ \A k \in 1 .. Q - 1 : sockq'[s][k] = sockq[s][k + 1]
        /\ \A r \in Sessions \ {s} : sockq'[r] = sockq[r]
        /\ UNCHANGED <<written, up>>
    <2>1. /\ DOMAIN stream[s] = 1 .. Len(stream[s]) /\ Len(stream[s]) \in Nat
          /\ DOMAIN stream'[s] = 1 .. Len(stream[s]) + 1
          /\ \A k \in 1 .. Len(stream[s]) : stream'[s][k] = stream[s][k]
          /\ \A r \in Sessions \ {s} : stream'[r] = stream[r]
      BY <1>1 DEF Takes
    <2>2. ASSUME NEW r \in Sessions, NEW k \in DOMAIN stream[r]
          PROVE  k \in DOMAIN stream'[r] /\ stream'[r][k] = stream[r][k]
      <3>1. CASE r = s
        <4>1. k \in 1 .. Len(stream[s]) /\ k \in 1 .. Len(stream[s]) + 1
          BY <2>1, <2>2, <3>1
        <4> QED
          BY <2>1, <3>1, <4>1
      <3>2. CASE r # s
        BY <2>1, <2>2, <3>2
      <3> QED
        BY <3>1, <3>2
    <2>3. /\ DOMAIN posted' = 1 .. L /\ Len(posted) \in Nat
          /\ \A k \in 1 .. Len(posted) : posted'[k] = posted[k]
          /\ posted'[L] = [run |-> "write_some", op |-> next]
          /\ Q \in Nat \ {0} /\ DOMAIN sockq[s] = 1 .. Q /\ DOMAIN sockq'[s] = 1 .. Q - 1
          /\ \A k \in 1 .. Q - 1 : sockq'[s][k] = sockq[s][k + 1]
          /\ \A r \in Sessions \ {s} : sockq'[r] = sockq[r]
          /\ UNCHANGED <<written, up>>
      BY <1>1 DEF Takes
    <2> QED
      BY <2>2, <2>3
  <1>3. DOMAIN posted = 1 .. Len(posted)
    BY EntryTypes DEF Typed
  <1>4. ASSUME NEW r \in Sessions, NEW i, Sent(r, i) PROVE Kept(r, i)
    BY <1>2, <1>4 DEF Sent, Kept
  <1>5. ASSUME NEW r \in Sessions, NEW i, ToHandle(r, i) PROVE Kept(r, i)
    BY <1>2, <1>3, <1>5 DEF ToHandle, Kept
  <1>6. ASSUME NEW r \in Sessions, NEW i, InLine(r, i) PROVE Kept(r, i)
    <2>1. PICK k \in DOMAIN sockq[r] : sockq[r][k].msg = i
      BY <1>6 DEF InLine
    <2>2. CASE r # s
      BY <1>2, <2>1, <2>2 DEF InLine, Kept
    <2>3. CASE r = s /\ k = 1
      <3>1. /\ L \in DOMAIN posted' /\ posted'[L].run # "error"
            /\ posted'[L].op.to = s /\ posted'[L].op.msg = i
        BY <1>2, <2>1, <2>3
      <3> QED
        BY <2>3, <3>1 DEF ToHandle, Kept
    <2>4. CASE r = s /\ k # 1
      <3>1. k \in 2 .. Q
        BY <1>2, <2>1, <2>4
      <3>2. k - 1 \in 1 .. Q - 1 /\ (k - 1) + 1 = k
        BY <1>2, <3>1
      <3>3. k - 1 \in DOMAIN sockq'[s] /\ sockq'[s][k - 1] = sockq[s][k]
        BY <1>2, <3>2
      <3> QED
        BY <2>1, <2>4, <3>3 DEF InLine, Kept
    <2> QED
      BY <2>2, <2>3, <2>4
  <1> QED
    BY <1>2, <1>4, <1>5, <1>6, LostUnless

LEMMA LostFail ==
  ASSUME Typed, NoneLost, NEW s \in Sessions, SocketFail(s)
  PROVE  NoneLost'
  <1>1. /\ ~up[s] /\ Len(posted) \in Nat
        /\ DOMAIN posted' = 1 .. Len(posted) + 1
        /\ \A k \in 1 .. Len(posted) : posted'[k] = posted[k]
        /\ \A r \in Sessions \ {s} : sockq'[r] = sockq[r]
        /\ UNCHANGED <<written, stream, up>>
    BY FailEffect
  <1>2. DOMAIN posted = 1 .. Len(posted)
    BY EntryTypes DEF Typed
  <1>3. ASSUME NEW r \in Sessions, NEW i, ToHandle(r, i) \/ Sent(r, i) PROVE Kept(r, i)
    BY <1>1, <1>2, <1>3 DEF ToHandle, Sent, Kept
  <1>4. ASSUME NEW r \in Sessions \ {s}, NEW i, InLine(r, i) PROVE Kept(r, i)
    BY <1>1, <1>4 DEF InLine, Kept
  <1> QED
    BY <1>1, <1>3, <1>4, LostUnless

LEMMA LostStep == Typed /\ Ordered /\ NoneLost /\ Steps => NoneLost'
  <1> SUFFICES ASSUME Typed, Ordered, NoneLost, Steps PROVE NoneLost'
    OBVIOUS
  <1>1. CASE write_in_io_thread
    BY <1>1, LostAsync, LostEmpty DEF write_in_io_thread
  <1>2. CASE write_some
    BY <1>2, LostAsync DEF write_some
  <1>3. CASE (\E s \in Breakable : Break(s)) \/ UNCHANGED wvars
    <2>1. UNCHANGED <<written, posted, sockq, stream>> /\ \A s \in Sessions : up'[s] => up[s]
      BY <1>3 DEF Break, wvars, Typed, TypeOK
    <2>2. ASSUME NEW s \in Sessions, NEW i
          PROVE  /\ Sent(s, i) => Kept(s, i)
                 /\ ToHandle(s, i) => Kept(s, i)
                 /\ InLine(s, i) => Kept(s, i)
      BY <2>1 DEF Sent, ToHandle, InLine, Kept
    <2> QED
      BY <2>1, <2>2, LostUnless
  <1> QED
    BY <1>1, <1>2, <1>3, LostWrite, LostHandled, LostSend, LostFail
    DEF Steps, IoThread, Socket

\* While a connection is up, no message given to write() is forgotten before
\* its last byte is out: a handler or a waiting write still has it.
THEOREM NothingForgotten == Spec => []NoneLost
  BY NextSteps, TypedInit, TypedStep, OrderedInit, OrderedStep, NoneLostInit, LostStep, PTL
  DEF Spec

-----------------------------------------------------------------------------
(* A socket that is never short of room takes every message whole, and then *)
(* piece k of a stream is message k.                                        *)

WholePosted == \A k \in DOMAIN posted : posted[k].run = "write_some" => Left(posted[k].op) = 0

WholeWaiting == \A s \in Sessions : \A k \in DOMAIN sockq[s] : sockq[s][k].off = 0

WholeStream ==
  \A s \in Sessions : \A k \in DOMAIN stream[s] :
    stream[s][k].off = 0 /\ stream[s][k].n = written[s][stream[s][k].msg].len

Whole == WholePosted /\ WholeWaiting /\ WholeStream

LEMMA WholeInit == Init => Whole
  BY DEF Init, Whole, WholePosted, WholeWaiting, WholeStream

LEMMA WholeWrite ==
  ASSUME Typed, Whole, NEW s \in Sessions, NEW m \in Messages, write(s, m)
  PROVE  Whole'
  <1> DEFINE op == [to |-> s, msg |-> Len(written[s]) + 1, off |-> 0]
             L == Len(posted) + 1
  <1>1. /\ TypeOK /\ DOMAIN posted = 1 .. Len(posted) /\ Len(posted) \in Nat
        /\ \A k \in DOMAIN posted : posted[k].op \in Op /\ Within(posted[k].op)
    BY EntryTypes DEF Typed, PostedWithin, HandlerWithin
  <1>2. /\ \A r \in Sessions : \A i \in DOMAIN written[r] :
             i \in DOMAIN written'[r] /\ written'[r][i] = written[r][i]
        /\ DOMAIN posted' = 1 .. L
        /\ \A k \in 1 .. Len(posted) : posted'[k] = posted[k]
        /\ posted'[L] = [run |-> "write_in_io_thread", op |-> op]
        /\ UNCHANGED <<sockq, stream, up>>
    BY <1>1, WriteEffect
  <1>3. ASSUME NEW k \in DOMAIN posted', posted'[k].run = "write_some"
        PROVE  LeftNext(posted'[k].op) = 0
    <2>1. k \in DOMAIN posted /\ posted'[k] = posted[k]
      BY <1>1, <1>2, <1>3
    <2>2. LeftNext(posted[k].op) = Left(posted[k].op)
      BY <1>1, <2>1, WithinKept
    <2> QED
      BY <1>3, <2>1, <2>2 DEF Whole, WholePosted
  <1>4. WholePosted'
    BY <1>3 DEF WholePosted, Left, LeftNext
  <1>5. WholeWaiting' /\ WholeStream'
    BY <1>2 DEF Whole, WholeWaiting, WholeStream, Typed, StreamWithin
  <1> QED
    BY <1>4, <1>5 DEF Whole

\* Only a first part is handed to the socket: none is left over for another.
LEMMA WholeAsync ==
  ASSUME Typed, Whole, posted # <<>>, NEW op, op = Head(posted).op, op.off = 0,
         async_write_some(op)
  PROVE  Whole'
  <1> DEFINE L == Len(posted)
             Q == Len(sockq[op.to])
  <1>1. TypeOK /\ DOMAIN posted = 1 .. L
    BY EntryTypes DEF Typed
  <1>2. /\ op = posted[1].op /\ op.to \in Sessions /\ L \in Nat \ {0}
        /\ DOMAIN posted' = 1 .. L - 1
        /\ \A k \in 1 .. L - 1 : posted'[k] = posted[k + 1]
        /\ DOMAIN sockq[op.to] = 1 .. Q /\ Q \in Nat
        /\ DOMAIN sockq'[op.to] = 1 .. Q + 1
        /\ \A k \in 1 .. Q : sockq'[op.to][k] = sockq[op.to][k]
        /\ sockq'[op.to][Q + 1] = op
        /\ \A r \in Sessions \ {op.to} : sockq'[r] = sockq[r]
        /\ UNCHANGED <<written, stream, up>>
    <2>1. /\ op = posted[1].op /\ op.to \in Sessions /\ Len(posted) \in Nat \ {0}
          /\ DOMAIN posted' = 1 .. Len(posted) - 1
          /\ \A k \in 1 .. Len(posted) - 1 : posted'[k] = posted[k + 1]
      BY <1>1, AsyncEffect
    <2>2. /\ DOMAIN sockq[op.to] = 1 .. Len(sockq[op.to]) /\ Len(sockq[op.to]) \in Nat
          /\ DOMAIN sockq'[op.to] = 1 .. Len(sockq[op.to]) + 1
          /\ \A k \in 1 .. Len(sockq[op.to]) : sockq'[op.to][k] = sockq[op.to][k]
      BY <1>1, AsyncEffect
    <2>3. /\ sockq'[op.to][Len(sockq[op.to]) + 1] = op
          /\ \A r \in Sessions \ {op.to} : sockq'[r] = sockq[r]
          /\ UNCHANGED <<written, stream, up>>
      BY <1>1, AsyncEffect
    <2> QED
      BY <2>1, <2>2, <2>3
  <1> HIDE DEF L
  <1>3. \A k \in DOMAIN posted' : k + 1 \in DOMAIN posted /\ posted'[k] = posted[k + 1]
    BY <1>1, <1>2
  <1>4. WholePosted'
    <2>1. \A k \in DOMAIN posted : posted[k].run = "write_some" => Left(posted[k].op) = 0
      BY DEF Whole, WholePosted
    <2>2. \A k \in DOMAIN posted' : posted'[k].run = "write_some" => Left(posted'[k].op) = 0
      BY <1>3, <2>1
    <2>3. written' = written
      BY <1>2
    <2> QED
      BY <2>2, <2>3 DEF WholePosted, Left
  <1>5. WholeWaiting'
    <2> HIDE DEF Q
    <2>1. \A k \in 1 .. Q : sockq[op.to][k].off = 0
      BY <1>2 DEF Whole, WholeWaiting
    <2>2. \A k \in 1 .. Q + 1 : k = Q + 1 \/ k \in 1 .. Q
      BY <1>2
    <2>3. DOMAIN sockq'[op.to] = 1 .. Q + 1
      BY <1>2
    <2>4. \A k \in 1 .. Q : sockq'[op.to][k].off = 0
      BY <1>2, <2>1
    <2>5. sockq'[op.to][Q + 1].off = 0
      BY <1>2
    <2>6. \A k \in DOMAIN sockq'[op.to] : sockq'[op.to][k].off = 0
      BY <2>2, <2>3, <2>4, <2>5
    <2>7. \A r \in Sessions \ {op.to} : \A k \in DOMAIN sockq'[r] : sockq'[r][k].off = 0
      BY <1>2 DEF Whole, WholeWaiting
    <2> QED
      BY <2>6, <2>7 DEF WholeWaiting
  <1>6. WholeStream'
    BY <1>2 DEF Whole, WholeStream
  <1> QED
    BY <1>4, <1>5, <1>6 DEF Whole

LEMMA WholeEmpty ==
  ASSUME Typed, Whole, posted # <<>>, NEW op, op = Head(posted).op, Left(op) = 0,
         posted' = Post(Tail(posted), "write_some", op),
         UNCHANGED <<written, sockq, stream, up>>
  PROVE  Whole'
  <1> DEFINE L == Len(posted)
  <1>1. TypeOK /\ DOMAIN posted = 1 .. L
    BY EntryTypes DEF Typed
  <1>2. /\ L \in Nat \ {0} /\ DOMAIN posted' = 1 .. L
        /\ \A k \in 1 .. L - 1 : posted'[k] = posted[k + 1]
        /\ posted'[L] = [run |-> "write_some", op |-> op]
    BY <1>1, EmptyEffect
  <1>3. ASSUME NEW k \in DOMAIN posted', posted'[k].run = "write_some"
        PROVE  Left(posted'[k].op) = 0
    <2>1. CASE k = L
      BY <1>2, <2>1
    <2>2. CASE k # L
      <3>1. k + 1 \in DOMAIN posted /\ posted'[k] = posted[k + 1]
        BY <1>1, <1>2, <2>2
      <3> QED
        BY <1>3, <3>1 DEF Whole, WholePosted
    <2> QED
      BY <2>1, <2>2
  <1>4. WholePosted'
    BY <1>3 DEF WholePosted, Left
  <1> QED
    BY <1>4 DEF Whole, WholeWaiting, WholeStream

LEMMA WholeSend ==
  ASSUME ShortCounts = {}, Typed, Whole, NEW s \in Sessions, SocketSend(s)
  PROVE  Whole'
  <1> DEFINE op == sockq[s][1]
             n == Left(op)
             next == [to |-> s, msg |-> op.msg, off |-> op.off + n]
             piece == [msg |-> op.msg, off |-> op.off, n |-> n]
             L == Len(posted) + 1
             T == Len(stream[s]) + 1
             Q == Len(sockq[s])
  <1>1. Takes(s, n)
    BY SendEffect
  <1>2. /\ DOMAIN stream[s] = 1 .. T - 1 /\ T \in Nat \ {0} /\ DOMAIN stream'[s] = 1 .. T
        /\ \A k \in 1 .. T - 1 : stream'[s][k] = stream[s][k]
        /\ stream'[s][T] = piece
        /\ \A r \in Sessions \ {s} : stream'[r] = stream[r]
    BY <1>1 DEF Takes
  <1>3. /\ DOMAIN posted' = 1 .. L /\ Len(posted) \in Nat
        /\ \A k \in 1 .. Len(posted) : posted'[k] = posted[k]
        /\ posted'[L] = [run |-> "write_some", op |-> next]
        /\ Q \in Nat \ {0} /\ DOMAIN sockq[s] = 1 .. Q /\ DOMAIN sockq'[s] = 1 .. Q - 1
        /\ \A k \in 1 .. Q - 1 : sockq'[s][k] = sockq[s][k + 1]
        /\ \A r \in Sessions \ {s} : sockq'[r] = sockq[r]
        /\ UNCHANGED <<written, up>>
    BY <1>1 DEF Takes
  <1>4. /\ op.off = 0 /\ op.to = s /\ op.msg \in DOMAIN written[s] /\ op \in Op
        /\ TypeOK /\ DOMAIN posted = 1 .. Len(posted)
    BY <1>1, <1>3, EntryTypes DEF Takes, Within, Typed, Whole, WholeWaiting
  <1> HIDE DEF op
  <1>5. n = written[s][op.msg].len /\ n \in Nat
    <2>1. written[s][op.msg].len \in Nat
      BY <1>4, LengthType
    <2>2. Left(op) = written[s][op.msg].len - 0
      BY <1>4 DEF Left
    <2> QED
      BY <2>1, <2>2
  <1> HIDE DEF n
  <1>6. Left(next) = 0 /\ piece.off = 0 /\ piece.n = written[s][piece.msg].len
    BY <1>4, <1>5 DEF Left
  <1> HIDE DEF next, piece
  <1>7. WholePosted'
    <2>1. ASSUME NEW k \in DOMAIN posted', posted'[k].run = "write_some"
          PROVE  Left(posted'[k].op) = 0
      <3>1. CASE k = L
        BY <1>3, <1>6, <3>1
      <3>2. CASE k # L
        <4>1. k \in DOMAIN posted /\ posted'[k] = posted[k]
          BY <1>3, <1>4, <3>2
        <4> QED
          BY <2>1, <4>1 DEF Whole, WholePosted
      <3> QED
        BY <3>1, <3>2
    <2> QED
      BY <1>3, <2>1 DEF WholePosted, Left
  <1>8. WholeWaiting'
    <2>1. \A k \in 1 .. Q - 1 : k + 1 \in DOMAIN sockq[s] /\ sockq'[s][k] = sockq[s][k + 1]
      BY <1>3
    <2>2. \A k \in DOMAIN sockq'[s] : sockq'[s][k].off = 0
      BY <1>3, <2>1 DEF Whole, WholeWaiting
    <2>3. \A r \in Sessions \ {s} : \A k \in DOMAIN sockq'[r] : sockq'[r][k].off = 0
      BY <1>3 DEF Whole, WholeWaiting
    <2> QED
      BY <2>2, <2>3 DEF WholeWaiting
  <1>9. WholeStream'
    <2>1. ASSUME NEW k \in DOMAIN stream'[s]
          PROVE  stream'[s][k].off = 0 /\ stream'[s][k].n = written[s][stream'[s][k].msg].len
      <3>1. CASE k = T
        BY <1>2, <1>6, <3>1
      <3>2. CASE k # T
        <4>1. k \in DOMAIN stream[s] /\ stream'[s][k] = stream[s][k]
          BY <1>2, <3>2
        <4> QED
          BY <4>1 DEF Whole, WholeStream
      <3> QED
        BY <3>1, <3>2
    <2>2. ASSUME NEW r \in Sessions \ {s}, NEW k \in DOMAIN stream'[r]
          PROVE  stream'[r][k].off = 0 /\ stream'[r][k].n = written[r][stream'[r][k].msg].len
      <3>1. stream'[r] = stream[r]
        BY <1>2
      <3> QED
        BY <3>1 DEF Whole, WholeStream
    <2>3. written' = written
      BY <1>3
    <2>4. ASSUME NEW r \in Sessions, NEW k \in DOMAIN stream'[r]
          PROVE  stream'[r][k].off = 0 /\ stream'[r][k].n = written[r][stream'[r][k].msg].len
      <3>1. CASE r = s
        BY <2>1, <3>1
      <3>2. CASE r # s
        BY <2>2, <3>2
      <3> QED
        BY <3>1, <3>2
    <2> QED
      BY <2>3, <2>4 DEF WholeStream
  <1> QED
    BY <1>7, <1>8, <1>9 DEF Whole

LEMMA WholeFail ==
  ASSUME Typed, Whole, NEW s \in Sessions, SocketFail(s)
  PROVE  Whole'
  <1> DEFINE op == sockq[s][1]
             Q == Len(sockq[s])
             L == Len(posted) + 1
  <1>1. /\ Len(posted) \in Nat /\ DOMAIN posted' = 1 .. L
        /\ \A k \in 1 .. Len(posted) : posted'[k] = posted[k]
        /\ posted'[L] = [run |-> "error", op |-> op]
        /\ Q \in Nat \ {0} /\ DOMAIN sockq[s] = 1 .. Q /\ DOMAIN sockq'[s] = 1 .. Q - 1
        /\ \A k \in 1 .. Q - 1 : sockq'[s][k] = sockq[s][k + 1]
        /\ \A r \in Sessions \ {s} : sockq'[r] = sockq[r]
        /\ UNCHANGED <<written, stream, up>>
    BY FailEffect
  <1>2. DOMAIN posted = 1 .. Len(posted)
    BY EntryTypes DEF Typed
  <1>3. WholePosted'
    BY <1>1, <1>2 DEF Whole, WholePosted, Left
  <1>4. WholeWaiting'
    <2>1. \A k \in 1 .. Q - 1 : k + 1 \in DOMAIN sockq[s] /\ sockq'[s][k] = sockq[s][k + 1]
      BY <1>1
    <2>2. \A k \in DOMAIN sockq[s] : sockq[s][k].off = 0
      BY DEF Whole, WholeWaiting
    <2>3. DOMAIN sockq'[s] = 1 .. Q - 1
      BY <1>1
    <2>4. \A k \in DOMAIN sockq'[s] : sockq'[s][k].off = 0
      BY <2>1, <2>2, <2>3
    <2>5. \A r \in Sessions \ {s} : \A k \in DOMAIN sockq'[r] : sockq'[r][k].off = 0
      BY <1>1 DEF Whole, WholeWaiting
    <2> QED
      BY <2>4, <2>5 DEF WholeWaiting
  <1> QED
    BY <1>1, <1>3, <1>4 DEF Whole, WholeStream

LEMMA WholeStep == ShortCounts = {} /\ Typed /\ Whole /\ Steps => Whole'
  <1> SUFFICES ASSUME ShortCounts = {}, Typed, Whole, Steps PROVE Whole'
    OBVIOUS
  <1>1. posted # <<>> => 1 \in DOMAIN posted /\ Head(posted) = posted[1]
    BY FirstGone DEF Typed, TypeOK
  <1>2. CASE write_in_io_thread
    <2>1. Head(posted).op.off = 0
      BY <1>1, <1>2 DEF write_in_io_thread, Typed, PostedWithin, HandlerWithin
    <2> QED
      BY <1>2, <2>1, WholeAsync, WholeEmpty DEF write_in_io_thread
  <1>3. CASE write_some
    BY <1>1, <1>3 DEF write_some, Whole, WholePosted
  <1>4. CASE handle_write
    <2>1. /\ DOMAIN posted' = 1 .. Len(posted) - 1
          /\ \A k \in 1 .. Len(posted) - 1 :
               posted'[k] = posted[k + 1] /\ k + 1 \in DOMAIN posted
          /\ UNCHANGED <<written, sockq, stream, up>>
      BY <1>4, HandledEffect DEF Typed
    <2> QED
      BY <2>1 DEF Whole, WholePosted, WholeWaiting, WholeStream, Left
  <1>5. CASE (\E s \in Breakable : Break(s)) \/ UNCHANGED wvars
    <2>1. UNCHANGED <<written, posted, sockq, stream>>
      BY <1>5 DEF Break, wvars
    <2> QED
      BY <2>1 DEF Whole, WholePosted, WholeWaiting, WholeStream, Left
  <1> QED
    BY <1>2, <1>3, <1>4, <1>5, WholeWrite, WholeSend, WholeFail DEF Steps, IoThread, Socket

\* Messages are cut up on the wire only by partial writes: when the socket
\* always takes what it is offered, each is contiguous, whichever threads call
\* write() and whenever the connection breaks.
THEOREM ContiguousUnlessCut ==
  ASSUME ShortCounts = {}
  PROVE  Spec => []FramesContiguous
  <1>1. Whole => FramesContiguous
    BY DEF Whole, WholeStream, FramesContiguous
  <1>2. Typed /\ Whole /\ [Next]_wvars => Whole'
    BY WholeStep, NextSteps
  <1> QED
    BY <1>1, <1>2, NextSteps, TypedInit, TypedStep, WholeInit, PTL DEF Spec

InPlace == \A s \in Sessions : \A k \in DOMAIN stream[s] : stream[s][k].msg = k

NonEmpty == \A s \in Sessions : \A i \in DOMAIN written[s] : written[s][i].len # 0

LEMMA InPlaceInit == Init => InPlace
  BY DEF Init, InPlace

\* The write that is first in line is of the message after those that are out.
LEMMA NextOut ==
  ASSUME Typed, Ordered, Single, Whole, InPlace, NonEmpty,
         NEW s \in Sessions, up[s], 1 \in DOMAIN sockq[s]
  PROVE  sockq[s][1].msg = Len(stream[s]) + 1
  <1> DEFINE op == sockq[s][1]
             T == Len(stream[s])
             W == Len(written[s])
  <1>1. /\ DOMAIN stream[s] = 1 .. T /\ T \in Nat
        /\ DOMAIN written[s] = 1 .. W /\ W \in Nat
        /\ sockq[s] \in Seq(Op) /\ DOMAIN sockq[s] = 1 .. Len(sockq[s])
    BY DEF Typed, TypeOK
  <1>2. op \in Op /\ op.msg \in 1 .. W /\ op.off = 0 /\ op.to = s
    BY <1>1 DEF Typed, WaitingWithin, WaitsWithin, Within, Whole, WholeWaiting
  <1>3. \A i \in 1 .. op.msg - 1 : i \in 1 .. T
    <2> SUFFICES ASSUME NEW i \in 1 .. op.msg - 1 PROVE i \in 1 .. T
      OBVIOUS
    <2>1. i \in DOMAIN written[s] /\ i < op.msg /\ ~(op.msg < i)
      BY <1>1, <1>2
    <2>2. Begun(s, i) \/ ToBegin(s, i) \/ Waits(s, i)
      BY <2>1 DEF NonEmpty, Ordered, NoneLeftOut
    <2>3. ~ToBegin(s, i)
      BY <1>2, <2>1 DEF ToBegin, Ordered, WaitingFirst
    <2>4. ~Waits(s, i)
      <3>1. SUFFICES ASSUME NEW k \in DOMAIN sockq[s], sockq[s][k].msg = i, sockq[s][k].off = 0
                     PROVE  FALSE
        BY DEF Waits
      <3>2. k # 1
        BY <2>1, <3>1
      <3>3. 1 < k
        BY <1>1, <3>2
      <3> QED
        BY <1>2, <2>1, <3>1, <3>3 DEF Ordered, StartsWaiting
    <2> QED
      BY <1>1, <2>2, <2>3, <2>4 DEF Begun, InPlace
  <1>4. op.msg \notin 1 .. T
    <2> SUFFICES ASSUME op.msg \in DOMAIN stream[s] PROVE FALSE
      BY <1>1
    <2>1. stream[s][op.msg].msg = op.msg /\ stream[s][op.msg] \in Piece
      BY EntryTypes DEF InPlace, Typed
    <2>2. stream[s][op.msg].off + stream[s][op.msg].n <= op.off
      BY <1>2, <2>1 DEF Single, AllAhead, Ahead
    <2>3. stream[s][op.msg].off \in Nat /\ stream[s][op.msg].n \in Nat \ {0}
      BY <2>1 DEF Piece
    <2> QED
      BY <1>2, <2>2, <2>3
  <1>5. op.msg \in Nat \ {0}
    BY <1>1, <1>2
  <1> HIDE DEF op, T, W
  <1>6. op.msg = T + 1
    <2>1. op.msg - 1 <= T
      <3>1. CASE op.msg = 1
        BY <1>1, <3>1
      <3>2. CASE op.msg # 1
        <4>1. op.msg - 1 \in 1 .. op.msg - 1
          BY <1>5, <3>2
        <4> QED
          BY <1>1, <1>3, <4>1
      <3> QED
        BY <3>1, <3>2
    <2> QED
      BY <1>1, <1>4, <1>5, <2>1
  <1> QED
    BY <1>6 DEF op, T

\* What the socket takes: the whole of the next message.
LEMMA OneMoreOut ==
  ASSUME Typed, Ordered, Single, Whole, InPlace, NonEmpty,
         NEW s \in Sessions, SocketSend(s)
  PROVE  LET T == Len(stream[s])
         IN  /\ T \in Nat /\ T + 1 \in DOMAIN written[s] /\ UNCHANGED written
             /\ DOMAIN stream[s] = 1 .. T /\ DOMAIN stream'[s] = 1 .. T + 1
             /\ \A k \in 1 .. T : stream'[s][k] = stream[s][k]
             /\ stream'[s][T + 1].msg = T + 1
             /\ \A r \in Sessions \ {s} : stream'[r] = stream[r]
  <1> DEFINE T == Len(stream[s])
  <1>1. PICK n \in Nat \ {0} : Takes(s, n)
    BY SendEffect
  <1>2. /\ T \in Nat /\ DOMAIN stream[s] = 1 .. T /\ DOMAIN stream'[s] = 1 .. T + 1
        /\ \A k \in 1 .. T : stream'[s][k] = stream[s][k]
        /\ stream'[s][T + 1].msg = sockq[s][1].msg
        /\ \A r \in Sessions \ {s} : stream'[r] = stream[r]
        /\ UNCHANGED written
    BY <1>1 DEF Takes
  <1>3. up[s] /\ 1 \in DOMAIN sockq[s]
    BY <1>1 DEF Takes
  <1>4. sockq[s][1].msg = T + 1
    BY <1>3, NextOut
  <1>5. sockq[s][1].msg \in DOMAIN written[s]
    BY <1>3 DEF Typed, WaitingWithin, WaitsWithin, Within
  <1> QED
    BY <1>2, <1>4, <1>5

LEMMA InPlaceStep ==
  Typed /\ Ordered /\ Single /\ Whole /\ NonEmpty /\ InPlace /\ Steps => InPlace'
  <1> SUFFICES ASSUME Typed, Ordered, Single, Whole, NonEmpty, InPlace, Steps PROVE InPlace'
    OBVIOUS
  <1>1. ASSUME NEW s \in Sessions, SocketSend(s) PROVE InPlace'
    <2> DEFINE T == Len(stream[s])
    <2>1. /\ T \in Nat /\ DOMAIN stream[s] = 1 .. T /\ DOMAIN stream'[s] = 1 .. T + 1
          /\ \A k \in 1 .. T : stream'[s][k] = stream[s][k]
          /\ stream'[s][T + 1].msg = T + 1
          /\ \A r \in Sessions \ {s} : stream'[r] = stream[r]
      BY <1>1, OneMoreOut
    <2>2. \A k \in 1 .. T + 1 : k \in 1 .. T \/ k = T + 1
      BY <2>1
    <2>3. \A k \in DOMAIN stream'[s] : stream'[s][k].msg = k
      BY <2>1, <2>2 DEF InPlace
    <2>4. \A r \in Sessions \ {s} : \A k \in DOMAIN stream'[r] : stream'[r][k].msg = k
      BY <2>1 DEF InPlace
    <2> QED
      BY <2>3, <2>4 DEF InPlace
  <1>2. CASE UNCHANGED stream
    BY <1>2 DEF InPlace
  <1>3. Steps => UNCHANGED stream \/ \E s \in Sessions : SocketSend(s)
    BY DEF Steps, write, IoThread, write_in_io_thread, write_some, handle_write,
       async_write_some, Socket, SocketFail, Break, wvars
  <1> QED
    BY <1>1, <1>2, <1>3
=============================================================================
