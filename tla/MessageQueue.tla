---------------------------- MODULE MessageQueue ----------------------------
(***************************************************************************)
(* What a buffer between threads promises: messages come out once and in   *)
(* the order they went in, and a thread that asks for one gets one once    *)
(* there is one.  The promise has a limit, which the code sets: once       *)
(* anything has been put, asking for more than there is is undefined.      *)
(***************************************************************************)
EXTENDS Sequences

CONSTANTS Takers, Messages

VARIABLES
  queue,     \* the messages put and not taken, oldest first
  got,       \* every message taken, in order
  asking,    \* the threads that want a message
  undefined  \* somebody took what was not there

vars == <<queue, got, asking, undefined>>

Init == queue = <<>> /\ got = <<>> /\ asking = {} /\ undefined = FALSE

Put(m) ==
  /\ queue' = Append(queue, m)
  /\ UNCHANGED <<got, asking, undefined>>

Ask(t) ==
  /\ asking' = asking \cup {t}
  /\ UNCHANGED <<queue, got, undefined>>

Take(t) ==
  /\ ~undefined /\ t \in asking /\ queue # <<>>
  /\ got' = Append(got, Head(queue))
  /\ queue' = Tail(queue)
  /\ asking' = asking \ {t}
  /\ UNCHANGED undefined

TakeFromNothing(t) ==
  /\ t \in asking /\ queue = <<>> /\ got # <<>>
  /\ undefined' = TRUE
  /\ UNCHANGED <<queue, got, asking>>

Next ==
  \/ \E m \in Messages : Put(m)
  \/ \E t \in Takers : Ask(t) \/ Take(t) \/ TakeFromNothing(t)

Spec == Init /\ [][Next]_vars /\ WF_vars(\E t \in Takers : Take(t))
=============================================================================
