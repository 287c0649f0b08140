-------------------------- MODULE OFPBufferProofs ---------------------------
(***************************************************************************)
(* Proofs, for any threads and any number of messages, that OFPBuffer      *)
(* keeps its types and its lock, that one taker that asks the size first   *)
(* is safe, that every step of the buffer is a step of the abstract queue  *)
(* or none, and that no notification is lost.                              *)
(***************************************************************************)
EXTENDS OFPBuffer, FiniteSetTheorems, TLAPS

\* How many messages of a thread there are is a number.
LEMMA CountIsNat ==
  ASSUME NEW q \in Seq(Messages), NEW t
  PROVE  CountOf(q, t) \in Nat
  <1> DEFINE mine == {k \in DOMAIN q : q[k][1] = t}
  <1>1. IsFiniteSet(1 .. Len(q))
    BY FS_Interval
  <1>2. mine \in SUBSET (1 .. Len(q))
    OBVIOUS
  <1>3. IsFiniteSet(mine)
    BY <1>1, <1>2, FS_Subset
  <1> QED
    BY <1>3, FS_CardinalityType DEF CountOf

-----------------------------------------------------------------------------
(* Types, the lock, and what a thread may be at. *)

Roles ==
  \A t \in Threads :
    /\ at[t] \in {"push", "notify"} => t \in Pushers
    /\ at[t] \in {"nonempty", "getFront", "front"} => t \in Takers

\* Who is about to push has not pushed its last message.
OneLeft == \A t \in Pushers : at[t] = "push" => PushedBy(t) < MaxPushed

Typed == TypeOK /\ Roles /\ OneLeft

LEMMA TypedInit == Init => Typed
  <1> SUFFICES ASSUME Init PROVE Typed
    OBVIOUS
  <1>1. \A t \in Threads : at[t] = "idle" /\ queue_mutex_ # t
    BY BufferAssumption DEF Init, Threads
  <1>2. TypeOK
    <2>1. \A t \in Threads : at[t] \in {"push", "front"} <=> queue_mutex_ = t
      BY <1>1
    <2>2. buffer_ \in Seq(Messages) /\ taken \in Seq(Messages)
      BY DEF Init
    <2>3. at \in [Threads -> {"idle", "push", "notify", "nonempty", "getFront", "front"}]
      BY DEF Init
    <2> QED
      BY <2>1, <2>2, <2>3 DEF Init, TypeOK
  <1>3. Roles /\ OneLeft
    BY <1>1 DEF Roles, OneLeft, Threads
  <1> QED
    BY <1>2, <1>3 DEF Typed

LEMMA TypedStep == Typed /\ [Next]_vars => Typed'
  <1> SUFFICES ASSUME Typed, [Next]_vars PROVE Typed'
    OBVIOUS
  <1>0. Pushers \subseteq Threads /\ Takers \subseteq Threads
        /\ Pushers \cap Takers = {} /\ NoThread \notin Threads
    BY BufferAssumption DEF Threads
  <1> USE DEF Typed, Roles, OneLeft, Goes, lock, unlock, history
  <1>1. ASSUME NEW t \in Pushers, enter_pushBack(t) PROVE Typed'
    <2>1. TypeOK' /\ Roles'
      BY <1>0, <1>1 DEF enter_pushBack, TypeOK
    <2>2. OneLeft'
      BY <1>0, <1>1 DEF enter_pushBack, TypeOK, PushedBy
    <2> QED
      BY <2>1, <2>2
  <1>2. ASSUME NEW t \in Pushers, push(t) PROVE Typed'
    <2> DEFINE m == <<t, PushedBy(t) + 1>>
    <2>1. PushedBy(t) \in Nat
      BY CountIsNat DEF PushedBy, TypeOK
    <2>2. m \in Messages
      BY <1>2, <2>1, BufferAssumption DEF push, Messages
    <2> HIDE DEF m
    <2>3. Append(buffer_, m) \in Seq(Messages)
      BY <2>2 DEF TypeOK
    <2>4. buffer_' = Append(buffer_, m)
      BY <1>2 DEF push, m
    <2>5. queue_mutex_ = t
      BY <1>0, <1>2 DEF push, TypeOK
    <2>6. TypeOK' /\ Roles'
      BY <1>0, <1>2, <2>3, <2>4, <2>5 DEF push, TypeOK
    <2>7. OneLeft'
      BY <1>0, <2>6, <1>2 DEF push, TypeOK
    <2> QED
      BY <2>6, <2>7
  <1>3. ASSUME NEW t \in Pushers, notify_one(t) PROVE Typed'
    <2>1. empty_' \subseteq Takers
      BY <1>3 DEF notify_one, TypeOK
    <2>2. TypeOK' /\ Roles'
      BY <1>0, <1>3, <2>1 DEF notify_one, TypeOK
    <2>3. OneLeft'
      BY <1>0, <1>3 DEF notify_one, TypeOK, PushedBy
    <2> QED
      BY <2>2, <2>3
  <1>4. ASSUME NEW t \in Takers, getSzie(t) PROVE Typed'
    <2>1. PICK to \in {"nonempty", "idle"} : Goes(t, "idle", to)
      BY <1>4 DEF getSzie
    <2>2. TypeOK' /\ Roles'
      BY <1>0, <1>4, <2>1 DEF getSzie, TypeOK
    <2>3. OneLeft'
      BY <1>0, <1>4, <2>1 DEF getSzie, TypeOK, PushedBy
    <2> QED
      BY <2>2, <2>3
  <1>5. ASSUME NEW t \in Takers, getFront(t) PROVE Typed'
    <2>1. TypeOK' /\ Roles'
      BY <1>0, <1>5 DEF getFront, TypeOK
    <2>2. OneLeft'
      BY <1>0, <1>5 DEF getFront, TypeOK, PushedBy
    <2> QED
      BY <2>1, <2>2
  <1>6. ASSUME NEW t \in Takers, enter_getFront(t) PROVE Typed'
    <2>1. TypeOK' /\ Roles'
      BY <1>0, <1>6 DEF enter_getFront, TypeOK
    <2>2. OneLeft'
      BY <1>0, <1>6 DEF enter_getFront, TypeOK, PushedBy
    <2> QED
      BY <2>1, <2>2
  <1>7. ASSUME NEW t \in Takers, wait(t) PROVE Typed'
    <2>1. TypeOK' /\ Roles'
      BY <1>0, <1>7 DEF wait, TypeOK
    <2>2. OneLeft'
      BY <1>0, <1>7 DEF wait, TypeOK, PushedBy
    <2> QED
      BY <2>1, <2>2
  <1>8. ASSUME NEW t \in Takers, front(t) PROVE Typed'
    <2>1. Head(buffer_) \in Messages /\ Tail(buffer_) \in Seq(Messages)
      BY <1>8 DEF front, TypeOK
    <2>2. Append(taken, Head(buffer_)) \in Seq(Messages)
      BY <2>1 DEF TypeOK
    <2>3. TypeOK' /\ Roles'
      BY <1>0, <1>8, <2>1, <2>2 DEF front, TypeOK
    <2>4. \A p \in Pushers : at'[p] # "push"
      BY <1>0, <2>3, <1>8 DEF front, TypeOK
    <2> QED
      BY <2>3, <2>4
  <1>9. ASSUME NEW t \in Takers, front_of_empty(t) \/ wake_up(t) PROVE Typed'
    <2>1. TypeOK' /\ Roles'
      BY <1>0, <1>9 DEF front_of_empty, wake_up, TypeOK
    <2>2. OneLeft'
      BY <1>0, <1>9 DEF front_of_empty, wake_up, TypeOK, PushedBy
    <2> QED
      BY <2>1, <2>2
  <1>10. CASE UNCHANGED vars
    BY <1>10 DEF vars, TypeOK, PushedBy
  <1> QED
    BY <1>1, <1>2, <1>3, <1>4, <1>5, <1>6, <1>7, <1>8, <1>9, <1>10
    DEF Next, pushBack, TakeStep

\* The variables keep their types, and a thread is in a critical section
\* exactly when it holds queue_mutex_: pushBack and getFront.
THEOREM TypeCorrect == Spec => []TypeOK
  <1>1. Typed => TypeOK
    BY DEF Typed
  <1> QED
    BY TypedInit, TypedStep, <1>1, PTL DEF Spec

-----------------------------------------------------------------------------
(* Why one taker that asks the size first is safe: what it has seen in the *)
(* queue, or a pusher is about to put there while it holds the lock, stays *)
(* there, since only the taker takes.                                      *)

Called ==
  /\ IsFiniteSet(callers)
  /\ \A t \in Takers : at[t] \in {"getFront", "front"} => t \in callers

Pushing == \E p \in Pushers : at[p] = "push"

OnlyCaller(t) == unchecked = {} /\ callers \subseteq {t}

SeenStays ==
  \A t \in Takers : OnlyCaller(t) =>
    /\ at[t] \in {"nonempty", "getFront"} => buffer_ # <<>> \/ Pushing
    /\ at[t] = "front" => buffer_ # <<>>

Checked == Called /\ SeenStays /\ OneCheckedTakerIsSafe

LEMMA CheckedInit == Init => Checked
  <1> SUFFICES ASSUME Init PROVE Checked
    OBVIOUS
  <1>1. \A t \in Takers : at[t] = "idle"
    BY DEF Init, Threads
  <1>2. IsFiniteSet(callers)
    BY FS_EmptySet DEF Init
  <1> QED
    BY <1>1, <1>2 DEF Init, Checked, Called, SeenStays, OneCheckedTakerIsSafe

\* Two takers have called when the one at hand is not the only caller.
LEMMA TwoCallers ==
  ASSUME Called, NEW t \in callers, ~(callers \subseteq {t})
  PROVE  Cardinality(callers) > 1
  <1>1. Cardinality(callers) \in Nat
    BY FS_CardinalityType DEF Called
  <1>2. Cardinality(callers) # 0
    BY FS_EmptySet DEF Called
  <1>3. Cardinality(callers) # 1
    BY FS_Singleton DEF Called
  <1> QED
    BY <1>1, <1>2, <1>3

LEMMA CheckedStep == Typed /\ Checked /\ [Next]_vars => Checked'
  <1> SUFFICES ASSUME Typed, Checked, [Next]_vars PROVE Checked'
    OBVIOUS
  <1>0. Pushers \subseteq Threads /\ Takers \subseteq Threads
        /\ Pushers \cap Takers = {} /\ NoThread \notin Threads
        /\ at \in [Threads -> {"idle", "push", "notify", "nonempty", "getFront", "front"}]
    BY BufferAssumption DEF Threads, Typed, TypeOK
  <1> USE DEF Checked, Called, SeenStays, OnlyCaller, Goes, lock, unlock, history
  <1>1. ASSUME NEW t \in Pushers, enter_pushBack(t) PROVE Checked'
    BY <1>0, <1>1 DEF enter_pushBack, Pushing, OneCheckedTakerIsSafe
  <1>2. ASSUME NEW t \in Pushers, push(t) PROVE Checked'
    <2>1. buffer_' # <<>>
      <3> DEFINE m == <<t, PushedBy(t) + 1>>
      <3> HIDE DEF m
      <3>1. buffer_' = Append(buffer_, m)
        BY <1>2 DEF push, m
      <3> QED
        BY <3>1 DEF Typed, TypeOK
    <2>2. \A u \in Takers : at'[u] = at[u]
      BY <1>0, <1>2 DEF push
    <2>3. UNCHANGED <<broken, history>>
      BY <1>2 DEF push
    <2> QED
      BY <2>1, <2>2, <2>3 DEF OneCheckedTakerIsSafe
  <1>3. ASSUME NEW t \in Pushers, notify_one(t) PROVE Checked'
    <2>1. \A u \in Threads \ {t} : at'[u] = at[u]
      BY <1>0, <1>3 DEF notify_one
    <2>2. Pushing => Pushing'
      BY <1>0, <1>3, <2>1 DEF notify_one, Pushing
    <2>3. UNCHANGED <<buffer_, broken, history>>
      BY <1>3 DEF notify_one
    <2> QED
      BY <1>0, <2>1, <2>2, <2>3 DEF OneCheckedTakerIsSafe
  <1>4. ASSUME NEW t \in Takers, getSzie(t) PROVE Checked'
    <2>1. PICK size \in Sizes : Goes(t, "idle", IF size > 0 THEN "nonempty" ELSE "idle")
      BY <1>4 DEF getSzie
    <2>2. UNCHANGED <<buffer_, broken, history>>
      BY <1>4 DEF getSzie
    <2>3. \A u \in Threads \ {t} : at'[u] = at[u]
      BY <1>0, <2>1
    <2>4. Pushing => Pushing'
      BY <1>0, <2>1, <2>3 DEF Pushing
    <2>5. OnlyCaller(t) /\ at'[t] = "nonempty" => buffer_ # <<>> \/ Pushing
      <3> SUFFICES ASSUME OnlyCaller(t), at'[t] = "nonempty", buffer_ = <<>>, ~Pushing
                   PROVE  FALSE
        OBVIOUS
      <3>1. size > 0
        BY <1>0, <2>1
      <3>2. size \notin {Len(buffer_)}
        BY <3>1
      <3>3. PICK u \in Threads : at[u] \in {"push", "front"}
        BY <3>2 DEF Sizes
      <3>4. at[u] = "front" /\ u \in Takers
        BY <3>3, <1>0 DEF Typed, Roles, Pushing
      <3>5. u # t
        BY <3>4, <2>1
      <3> QED
        BY <3>4, <3>5
    <2>6. at'[t] \in {"idle", "nonempty"}
      BY <1>0, <2>1
    <2> QED
      BY <1>0, <2>2, <2>3, <2>4, <2>5, <2>6 DEF OneCheckedTakerIsSafe
  <1>5. ASSUME NEW t \in Takers, getFront(t) PROVE Checked'
    <2>1. callers' = callers \cup {t} /\ IsFiniteSet(callers')
      BY <1>5, FS_AddElement DEF getFront
    <2>2. UNCHANGED <<buffer_, broken>>
      BY <1>5 DEF getFront
    <2>3. \A u \in Threads \ {t} : at'[u] = at[u]
      BY <1>0, <1>5 DEF getFront
    <2>4. at'[t] = "getFront" /\ at[t] \in {"idle", "nonempty"}
      BY <1>0, <1>5 DEF getFront
    <2>5. unchecked' = {} => unchecked = {} /\ at[t] = "nonempty"
      BY <1>5, <2>4 DEF getFront
    <2>6. Pushing => Pushing'
      BY <1>0, <2>3, <2>4 DEF Pushing
    <2>7. Called' /\ SeenStays'
      BY <1>0, <2>1, <2>2, <2>3, <2>4, <2>5, <2>6
    <2>8. ~broken
      BY <2>4 DEF Next, vars
    <2> QED
      BY <2>2, <2>7, <2>8 DEF OneCheckedTakerIsSafe
  <1>6. ASSUME NEW t \in Takers, enter_getFront(t) PROVE Checked'
    <2>1. UNCHANGED <<buffer_, broken, history>>
      BY <1>6 DEF enter_getFront
    <2>2. \A u \in Threads \ {t} : at'[u] = at[u]
      BY <1>0, <1>6 DEF enter_getFront
    <2>3. at'[t] = "front" /\ at[t] = "getFront"
      BY <1>0, <1>6 DEF enter_getFront
    <2>4. ~Pushing
      BY <1>0, <1>6 DEF enter_getFront, Pushing, Typed, TypeOK
    <2> QED
      BY <1>0, <2>1, <2>2, <2>3, <2>4 DEF OneCheckedTakerIsSafe
  <1>7. ASSUME NEW t \in Takers, wait(t) PROVE Checked'
    <2>1. UNCHANGED <<buffer_, broken, history>>
      BY <1>7 DEF wait
    <2>2. \A u \in Threads \ {t} : at'[u] = at[u]
      BY <1>0, <1>7 DEF wait
    <2>3. at'[t] = "getFront" /\ at[t] = "front"
      BY <1>0, <1>7 DEF wait
    <2>4. Pushing => Pushing'
      BY <1>0, <2>2, <2>3 DEF Pushing
    <2> QED
      BY <1>0, <2>1, <2>2, <2>3, <2>4 DEF OneCheckedTakerIsSafe
  <1>8. ASSUME NEW t \in Takers, front(t) PROVE Checked'
    <2>1. UNCHANGED <<broken, unchecked, callers>>
      BY <1>8 DEF front
    <2>2. \A u \in Threads \ {t} : at'[u] = at[u]
      BY <1>0, <1>8 DEF front
    <2>3. at'[t] = "idle" /\ at[t] = "front"
      BY <1>0, <1>8 DEF front
    <2>4. t \in callers
      BY <2>3
    <2>5. \A u \in Takers \ {t} : ~OnlyCaller(u)'
      BY <2>1, <2>4
    <2> QED
      BY <1>0, <2>1, <2>2, <2>3, <2>5 DEF OneCheckedTakerIsSafe
  <1>9. ASSUME NEW t \in Takers, front_of_empty(t) PROVE Checked'
    <2>1. UNCHANGED <<buffer_, at, history>>
      BY <1>9 DEF front_of_empty
    <2>2. t \in callers /\ ~OnlyCaller(t)
      BY <1>9 DEF front_of_empty
    <2>3. unchecked # {} \/ Cardinality(callers) > 1
      BY <2>2, TwoCallers
    <2> QED
      BY <2>1, <2>3 DEF OneCheckedTakerIsSafe, Pushing
  <1>10. ASSUME NEW t \in Takers, wake_up(t) PROVE Checked'
    BY <1>10 DEF wake_up, OneCheckedTakerIsSafe, Pushing
  <1>11. CASE UNCHANGED vars
    BY <1>11 DEF vars, OneCheckedTakerIsSafe, Pushing
  <1> QED
    BY <1>1, <1>2, <1>3, <1>4, <1>5, <1>6, <1>7, <1>8, <1>9, <1>10, <1>11
    DEF Next, pushBack, TakeStep

\* The empty queue is taken from only after a getFront() whose thread had not
\* asked the size, or after two threads have called it: getSzie reads without
\* the lock, and one taker may rely on it all the same.
THEOREM CheckedTakerSafe == Spec => []OneCheckedTakerIsSafe
  <1>1. Typed /\ Checked => OneCheckedTakerIsSafe
    BY DEF Checked
  <1> QED
    BY TypedInit, TypedStep, CheckedInit, CheckedStep, <1>1, PTL DEF Spec

-----------------------------------------------------------------------------
(* The refinement, without its liveness. *)

\* Once anything has been put there is a message, or there was one.
EverPut == ~is_empty_ => buffer_ # <<>> \/ taken # <<>>

LEMMA EverPutStep == Typed /\ EverPut /\ [Next]_vars => EverPut'
  <1> SUFFICES ASSUME Typed, EverPut, [Next]_vars PROVE EverPut'
    OBVIOUS
  <1> USE DEF EverPut, history
  <1>1. ASSUME NEW t \in Pushers, push(t) PROVE EverPut'
    <2> DEFINE m == <<t, PushedBy(t) + 1>>
    <2> HIDE DEF m
    <2>1. buffer_' = Append(buffer_, m)
      BY <1>1 DEF push, m
    <2> QED
      BY <2>1 DEF Typed, TypeOK
  <1>2. ASSUME NEW t \in Takers, front(t) PROVE EverPut'
    <2> DEFINE m == Head(buffer_)
    <2> HIDE DEF m
    <2>1. taken' = Append(taken, m)
      BY <1>2 DEF front, m
    <2> QED
      BY <2>1 DEF Typed, TypeOK
  <1>3. CASE UNCHANGED <<is_empty_, buffer_, taken>>
    BY <1>3
  <1> QED
    BY <1>1, <1>2, <1>3 DEF Next, vars, pushBack, TakeStep, enter_pushBack, notify_one,
       getSzie, getFront, enter_getFront, wait, front_of_empty, wake_up

Asking == {t \in Takers : at[t] \in {"getFront", "front"}}
queuevars == <<buffer_, taken, Asking, broken>>

LEMMA StepRefines == Typed /\ EverPut /\ [Next]_vars => [Promise!Next]_queuevars
  <1> SUFFICES ASSUME Typed, EverPut, [Next]_vars PROVE [Promise!Next]_queuevars
    OBVIOUS
  <1>0. Pushers \subseteq Threads /\ Takers \subseteq Threads
        /\ Pushers \cap Takers = {}
        /\ at \in [Threads -> {"idle", "push", "notify", "nonempty", "getFront", "front"}]
    BY BufferAssumption DEF Threads, Typed, TypeOK
  <1> USE DEF Goes, history
  <1>1. ASSUME NEW t \in Pushers, push(t) PROVE Promise!Next
    <2> DEFINE m == <<t, PushedBy(t) + 1>>
    <2>1. PushedBy(t) \in Nat /\ PushedBy(t) < MaxPushed
      BY <1>1, CountIsNat DEF push, PushedBy, Typed, TypeOK, OneLeft
    <2>2. m \in Messages
      BY <2>1, BufferAssumption DEF Messages
    <2>3. Asking' = Asking
      BY <1>0, <1>1 DEF push, Asking
    <2>4. Promise!Put(m)
      BY <1>1, <2>3 DEF push, Promise!Put, Asking
    <2> QED
      BY <2>2, <2>4 DEF Promise!Next
  <1>2. ASSUME NEW t \in Takers, getFront(t) PROVE Promise!Next
    <2>1. Asking' = Asking \cup {t}
      BY <1>0, <1>2 DEF getFront, Asking
    <2>2. Promise!Ask(t)
      BY <1>2, <2>1 DEF getFront, Promise!Ask, Asking
    <2> QED
      BY <2>2 DEF Promise!Next
  <1>3. ASSUME NEW t \in Takers, front(t), ~broken PROVE Promise!Next
    <2>1. Asking' = Asking \ {t} /\ t \in Asking
      BY <1>0, <1>3 DEF front, Asking
    <2>2. Promise!Take(t)
      BY <1>3, <2>1 DEF front, Promise!Take, Asking
    <2> QED
      BY <2>2 DEF Promise!Next
  <1>4. ASSUME NEW t \in Takers, front_of_empty(t) PROVE Promise!Next
    <2>1. Asking' = Asking /\ t \in Asking
      BY <1>0, <1>4 DEF front_of_empty, Asking
    <2>2. Promise!TakeFromNothing(t)
      BY <1>4, <2>1 DEF front_of_empty, Promise!TakeFromNothing, Asking, EverPut
    <2> QED
      BY <2>2 DEF Promise!Next
  <1>5. ASSUME NEW t \in Pushers, enter_pushBack(t) \/ notify_one(t)
        PROVE  UNCHANGED queuevars
    BY <1>0, <1>5 DEF enter_pushBack, notify_one, queuevars, Asking
  <1>6. ASSUME NEW t \in Takers, getSzie(t) PROVE UNCHANGED queuevars
    <2>1. PICK to \in {"nonempty", "idle"} : Goes(t, "idle", to)
      BY <1>6 DEF getSzie
    <2> QED
      BY <1>0, <1>6, <2>1 DEF getSzie, queuevars, Asking
  <1>7. ASSUME NEW t \in Takers, enter_getFront(t) \/ wait(t) \/ wake_up(t)
        PROVE  UNCHANGED queuevars
    BY <1>0, <1>7 DEF enter_getFront, wait, wake_up, queuevars, Asking
  <1>8. CASE UNCHANGED vars
    BY <1>8 DEF vars, queuevars, Asking
  <1> QED
    BY <1>1, <1>2, <1>3, <1>4, <1>5, <1>6, <1>7, <1>8 DEF Next, pushBack, TakeStep

\* Every behaviour of the buffer is one of the queue of MessageQueue, up to and
\* including the first take from nothing: pushBack and getFront.
THEOREM StepsOfMessageQueue == Spec => Promise!Init /\ [][Promise!Next]_queuevars
  <1>1. Init => Promise!Init /\ EverPut
    BY DEF Init, Promise!Init, EverPut, Threads
  <1> QED
    BY <1>1, TypedInit, TypedStep, EverPutStep, StepRefines, PTL DEF Spec

-----------------------------------------------------------------------------
(* No wake-up is lost. *)

\* The threads on their way to the queue: about to notify, or awake in getFront.
Helpers ==
  {t \in Pushers : at[t] = "notify"}
    \cup {t \in Takers \ empty_ : at[t] \in {"getFront", "front"}}

\* While anybody waits there is such a thread for every message in the queue.
EnoughHelpers == empty_ # {} => Cardinality(Helpers) >= Len(buffer_)

Awake ==
  /\ IsFiniteSet(Helpers)
  /\ \A t \in empty_ : at[t] = "getFront"
  /\ is_empty_ => buffer_ = <<>>
  /\ EnoughHelpers

\* What a step that changes Helpers by one thread leaves to show.
LEMMA Counted ==
  ASSUME NEW S, IsFiniteSet(S), NEW t
  PROVE  /\ Cardinality(S) \in Nat
         /\ IsFiniteSet(S \cup {t}) /\ IsFiniteSet(S \ {t})
         /\ t \notin S => Cardinality(S \cup {t}) = Cardinality(S) + 1
         /\ t \in S => Cardinality(S \ {t}) = Cardinality(S) - 1
  <1>1. Cardinality(S) \in Nat
    BY FS_CardinalityType
  <1>2. IsFiniteSet(S \cup {t}) /\ (t \notin S => Cardinality(S \cup {t}) = Cardinality(S) + 1)
    BY FS_AddElement
  <1>3. IsFiniteSet(S \ {t}) /\ (t \in S => Cardinality(S \ {t}) = Cardinality(S) - 1)
    BY FS_RemoveElement
  <1> QED
    BY <1>1, <1>2, <1>3

LEMMA AwakeInit == Init => Awake
  <1> SUFFICES ASSUME Init PROVE Awake
    OBVIOUS
  <1>1. Helpers = {}
    BY DEF Init, Helpers, Threads
  <1> QED
    BY <1>1, FS_EmptySet DEF Init, Awake, EnoughHelpers

LEMMA AwakeStep == Typed /\ Awake /\ [Next]_vars => Awake'
  <1> SUFFICES ASSUME Typed, Awake, [Next]_vars PROVE Awake'
    OBVIOUS
  <1>0. /\ Pushers \subseteq Threads /\ Takers \subseteq Threads /\ Pushers \cap Takers = {}
        /\ at \in [Threads -> {"idle", "push", "notify", "nonempty", "getFront", "front"}]
        /\ empty_ \subseteq Takers
    BY BufferAssumption DEF Threads, Typed, TypeOK
  <1>1. IsFiniteSet(Helpers) /\ Cardinality(Helpers) \in Nat
    BY Counted DEF Awake
  <1>2. /\ \A t \in empty_ : at[t] = "getFront"
        /\ is_empty_ => buffer_ = <<>>
        /\ empty_ # {} => Cardinality(Helpers) >= Len(buffer_)
        /\ buffer_ \in Seq(Messages) /\ Len(buffer_) \in Nat
    BY DEF Awake, EnoughHelpers, Typed, TypeOK
  <1> USE DEF Goes, history
  <1>3. ASSUME NEW t \in Pushers, push(t) PROVE Awake'
    <2>1. Helpers' = Helpers \cup {t} /\ t \notin Helpers
      BY <1>0, <1>3 DEF push, Helpers
    <2>2. Len(buffer_') = Len(buffer_) + 1
      <3> DEFINE m == <<t, PushedBy(t) + 1>>
      <3> HIDE DEF m
      <3>1. buffer_' = Append(buffer_, m)
        BY <1>3 DEF push, m
      <3> QED
        BY <1>2, <3>1
    <2>3. IsFiniteSet(Helpers') /\ Cardinality(Helpers') = Cardinality(Helpers) + 1
      BY <1>1, <2>1, Counted
    <2>4. empty_' = empty_ /\ ~is_empty_' /\ \A w \in empty_ : at'[w] = "getFront"
      BY <1>0, <1>2, <1>3 DEF push
    <2>5. EnoughHelpers'
      BY <1>1, <1>2, <2>2, <2>3, <2>4 DEF EnoughHelpers
    <2> QED
      BY <2>3, <2>4, <2>5 DEF Awake
  <1>4. ASSUME NEW t \in Pushers, notify_one(t) PROVE Awake'
    <2>1. t \in Helpers /\ at' = [at EXCEPT ![t] = "idle"] /\ at[t] = "notify"
      BY <1>4 DEF notify_one, Helpers
    <2>2. UNCHANGED <<buffer_, is_empty_>>
      BY <1>4 DEF notify_one
    <2>3. CASE empty_ = {}
      <3>1. empty_' = {}
        BY <1>4, <2>3 DEF notify_one
      <3>2. Helpers' = Helpers \ {t}
        BY <1>0, <2>1, <2>3, <3>1 DEF Helpers
      <3> QED
        BY <1>1, <1>2, <2>2, <3>1, <3>2, Counted DEF Awake, EnoughHelpers
    <2>4. CASE empty_ # {}
      <3>1. PICK w \in empty_ : empty_' = empty_ \ {w}
        BY <1>4, <2>4 DEF notify_one
      <3> DEFINE others == Helpers \ {t}
      <3>2. Helpers' = others \cup {w} /\ w \notin others
        BY <1>0, <1>2, <2>1, <3>1 DEF Helpers
      <3>3. IsFiniteSet(others) /\ Cardinality(others) = Cardinality(Helpers) - 1
        BY <1>1, <2>1, Counted
      <3> HIDE DEF others
      <3>4. IsFiniteSet(Helpers') /\ Cardinality(Helpers') = Cardinality(others) + 1
        BY <3>2, <3>3, Counted
      <3>5. \A v \in empty_' : at'[v] = "getFront"
        BY <1>0, <1>2, <2>1, <3>1
      <3>6. EnoughHelpers'
        BY <1>1, <1>2, <2>2, <2>4, <3>3, <3>4 DEF EnoughHelpers
      <3> QED
        BY <1>2, <2>2, <3>4, <3>5, <3>6 DEF Awake
    <2> QED
      BY <2>3, <2>4
  <1>5. ASSUME NEW t \in Takers, getFront(t) \/ wake_up(t) PROVE Awake'
    <2>1. /\ Helpers' = Helpers \cup {t} /\ t \notin Helpers
          /\ UNCHANGED <<buffer_, is_empty_>> /\ empty_' \subseteq empty_
      <3>1. CASE getFront(t)
        BY <1>0, <1>2, <3>1 DEF getFront, Helpers
      <3>2. CASE wake_up(t)
        BY <1>0, <1>2, <3>2 DEF wake_up, Helpers
      <3> QED
        BY <1>5, <3>1, <3>2
    <2>2. \A w \in empty_' : at'[w] = "getFront"
      BY <1>0, <1>2, <1>5 DEF getFront, wake_up
    <2>3. IsFiniteSet(Helpers') /\ Cardinality(Helpers') = Cardinality(Helpers) + 1
      BY <1>1, <2>1, Counted
    <2>4. EnoughHelpers'
      BY <1>1, <1>2, <2>1, <2>3 DEF EnoughHelpers
    <2> QED
      BY <1>2, <2>1, <2>2, <2>3, <2>4 DEF Awake
  <1>6. ASSUME NEW t \in Takers, wait(t) PROVE Awake'
    <2>1. Helpers' = Helpers \ {t} /\ empty_' = empty_ \cup {t}
      BY <1>0, <1>6 DEF wait, Helpers
    <2>2. buffer_' = <<>> /\ Len(buffer_') = 0
      BY <1>2, <1>6 DEF wait
    <2>3. \A w \in empty_' : at'[w] = "getFront"
      BY <1>0, <1>2, <1>6 DEF wait
    <2>4. IsFiniteSet(Helpers') /\ Cardinality(Helpers') \in Nat
      BY <1>1, <2>1, Counted
    <2> QED
      BY <2>2, <2>3, <2>4 DEF Awake, EnoughHelpers
  <1>7. ASSUME NEW t \in Takers, front(t) PROVE Awake'
    <2>1. t \in Helpers /\ Helpers' = Helpers \ {t} /\ UNCHANGED <<empty_, is_empty_>>
      BY <1>0, <1>2, <1>7 DEF front, Helpers
    <2>2. Len(buffer_') = Len(buffer_) - 1
      BY <1>2, <1>7 DEF front
    <2>3. ~is_empty_' /\ \A w \in empty_' : at'[w] = "getFront"
      BY <1>0, <1>2, <1>7 DEF front
    <2>4. IsFiniteSet(Helpers') /\ Cardinality(Helpers') = Cardinality(Helpers) - 1
      BY <1>1, <2>1, Counted
    <2>5. EnoughHelpers'
      BY <1>1, <1>2, <2>1, <2>2, <2>4 DEF EnoughHelpers
    <2> QED
      BY <2>3, <2>4, <2>5 DEF Awake
  <1>8. CASE Helpers' = Helpers /\ UNCHANGED <<buffer_, is_empty_, empty_>>
             /\ \A w \in empty_ : at'[w] = at[w]
    BY <1>8 DEF Awake, EnoughHelpers
  <1>9. ASSUME NEW t \in Pushers, enter_pushBack(t) PROVE Awake'
    BY <1>0, <1>8, <1>9 DEF enter_pushBack, Helpers
  <1>10. ASSUME NEW t \in Takers, getSzie(t) PROVE Awake'
    <2>1. PICK to \in {"nonempty", "idle"} : Goes(t, "idle", to)
      BY <1>10 DEF getSzie
    <2> QED
      BY <1>0, <1>2, <1>8, <1>10, <2>1 DEF getSzie, Helpers
  <1>11. ASSUME NEW t \in Takers, enter_getFront(t) PROVE Awake'
    BY <1>0, <1>8, <1>11 DEF enter_getFront, Helpers
  <1>12. CASE UNCHANGED <<buffer_, is_empty_, empty_, at>>
    BY <1>8, <1>12 DEF Helpers
  <1> QED
    BY <1>3, <1>4, <1>5, <1>6, <1>7, <1>9, <1>10, <1>11, <1>12
      DEF Next, vars, pushBack, TakeStep, front_of_empty

\* While a thread waits in getFront() there are, for every message in the queue,
\* as many other threads about to notify or awake in getFront(): pushBack()
\* notifies after it has released the lock, and no wake-up is lost by that.
THEOREM NoWakeUpLost == Spec => []EnoughHelpers
  <1>1. Awake => EnoughHelpers
    BY DEF Awake
  <1> QED
    BY TypedInit, TypedStep, AwakeInit, AwakeStep, <1>1, PTL DEF Spec
=============================================================================
