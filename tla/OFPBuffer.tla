----------------------------- MODULE OFPBuffer ------------------------------
(***************************************************************************)
(* OFPBuffer (OFPBuffer.h): a std::queue behind a mutex, on whose          *)
(* condition variable getFront() waits while is_empty_ says so.  The first *)
(* pushBack() clears is_empty_ and nothing sets it again, so that from     *)
(* then on getFront() takes the front of the queue whether there is one or *)
(* not; front() and pop() of an empty std::queue are undefined (broken).   *)
(* getSzie() reads the queue without the mutex.                            *)
(*                                                                         *)
(* The mutex and the condition variable are external.  A critical section  *)
(* is two steps, entering it and doing its work, because getSzie() may     *)
(* read in between.  Takers call getFront() directly, or after a getSzie() *)
(* that was not zero.                                                      *)
(***************************************************************************)
EXTENDS Integers, Sequences, FiniteSets

CONSTANTS
  Pushers,   \* the threads that call pushBack()
  Takers,    \* the threads that call getFront() and getSzie()
  NoThread,  \* nobody holds queue_mutex_
  MaxPushed  \* bound: messages one thread pushes

ASSUME BufferAssumption ==
  /\ Pushers \cap Takers = {}
  /\ NoThread \notin Pushers \cup Takers
  /\ MaxPushed \in Nat

Threads == Pushers \cup Takers
Messages == Pushers \X (1 .. MaxPushed)

VARIABLES
  buffer_,      \* the queue, oldest message first
  is_empty_,
  queue_mutex_, \* the thread that holds it
  empty_,       \* the threads that wait on the condition variable
  at,           \* at[t]: what thread t does next
  taken,        \* every message getFront() returned, in order
  broken,       \* front() and pop() were called on an empty queue
  unchecked,    \* the threads that called getFront() without asking the size
  callers       \* the threads that called getFront()

history == <<taken, unchecked, callers>>
vars == <<buffer_, is_empty_, queue_mutex_, empty_, at, broken, history>>

Init ==
  /\ buffer_ = <<>>
  /\ is_empty_ = TRUE
  /\ queue_mutex_ = NoThread
  /\ empty_ = {}
  /\ at = [t \in Threads |-> "idle"]
  /\ taken = <<>> /\ broken = FALSE /\ unchecked = {} /\ callers = {}

Goes(t, from, to) == at[t] = from /\ at' = [at EXCEPT ![t] = to]

lock(t) == queue_mutex_ = NoThread /\ queue_mutex_' = t
unlock(t) == queue_mutex_ = t /\ queue_mutex_' = NoThread

-----------------------------------------------------------------------------
(* pushBack *)

CountOf(q, t) == Cardinality({k \in DOMAIN q : q[k][1] = t})
PushedBy(t) == CountOf(taken, t) + CountOf(buffer_, t)

\* A bug: the lock is released before the queue is changed.
enter_pushBack_unlocked(t) ==
  /\ PushedBy(t) < MaxPushed
  /\ Goes(t, "idle", "push")
  /\ queue_mutex_ = NoThread
  /\ UNCHANGED <<buffer_, is_empty_, queue_mutex_, empty_, broken, history>>

enter_pushBack(t) ==
  /\ PushedBy(t) < MaxPushed
  /\ Goes(t, "idle", "push")
  /\ lock(t)
  /\ UNCHANGED <<buffer_, is_empty_, empty_, broken, history>>

push(t) ==
  /\ Goes(t, "push", "notify")
  /\ is_empty_' = FALSE
  /\ buffer_' = Append(buffer_, <<t, PushedBy(t) + 1>>)
  /\ queue_mutex_' = NoThread
  /\ UNCHANGED <<empty_, broken, history>>

\* A bug: nobody is notified.
notify_nobody(t) ==
  /\ Goes(t, "notify", "idle")
  /\ UNCHANGED <<buffer_, is_empty_, queue_mutex_, empty_, broken, history>>

\* After the lock is released: one waiting thread, if there is any, wakes up.
notify_one(t) ==
  /\ Goes(t, "notify", "idle")
  /\ IF empty_ = {} THEN empty_' = {} ELSE \E w \in empty_ : empty_' = empty_ \ {w}
  /\ UNCHANGED <<buffer_, is_empty_, queue_mutex_, broken, history>>

-----------------------------------------------------------------------------
(* getSzie, and getFront after it or without it. *)

\* What is read while another thread changes the queue may be anything.
Sizes ==
  IF \E t \in Threads : at[t] \in {"push", "front"}
  THEN 0 .. Len(buffer_) + 1
  ELSE {Len(buffer_)}

getSzie(t) ==
  /\ \E size \in Sizes : Goes(t, "idle", IF size > 0 THEN "nonempty" ELSE "idle")
  /\ UNCHANGED <<buffer_, is_empty_, queue_mutex_, empty_, broken, history>>

getFront(t) ==
  /\ Goes(t, "idle", "getFront") \/ Goes(t, "nonempty", "getFront")
  /\ unchecked' = IF at[t] = "idle" THEN unchecked \cup {t} ELSE unchecked
  /\ callers' = callers \cup {t}
  /\ UNCHANGED <<buffer_, is_empty_, queue_mutex_, empty_, broken, taken>>

\* Entering the function, or returning from wait().
enter_getFront(t) ==
  /\ t \notin empty_
  /\ Goes(t, "getFront", "front")
  /\ lock(t)
  /\ UNCHANGED <<buffer_, is_empty_, empty_, broken, history>>

wait(t) ==
  /\ is_empty_
  /\ Goes(t, "front", "getFront")
  /\ unlock(t)
  /\ empty_' = empty_ \cup {t}
  /\ UNCHANGED <<buffer_, is_empty_, broken, history>>

\* A condition variable may wake up a thread for no reason.
wake_up(t) ==
  /\ t \in empty_
  /\ empty_' = empty_ \ {t}
  /\ UNCHANGED <<buffer_, is_empty_, queue_mutex_, at, broken, history>>

front(t) ==
  /\ ~is_empty_
  /\ buffer_ # <<>>
  /\ Goes(t, "front", "idle")
  /\ unlock(t)
  /\ buffer_' = Tail(buffer_)
  /\ taken' = Append(taken, Head(buffer_))
  /\ UNCHANGED <<is_empty_, empty_, broken, unchecked, callers>>

front_of_empty(t) ==
  /\ ~is_empty_
  /\ at[t] = "front"
  /\ buffer_ = <<>>
  /\ broken' = TRUE
  /\ UNCHANGED <<buffer_, is_empty_, queue_mutex_, empty_, at, history>>

-----------------------------------------------------------------------------
pushBack(t) == enter_pushBack(t) \/ push(t) \/ notify_one(t)
TakeStep(t) == enter_getFront(t) \/ wait(t) \/ front(t) \/ front_of_empty(t)

Next ==
  /\ ~broken
  /\ \/ \E t \in Pushers : pushBack(t)
     \/ \E t \in Takers : getSzie(t) \/ getFront(t) \/ TakeStep(t) \/ wake_up(t)

\* Threads are scheduled.  Nobody has to push, to ask or to wake up for no reason.
Fairness ==
  /\ \A t \in Pushers : WF_vars(~broken /\ (push(t) \/ notify_one(t)))
  /\ \A t \in Takers : WF_vars(~broken /\ TakeStep(t))

Spec == Init /\ [][Next]_vars /\ Fairness

-----------------------------------------------------------------------------
TypeOK ==
  /\ buffer_ \in Seq(Messages)
  /\ is_empty_ \in BOOLEAN
  /\ queue_mutex_ \in Threads \cup {NoThread}
  /\ empty_ \subseteq Takers
  /\ at \in [Threads -> {"idle", "push", "notify", "nonempty", "getFront", "front"}]
  /\ taken \in Seq(Messages)
  /\ broken \in BOOLEAN
  /\ unchecked \subseteq Takers /\ callers \subseteq Takers
  /\ \A t \in Threads : at[t] \in {"push", "front"} <=> queue_mutex_ = t

\* Up to the first getFront() too many the buffer is a first in, first out
\* queue, whatever the interleaving, and a thread in getFront() gets a message
\* once there is one: no wake-up is lost.
Promise == INSTANCE MessageQueue WITH
             queue <- buffer_, got <- taken, undefined <- broken,
             asking <- {t \in Takers : at[t] \in {"getFront", "front"}}

IsMessageQueue == Promise!Spec

\* One thread that takes only after a getSzie() that was not zero never
\* touches the empty queue, although getSzie() reads without the lock.
OneCheckedTakerIsSafe ==
  broken => unchecked # {} \/ Cardinality(callers) > 1
=============================================================================
