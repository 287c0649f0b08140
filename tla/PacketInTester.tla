--------------------------- MODULE PacketInTester ---------------------------
(***************************************************************************)
(* The tester of UnitTest_PacketInTester.cpp: main accepts a switch, sends *)
(* HELLO and becomes the io thread, which answers HELLO with a             *)
(* FEATURES_REQUEST, starts the test thread on FEATURES_REPLY and counts   *)
(* PACKET_INs in data[group_index] (PacketInTester.cpp).  The test thread  *)
(* runs one burst per group, moves group_index on and appends the group to *)
(* data.  Nothing orders the two threads.                                  *)
(*                                                                         *)
(* data is presized and full, so that the first push_back() moves every    *)
(* element to new storage, frees the old one and only then points data to  *)
(* the new one, while onMessage() may be using an element it has located   *)
(* before.  Each of its uses of data[group_index] may locate the element   *)
(* anew or, as compiled, use what was located before.                      *)
(*                                                                         *)
(* R is the receiving half of the session.  A burst is one step of the     *)
(* test thread: FlowGen has it in detail.                                  *)
(***************************************************************************)
EXTENDS OpenFlow, Dispatcher, Sequences, FiniteSets, SequencesExt

CONSTANTS
  s_session,
  Presize,        \* elements of data in the beginning: 2048
  Groups,         \* groups of a test: 20
  Flows,          \* how many packets a burst may send
  FramesFrom, Closing, CutPoints, Uninitialised, MaxSent, MaxDispatched
                  \* see SessionRead

ASSUME TesterAssumption ==
  /\ Presize \in Nat /\ Groups \in Nat \ {0} /\ Groups < Presize
  /\ Flows \subseteq Nat \ {0}
  /\ FramesFrom \in [{s_session} -> SUBSET Message]
  /\ Closing \subseteq {s_session} /\ CutPoints \subseteq Nat
  /\ Uninitialised \subseteq ofp_header
  /\ MaxSent \in [{s_session} -> Nat] /\ MaxDispatched \in Nat
  /\ NoCallback \notin {"tester.send_feature_request", "tester.test", "tester.onMessage"}

VARIABLES
  sent, pos, open, cut, phase, data_, dispatched, failed,  \* of R
  main,         \* what main does next, or how the process ended
  written,      \* what was given to session_.write(), in order
  handling,     \* the use of data[group_index] that onMessage makes next
  element,      \* the element located: index i in storage of
  tester_t,     \* what the test thread does next
  group,        \* the local group: packets sent
  is_run,       \* of the FlowGen
  group_index,
  data,         \* the elements in use
  storage,      \* which storage data points to
  moved,        \* the elements push_back() has moved to the new storage
  freed,        \* the storages freed
  undefined,    \* freed storage was used
  handled,      \* PACKET_INs onMessage was called with
  counted,      \* counted[k]: the i of the element the k-th was counted in
  unsure,       \* those counted while push_back() was moving data
  crossed       \* groups that began, or whose storage moved, within onMessage

R == INSTANCE SessionRead WITH Sessions <- {s_session}

rvars == <<sent, pos, open, cut, phase, data_, dispatched, failed>>
svars == <<main, written>>
hvars == <<handling, element, undefined>>
tvars == <<tester_t, group, is_run, group_index, storage, moved, freed>>
history == <<handled, counted, unsure, crossed>>
vars == <<rvars, svars, hvars, tvars, data, history>>

Group == [sent_flow |-> 0, first |-> 0, last |-> 0, successed_PKTIN_ |-> 0]

Init ==
  /\ R!Init
  /\ main = "listen" /\ written = <<>>
  /\ handling = "none" /\ element = [i |-> 0, of |-> 0] /\ undefined = FALSE
  /\ tester_t = "none" /\ group = Group /\ is_run = TRUE /\ group_index = 0
  /\ data = [n \in 1 .. Presize |-> Group]
  /\ storage = 0 /\ moved = <<>> /\ freed = {}
  /\ handled = 0 /\ counted = <<>> /\ unsure = {} /\ crossed = {}

Alive == main \notin {"failed", "returned", "terminated"} /\ ~undefined

-----------------------------------------------------------------------------
(* main *)

get_XID == Len(written) + 1
write(type) == written' = Append(written, [type |-> type, xid |-> get_XID])

listen ==
  /\ main = "listen" /\ main' \in {"send_hello", "failed"}
  /\ UNCHANGED <<rvars, written, hvars, tvars, data, history>>

send_hello ==
  /\ main = "send_hello" /\ main' = "start"
  /\ write("OFPT_HELLO")
  /\ UNCHANGED <<rvars, hvars, tvars, data, history>>

start ==
  /\ main = "start" /\ main' = "run"
  /\ R!start(s_session)
  /\ UNCHANGED <<written, hvars, tvars, data, history>>

\* A bug: run() returns although a read is outstanding.
run_stopped ==
  /\ main = "run" /\ ~undefined /\ handling = "none"
  /\ main' = IF tester_t = "none" THEN "returned" ELSE "terminated"
  /\ UNCHANGED <<rvars, written, hvars, tvars, data, history>>

\* run() returns when no read is outstanding.  Destroying tester destroys the
\* thread, which nobody joins: that is std::terminate, also when it has ended.
run_returns ==
  /\ main = "run" /\ ~undefined /\ handling = "none" /\ phase[s_session] = "stopped"
  /\ main' = IF tester_t = "none" THEN "returned" ELSE "terminated"
  /\ UNCHANGED <<rvars, written, hvars, tvars, data, history>>

-----------------------------------------------------------------------------
(* The io thread: the callbacks main binds. *)

\* A bug: the test starts on HELLO.
dispatcher_early ==
  setCallBackOnMessage(
    setCallBackOnMessage(NewDispatcher, "OFPT_HELLO", "tester.test"),
    "OFPT_PACKET_IN", "tester.onMessage")

dispatcher_from_switch ==
  setCallBackOnMessage(
    setCallBackOnMessage(
      setCallBackOnMessage(NewDispatcher, "OFPT_HELLO", "tester.send_feature_request"),
      "OFPT_FEATURES_REPLY", "tester.test"),
    "OFPT_PACKET_IN", "tester.onMessage")

send_feature_request ==
  /\ write("OFPT_FEATURES_REQUEST")
  /\ UNCHANGED <<main, hvars, tvars, data, history>>

\* A second thread takes the place of one that nobody joined: std::terminate.
test ==
  /\ IF tester_t = "none"
     THEN tester_t' = "a_burst" /\ UNCHANGED main
     ELSE main' = "terminated" /\ UNCHANGED tester_t
  /\ UNCHANGED <<written, hvars, group, is_run, group_index, storage, moved, freed, data, history>>

\* push_back() is between allocating new storage and using it.
Moving == tester_t \in {"move", "free", "swap"}

Located == [i |-> group_index, of |-> storage]

onMessage_begins ==
  /\ handling' = "first == 0"
  /\ element' = Located
  /\ handled' = handled + 1
  /\ crossed' = IF Moving THEN crossed \cup {group_index} ELSE crossed
  /\ UNCHANGED <<svars, undefined, tvars, data, counted, unsure>>

Call(callback) ==
  \/ callback = "tester.send_feature_request" /\ send_feature_request
  \/ callback = "tester.test" /\ test
  \/ callback = "tester.onMessage" /\ onMessage_begins
  \/ callback = NoCallback /\ UNCHANGED <<svars, hvars, tvars, data, history>>

Read ==
  /\ main = "run" /\ ~undefined /\ handling = "none"
  /\ R!Handler(s_session)
  /\ \/ dispatched' = dispatched /\ UNCHANGED <<svars, hvars, tvars, data, history>>
     \/ /\ dispatched' # dispatched
        /\ Call(onMessage(dispatcher_from_switch, Last(dispatched'[s_session]).type))

-----------------------------------------------------------------------------
(* onMessage of the tester, one use of data[group_index] after the other. *)

\* group_index and the storage are read again, or one of them is.
locate ==
  /\ Alive /\ handling # "none"
  /\ element' \in [i : {element.i, group_index}, of : {element.of, storage}] \ {element}
  /\ UNCHANGED <<rvars, svars, handling, undefined, tvars, data, history>>

\* data[group_index], as located.
Element == data[element.i + 1]

\* The use "from" of the element, which leaves it as e; "to" is the next use.
Use(from, to, e) ==
  /\ Alive /\ handling = from
  /\ IF element.of \in freed
     THEN undefined' = TRUE /\ UNCHANGED <<handling, data>>
     ELSE /\ handling' = to
          /\ data' = [data EXCEPT ![element.i + 1] = e]
          /\ UNCHANGED undefined
  /\ UNCHANGED <<rvars, svars, element, tvars, handled, crossed>>

now == handled  \* clock_gettime(): the later the message, the later the time

\* A bug: only what is set already is set.
is_first_inverted ==
  /\ Use("first == 0", IF Element.first # 0 THEN "first" ELSE "last", Element)
  /\ UNCHANGED <<counted, unsure>>

is_first ==
  /\ Use("first == 0", IF Element.first = 0 THEN "first" ELSE "last", Element)
  /\ UNCHANGED <<counted, unsure>>
set_first ==
  /\ Use("first", "last", [Element EXCEPT !.first = now])
  /\ UNCHANGED <<counted, unsure>>
set_last ==
  /\ Use("last", "count", [Element EXCEPT !.last = now])
  /\ UNCHANGED <<counted, unsure>>

\* A bug: every message is counted as the first.
count_once ==
  /\ Use("count", "none", [Element EXCEPT !.successed_PKTIN_ = 1])
  /\ counted' = Append(counted, element.i)
  /\ unsure' = IF Moving THEN unsure \cup {handled} ELSE unsure

count ==
  /\ Use("count", "none", [Element EXCEPT !.successed_PKTIN_ = @ + 1])
  /\ counted' = Append(counted, element.i)
  /\ unsure' = IF Moving THEN unsure \cup {handled} ELSE unsure

onMessage_uses == is_first \/ set_first \/ set_last \/ count

-----------------------------------------------------------------------------
(* The test thread: do_test and group_test. *)

TestGoes(from, to) ==
  /\ Alive
  /\ tester_t = from /\ tester_t' = to
  /\ UNCHANGED <<rvars, svars, hvars, handled, counted, unsure>>

a_burst ==
  /\ TestGoes("a_burst", "++group_index")
  /\ \E n \in IF is_run THEN Flows ELSE {0} : group' = [Group EXCEPT !.sent_flow = n]
  /\ is_run' = FALSE
  /\ UNCHANGED <<group_index, storage, moved, freed, data, crossed>>

\* Behind sleep(group_interval).
next_group ==
  /\ TestGoes("++group_index", "push_back")
  /\ group_index' = group_index + 1
  /\ crossed' = IF handling = "none" THEN crossed ELSE crossed \cup {group_index, group_index + 1}
  /\ UNCHANGED <<group, is_run, storage, moved, freed, data>>

\* A bug: storage grows by one element.
capacity_by_one == Presize + storage

\* Storage grows to twice its size.
capacity == IF storage = 0 THEN Presize ELSE 2 * Presize

\* A bug: one group too many.
Then_once_more(n) == IF n > Groups THEN "done" ELSE "a_burst"

\* What follows the n-th push_back.
Then(n) == IF n = Groups THEN "done" ELSE "a_burst"

push_back ==
  /\ Len(data) < capacity
  /\ TestGoes("push_back", Then(Len(data) + 1 - Presize))
  /\ data' = Append(data, group)
  /\ UNCHANGED <<group, is_run, group_index, storage, moved, freed, crossed>>

push_back_grows ==
  /\ Len(data) = capacity
  /\ TestGoes("push_back", "move")
  /\ UNCHANGED <<group, is_run, group_index, storage, moved, freed, data, crossed>>

move ==
  /\ Len(moved) < Len(data)
  /\ TestGoes("move", IF Len(moved) + 1 = Len(data) THEN "free" ELSE "move")
  /\ moved' = Append(moved, data[Len(moved) + 1])
  /\ crossed' = IF handling = "none" THEN crossed ELSE crossed \cup {Len(moved)}
  /\ UNCHANGED <<group, is_run, group_index, storage, freed, data>>

free ==
  /\ TestGoes("free", "swap")
  /\ freed' = freed \cup {storage}
  /\ UNCHANGED <<group, is_run, group_index, storage, moved, data, crossed>>

swap ==
  /\ TestGoes("swap", Then(Len(data) + 1 - Presize))
  /\ data' = Append(moved, group)
  /\ storage' = storage + 1
  /\ moved' = <<>>
  /\ UNCHANGED <<group, is_run, group_index, freed, crossed>>

do_test == a_burst \/ next_group \/ push_back \/ push_back_grows \/ move \/ free \/ swap

-----------------------------------------------------------------------------
(* The switch answers each FEATURES_REQUEST at most once. *)

Replies(q) == Cardinality({k \in DOMAIN q : q[k].type = "OFPT_FEATURES_REPLY"})
Requests == Cardinality({k \in DOMAIN written : written[k].type = "OFPT_FEATURES_REQUEST"})

Peer ==
  /\ Alive /\ main # "listen"
  /\ R!Peer(s_session)
  /\ LET begun == IF cut' # cut THEN Append(sent[s_session], cut'[s_session].msg)
                  ELSE sent'[s_session]
     IN  Replies(begun) <= Requests
  /\ UNCHANGED <<svars, hvars, tvars, data, history>>

-----------------------------------------------------------------------------
IoThread == listen \/ send_hello \/ start \/ run_returns \/ Read \/ onMessage_uses

Next == IoThread \/ locate \/ do_test \/ Peer

\* Both threads are scheduled; the switch does what it likes.
Spec == Init /\ [][Next]_vars /\ WF_vars(IoThread) /\ WF_vars(do_test)

-----------------------------------------------------------------------------
TypeOK ==
  /\ R!TypeOK
  /\ main \in {"listen", "send_hello", "start", "run", "failed", "returned", "terminated"}
  /\ handling \in {"none", "first == 0", "first", "last", "count"}
  /\ element.i \in 0 .. Presize - 1 /\ element.of \in 0 .. storage
  /\ tester_t \in {"none", "a_burst", "++group_index", "push_back", "move", "free", "swap", "done"}
  /\ is_run \in BOOLEAN /\ undefined \in BOOLEAN
  /\ group_index \in 0 .. Groups
  /\ Len(data) \in Presize .. Presize + Groups
  /\ unsure \subseteq 1 .. handled

Idle == handling = "none" /\ ~undefined

\* A PACKET_IN is counted once, in one of the first elements; only a count made
\* while the first push_back() moves them may be lost.  What the groups sent is
\* behind them: no element has both numbers of a group.
CountedIn(i) == {k \in DOMAIN counted : counted[k] = i}
CountedOnce ==
  Idle =>
    /\ Len(counted) = handled
    /\ \A i \in 0 .. Presize - 1 :
         /\ data[i + 1].successed_PKTIN_
              \in Cardinality(CountedIn(i) \ unsure) .. Cardinality(CountedIn(i))
         /\ data[i + 1].sent_flow = 0

\* A group's count and its time stamps belong together, unless the group began
\* or was moved within a call of onMessage(): then a PACKET_IN may have its
\* time in one group and its count in the next.
Whole(g) ==
  IF g.successed_PKTIN_ = 0
  THEN g.first = 0 /\ g.last = 0
  ELSE g.first > 0 /\ g.first + g.successed_PKTIN_ <= g.last + 1
TornOnlyAtBoundary ==
  Idle => \A i \in 0 .. Presize - 1 : i \notin crossed => Whole(data[i + 1])

\* Freed storage is used only by a call of onMessage() that overlaps the first
\* push_back(): once that is over and onMessage() idle, never again.
OnlyFirstPushBackUnsafe == [](storage > 0 /\ Idle => []~undefined)

\* The test starts on a FEATURES_REPLY, or when the connection ends in the
\* header of one: its type is then dispatched with the length of HELLO.
TestNeedsReply ==
  tester_t # "none" =>
    \/ Replies(sent[s_session]) > 0
    \/ failed[s_session] /\ cut[s_session].msg.type = "OFPT_FEATURES_REPLY"

\* Once the switch has sent a FEATURES_REPLY the test is run to its end, and
\* only three things can come between: the switch closes, so that run() returns
\* and main destroys the thread nobody has joined; a second FEATURES_REPLY is
\* dispatched, for which another thread takes its place; or onMessage() uses
\* freed storage.  Nothing else ends the process.
ReplyRunsTest ==
  Replies(sent[s_session]) > 0 ~>
    \/ tester_t = "done" \/ undefined
    \/ ~open[s_session] \/ Replies(dispatched[s_session]) > 1
=============================================================================
