------------------------ MODULE PacketInTesterProofs ------------------------
(***************************************************************************)
(* Proofs about the tester, for any number of groups and of elements in    *)
(* data: what its two threads, which nothing orders, cannot do to the      *)
(* elements all the same.                                                  *)
(***************************************************************************)
EXTENDS PacketInTester, FiniteSetTheorems, TLAPS

RP == INSTANCE SessionReadProofs WITH Sessions <- {s_session}

-----------------------------------------------------------------------------
(* The session is the one that was proved about. *)

LEMMA ReaderFits ==
  /\ ofp_header = RP!ofp_header
  /\ RP!ReadAssumption /\ RP!SizeModAssumption /\ RP!TornAssumption
  <1>1. ofp_header = RP!ofp_header /\ Message = RP!Message
    BY DEF ofp_header, ofp_type, UInt16, UInt16Max, Byte, Message, HeaderLen,
           RP!ofp_header, RP!ofp_type, RP!UInt16, RP!UInt16Max, RP!Byte,
           RP!Message, RP!HeaderLen
  <1>2. RP!ReadAssumption
    BY <1>1, TesterAssumption DEF RP!ReadAssumption
  <1> QED
    BY <1>1, <1>2, SizeModAssumption, TornAssumption
    DEF RP!SizeModAssumption, RP!TornAssumption, UInt16Max, Byte, RP!UInt16Max, RP!Byte

LEMMA SameReader ==
  /\ R!Init <=> RP!Init
  /\ R!TypeOK <=> RP!TypeOK
  /\ R!start(s_session) <=> RP!start(s_session)
  /\ R!Peer(s_session) <=> RP!Peer(s_session)
  /\ R!Handler(s_session) <=> RP!Handler(s_session)
  <1>1. R!Init <=> RP!Init
    BY DEF R!Init, RP!Init
  <1>2. R!TypeOK <=> RP!TypeOK
    BY DEF R!TypeOK, RP!TypeOK, R!Phase, RP!Phase, R!ofp_header, R!ofp_type, R!UInt16,
       R!UInt16Max, R!Byte, R!Message, R!HeaderLen, RP!ofp_header, RP!ofp_type, RP!UInt16,
       RP!UInt16Max, RP!Byte, RP!Message, RP!HeaderLen
  <1>3. R!start(s_session) <=> RP!start(s_session)
    BY DEF R!start, RP!start, R!read, RP!read
  <1>4. R!Peer(s_session) <=> RP!Peer(s_session)
    BY DEF R!Peer, RP!Peer, R!PeerSends, RP!PeerSends, R!PeerCloses, RP!PeerCloses
  <1>5. R!Handler(s_session) <=> RP!Handler(s_session)
    BY DEF R!Handler, RP!Handler, R!handle_read_header, RP!handle_read_header,
       R!handle_read_header_of_cut, RP!handle_read_header_of_cut, R!handle_read_header_error,
       RP!handle_read_header_error, R!handle_read, RP!handle_read, R!handle_read_error,
       RP!handle_read_error, R!ParseHeader, RP!ParseHeader, R!Received, RP!Received,
       R!Splice, RP!Splice, R!BodyLength, RP!BodyLength, R!StreamEnded, RP!StreamEnded,
       R!Dispatch, RP!Dispatch, R!read, RP!read, R!HeaderLen, RP!HeaderLen, R!Byte, RP!Byte
  <1> QED
    BY <1>1, <1>2, <1>3, <1>4, <1>5

\* A step of the tester is a step of the session or leaves it alone.
ReadStep == RP!start(s_session) \/ RP!Peer(s_session) \/ RP!Handler(s_session)

LEMMA ReadSteps == [Next]_vars => ReadStep \/ UNCHANGED rvars
  <1> SUFFICES ASSUME [Next]_vars PROVE ReadStep \/ UNCHANGED rvars
    OBVIOUS
  <1>1. CASE start \/ Read \/ Peer
    BY <1>1, SameReader DEF start, Read, Peer, ReadStep
  <1>2. CASE listen \/ send_hello \/ run_returns \/ onMessage_uses \/ locate \/ do_test
    BY <1>2 DEF listen, send_hello, run_returns, onMessage_uses, is_first, set_first,
       set_last, count, Use, locate, do_test, a_burst, next_group, push_back,
       push_back_grows, move, free, swap, TestGoes
  <1> QED
    BY <1>1, <1>2 DEF Next, IoThread, vars

ReaderSound == RP!TypeOK /\ RP!AllSound

LEMMA ReaderInit == R!Init => ReaderSound
  BY ReaderFits, SameReader, RP!TypedInit, RP!SoundInit DEF ReaderSound

LEMMA ReaderStep == ReaderSound /\ (ReadStep \/ UNCHANGED rvars) => ReaderSound'
  <1> SUFFICES ASSUME ReaderSound, ReadStep \/ UNCHANGED rvars PROVE ReaderSound'
    OBVIOUS
  <1>1. RP!Next \/ UNCHANGED RP!rvars
    BY DEF ReadStep, RP!Next, rvars, RP!rvars
  <1> QED
    BY <1>1, ReaderFits, RP!TypedStep, RP!SoundStep DEF ReaderSound

-----------------------------------------------------------------------------
(* What a step does to the elements and to what their users remember. *)

evars == <<hvars, tvars, data, history>>

Main == {"listen", "send_hello", "start", "run", "failed", "returned", "terminated"}

Begins ==
  /\ handling = "none" /\ ~undefined /\ main' = main
  /\ onMessage_begins

Starts ==
  /\ tester_t = "none" /\ tester_t' = "a_burst" /\ main' = main
  /\ UNCHANGED <<hvars, group, is_run, group_index, storage, moved, freed, data, history>>

LEMMA Steps ==
  main \in Main /\ [Next]_vars =>
    /\ main' \in Main
    /\ \/ UNCHANGED evars \/ Starts \/ Begins
       \/ locate \/ onMessage_uses \/ do_test
  <1> SUFFICES ASSUME main \in Main, [Next]_vars
               PROVE  /\ main' \in Main
                      /\ \/ UNCHANGED evars \/ Starts \/ Begins
                         \/ locate \/ onMessage_uses \/ do_test
    OBVIOUS
  <1>1. CASE listen \/ send_hello \/ start \/ run_returns \/ Peer \/ UNCHANGED vars
    BY <1>1 DEF listen, send_hello, start, run_returns, Peer, vars, svars, evars, Main
  <1>2. CASE Read
    <2>1. main = "run" /\ handling = "none" /\ ~undefined
      BY <1>2 DEF Read
    <2>2. PICK callback :
            \/ UNCHANGED <<svars, hvars, tvars, data, history>>
            \/ Call(callback)
      BY <1>2 DEF Read
    <2>3. CASE send_feature_request \/ UNCHANGED <<svars, hvars, tvars, data, history>>
      BY <2>1, <2>3 DEF send_feature_request, svars, evars, Main
    <2>4. CASE test
      <3>1. CASE tester_t = "none"
        BY <2>1, <2>4, <3>1 DEF test, Starts, Main
      <3>2. CASE tester_t # "none"
        BY <2>1, <2>4, <3>2 DEF test, tvars, evars, Main
      <3> QED
        BY <3>1, <3>2
    <2>5. CASE onMessage_begins
      BY <2>1, <2>5 DEF onMessage_begins, svars, Begins, Main
    <2> QED
      BY <2>2, <2>3, <2>4, <2>5 DEF Call
  <1>3. CASE locate \/ onMessage_uses \/ do_test
    BY <1>3 DEF locate, onMessage_uses, is_first, set_first, set_last, count, Use,
       do_test, a_burst, next_group, push_back, push_back_grows, move, free, swap,
       TestGoes, svars
  <1> QED
    BY <1>1, <1>2, <1>3 DEF Next, IoThread

\* A use of the element leaves everything else alone; if the element is in
\* freed storage, the element too.
UseEffect(from, to, e) ==
  /\ handling = from /\ ~undefined
  /\ \/ undefined' = TRUE /\ UNCHANGED <<handling, data>>
     \/ /\ element.of \notin freed
        /\ handling' = to /\ undefined' = undefined
        /\ data' = [data EXCEPT ![element.i + 1] = e]
  /\ UNCHANGED <<element, tvars, handled, crossed>>

LEMMA Uses ==
  onMessage_uses =>
    \/ /\ UseEffect("first == 0", IF Element.first = 0 THEN "first" ELSE "last", Element)
       /\ UNCHANGED <<counted, unsure>>
    \/ /\ UseEffect("first", "last", [Element EXCEPT !.first = handled])
       /\ UNCHANGED <<counted, unsure>>
    \/ /\ UseEffect("last", "count", [Element EXCEPT !.last = handled])
       /\ UNCHANGED <<counted, unsure>>
    \/ /\ UseEffect("count", "none", [Element EXCEPT !.successed_PKTIN_ = @ + 1])
       /\ counted' = Append(counted, element.i)
       /\ unsure' = IF Moving THEN unsure \cup {handled} ELSE unsure
  BY DEF onMessage_uses, is_first, set_first, set_last, count, Use, UseEffect, now, Alive

-----------------------------------------------------------------------------
(* Types, and how far the test thread is. *)

Groups_ == [sent_flow : Nat, first : Nat, last : Nat, successed_PKTIN_ : Nat]

HandlingOK ==
  /\ handling \in {"none", "first == 0", "first", "last", "count"}
  /\ undefined \in BOOLEAN
  /\ element \in [i : Nat, of : Nat]
  /\ element.i <= group_index /\ element.of <= storage
  /\ handled \in Nat /\ counted \in Seq(Nat) /\ unsure \subseteq 1 .. handled
  /\ handling # "none" => handled > 0

\* data has grown, once, when there is a group behind the first elements.
GroupsOK ==
  /\ is_run \in BOOLEAN
  /\ group_index \in Nat /\ group \in Groups_
  /\ data \in Seq(Groups_) /\ moved \in Seq(Groups_)
  /\ storage \in {0, 1}
  /\ freed = IF storage = 1 \/ tester_t = "swap" THEN {0} ELSE {}
  /\ storage = 0 => Len(data) = Presize
  /\ storage = 1 => Len(data) > Presize

\* group_index is ahead of the groups in data during push_back().
PushedOK ==
  /\ tester_t \in {"none", "a_burst", "++group_index", "push_back", "move", "free", "swap", "done"}
  /\ group_index = IF tester_t = "push_back" \/ Moving
                   THEN Len(data) - Presize + 1 ELSE Len(data) - Presize
  /\ IF tester_t = "done" THEN Len(data) = Presize + Groups ELSE Len(data) < Presize + Groups
  /\ Moving => storage = 0
  /\ tester_t = "move" => Len(moved) < Len(data)
  /\ tester_t \in {"free", "swap"} => Len(moved) = Len(data)
  /\ ~Moving => moved = <<>>

Shape == main \in Main /\ HandlingOK /\ GroupsOK /\ PushedOK

LEMMA Sizes ==
  Presize \in Nat /\ Groups \in Nat /\ Groups > 0 /\ Groups < Presize
  BY TesterAssumption

LEMMA Numbers ==
  ASSUME Shape
  PROVE  /\ element.i \in Nat /\ element.of \in Nat
         /\ element.i <= group_index /\ element.of <= storage
         /\ group_index \in Nat /\ storage \in Nat /\ storage \in {0, 1}
         /\ handled \in Nat
  <1>1. element.i \in Nat /\ element.of \in Nat /\ handled \in Nat
        /\ element.i <= group_index /\ element.of <= storage
    BY DEF Shape, HandlingOK
  <1>2. group_index \in Nat /\ storage \in {0, 1}
    BY DEF Shape, GroupsOK
  <1>3. storage \in Nat
    BY <1>2
  <1> QED
    BY <1>1, <1>2, <1>3

\* The element that is located is one of the first.
LEMMA LocatedFirst ==
  ASSUME Shape
  PROVE  /\ group_index \in 0 .. Groups
         /\ element.i \in 0 .. Presize - 1
         /\ element.i + 1 \in 1 .. Len(data)
         /\ Element \in Groups_
  <1>1. /\ Len(data) \in Nat /\ Len(data) >= Presize
        /\ Len(data) <= Presize + Groups
    BY Sizes DEF Shape, GroupsOK, PushedOK
  <1>2. group_index \in 0 .. Groups
    BY <1>1, Sizes DEF Shape, GroupsOK, PushedOK, Moving
  <1>3. element.i \in 0 .. Presize - 1
    <2>1. element.i \in Nat /\ element.i <= group_index
      BY DEF Shape, HandlingOK
    <2> QED
      BY <1>2, <2>1, Sizes
  <1>4. element.i + 1 \in 1 .. Len(data)
    BY <1>1, <1>3, Sizes
  <1>5. Element \in Groups_
    BY <1>4 DEF Element, Shape, GroupsOK
  <1> QED
    BY <1>2, <1>3, <1>4, <1>5

LEMMA ShapeInit == Init => Shape
  <1> SUFFICES ASSUME Init PROVE Shape
    OBVIOUS
  <1>1. Group \in Groups_
    BY DEF Group, Groups_
  <1>2. data \in Seq(Groups_) /\ Len(data) = Presize
    BY <1>1, Sizes DEF Init
  <1>3. HandlingOK
    <2>1. <<>> \in Seq(Nat) /\ [i |-> 0, of |-> 0] \in [i : Nat, of : Nat]
      OBVIOUS
    <2>2. /\ handling = "none" /\ element = [i |-> 0, of |-> 0] /\ undefined = FALSE
          /\ group_index = 0 /\ storage = 0 /\ handled = 0 /\ counted = <<>> /\ unsure = {}
      BY DEF Init
    <2>3. element.i = 0 /\ element.of = 0 /\ element \in [i : Nat, of : Nat]
      BY <2>1, <2>2
    <2>4. undefined \in BOOLEAN
      BY <2>2
    <2>5. unsure \subseteq 1 .. handled /\ counted \in Seq(Nat) /\ handled \in Nat
      BY <2>1, <2>2
    <2> QED
      BY <2>2, <2>3, <2>4, <2>5 DEF HandlingOK
  <1> QED
    BY <1>1, <1>2, <1>3, Sizes DEF Init, Shape, GroupsOK, PushedOK, Moving, Main

LEMMA ShapeUses ==
  ASSUME Shape, onMessage_uses
  PROVE  HandlingOK' /\ GroupsOK' /\ PushedOK'
  <1>1. /\ element.i \in Nat /\ element.i + 1 \in 1 .. Len(data) /\ Element \in Groups_
        /\ handled \in Nat
    BY LocatedFirst DEF Shape, HandlingOK
  <1>2. /\ [Element EXCEPT !.first = handled] \in Groups_
        /\ [Element EXCEPT !.last = handled] \in Groups_
        /\ [Element EXCEPT !.successed_PKTIN_ = @ + 1] \in Groups_
    BY <1>1 DEF Groups_
  <1>3. ASSUME NEW from, NEW to, NEW e \in Groups_, UseEffect(from, to, e)
        PROVE  /\ data' \in Seq(Groups_) /\ Len(data') = Len(data)
               /\ handling' \in {handling, to} /\ undefined' \in BOOLEAN
               /\ UNCHANGED <<element, tvars, handled>>
    <2>1. data \in Seq(Groups_) /\ undefined \in BOOLEAN
      BY DEF Shape, GroupsOK, HandlingOK
    <2>2. CASE undefined' = TRUE /\ UNCHANGED <<handling, data>>
      BY <1>3, <2>1, <2>2 DEF UseEffect
    <2>3. CASE /\ handling' = to /\ undefined' = undefined
               /\ data' = [data EXCEPT ![element.i + 1] = e]
      <3>1. data' \in Seq(Groups_) /\ Len(data') = Len(data)
        BY <1>1, <1>3, <2>1, <2>3
      <3> QED
        BY <1>3, <2>1, <2>3, <3>1 DEF UseEffect
    <2> QED
      BY <1>3, <2>2, <2>3 DEF UseEffect
  <1>4. /\ data' \in Seq(Groups_) /\ Len(data') = Len(data)
        /\ handling' \in {"none", "first == 0", "first", "last", "count"}
        /\ undefined' \in BOOLEAN /\ UNCHANGED <<element, tvars, handled>>
    BY <1>1, <1>2, <1>3, Uses DEF Shape, HandlingOK
  <1>5. counted' \in Seq(Nat) /\ unsure' \subseteq 1 .. handled
    <2>1. handling = "count" => handled \in 1 .. handled
      BY DEF Shape, HandlingOK
    <2>2. CASE UNCHANGED <<counted, unsure>>
      BY <2>2 DEF Shape, HandlingOK
    <2>3. CASE /\ handling = "count" /\ counted' = Append(counted, element.i)
               /\ unsure' = IF Moving THEN unsure \cup {handled} ELSE unsure
      <3>1. counted' \in Seq(Nat)
        BY <1>1, <2>3 DEF Shape, HandlingOK
      <3> QED
        BY <2>1, <2>3, <3>1 DEF Shape, HandlingOK
    <2> QED
      BY <2>2, <2>3, Uses DEF UseEffect
  <1>6. UNCHANGED <<element, tester_t, group, is_run, group_index, storage, moved, freed, handled>>
    BY <1>4 DEF tvars
  <1>7. handling' # "none" => handled > 0
    <2>1. handling # "none"
      BY DEF onMessage_uses, is_first, set_first, set_last, count, Use
    <2> QED
      BY <2>1 DEF Shape, HandlingOK
  <1>8. HandlingOK'
    BY <1>4, <1>5, <1>6, <1>7 DEF Shape, HandlingOK
  <1>9. GroupsOK'
    BY <1>4, <1>6 DEF Shape, GroupsOK
  <1> QED
    BY <1>4, <1>6, <1>8, <1>9 DEF Shape, PushedOK, Moving

LEMMA ShapeTest ==
  ASSUME Shape, do_test
  PROVE  HandlingOK' /\ GroupsOK' /\ PushedOK'
  <1>1. UNCHANGED <<handling, element, undefined, handled, counted, unsure>>
    BY DEF do_test, a_burst, next_group, push_back, push_back_grows, move, free, swap,
       TestGoes, hvars
  <1>2. /\ element.i \in Nat /\ element.i <= group_index /\ element.of <= storage
        /\ element.of \in Nat /\ group_index \in Nat /\ storage \in {0, 1}
        /\ group \in Groups_ /\ is_run \in BOOLEAN
        /\ data \in Seq(Groups_) /\ moved \in Seq(Groups_)
        /\ Len(data) \in Nat /\ Len(moved) \in Nat
        /\ storage = 0 => Len(data) = Presize
        /\ storage = 1 => Len(data) > Presize
        /\ freed = IF storage = 1 \/ tester_t = "swap" THEN {0} ELSE {}
    BY Numbers DEF Shape, GroupsOK
  <1> SUFFICES /\ element.i <= group_index' /\ element.of <= storage'
               /\ GroupsOK' /\ PushedOK'
    BY <1>1 DEF Shape, HandlingOK
  <1>3. CASE a_burst
    <2>1. /\ tester_t = "a_burst" /\ tester_t' = "++group_index" /\ is_run' = FALSE
          /\ UNCHANGED <<group_index, storage, moved, freed, data>>
      BY <1>3 DEF a_burst, TestGoes
    <2>2. group' \in Groups_
      <3>1. PICK n \in IF is_run THEN Flows ELSE {0} : group' = [Group EXCEPT !.sent_flow = n]
        BY <1>3 DEF a_burst
      <3>2. n \in Nat
        BY <3>1, TesterAssumption
      <3> QED
        BY <3>1, <3>2 DEF Group, Groups_
    <2>3. GroupsOK'
      BY <1>2, <2>1, <2>2 DEF GroupsOK
    <2> QED
      BY <1>2, <2>1, <2>3 DEF Shape, PushedOK, Moving
  <1>4. CASE next_group
    <2>1. /\ tester_t = "++group_index" /\ tester_t' = "push_back"
          /\ group_index' = group_index + 1
          /\ UNCHANGED <<group, is_run, storage, moved, freed, data>>
      BY <1>4 DEF next_group, TestGoes
    <2>2. GroupsOK'
      BY <1>2, <2>1 DEF GroupsOK
    <2> QED
      BY <1>2, <2>1, <2>2 DEF Shape, PushedOK, Moving
  <1>5. CASE push_back
    <2>1. /\ tester_t = "push_back" /\ tester_t' = Then(Len(data) + 1 - Presize)
          /\ Len(data) < capacity /\ data' = Append(data, group)
          /\ UNCHANGED <<group, is_run, group_index, storage, moved, freed>>
      BY <1>5 DEF push_back, TestGoes
    <2>2. storage = 1
      BY <1>2, <2>1 DEF capacity
    <2>3. data' \in Seq(Groups_) /\ Len(data') = Len(data) + 1
      BY <1>2, <2>1
    <2>4. GroupsOK'
      BY <1>2, <2>1, <2>2, <2>3, Sizes DEF GroupsOK
    <2>5. tester_t' = IF Len(data) + 1 - Presize = Groups THEN "done" ELSE "a_burst"
      BY <2>1 DEF Then
    <2> QED
      BY <1>2, <2>1, <2>3, <2>4, <2>5, Sizes DEF Shape, PushedOK, Moving
  <1>6. CASE push_back_grows
    <2>1. /\ tester_t = "push_back" /\ tester_t' = "move" /\ Len(data) = capacity
          /\ UNCHANGED <<group, is_run, group_index, storage, moved, freed, data>>
      BY <1>6 DEF push_back_grows, TestGoes
    <2>2. moved = <<>> /\ Len(data) < Presize + Groups
      BY <2>1 DEF Shape, PushedOK, Moving
    <2>3. storage = 0
      BY <1>2, <2>1, <2>2, Sizes DEF capacity
    <2>4. GroupsOK'
      BY <1>2, <2>1 DEF GroupsOK
    <2>5. Len(moved) = 0
      BY <2>2
    <2> QED
      BY <1>2, <2>1, <2>2, <2>3, <2>4, <2>5, Sizes DEF Shape, PushedOK, Moving
  <1>7. CASE move
    <2>1. /\ tester_t = "move"
          /\ tester_t' = IF Len(moved) + 1 = Len(data) THEN "free" ELSE "move"
          /\ Len(moved) < Len(data) /\ moved' = Append(moved, data[Len(moved) + 1])
          /\ UNCHANGED <<group, is_run, group_index, storage, freed, data>>
      BY <1>7 DEF move, TestGoes
    <2>2. data[Len(moved) + 1] \in Groups_
      BY <1>2, <2>1
    <2>3. moved' \in Seq(Groups_) /\ Len(moved') = Len(moved) + 1
      BY <1>2, <2>1, <2>2
    <2>4. GroupsOK'
      BY <1>2, <2>1, <2>3 DEF GroupsOK
    <2> QED
      BY <1>2, <2>1, <2>3, <2>4 DEF Shape, PushedOK, Moving
  <1>8. CASE free
    <2>1. /\ tester_t = "free" /\ tester_t' = "swap" /\ freed' = freed \cup {storage}
          /\ UNCHANGED <<group, is_run, group_index, storage, moved, data>>
      BY <1>8 DEF free, TestGoes
    <2>2. storage = 0
      BY <2>1 DEF Shape, PushedOK, Moving
    <2>3. freed' = {0}
      BY <1>2, <2>1, <2>2
    <2>4. GroupsOK'
      BY <1>2, <2>1, <2>3 DEF GroupsOK
    <2> QED
      BY <1>2, <2>1, <2>4 DEF Shape, PushedOK, Moving
  <1>9. CASE swap
    <2>1. /\ tester_t = "swap" /\ tester_t' = Then(Len(data) + 1 - Presize)
          /\ data' = Append(moved, group) /\ storage' = storage + 1 /\ moved' = <<>>
          /\ UNCHANGED <<group, is_run, group_index, freed>>
      BY <1>9 DEF swap, TestGoes
    <2>2. storage = 0 /\ Len(moved) = Len(data) /\ storage' = 1
      BY <2>1 DEF Shape, PushedOK, Moving
    <2>3. data' \in Seq(Groups_) /\ Len(data') = Len(data) + 1 /\ moved' \in Seq(Groups_)
      BY <1>2, <2>1, <2>2
    <2>4. GroupsOK'
      <3>1. Len(data') > Presize
        BY <1>2, <2>2, <2>3, Sizes
      <3> QED
        BY <1>2, <2>1, <2>2, <2>3, <3>1 DEF GroupsOK
    <2>5. tester_t' = IF Len(data) + 1 - Presize = Groups THEN "done" ELSE "a_burst"
      BY <2>1 DEF Then
    <2> QED
      BY <1>2, <2>1, <2>2, <2>3, <2>4, <2>5, Sizes DEF Shape, PushedOK, Moving
  <1> QED
    BY <1>3, <1>4, <1>5, <1>6, <1>7, <1>8, <1>9 DEF do_test

LEMMA ShapeStep == Shape /\ [Next]_vars => Shape'
  <1> SUFFICES ASSUME Shape, [Next]_vars PROVE Shape'
    OBVIOUS
  <1>1. main' \in Main
    BY Steps DEF Shape
  <1>2. CASE UNCHANGED evars
    <2>1. UNCHANGED <<handling, element, undefined, handled, counted, unsure>>
      BY <1>2 DEF evars, hvars, history
    <2>2. UNCHANGED <<tester_t, group, is_run, group_index, storage, moved, freed, data>>
      BY <1>2 DEF evars, tvars
    <2>3. HandlingOK'
      BY <2>1, <2>2 DEF Shape, HandlingOK
    <2>4. GroupsOK' /\ PushedOK'
      BY <2>1, <2>2 DEF Shape, GroupsOK, PushedOK, Moving
    <2> QED
      BY <1>1, <2>3, <2>4 DEF Shape
  <1>3. CASE Starts
    <2>1. /\ tester_t = "none" /\ tester_t' = "a_burst"
          /\ UNCHANGED <<handling, element, undefined, handled, counted, unsure>>
          /\ UNCHANGED <<group, is_run, group_index, storage, moved, freed, data>>
      BY <1>3 DEF Starts, hvars, history
    <2> QED
      BY <1>1, <2>1 DEF Shape, HandlingOK, GroupsOK, PushedOK, Moving
  <1>4. CASE Begins
    <2>1. /\ handling' = "first == 0" /\ element' = Located /\ handled' = handled + 1
          /\ UNCHANGED <<undefined, counted, unsure>>
          /\ UNCHANGED <<tester_t, group, is_run, group_index, storage, moved, freed, data>>
      BY <1>4 DEF Begins, onMessage_begins, tvars
    <2>2. group_index \in Nat /\ storage \in Nat /\ handled \in Nat
      BY Numbers
    <2>3. HandlingOK'
      <3>1. /\ element' \in [i : Nat, of : Nat]
            /\ element'.i = group_index /\ element'.of = storage
        BY <2>1, <2>2 DEF Located
      <3>2. handled' \in Nat /\ handled' > 0 /\ handled' > handled
        <4>1. handled' = handled + 1 /\ handled \in Nat
          BY <2>1, <2>2
        <4> QED
          BY <4>1
      <3>3. unsure \subseteq 1 .. handled'
        <4> SUFFICES ASSUME NEW k \in unsure PROVE k \in 1 .. handled'
          OBVIOUS
        <4>1. k \in 1 .. handled
          BY DEF Shape, HandlingOK
        <4> QED
          BY <2>2, <3>2, <4>1
      <3>4. element'.i <= group_index /\ element'.of <= storage
        BY <2>2, <3>1
      <3> QED
        BY <2>1, <3>1, <3>2, <3>3, <3>4 DEF Shape, HandlingOK
    <2> QED
      BY <1>1, <2>1, <2>3 DEF Shape, GroupsOK, PushedOK, Moving
  <1>5. CASE locate
    <2>1. /\ UNCHANGED <<handling, undefined, handled, counted, unsure>>
          /\ UNCHANGED <<tester_t, group, is_run, group_index, storage, moved, freed, data>>
      BY <1>5 DEF locate, tvars, history
    <2>2. element' \in [i : {element.i, group_index}, of : {element.of, storage}]
      BY <1>5 DEF locate
    <2>3. group_index \in Nat /\ storage \in Nat /\ element.i \in Nat /\ element.of \in Nat
          /\ element.i <= group_index /\ element.of <= storage
      BY Numbers
    <2>4. /\ element' \in [i : Nat, of : Nat]
          /\ element'.i <= group_index /\ element'.of <= storage
      BY <2>2, <2>3
    <2>5. HandlingOK'
      BY <2>1, <2>4 DEF Shape, HandlingOK
    <2>6. GroupsOK' /\ PushedOK'
      BY <2>1 DEF Shape, GroupsOK, PushedOK, Moving
    <2> QED
      BY <1>1, <2>5, <2>6 DEF Shape
  <1>6. CASE onMessage_uses
    BY <1>1, <1>6, ShapeUses DEF Shape
  <1>7. CASE do_test
    BY <1>1, <1>7, ShapeTest DEF Shape
  <1> QED
    BY <1>2, <1>3, <1>4, <1>5, <1>6, <1>7, Steps DEF Shape

LEMMA Basis == Spec => [](Shape /\ ReaderSound)
  <1>1. Init => Shape /\ ReaderSound
    BY ShapeInit, ReaderInit DEF Init
  <1>2. (Shape /\ ReaderSound) /\ [Next]_vars => (Shape /\ ReaderSound)'
    BY ShapeStep, ReadSteps, ReaderStep
  <1> QED
    BY <1>1, <1>2, PTL DEF Spec

\* The variables keep their types; however many groups there are, group_index
\* stays within the elements data had in the beginning: the two threads of
\* PacketInTester.
THEOREM TypeCorrect == Spec => []TypeOK
  <1>1. Shape /\ ReaderSound => TypeOK
    <2> SUFFICES ASSUME Shape, ReaderSound PROVE TypeOK
      OBVIOUS
    <2>1. R!TypeOK
      BY SameReader DEF ReaderSound
    <2>2. /\ group_index \in 0 .. Groups /\ element.i \in 0 .. Presize - 1
          /\ Len(data) \in Presize .. Presize + Groups
      <3>1. Len(data) \in Nat /\ Len(data) >= Presize /\ Len(data) <= Presize + Groups
        BY Sizes DEF Shape, GroupsOK, PushedOK
      <3> QED
        BY <3>1, LocatedFirst, Sizes
    <2>3. element.of \in 0 .. storage
      <3>1. element.of \in Nat /\ element.of <= storage /\ storage \in Nat
        BY Numbers
      <3> QED
        BY <3>1
    <2> QED
      BY <2>1, <2>2, <2>3 DEF TypeOK, Shape, HandlingOK, GroupsOK, PushedOK, Main
  <1> QED
    BY <1>1, Basis, PTL

-----------------------------------------------------------------------------
(* Freed storage. *)

\* Behind the first push_back(), the storage in use is never freed, and no call
\* of onMessage() remembers the old one.
Moved == storage > 0 /\ ~undefined /\ (handling # "none" => element.of = storage)

LEMMA MovedStep == Shape /\ Moved /\ [Next]_vars => Moved'
  <1> SUFFICES ASSUME Shape, Moved, [Next]_vars PROVE Moved'
    OBVIOUS
  <1>1. storage = 1 /\ freed = {0}
    BY DEF Shape, GroupsOK, Moved
  <1>2. CASE UNCHANGED evars
    BY <1>2 DEF evars, hvars, tvars, Moved
  <1>3. CASE Starts
    BY <1>3 DEF Starts, hvars, Moved
  <1>4. CASE Begins
    BY <1>4 DEF Begins, onMessage_begins, Located, tvars, Moved
  <1>5. CASE locate
    <2>1. element' \in [i : {element.i, group_index}, of : {element.of, storage}]
          /\ handling # "none" /\ UNCHANGED <<handling, undefined, storage>>
      BY <1>5 DEF locate, tvars
    <2> QED
      BY <2>1 DEF Moved
  <1>6. CASE onMessage_uses
    <2>1. handling # "none" /\ element.of \notin freed
      <3>1. handling # "none"
        BY <1>6 DEF onMessage_uses, is_first, set_first, set_last, count, Use
      <3> QED
        BY <1>1, <3>1 DEF Moved
    <2>2. UNCHANGED <<undefined, storage, element>>
      BY <1>6, <2>1 DEF onMessage_uses, is_first, set_first, set_last, count, Use, tvars
    <2> QED
      BY <2>1, <2>2 DEF Moved
  <1>7. CASE do_test
    <2>1. tester_t # "swap"
      BY <1>1 DEF Shape, PushedOK, Moving
    <2>2. UNCHANGED <<handling, element, undefined, storage>>
      BY <1>7, <2>1 DEF do_test, a_burst, next_group, push_back, push_back_grows, move,
         free, swap, TestGoes, hvars
    <2> QED
      BY <2>2 DEF Moved
  <1> QED
    BY <1>2, <1>3, <1>4, <1>5, <1>6, <1>7, Steps DEF Shape

\* Once the first push_back() is over and onMessage() idle, no later use of an
\* element is of freed storage: do_test and onMessage of PacketInTester.
THEOREM SafeBehindFirst == Spec => OnlyFirstPushBackUnsafe
  <1>1. storage > 0 /\ Idle => Moved
    BY DEF Idle, Moved
  <1>2. Moved => ~undefined
    BY DEF Moved
  <1> QED
    BY <1>1, <1>2, Basis, MovedStep, PTL DEF Spec, OnlyFirstPushBackUnsafe

-----------------------------------------------------------------------------
(* The count. *)

\* The fewest and the most that the i-th element may have counted.
Surely(i) == Cardinality(CountedIn(i) \ unsure)
Possibly(i) == Cardinality(CountedIn(i))

Fair(g, i) ==
  g.successed_PKTIN_ \in Surely(i) .. Possibly(i) /\ g.sent_flow = 0

\* So it is in data and, while push_back() moves it, in the new storage.
AllFair(q) == \A i \in 0 .. Presize - 1 : i < Len(q) => Fair(q[i + 1], i)

Counts ==
  ~undefined =>
    /\ Len(counted) = IF handling = "none" THEN handled ELSE handled - 1
    /\ AllFair(data) /\ AllFair(moved)

LEMMA CountedFinite ==
  ASSUME counted \in Seq(Nat), NEW i, NEW S
  PROVE  IsFiniteSet(CountedIn(i) \ S) /\ Cardinality(CountedIn(i) \ S) \in Nat
  <1>1. IsFiniteSet(1 .. Len(counted))
    BY FS_Interval
  <1>2. CountedIn(i) \ S \subseteq 1 .. Len(counted)
    BY DEF CountedIn
  <1> QED
    BY <1>1, <1>2, FS_Subset, FS_CardinalityType

\* Counting one more in the element located.
LEMMA CountGrows ==
  ASSUME Shape, NEW i \in Nat, counted' = Append(counted, element.i),
         Len(counted) + 1 = handled,
         unsure' = IF Moving THEN unsure \cup {handled} ELSE unsure
  PROVE  /\ Surely(i) \in Nat /\ Possibly(i) \in Nat
         /\ Surely(i)' \in Nat /\ Possibly(i)' \in Nat
         /\ i = element.i => Possibly(i)' = Possibly(i) + 1
         /\ i # element.i => Possibly(i)' = Possibly(i)
         /\ Surely(i)' <= Surely(i) + 1
         /\ i # element.i \/ Moving => Surely(i)' = Surely(i)
  <1>1. counted \in Seq(Nat) /\ Len(counted) \in Nat /\ element.i \in Nat
    <2>1. counted \in Seq(Nat)
      BY DEF Shape, HandlingOK
    <2> QED
      BY <2>1, Numbers
  <1> DEFINE k == Len(counted) + 1
             old == CountedIn(i)
             new == CountedIn(i)'
  <1>2. /\ counted' \in Seq(Nat) /\ DOMAIN counted' = 1 .. k /\ DOMAIN counted = 1 .. Len(counted)
        /\ k \notin DOMAIN counted /\ counted'[k] = element.i
        /\ \A j \in DOMAIN counted : j \in 1 .. k /\ j # k /\ counted'[j] = counted[j]
    BY <1>1
  <1>3. new = IF i = element.i THEN old \cup {k} ELSE old
    <2>1. new = {j \in 1 .. k : counted'[j] = i}
      BY <1>2 DEF CountedIn
    <2>2. \A j \in 1 .. k : j = k \/ j \in DOMAIN counted
      BY <1>1, <1>2
    <2> QED
      BY <1>2, <2>1, <2>2 DEF CountedIn
  <1>4. k \notin old
    BY <1>2 DEF CountedIn
  <1>5. \A S : IsFiniteSet(old \ S) /\ Cardinality(old \ S) \in Nat
    BY <1>1, CountedFinite
  <1>6. old \ {} = old
    OBVIOUS
  <1>7. IsFiniteSet(old) /\ Cardinality(old) \in Nat
    BY <1>5, <1>6
  <1>8. /\ Surely(i) = Cardinality(old \ unsure) /\ Possibly(i) = Cardinality(old)
        /\ Surely(i)' = Cardinality(new \ unsure') /\ Possibly(i)' = Cardinality(new)
    BY DEF Surely, Possibly
  <1>11. Cardinality(old \ unsure) \in Nat
    BY <1>5
  <1> HIDE DEF old, new, k
  <1>9. CASE i # element.i
    <2>1. new = old /\ old \ unsure' = old \ unsure
      <3>1. k = handled
        BY DEF k
      <3> QED
        BY <1>3, <1>4, <1>9, <3>1
    <2>2. /\ Surely(i)' = Surely(i) /\ Surely(i) \in Nat
          /\ Possibly(i)' = Possibly(i) /\ Possibly(i) \in Nat
      BY <1>7, <1>8, <1>9, <1>11, <2>1
    <2> QED
      BY <1>9, <2>2
  <1>10. CASE i = element.i
    <2>1. new = old \cup {k} /\ k = handled
      BY <1>3, <1>10 DEF k
    <2>2. Cardinality(new) = Cardinality(old) + 1
      BY <1>4, <1>7, <2>1, FS_AddElement
    <2>5. Possibly(i)' = Possibly(i) + 1 /\ Possibly(i) \in Nat
      BY <1>7, <1>8, <2>2
    <2>3. CASE Moving \/ k \in unsure
      <3>1. new \ unsure' = old \ unsure
        BY <1>4, <2>1, <2>3
      <3>2. Surely(i)' = Surely(i) /\ Surely(i) \in Nat
        BY <1>8, <1>11, <3>1
      <3> QED
        BY <1>10, <2>5, <3>2
    <2>4. CASE ~Moving /\ k \notin unsure
      <3>1. new \ unsure' = (old \ unsure) \cup {k} /\ k \notin old \ unsure
        BY <1>4, <2>1, <2>4
      <3>2. Cardinality(new \ unsure') = Cardinality(old \ unsure) + 1
        BY <1>5, <3>1, FS_AddElement
      <3>3. Surely(i)' = Surely(i) + 1 /\ Surely(i) \in Nat
        BY <1>8, <1>11, <3>2
      <3> QED
        BY <1>10, <2>4, <2>5, <3>3
    <2> QED
      BY <2>3, <2>4
  <1> QED
    BY <1>9, <1>10

LEMMA FairKept ==
  ASSUME UNCHANGED <<counted, unsure>>
  PROVE  \A i : Surely(i)' = Surely(i) /\ Possibly(i)' = Possibly(i)
  BY DEF Surely, Possibly, CountedIn

LEMMA CountsUses ==
  ASSUME Shape, Counts, onMessage_uses
  PROVE  Counts'
  <1>1. ~undefined /\ handling # "none"
    BY DEF onMessage_uses, is_first, set_first, set_last, count, Use, Alive
  <1>2. /\ Len(counted) = handled - 1 /\ AllFair(data) /\ AllFair(moved)
        /\ handled \in Nat /\ counted \in Seq(Nat) /\ Len(counted) \in Nat
    <2>1. counted \in Seq(Nat)
      BY DEF Shape, HandlingOK
    <2> QED
      BY <1>1, <2>1, Numbers DEF Counts
  <1>3. /\ element.i \in Nat /\ element.i + 1 \in 1 .. Len(data) /\ Element \in Groups_
        /\ Presize \in Nat /\ data \in Seq(Groups_) /\ moved \in Seq(Groups_)
        /\ Len(data) \in Nat /\ Len(moved) \in Nat
    BY Numbers, LocatedFirst, Sizes DEF Shape, GroupsOK
  <1> DEFINE at(e) == [data EXCEPT ![element.i + 1] = e]
  <1>4. \A e : \A i \in 0 .. Presize - 1 :
          i < Len(data) => /\ Len(at(e)) = Len(data)
                           /\ at(e)[i + 1] = IF i = element.i THEN e ELSE data[i + 1]
    BY <1>3
  <1>5. data[element.i + 1] = Element
    BY DEF Element
  <1>6. ASSUME NEW from, NEW to, NEW e, UseEffect(from, to, e), to # "none",
               UNCHANGED <<counted, unsure>>,
               e.successed_PKTIN_ = Element.successed_PKTIN_,
               e.sent_flow = Element.sent_flow
        PROVE  Counts'
    <2> SUFFICES ASSUME ~undefined' PROVE Counts'
      BY DEF Counts
    <2>1. data' = at(e) /\ handling' = to /\ UNCHANGED <<moved, handled>>
      BY <1>6 DEF UseEffect, tvars
    <2>2. AllFair(data)'
      <3> SUFFICES ASSUME NEW i \in 0 .. Presize - 1, i < Len(data')
                   PROVE  Fair(data[i + 1], i)'
        BY DEF AllFair
      <3>1. Len(data') = Len(data)
        BY <1>3, <2>1
      <3>2. Fair(data[i + 1], i)
        BY <1>2, <3>1 DEF AllFair
      <3>3. /\ data'[i + 1].successed_PKTIN_ = data[i + 1].successed_PKTIN_
            /\ data'[i + 1].sent_flow = data[i + 1].sent_flow
        BY <1>4, <1>5, <1>6, <2>1, <3>1
      <3>4. Surely(i)' = Surely(i) /\ Possibly(i)' = Possibly(i)
        BY <1>6, FairKept
      <3> QED
        BY <3>2, <3>3, <3>4 DEF Fair
    <2>3. AllFair(moved)'
      BY <1>2, <1>6, <2>1, FairKept DEF AllFair, Fair
    <2> QED
      BY <1>2, <1>6, <2>1, <2>2, <2>3 DEF Counts
  <1>7. ASSUME UseEffect("count", "none", [Element EXCEPT !.successed_PKTIN_ = @ + 1]),
               counted' = Append(counted, element.i),
               unsure' = IF Moving THEN unsure \cup {handled} ELSE unsure
        PROVE  Counts'
    <2> DEFINE e == [Element EXCEPT !.successed_PKTIN_ = @ + 1]
    <2> SUFFICES ASSUME ~undefined' PROVE Counts'
      BY DEF Counts
    <2>1. data' = at(e) /\ handling' = "none" /\ UNCHANGED <<moved, handled>>
      BY <1>7 DEF UseEffect, tvars
    <2>2. Len(counted') = handled /\ Len(counted) + 1 = handled
      BY <1>2, <1>7
    <2>3. /\ e.successed_PKTIN_ = Element.successed_PKTIN_ + 1
          /\ e.sent_flow = Element.sent_flow
      BY <1>3 DEF Groups_
    <2> HIDE DEF e
    <2>4. ASSUME NEW i \in 0 .. Presize - 1
          PROVE  /\ i \in Nat /\ Surely(i) \in Nat /\ Possibly(i) \in Nat
                 /\ Surely(i)' \in Nat /\ Possibly(i)' \in Nat
                 /\ i = element.i => Possibly(i)' = Possibly(i) + 1
                 /\ i # element.i => Possibly(i)' = Possibly(i)
                 /\ Surely(i)' <= Surely(i) + 1
                 /\ i # element.i \/ Moving => Surely(i)' = Surely(i)
      <3>1. i \in Nat
        BY <1>3
      <3> QED
        BY <1>7, <2>2, <3>1, CountGrows
    <2>5. AllFair(data)'
      <3> SUFFICES ASSUME NEW i \in 0 .. Presize - 1, i < Len(data')
                   PROVE  Fair(data[i + 1], i)'
        BY DEF AllFair
      <3>1. Len(data') = Len(data)
        BY <1>3, <2>1
      <3>2. Fair(data[i + 1], i)
        BY <1>2, <3>1 DEF AllFair
      <3>3. data'[i + 1] = IF i = element.i THEN e ELSE data[i + 1]
        BY <1>4, <2>1, <3>1
      <3>4. data[i + 1].successed_PKTIN_ \in Nat
        BY <2>4, <3>2 DEF Fair
      <3>5. CASE i = element.i
        <4>1. /\ data'[i + 1].successed_PKTIN_ = data[i + 1].successed_PKTIN_ + 1
              /\ data'[i + 1].sent_flow = data[i + 1].sent_flow
          BY <1>5, <2>3, <3>3, <3>5
        <4> QED
          BY <2>4, <3>2, <3>4, <3>5, <4>1 DEF Fair
      <3>6. CASE i # element.i
        BY <2>4, <3>2, <3>3, <3>6 DEF Fair
      <3> QED
        BY <3>5, <3>6
    <2>6. AllFair(moved)'
      <3> SUFFICES ASSUME NEW i \in 0 .. Presize - 1, i < Len(moved)
                   PROVE  Fair(moved[i + 1], i)'
        BY <2>1 DEF AllFair
      <3>1. Moving
        <4>1. moved # <<>>
          BY <1>3
        <4> QED
          BY <4>1 DEF Shape, PushedOK
      <3>2. Fair(moved[i + 1], i)
        BY <1>2 DEF AllFair
      <3>3. Surely(i)' = Surely(i) /\ Possibly(i)' >= Possibly(i)
        BY <2>4, <3>1
      <3> QED
        BY <2>1, <2>4, <3>2, <3>3 DEF Fair
    <2> QED
      BY <2>1, <2>2, <2>5, <2>6 DEF Counts
  <1>8. /\ [Element EXCEPT !.first = handled].successed_PKTIN_ = Element.successed_PKTIN_
        /\ [Element EXCEPT !.first = handled].sent_flow = Element.sent_flow
        /\ [Element EXCEPT !.last = handled].successed_PKTIN_ = Element.successed_PKTIN_
        /\ [Element EXCEPT !.last = handled].sent_flow = Element.sent_flow
    BY <1>3 DEF Groups_
  <1> HIDE DEF at
  <1>9. CASE /\ UseEffect("first == 0", IF Element.first = 0 THEN "first" ELSE "last", Element)
             /\ UNCHANGED <<counted, unsure>>
    BY <1>6, <1>9
  <1>10. CASE /\ UseEffect("first", "last", [Element EXCEPT !.first = handled])
              /\ UNCHANGED <<counted, unsure>>
    BY <1>6, <1>8, <1>10
  <1>11. CASE /\ UseEffect("last", "count", [Element EXCEPT !.last = handled])
              /\ UNCHANGED <<counted, unsure>>
    BY <1>6, <1>8, <1>11
  <1> QED
    BY <1>7, <1>9, <1>10, <1>11, Uses

\* What the test thread does to data and to its copy, as far as the first
\* elements are concerned: it leaves them alone, copies the next, or swaps.
LEMMA FirstElements ==
  ASSUME Shape, do_test
  PROVE  /\ UNCHANGED <<handling, element, undefined, handled, counted, unsure>>
         /\ \/ /\ \A i \in 0 .. Presize - 1 : data'[i + 1] = data[i + 1]
               /\ moved' = moved
            \/ /\ move
               /\ data' = data /\ Len(moved') = Len(moved) + 1
               /\ Len(moved) \in 0 .. Presize - 1
               /\ \A i \in 0 .. Presize - 1 :
                    i < Len(moved') => moved'[i + 1] = IF i = Len(moved) THEN data[i + 1]
                                                       ELSE moved[i + 1]
            \/ /\ swap
               /\ \A i \in 0 .. Presize - 1 : i < Len(moved) /\ data'[i + 1] = moved[i + 1]
               /\ moved' = <<>>
  <1>1. UNCHANGED <<handling, element, undefined, handled, counted, unsure>>
    BY DEF do_test, a_burst, next_group, push_back, push_back_grows, move, free, swap,
       TestGoes, hvars
  <1>2. /\ data \in Seq(Groups_) /\ moved \in Seq(Groups_)
        /\ Len(data) \in Nat /\ Len(moved) \in Nat /\ Len(data) >= Presize
        /\ storage = 0 => Len(data) = Presize
        /\ Presize \in Nat
    BY Sizes DEF Shape, GroupsOK
  <1>3. CASE a_burst \/ next_group \/ push_back_grows \/ free
    <2>1. UNCHANGED <<data, moved>>
      BY <1>3 DEF a_burst, next_group, push_back_grows, free
    <2> QED
      BY <1>1, <2>1
  <1>4. CASE push_back
    <2>1. data' = Append(data, group) /\ moved' = moved
      BY <1>4 DEF push_back
    <2>2. \A i \in 0 .. Presize - 1 : i + 1 \in 1 .. Len(data)
      BY <1>2
    <2>3. \A i \in 0 .. Presize - 1 : data'[i + 1] = data[i + 1]
      BY <1>2, <2>1, <2>2
    <2> QED
      BY <1>1, <2>1, <2>3
  <1>5. CASE move
    <2>1. Len(moved) < Len(data) /\ data' = data /\ moved' = Append(moved, data[Len(moved) + 1])
          /\ tester_t = "move"
      BY <1>5 DEF move, TestGoes
    <2>2. storage = 0
      BY <2>1 DEF Shape, PushedOK, Moving
    <2>3. Len(moved') = Len(moved) + 1 /\ Len(moved) \in 0 .. Presize - 1
      BY <1>2, <2>1, <2>2
    <2>4. \A i \in 0 .. Presize - 1 :
             i < Len(moved') => moved'[i + 1] = IF i = Len(moved) THEN data[i + 1]
                                                ELSE moved[i + 1]
      BY <1>2, <2>1, <2>3
    <2> QED
      BY <1>1, <1>5, <2>1, <2>3, <2>4
  <1>6. CASE swap
    <2>1. data' = Append(moved, group) /\ moved' = <<>> /\ tester_t = "swap"
      BY <1>6 DEF swap, TestGoes
    <2>2. storage = 0 /\ Len(moved) = Len(data)
      BY <2>1 DEF Shape, PushedOK, Moving
    <2>3. \A i \in 0 .. Presize - 1 : i < Len(moved) /\ data'[i + 1] = moved[i + 1]
      BY <1>2, <2>1, <2>2
    <2> QED
      BY <1>1, <1>6, <2>1, <2>3
  <1> QED
    BY <1>3, <1>4, <1>5, <1>6 DEF do_test

LEMMA CountsTest ==
  ASSUME Shape, Shape', Counts, do_test
  PROVE  Counts'
  <1> SUFFICES ASSUME ~undefined' PROVE Counts'
    BY DEF Counts
  <1>1. UNCHANGED <<handling, undefined, handled, counted, unsure>>
    BY FirstElements
  <1>2. AllFair(data) /\ AllFair(moved) /\ Len(data) \in Nat /\ Len(data) >= Presize
        /\ Len(data') \in Nat /\ Presize \in Nat
    BY <1>1, Sizes DEF Counts, Shape, GroupsOK
  <1>3. \A i \in 0 .. Presize - 1 : Fair(data[i + 1], i)
    BY <1>2 DEF AllFair
  <1>4. \A i : Surely(i)' = Surely(i) /\ Possibly(i)' = Possibly(i)
    BY <1>1, FairKept
  <1>5. CASE /\ \A i \in 0 .. Presize - 1 : data'[i + 1] = data[i + 1]
             /\ moved' = moved
    <2>1. AllFair(data)'
      BY <1>3, <1>4, <1>5 DEF AllFair, Fair
    <2>2. AllFair(moved)'
      BY <1>2, <1>4, <1>5 DEF AllFair, Fair
    <2> QED
      BY <1>1, <2>1, <2>2 DEF Counts
  <1>6. CASE /\ data' = data /\ Len(moved') = Len(moved) + 1
             /\ \A i \in 0 .. Presize - 1 :
                  i < Len(moved') => moved'[i + 1] = IF i = Len(moved) THEN data[i + 1]
                                                     ELSE moved[i + 1]
    <2>1. AllFair(data)'
      BY <1>3, <1>4, <1>6 DEF AllFair, Fair
    <2>2. AllFair(moved)'
      <3> SUFFICES ASSUME NEW i \in 0 .. Presize - 1, i < Len(moved')
                   PROVE  Fair(moved[i + 1], i)'
        BY DEF AllFair
      <3>1. i \in Int /\ Len(moved) \in Nat
        BY DEF Shape, GroupsOK
      <3>2. CASE i = Len(moved)
        BY <1>3, <1>4, <1>6, <3>2 DEF Fair
      <3>3. CASE i < Len(moved)
        BY <1>2, <1>4, <1>6, <3>1, <3>3 DEF AllFair, Fair
      <3> QED
        BY <1>6, <3>1, <3>2, <3>3
    <2> QED
      BY <1>1, <1>2, <2>1, <2>2 DEF Counts
  <1>7. CASE /\ \A i \in 0 .. Presize - 1 : i < Len(moved) /\ data'[i + 1] = moved[i + 1]
             /\ moved' = <<>>
    <2>1. AllFair(data)'
      BY <1>2, <1>4, <1>7 DEF AllFair, Fair
    <2>2. AllFair(moved)'
      BY <1>7 DEF AllFair
    <2> QED
      BY <1>1, <2>1, <2>2 DEF Counts
  <1> QED
    BY <1>5, <1>6, <1>7, FirstElements

LEMMA CountsInit == Init => Counts
  <1> SUFFICES ASSUME Init PROVE Counts
    OBVIOUS
  <1>1. /\ data = [n \in 1 .. Presize |-> Group] /\ moved = <<>> /\ handling = "none"
        /\ handled = 0 /\ counted = <<>> /\ unsure = {}
    BY DEF Init
  <1>2. \A i : CountedIn(i) = {}
    BY <1>1 DEF CountedIn
  <1>3. \A i : Surely(i) = 0 /\ Possibly(i) = 0
    BY <1>2, FS_EmptySet DEF Surely, Possibly
  <1>4. AllFair(data)
    <2> SUFFICES ASSUME NEW i \in 0 .. Presize - 1 PROVE Fair(data[i + 1], i)
      BY DEF AllFair
    <2>1. data[i + 1] = Group
      BY <1>1, Sizes
    <2> QED
      BY <1>3, <2>1 DEF Fair, Group
  <1>5. AllFair(moved)
    BY <1>1, Sizes DEF AllFair
  <1> QED
    BY <1>1, <1>4, <1>5 DEF Counts

LEMMA CountsStep == Shape /\ Counts /\ [Next]_vars => Counts'
  <1> SUFFICES ASSUME Shape, Counts, [Next]_vars PROVE Counts'
    OBVIOUS
  <1>1. CASE UNCHANGED evars \/ Starts \/ locate
    <2>1. UNCHANGED <<handling, undefined, data, moved, handled, counted, unsure>>
      BY <1>1 DEF evars, Starts, locate, hvars, tvars, history
    <2>2. \A i : Surely(i)' = Surely(i) /\ Possibly(i)' = Possibly(i)
      BY <2>1, FairKept
    <2> QED
      BY <2>1, <2>2 DEF Counts, AllFair, Fair
  <1>2. CASE Begins
    <2>1. /\ handling = "none" /\ handling' = "first == 0" /\ handled' = handled + 1
          /\ UNCHANGED <<undefined, data, moved, counted, unsure>>
      BY <1>2 DEF Begins, onMessage_begins, tvars
    <2>2. \A i : Surely(i)' = Surely(i) /\ Possibly(i)' = Possibly(i)
      BY <2>1, FairKept
    <2>3. ~undefined => Len(counted) = handled' - 1
      <3>1. handled \in Nat /\ handled' = handled + 1
        BY <2>1, Numbers
      <3>2. ~undefined => Len(counted) = handled
        BY <2>1 DEF Counts
      <3> QED
        BY <3>1, <3>2
    <2> QED
      BY <2>1, <2>2, <2>3 DEF Counts, AllFair, Fair
  <1>3. CASE onMessage_uses
    BY <1>3, CountsUses
  <1>4. CASE do_test
    BY <1>4, CountsTest, ShapeStep
  <1> QED
    BY <1>1, <1>2, <1>3, <1>4, Steps DEF Shape

\* Every PACKET_IN is counted in the element onMessage() had located, and in no
\* other; only a count made while push_back() moves the elements may be lost.
THEOREM CountsHold == Spec => []CountedOnce
  <1>1. Shape /\ Counts => CountedOnce
    <2> SUFFICES ASSUME Shape, Counts, Idle PROVE CountedOnce
      BY DEF CountedOnce
    <2>1. Len(counted) = handled /\ AllFair(data)
      BY DEF Idle, Counts
    <2>2. Len(data) \in Nat /\ Len(data) >= Presize /\ Presize \in Nat
      BY Sizes DEF Shape, GroupsOK
    <2>3. \A i \in 0 .. Presize - 1 : Fair(data[i + 1], i)
      BY <2>1, <2>2 DEF AllFair
    <2> QED
      BY <2>1, <2>3 DEF CountedOnce, Fair, Surely, Possibly
  <1> QED
    BY <1>1, CountsInit, CountsStep, Basis, PTL DEF Spec

-----------------------------------------------------------------------------
(* The count and the time stamps. *)

\* Set by messages before the one in hand.
Before == IF handling = "none" THEN handled ELSE handled - 1

Settled(g) == Whole(g) /\ g.last <= Before

\* An element that onMessage() is at work on, before the use "stage".
AtStage(g, stage) ==
  /\ stage = "first == 0" => Whole(g) /\ g.last <= handled - 1
  /\ stage = "first" => g.first = 0 /\ g.last = 0 /\ g.successed_PKTIN_ = 0
  /\ stage \in {"last", "count"} =>
       g.first > 0 /\ g.first + g.successed_PKTIN_ <= handled
  /\ stage = "count" => g.last = handled
AtWork(g) == AtStage(g, handling)

SettledAt(i) ==
  /\ handling # "none" /\ i = element.i => AtWork(data[i + 1])
  /\ handling = "none" \/ i # element.i => Settled(data[i + 1])
  /\ i < Len(moved) => Settled(moved[i + 1])

\* Where no boundary was crossed, the element at work is that of the group, and
\* push_back() has not copied it.
InGroup ==
  handling # "none" =>
    /\ element.i = group_index \/ {element.i, group_index} \subseteq crossed
    /\ element.i \notin crossed => Len(moved) <= element.i

Uncrossed ==
  ~undefined => InGroup /\ \A i \in 0 .. Presize - 1 : i \notin crossed => SettledAt(i)

\* What is settled stays so when later messages come.
LEMMA SettledLater ==
  ASSUME Shape, Shape', Before <= Before', NEW g \in Groups_, Settled(g)
  PROVE  Settled(g)'
  <1>1. Before \in Int /\ Before' \in Int
    <2>1. handled \in Nat /\ handled' \in Nat
      BY DEF Shape, HandlingOK
    <2> QED
      BY <2>1 DEF Before
  <1> QED
    BY <1>1 DEF Settled, Whole, Groups_

LEMMA UncrossedInit == Init => Uncrossed
  <1> SUFFICES ASSUME Init PROVE Uncrossed
    OBVIOUS
  <1>1. /\ data = [n \in 1 .. Presize |-> Group] /\ moved = <<>> /\ handling = "none"
        /\ handled = 0
    BY DEF Init
  <1>2. ASSUME NEW i \in 0 .. Presize - 1 PROVE SettledAt(i)
    <2>1. data[i + 1] = Group
      BY <1>1, Sizes
    <2>2. Settled(data[i + 1])
      BY <1>1, <2>1 DEF Settled, Whole, Group, Before
    <2> QED
      BY <1>1, <2>2 DEF SettledAt
  <1> QED
    BY <1>1, <1>2 DEF Uncrossed, InGroup

\* The first elements of data and of its copy.
LEMMA FirstTyped ==
  ASSUME Shape
  PROVE  \A i \in 0 .. Presize - 1 : /\ data[i + 1] \in Groups_
                                     /\ i < Len(moved) => moved[i + 1] \in Groups_
  <1>1. /\ data \in Seq(Groups_) /\ moved \in Seq(Groups_) /\ Presize \in Nat
        /\ Len(data) \in Nat /\ Len(moved) \in Nat /\ Len(data) >= Presize
    BY Sizes DEF Shape, GroupsOK
  <1> SUFFICES ASSUME NEW i \in 0 .. Presize - 1
               PROVE  /\ data[i + 1] \in Groups_
                      /\ i < Len(moved) => moved[i + 1] \in Groups_
    OBVIOUS
  <1>2. i + 1 \in 1 .. Len(data) /\ (i < Len(moved) => i + 1 \in 1 .. Len(moved))
    BY <1>1
  <1> QED
    BY <1>1, <1>2

LEMMA UncrossedBegins ==
  ASSUME Shape, Shape', Uncrossed, Begins
  PROVE  Uncrossed'
  <1>1. /\ handling = "none" /\ ~undefined
        /\ handling' = "first == 0" /\ element' = Located /\ handled' = handled + 1
        /\ crossed' = IF Moving THEN crossed \cup {group_index} ELSE crossed
        /\ UNCHANGED <<undefined, data, moved, group_index>>
    BY DEF Begins, onMessage_begins, tvars
  <1>2. Before' = Before
    <2>1. handled \in Nat /\ handled' = handled + 1
      BY <1>1, Numbers
    <2>2. Before' = handled' - 1 /\ Before = handled
      BY <1>1 DEF Before
    <2> QED
      BY <2>1, <2>2
  <1>3. \A g : Settled(g) => Settled(g)'
    BY <1>2 DEF Settled, Whole
  <1>4. ASSUME NEW i \in 0 .. Presize - 1, i \notin crossed'
        PROVE  SettledAt(i)'
    <2>1. SettledAt(i)
      BY <1>1, <1>4 DEF Uncrossed
    <2>2. Settled(data[i + 1]) /\ (i < Len(moved) => Settled(moved[i + 1]))
      BY <1>1, <2>1 DEF SettledAt
    <2>3. Settled(data[i + 1])' /\ (i < Len(moved) => Settled(moved[i + 1]))'
      BY <1>1, <1>2, <2>2 DEF Settled, Whole
    <2> QED
      BY <1>1, <1>2, <2>3 DEF SettledAt, AtWork, AtStage, Settled, Before
  <1>5. InGroup'
    <2>1. element'.i = group_index
      BY <1>1 DEF Located
    <2>2. element'.i \notin crossed' => Len(moved) <= element'.i
      <3> SUFFICES ASSUME group_index \notin crossed' PROVE Len(moved) <= group_index
        BY <2>1
      <3>1. moved = <<>>
        BY <1>1 DEF Shape, PushedOK
      <3> QED
        BY <3>1, Numbers
    <2> QED
      BY <1>1, <2>1, <2>2 DEF InGroup
  <1> QED
    BY <1>4, <1>5 DEF Uncrossed

LEMMA UncrossedLocate ==
  ASSUME Shape, Uncrossed, locate
  PROVE  Uncrossed'
  <1>1. /\ handling # "none" /\ ~undefined
        /\ element' \in [i : {element.i, group_index}, of : {element.of, storage}]
        /\ UNCHANGED <<handling, undefined, data, moved, group_index, crossed, handled>>
    BY DEF locate, Alive, tvars, history
  <1>2. element'.i \in {element.i, group_index}
    BY <1>1
  <1>3. /\ InGroup
        /\ element'.i = element.i \/ {element.i, element'.i} \subseteq crossed
        /\ element'.i = group_index \/ {element'.i, group_index} \subseteq crossed
    BY <1>1, <1>2 DEF Uncrossed, InGroup
  <1>4. InGroup'
    BY <1>1, <1>3 DEF InGroup
  <1>5. ASSUME NEW i \in 0 .. Presize - 1, i \notin crossed
        PROVE  SettledAt(i)'
    <2>1. SettledAt(i) /\ (i = element'.i <=> i = element.i)
      BY <1>1, <1>3, <1>5 DEF Uncrossed
    <2> QED
      BY <1>1, <2>1 DEF SettledAt, AtWork, AtStage, Settled, Whole, Before
  <1> QED
    BY <1>1, <1>4, <1>5 DEF Uncrossed

\* The uses of an element take it from one stage to the next.
LEMMA Stages ==
  ASSUME Shape, NEW g \in Groups_, AtWork(g)
  PROVE  /\ handling = "first == 0" =>
              IF g.first = 0 THEN g.last = 0 /\ g.successed_PKTIN_ = 0
              ELSE g.first > 0 /\ g.first + g.successed_PKTIN_ <= handled
         /\ handling = "first" =>
              LET e == [g EXCEPT !.first = handled]
              IN  e.first > 0 /\ e.first + e.successed_PKTIN_ <= handled
         /\ handling = "last" =>
              LET e == [g EXCEPT !.last = handled]
              IN  e.first > 0 /\ e.first + e.successed_PKTIN_ <= handled /\ e.last = handled
         /\ handling = "count" =>
              LET e == [g EXCEPT !.successed_PKTIN_ = @ + 1]
              IN  Whole(e) /\ e.last <= handled
  <1>1. /\ g.first \in Nat /\ g.last \in Nat /\ g.successed_PKTIN_ \in Nat /\ handled \in Nat
        /\ handling # "none" => handled > 0
    BY Numbers DEF Groups_, Shape, HandlingOK
  <1>2. CASE handling = "first == 0"
    <2>1. Whole(g) /\ g.last <= handled - 1
      BY <1>2 DEF AtWork, AtStage
    <2>2. g.successed_PKTIN_ = 0 => g.first = 0 /\ g.last = 0
      BY <2>1 DEF Whole
    <2>3. g.successed_PKTIN_ # 0 => g.first > 0 /\ g.first + g.successed_PKTIN_ <= handled
      BY <1>1, <2>1 DEF Whole
    <2>4. IF g.first = 0 THEN g.last = 0 /\ g.successed_PKTIN_ = 0
          ELSE g.first > 0 /\ g.first + g.successed_PKTIN_ <= handled
      BY <1>1, <2>2, <2>3
    <2> QED
      BY <1>2, <2>4
  <1>3. CASE handling = "first"
    BY <1>1, <1>3 DEF AtWork, AtStage, Groups_
  <1>4. CASE handling = "last"
    BY <1>1, <1>4 DEF AtWork, AtStage, Groups_
  <1>5. CASE handling = "count"
    <2> DEFINE e == [g EXCEPT !.successed_PKTIN_ = @ + 1]
    <2>1. e.first = g.first /\ e.last = g.last /\ e.successed_PKTIN_ = g.successed_PKTIN_ + 1
      BY DEF Groups_
    <2>2. g.first > 0 /\ g.first + g.successed_PKTIN_ <= handled /\ g.last = handled
      BY <1>5 DEF AtWork, AtStage
    <2> HIDE DEF e
    <2>3. Whole(e) /\ e.last <= handled
      BY <1>1, <2>1, <2>2 DEF Whole
    <2> QED
      BY <1>5, <2>3 DEF e
  <1> QED
    BY <1>2, <1>3, <1>4, <1>5

LEMMA UncrossedUses ==
  ASSUME Shape, Shape', Uncrossed, onMessage_uses
  PROVE  Uncrossed'
  <1> SUFFICES ASSUME ~undefined' PROVE Uncrossed'
    BY DEF Uncrossed
  <1> DEFINE i0 == element.i
             g == data[i0 + 1]
  <1>1. /\ handling # "none" /\ ~undefined
        /\ UNCHANGED <<element, handled, crossed, group_index, moved>>
    BY DEF onMessage_uses, is_first, set_first, set_last, count, Use, tvars, Alive
  <1>2. /\ i0 \in 0 .. Presize - 1 /\ i0 + 1 \in 1 .. Len(data) /\ Presize \in Nat
        /\ data \in Seq(Groups_) /\ g \in Groups_ /\ Len(data) >= Presize /\ Len(data) \in Nat
    BY LocatedFirst, Sizes DEF Shape, GroupsOK, Element
  <1>3. Before <= Before' /\ Before = handled - 1
        /\ Before' = IF handling' = "none" THEN handled ELSE handled - 1
    BY <1>1, Numbers DEF Before
  <1>4. InGroup'
    BY <1>1 DEF Uncrossed, InGroup
  <1>5. \E e :
          /\ data' = [data EXCEPT ![i0 + 1] = e]
          /\ i0 \notin crossed =>
               /\ handling' # "none" => AtStage(e, handling')
               /\ handling' = "none" => Whole(e) /\ e.last <= handled
    <2>1. i0 \notin crossed => AtWork(g)
      BY <1>1, <1>2 DEF Uncrossed, SettledAt
    <2>2. CASE UseEffect("first == 0", IF Element.first = 0 THEN "first" ELSE "last", Element)
      <3>1. /\ handling = "first == 0" /\ data' = [data EXCEPT ![i0 + 1] = g]
            /\ handling' = IF g.first = 0 THEN "first" ELSE "last"
        BY <1>1, <2>2 DEF UseEffect, Element
      <3>2. g.first = 0 \/ g.first # 0
        OBVIOUS
      <3>3. i0 \notin crossed => AtStage(g, handling')
        BY <1>1, <1>2, <2>1, <3>1, Stages DEF AtStage
      <3> QED
        BY <3>1, <3>3
    <2>3. CASE UseEffect("first", "last", [Element EXCEPT !.first = handled])
      <3> DEFINE e == [g EXCEPT !.first = handled]
      <3>1. /\ handling = "first" /\ data' = [data EXCEPT ![i0 + 1] = e] /\ handling' = "last"
        BY <1>1, <2>3 DEF UseEffect, Element
      <3>2. i0 \notin crossed => e.first > 0 /\ e.first + e.successed_PKTIN_ <= handled
        BY <1>2, <2>1, <3>1, Stages
      <3> HIDE DEF e
      <3>3. i0 \notin crossed => AtStage(e, handling')
        BY <1>1, <3>1, <3>2 DEF AtStage
      <3> QED
        BY <3>1, <3>3
    <2>4. CASE UseEffect("last", "count", [Element EXCEPT !.last = handled])
      <3> DEFINE e == [g EXCEPT !.last = handled]
      <3>1. /\ handling = "last" /\ data' = [data EXCEPT ![i0 + 1] = e] /\ handling' = "count"
        BY <1>1, <2>4 DEF UseEffect, Element
      <3>2. i0 \notin crossed => e.first > 0 /\ e.first + e.successed_PKTIN_ <= handled
                                 /\ e.last = handled
        BY <1>2, <2>1, <3>1, Stages
      <3> HIDE DEF e
      <3>3. i0 \notin crossed => AtStage(e, handling')
        BY <1>1, <3>1, <3>2 DEF AtStage
      <3> QED
        BY <3>1, <3>3
    <2>5. CASE UseEffect("count", "none", [Element EXCEPT !.successed_PKTIN_ = @ + 1])
      <3> DEFINE e == [g EXCEPT !.successed_PKTIN_ = @ + 1]
      <3>1. /\ handling = "count" /\ data' = [data EXCEPT ![i0 + 1] = e] /\ handling' = "none"
        BY <1>1, <2>5 DEF UseEffect, Element
      <3>2. i0 \notin crossed => Whole(e) /\ e.last <= handled
        BY <1>2, <2>1, <3>1, Stages
      <3> HIDE DEF e
      <3>3. i0 \notin crossed => Whole(e) /\ e.last <= handled
        BY <3>2
      <3> QED
        BY <3>1, <3>3
    <2> QED
      BY <2>2, <2>3, <2>4, <2>5, Uses
  <1>6. PICK e :
          /\ data' = [data EXCEPT ![i0 + 1] = e]
          /\ i0 \notin crossed =>
               /\ handling' # "none" => AtStage(e, handling')
               /\ handling' = "none" => Whole(e) /\ e.last <= handled
    BY <1>5
  <1>7. ASSUME NEW i \in 0 .. Presize - 1, i \notin crossed
        PROVE  SettledAt(i)'
    <2>1. SettledAt(i)
      BY <1>1, <1>7 DEF Uncrossed
    <2>2. /\ data[i + 1] \in Groups_ /\ (i < Len(moved) => moved[i + 1] \in Groups_)
      BY FirstTyped
    <2>3. i < Len(moved) => Settled(moved[i + 1])'
      <3> SUFFICES ASSUME i < Len(moved) PROVE Settled(moved[i + 1])'
        OBVIOUS
      <3>1. Settled(moved[i + 1]) /\ moved[i + 1] \in Groups_
        BY <2>1, <2>2 DEF SettledAt
      <3> QED
        BY <1>1, <1>3, <3>1, Numbers DEF Settled, Whole, Groups_
    <2>4. CASE i = i0
      <3>1. data'[i + 1] = e
        BY <1>2, <1>6, <2>4
      <3> QED
        BY <1>1, <1>6, <1>7, <2>3, <2>4, <3>1 DEF SettledAt, AtWork, AtStage, Settled, Whole, Before
    <2>5. CASE i # i0
      <3>1. data'[i + 1] = data[i + 1]
        BY <1>2, <1>6, <2>5
      <3>2. Settled(data[i + 1])
        BY <2>1, <2>5 DEF SettledAt
      <3>3. Settled(data[i + 1])'
        BY <1>3, <2>2, <3>1, <3>2, Numbers DEF Settled, Whole, Groups_
      <3> QED
        BY <1>1, <2>3, <2>5, <3>3 DEF SettledAt
    <2> QED
      BY <2>4, <2>5
  <1> QED
    BY <1>1, <1>4, <1>7 DEF Uncrossed

LEMMA Crossings ==
  ASSUME do_test
  PROVE  /\ crossed \subseteq crossed'
         /\ handling # "none" =>
              /\ group_index' = group_index \/ {group_index, group_index'} \subseteq crossed'
              /\ move => Len(moved) \in crossed'
  BY DEF do_test, a_burst, next_group, push_back, push_back_grows, move, free, swap, TestGoes

LEMMA UncrossedTest ==
  ASSUME Shape, Uncrossed, do_test
  PROVE  Uncrossed'
  <1> SUFFICES ASSUME ~undefined' PROVE Uncrossed'
    BY DEF Uncrossed
  <1>1. UNCHANGED <<handling, element, undefined, handled>> /\ Before' = Before
    BY FirstElements DEF Before
  <1>2. /\ crossed \subseteq crossed' /\ Len(moved) \in Nat /\ element.i \in Nat
        /\ InGroup /\ \A i \in 0 .. Presize - 1 : i \notin crossed => SettledAt(i)
    BY <1>1, Crossings, Numbers DEF Uncrossed, Shape, GroupsOK
  <1>3. handling # "none" => element.i = group_index' \/ {element.i, group_index'} \subseteq crossed'
    BY <1>2, Crossings DEF InGroup
  <1>5. CASE /\ \A i \in 0 .. Presize - 1 : data'[i + 1] = data[i + 1]
             /\ moved' = moved
    <2>1. InGroup'
      BY <1>1, <1>2, <1>3, <1>5 DEF InGroup
    <2>2. ASSUME NEW i \in 0 .. Presize - 1, i \notin crossed' PROVE SettledAt(i)'
      <3>1. SettledAt(i)
        BY <1>2, <2>2
      <3> QED
        BY <1>1, <1>5, <3>1 DEF SettledAt, AtWork, AtStage, Settled, Whole
    <2> QED
      BY <2>1, <2>2 DEF Uncrossed
  <1>6. CASE /\ move
             /\ data' = data /\ Len(moved') = Len(moved) + 1
             /\ Len(moved) \in 0 .. Presize - 1
             /\ \A i \in 0 .. Presize - 1 :
                  i < Len(moved') => moved'[i + 1] = IF i = Len(moved) THEN data[i + 1]
                                                     ELSE moved[i + 1]
    <2>1. handling # "none" => Len(moved) \in crossed'
      BY <1>6, Crossings
    <2>2. InGroup'
      <3>1. handling # "none" /\ element.i \notin crossed' => Len(moved') <= element.i
        BY <1>2, <1>6, <2>1 DEF InGroup
      <3> QED
        BY <1>1, <1>3, <3>1 DEF InGroup
    <2>3. ASSUME NEW i \in 0 .. Presize - 1, i \notin crossed' PROVE SettledAt(i)'
      <3>1. SettledAt(i)
        BY <1>2, <2>3
      <3>2. i \in Int
        OBVIOUS
      <3>3. i < Len(moved') => Settled(moved'[i + 1])
        <4>1. CASE i = Len(moved)
          <5>1. handling = "none"
            BY <2>1, <2>3, <4>1
          <5>2. Settled(data[i + 1])
            BY <3>1, <5>1 DEF SettledAt
          <5> QED
            BY <1>6, <4>1, <5>2
        <4>2. CASE i # Len(moved) /\ i < Len(moved')
          <5>1. i < Len(moved)
            BY <1>2, <1>6, <3>2, <4>2
          <5> QED
            BY <1>6, <3>1, <4>2, <5>1 DEF SettledAt
        <4> QED
          BY <4>1, <4>2
      <3> QED
        BY <1>1, <1>6, <3>1, <3>3 DEF SettledAt, AtWork, AtStage, Settled, Whole
    <2> QED
      BY <2>2, <2>3 DEF Uncrossed
  <1>7. CASE /\ \A i \in 0 .. Presize - 1 : i < Len(moved) /\ data'[i + 1] = moved[i + 1]
             /\ moved' = <<>>
    <2>1. InGroup'
      <3>1. Len(moved') = 0
        BY <1>7
      <3>2. element.i \notin crossed' => Len(moved') <= element.i
        BY <1>2, <3>1
      <3> QED
        BY <1>1, <1>3, <3>2 DEF InGroup
    <2>2. ASSUME NEW i \in 0 .. Presize - 1, i \notin crossed' PROVE SettledAt(i)'
      <3>1. SettledAt(i) /\ i < Len(moved) /\ data'[i + 1] = moved[i + 1] /\ i \notin crossed
        BY <1>2, <1>7, <2>2
      <3>2. Settled(moved[i + 1])
        BY <3>1 DEF SettledAt
      <3>3. ~(handling # "none" /\ i = element.i)
        BY <1>2, <3>1 DEF InGroup
      <3>4. ~(i < Len(moved'))
        BY <1>7
      <3> QED
        BY <1>1, <3>1, <3>2, <3>3, <3>4 DEF SettledAt, Settled, Whole
    <2> QED
      BY <2>1, <2>2 DEF Uncrossed
  <1> QED
    BY <1>5, <1>6, <1>7, FirstElements

LEMMA UncrossedStep == Shape /\ Uncrossed /\ [Next]_vars => Uncrossed'
  <1> SUFFICES ASSUME Shape, Uncrossed, [Next]_vars PROVE Uncrossed'
    OBVIOUS
  <1>1. Shape'
    BY ShapeStep
  <1>2. CASE UNCHANGED evars \/ Starts
    <2>1. /\ UNCHANGED <<handling, element, undefined, data, moved, handled, crossed>>
          /\ UNCHANGED group_index
      BY <1>2 DEF evars, Starts, hvars, tvars, history
    <2> QED
      BY <2>1 DEF Uncrossed, InGroup, SettledAt, AtWork, AtStage, Settled, Whole, Before
  <1> QED
    BY <1>1, <1>2, UncrossedBegins, UncrossedLocate, UncrossedUses, UncrossedTest, Steps
    DEF Shape

\* A group's count and time stamps belong to the same PACKET_INs unless the
\* group began or was moved within a call of onMessage(), which no lock prevents.
THEOREM TornAtBoundary == Spec => []TornOnlyAtBoundary
  <1>1. Shape /\ Uncrossed => TornOnlyAtBoundary
    BY DEF Uncrossed, SettledAt, Settled, TornOnlyAtBoundary, Idle
  <1> QED
    BY <1>1, UncrossedInit, UncrossedStep, Basis, PTL DEF Spec

-----------------------------------------------------------------------------
(* What starts the test. *)

LEMMA TestCallback ==
  ASSUME NEW type, onMessage(dispatcher_from_switch, type) = "tester.test"
  PROVE  type = "OFPT_FEATURES_REPLY"
  <1>1. /\ DOMAIN dispatcher_from_switch.funs
             = {"OFPT_HELLO", "OFPT_FEATURES_REPLY", "OFPT_PACKET_IN"}
        /\ dispatcher_from_switch.funs["OFPT_HELLO"] = "tester.send_feature_request"
        /\ dispatcher_from_switch.funs["OFPT_PACKET_IN"] = "tester.onMessage"
        /\ dispatcher_from_switch.defaultCallback = NoCallback
    BY DEF dispatcher_from_switch, setCallBackOnMessage, NewDispatcher
  <1> QED
    BY <1>1, TesterAssumption DEF onMessage

\* The handlers of the session have seen the type that starts the test.
ReplySeen == tester_t # "none" => "OFPT_FEATURES_REPLY" \in RP!TypesSeen(s_session)

Seen == ReaderSound /\ RP!AllTypesSeen /\ ReplySeen

LEMMA SeenInit == Init => Seen
  BY ReaderInit, ReaderFits, SameReader, RP!TypesSeenInit DEF Init, Seen, ReplySeen

LEMMA SeenStep == Seen /\ [Next]_vars => Seen'
  <1> SUFFICES ASSUME Seen, [Next]_vars PROVE Seen'
    OBVIOUS
  <1>1. ReaderSound' /\ (ReadStep \/ UNCHANGED rvars)
    BY ReadSteps, ReaderStep DEF Seen
  <1>2. RP!AllTypesSeen'
    <2>1. RP!Next \/ UNCHANGED RP!rvars
      BY <1>1 DEF ReadStep, RP!Next, rvars, RP!rvars
    <2> QED
      BY <2>1, ReaderFits, RP!TypesSeenStep DEF Seen, ReaderSound
  <1>3. RP!TypesSeen(s_session) \subseteq RP!TypesSeen(s_session)'
    <2>1. CASE ReadStep
      BY <2>1, ReaderFits, RP!TypesSeenGrow DEF ReadStep, Seen, ReaderSound
    <2>2. CASE UNCHANGED rvars
      BY <2>2 DEF rvars, RP!TypesSeen
    <2> QED
      BY <1>1, <2>1, <2>2
  <1>4. ASSUME tester_t = "none", tester_t' # "none"
        PROVE  "OFPT_FEATURES_REPLY" \in RP!TypesSeen(s_session)'
    <2>1. Read
      BY <1>4 DEF Next, IoThread, listen, send_hello, start, run_returns, onMessage_uses,
         is_first, set_first, set_last, count, Use, locate, do_test, a_burst, next_group,
         push_back, push_back_grows, move, free, swap, TestGoes, Peer, tvars, vars
    <2> DEFINE type == Last(dispatched'[s_session]).type
    <2>2. /\ dispatched' # dispatched /\ RP!Handler(s_session)
          /\ Call(onMessage(dispatcher_from_switch, type))
      BY <1>4, <2>1, SameReader DEF Read, tvars
    <2>3. onMessage(dispatcher_from_switch, type) = "tester.test"
      BY <1>4, <2>2 DEF Call, send_feature_request, onMessage_begins, tvars
    <2>4. type = "OFPT_FEATURES_REPLY"
      BY <2>3, TestCallback
    <2>5. /\ phase'[s_session] = "header" /\ dispatched[s_session] \in Seq(RP!ofp_header)
          /\ dispatched'[s_session] = Append(dispatched[s_session], data_'[s_session])
      BY <2>2, ReaderFits, RP!BufferDispatched DEF Seen, ReaderSound
    <2>6. Last(dispatched'[s_session]) = data_'[s_session]
      BY <2>5 DEF Last
    <2>7. data_'[s_session].type \in RP!TypesSeen(s_session)'
      BY <1>2, <2>5 DEF RP!AllTypesSeen, RP!TypeSeen
    <2> QED
      BY <2>4, <2>6, <2>7
  <1>5. ReplySeen'
    BY <1>3, <1>4 DEF Seen, ReplySeen
  <1> QED
    BY <1>1, <1>2, <1>5 DEF Seen

\* The test starts only when the switch has sent a FEATURES_REPLY, or broken
\* off in one: Dispatcher and the callbacks of the tester's main.  What is in
\* data_ before the first byte comes in is taken not to look like one.
THEOREM TestStartsOnReply ==
  ASSUME \A m \in Uninitialised : m.type # "OFPT_FEATURES_REPLY"
  PROVE  Spec => []TestNeedsReply
  <1>1. Seen => TestNeedsReply
    <2> SUFFICES ASSUME Seen, tester_t # "none" PROVE TestNeedsReply
      BY DEF TestNeedsReply
    <2> DEFINE q == sent[s_session]
    <2>1. \/ \E k \in DOMAIN q : q[k].type = "OFPT_FEATURES_REPLY"
          \/ failed[s_session] /\ cut[s_session].msg.type = "OFPT_FEATURES_REPLY"
      BY DEF Seen, ReplySeen, RP!TypesSeen
    <2>2. ASSUME NEW k \in DOMAIN q, q[k].type = "OFPT_FEATURES_REPLY"
          PROVE  Replies(q) > 0
      <3> DEFINE S == {j \in DOMAIN q : q[j].type = "OFPT_FEATURES_REPLY"}
      <3>1. q \in Seq(RP!Message)
        BY DEF Seen, ReaderSound, RP!TypeOK
      <3>2. IsFiniteSet(DOMAIN q)
        BY <3>1, FS_Interval
      <3>3. IsFiniteSet(S) /\ Cardinality(S) \in Nat
        BY <3>2, FS_Subset, FS_CardinalityType
      <3>4. Cardinality(S) # 0
        BY <2>2, <3>3, FS_EmptySet
      <3> QED
        BY <3>3, <3>4 DEF Replies
    <2> QED
      BY <2>1, <2>2 DEF TestNeedsReply
  <1> QED
    BY <1>1, SeenInit, SeenStep, PTL DEF Spec
=============================================================================
