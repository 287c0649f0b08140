# Euthenia: specifications and proofs

Euthenia is an OpenFlow proxy. `eproxy` sits between one switch and one
controller, relays the messages of both, counts the switch's PACKET_INs and,
when there are too many in a sample period, sends the switch a FLOW_MOD that
moves the control path. `eTester` is a second program that makes a switch send
PACKET_INs by generating packets. This directory holds TLA+ specifications of
the proxy, the configurations that model-check them with TLC, and proofs about
them that TLAPS checks.

## The system

| component | state | operations | what makes it correct |
|---|---|---|---|
| `Session`, receiving half (`Session.cpp` 26-96) | `data_`, one outstanding `async_read` | `start`, `read`, `handle_read_header`, `handle_read` | every message the peer sent is dispatched once, whole, in order; the end of the stream ends the loop |
| `Session`, sending half (`Session.cpp` 98-136) | none of its own: handlers posted to `io_service_`, writes in progress on the socket | `write`, `write_in_io_thread`, `handle_write` | messages go out in `write()` order, whole and contiguous |
| `Dispatcher` | `funs`, `defaultCallback` | `setCallBackOnMessage`, `setDefaultCallback`, `onMessage` | each message goes to one callback |
| `PKTINMonitor` | `worker`, `counter`, `is_running` | `start`, `stop`, `onMessage`, `clear` (worker thread) | `action_` is called exactly for the periods with enough PACKET_INs, although clearing and counting race |
| `PKTMigrator` | the session it writes to | `switch_path`, `draw_back` | one FLOW_MOD per call |
| `eproxy.cpp` main | the callbacks, start-up order | connect, accept, start, `io_service.run()` | the proxy is a relay that adds FLOW_MODs only |
| `PacketInTester`, `UnitTest_PacketInTester.cpp` | `group_index`, `data`, `tester_t` | `send_hello`, `send_feature_request`, `test`, `onMessage`, `do_test` (thread) | a PACKET_IN is counted for the burst that caused it |
| `FlowGen` | `is_run`, `failed`, the pacing deadline | `a_burst`, `make_pkt`, timespec arithmetic | a burst of the asked length and rate, every time |
| `OFPBuffer` | `buffer_`, `is_empty_` | `pushBack`, `getFront`, `getSzie` | a blocking first in, first out queue |
| structs of `openflow.h` and `header_defu.h` | none | layout, byte order | what is built is what the other side reads |
| `OFPShaper` | unfinished, see below | | |

The components interact through callbacks and two queues. The io thread (main,
inside `io_service::run()`) runs all read and write handlers, one at a time. A
read handler calls the dispatcher, which calls `write()` of the other session,
directly or by way of the monitor; `write()` only posts a handler. The worker
thread of the monitor shares `counter` with the io thread and posts to the same
`io_service` through `switch_path`. boost::asio, the sockets and the peers are
external: they are modelled from how the code uses them.

What is hard here: the error argument that `handle_read_header` ignores, and
the stale bytes it then works on; a session that starts an `async_write` while
another one is in progress; the race of `counter = 0` with `++counter`; `stop()`
at any point of a period; peers that send before the sessions are started and
close at any byte; `run()` returning while a thread is still at work. In the
tester: a vector that grows under a reader, an index that moves between two of
its uses, time stamps that need not be normal, arithmetic that overflows.
`PROJECT.json` lists these hazards with their lines and the properties that
would catch them going wrong.

## The modules

| module | models |
|---|---|
| `OpenFlow` | the header of a message, and the `size_t` subtraction that gives the length of its body |
| `SessionRead` | the receiving half of every session, the peers as its environment |
| `SessionWrite` | the sending half of every session, `io_service`'s queue of handlers and the sockets |
| `Dispatcher` | the dispatcher as a value, its operations as operators |
| `PacketInMonitor` | the monitor's two threads and `stop()` |
| `PacketInMigrator` | the FLOW_MOD of `switch_path` |
| `Relay` | abstract: what the proxy promises its two sides |
| `Eproxy` | the proxy: `R` (SessionRead), `W` (SessionWrite) and `M` (PacketInMonitor) instantiated over its variables and their actions conjoined as main's callbacks do, with the start-up of main and the return of `run()` |
| `PacketInTester` | the tester of `UnitTest_PacketInTester.cpp`: main, the io thread's callbacks and the test thread, over an instance of `SessionRead` |
| `Timespec`, `FlowGen` | the arithmetic on timespecs; the loop of `a_burst`, burst after burst |
| `MessageQueue`, `OFPBuffer` | abstract: a blocking queue; the buffer with its mutex and its condition variable |
| `CLayout`, `OpenFlowStructs`, `Wire` | how structs are laid out; the 84 structs of `openflow.h` and `header_defu.h`; the bytes of the messages and packets the program builds, and their reader |
| `MC...` | the values of constants for TLC |
| `SessionReadProofs`, `SessionWriteProofs`, `PacketInMonitorProofs`, `EproxyProofs`, `PacketInTesterProofs`, `FlowGenProofs`, `OFPBufferProofs`, `WireProofs` | theorems |

Messages are records of type, length and opaque payload. The operators whose
comment says "A bug" are variants of the code used to see that a property would
notice them; no specification uses them.

**SessionRead.** `sent[s]` is the whole stream of complete messages and `pos[s]`
how far the session is in it, so that properties can speak of all that was
sent. A header read and a body read are the two values of `phase[s]` in which
an `async_read` is outstanding. A peer that closes leaves the first `got` bytes
of one more message (`cut[s]`). `Received` says what the buffer reads as when
`k` bytes came in over older content: this is what `handle_read_header` sees
when its read failed, because it does not look at `error`. With `got` = 3 the
length is the high byte of one message's and the low byte of another's.
`data_` starts with any of `Uninitialised`: no constructor sets it. A peer
closes in an orderly way; a reset that discards received bytes is not modelled.

**SessionWrite.** A write in progress is an `Op`: session, index of the message
and offset. `posted` is the queue of ready handlers (first in, first out),
`sockq[s]` the writes waiting for the socket. `SocketSend` takes all that is
offered or one of `ShortCounts` bytes; `write_some` is the step inside
`async_write` that offers the rest. The write that asio tries at once, before
it waits for the socket, is a `write_in_io_thread` directly followed by a
`SocketSend`.

**PacketInMonitor.** `onMessage` is two steps, `add_counter` and `follow_`,
with the worker's steps between them; the worker's loop is `while`, `reset`,
`sample` and `action`. A sleep may have any length. `is_running` is a plain
`bool` read by the worker and written by the caller of `stop()`: the loop calls
into the library in every round, so a compiler has to read it again each time,
and the race is an ordinary interleaving. `arrived`, `mark`, `triggers` and
`lateTriggers` are history variables.

**Eproxy.** The io thread is one thread, so while `following` holds a PACKET_IN
between `add_counter` and `follow_`, no other handler runs. Peers may send from
the moment they are connected. `main` = "failed" is the exception path of a
connect or accept; "returned" is the end of `run()`, which happens when neither
session has an operation outstanding. The process is taken to end there. No
peer sends the very FLOW_MOD of the proxy (`EproxyAssumption`), so that the
properties can tell the proxy's own messages from those it relays.

**PacketInTester.** Two threads share `group_index` and `data` without a lock.
`onMessage` uses `data[group_index]` several times, one step per use; each use
may locate the element anew or, as compiled, keep what was located before
(`locate`). `data` starts full, so the first `push_back` moves each element to
new storage, frees the old and then points to the new; a use of freed storage
is undefined behaviour and ends the run (`undefined`). A thread object that is
destroyed while joinable is `std::terminate`: when a second FEATURES_REPLY puts
another in its place, or at the end of main. Here a burst is one step of the test thread
and the sending half is the sequence of `write()` calls. `counted` (the element
each PACKET_IN was counted in), `unsure` (the PACKET_INs counted while the first
`push_back` moved the elements) and `crossed` are history variables.

**FlowGen, Timespec.** A second has `Nsec` units and the machine words are
scaled with it: `timespec_add` sums in a `uint32_t`, `timeval_subtract`
multiplies in an `int`. A product that overflows is undefined; a build lets it
wrap or keeps it, so `product` is a set of two values. `Borrow` and `GiveBack`
change the subtrahend in place, as the code does through its pointer.
`nanosleep` refuses what is not normal or negative and then does not sleep.
`is_run` is cleared at the end of a burst and no code sets it again. The clock
moves by `tick`, between any two steps; `delays` counts the ticks during which
the thread was not asleep, and `late`, a history variable, the packets of a burst
that went out after its end.

**OFPBuffer.** A critical section is two steps, entering it and doing its work,
since `getSzie` may read in between. `is_empty_` is cleared by the first
`pushBack` and never set, so a later `getFront` does not wait; `front()` of an
empty queue is undefined and stops the model (`broken`). No program of the
repository uses the buffer: its callers are any threads, which take directly or
after a `getSzie` that was not zero.

**CLayout, OpenFlowStructs, Wire.** Each struct is the list of its fields and
the size that its `OFP_ASSERT` states. `Wire` builds `send_hello` and
`send_feature_request`, the FLOW_MOD of `prepare_switch` and the packet of
`make_pkt` assignment by assignment in memory that starts unset, on a host of
either byte order that aligns a `uint64_t` to 8 or to 4 bytes. The reader is
external: it follows the lengths on the wire.

## What is checked

| run | module | question |
|---|---|---|
| `read` | MCSessionRead | whatever messages of eight bytes and more are sent and wherever the stream ends, is each message dispatched once, in order, eventually; what follows the end? |
| `read_eof` (violated) | MCSessionRead | is the dispatcher called only when a message came in? |
| `write` | MCSessionWrite | do bytes and messages keep their order under partial writes and a lost connection, and does every message go out? |
| `write_frames` (violated) | MCSessionWrite | is every message contiguous on the stream? |
| `monitor` | MCPacketInMonitor | do counting, sampling, clearing and stopping fit together? |
| `eproxy` | MCEproxy | does the proxy implement `Relay`, and does a burst move the path? |
| `eproxy_close` | MCEproxy | what is still delivered when peers close, and is all of it out when `run()` returns? |
| `buffer` | MCOFPBuffer | up to the first `getFront` too many, does the buffer implement `MessageQueue`; which callers are safe? |
| `flowgen` | MCFlowGen | how far do wrong and overflowing time stamps, and delays, disturb the beginning, the rate, the end and the flows of a burst? |
| `flowgen_bursts` (violated) | MCFlowGen | does every burst send? |
| `tester` | MCPacketInTester | is every PACKET_IN counted, in one piece, while the test thread moves and frees the groups; what starts the test, and what can cut it short? |
| `wire` | MCWire | is every struct laid out as asserted, and does the other side read what was meant, from any host? |

The three violated runs are findings. `read_eof`: when a peer closes after a
message that is only a header (a HELLO, an ECHO without data), the handler
dispatches the stale header again and starts the next read, which fails at
once; in the proxy the other side is sent the message over and over, and the
loop never ends. `write_frames`: `write_in_io_thread` starts an `async_write`
while an earlier one of the same session has sent only part of its message, so
the next message's bytes land inside the frame of the first. `flowgen_bursts`:
the check that ends the first burst clears `is_run`, and no later burst sends a
packet.

Several passing properties are as strong as the code allows, and say where it
stops being right. `CountedOnce` lets a count be lost only while the first
`push_back` moves the groups, and says that what the groups sent is always
behind the elements that are counted in. `DeadlineNotBehind` is exact until the
packets' slots cross a second, and one-sided from then on; it needs three
packets a second, for at one or two the sum of `timespec_add` wraps to a
deadline that is behind the slot (the tester asks for 100 to 2000). `CutOff`
allows one late packet, since the thread may be delayed between its check and its
send, and is about the burst that finds `is_run` set: later ones return at once
(`flowgen_bursts`). `ReplyRunsTest` names all that can end a test early: a switch
that closes, a second FEATURES_REPLY and the use of freed storage.
`ReadAsMeant` expects a packet with 16 unset bytes and a length that only a big
endian host stores in network order: of these two it is a record, and nothing it
could detect. `OneCheckedTakerIsSafe` holds for one taker only; `MessageQueue`
has a step for the take from a drained queue, at which it promises nothing more.

Bounds. Every bound is a constant whose comment says "bound".
- `read`: three messages of three kinds (header only; a body; another length
  that differs from the first body's in both bytes, so that a torn length is
  neither), every end of the stream that leaves 0, 2, 3, 4, 5, 8 or 10 bytes,
  and six dispatched messages. Three messages put one before and one behind any
  pair; the stale buffer does not change after the first failed read (proved),
  so more rounds show nothing new. `SizeMod` is 2^20, above every length.
- `write`: two sessions that share the handler queue, two messages each, of no
  bytes or of three pieces; one connection may break. A third message of a
  session would only queue behind two others.
- `monitor`: threshold 2, up to seven PACKET_INs, enough for three triggers and
  for losses at each clearing. `CounterMod` is 16: the counter does not wrap,
  and `BurstTriggers` would not hold if a period could bring 2^32 PACKET_INs.
- `eproxy`: three messages from the switch, one from the controller, threshold
  2, no partial writes (with them `write_frames` shows that the promise does
  not hold) and no close.
- `eproxy_close`: two messages from the switch, none completed by the
  controller, three dispatched messages; either side closes at any time, with
  two bytes of another message on the stream, which is enough for the type of
  one message to be read with the length of another.
- `buffer`: two threads that push two messages each, two that take. Two takers
  are what it needs to drain the queue behind a size that was asked for.
- `flowgen`: a second of 11 units, `UInt32Mod` 47, so that as in the code a
  `uint32_t` holds four seconds and not five and an `int` two and not three.
  Bursts of 5 seconds at 3 or 5 packets a second cross seconds often enough for
  both to wrap; 11 is a multiple of neither rate. Three units of delay may fall
  anywhere; two bursts show what the first leaves to the second. Addresses count
  modulo 16 instead of 2^24, so that they go round within a burst.
- `tester`: `data` presized to 3 instead of 2048, 2 groups instead of 20 and 2
  packets a group: the first `push_back` moves, the second does not, as in the
  code. The switch sends up to four messages, enough for two
  HELLOs and the two FEATURES_REPLYs they lead to, or for a HELLO, a
  FEATURES_REPLY and two PACKET_INs around a move, and may close at a boundary
  or within a header.
- `wire`: all structs on both machines; every number that is an input and
  longer than a byte has a value whose bytes all differ, so that no wrong order of bytes is invisible.

Fairness. Peers are never obliged to send or close. `io_service::run()` runs
every ready handler and its queue is first in, first out; the worker and the
test thread are threads of their own, and the time of a sleeping thread passes;
a connected peer keeps reading, so that a socket that has something to send
takes it in the end. This is weak fairness of the io thread, of `clear`, of the
test thread and of the sockets. `SessionRead` has it per session. A thread
inside `pushBack`, `getFront` or `a_burst` is scheduled, but none has to call
them, and no spurious wake-up has to happen.

Deadlock is not checked where the system may really stop: a session whose peer
is silent or whose loop has ended, a queue of writes that is empty, bursts that
are done, callers of the buffer that have all they want or wait for ever, a
process that has ended. It is checked in `monitor` and in `wire`, where it
means that what was built can be read to its end.

## What is proved

For all values of the constants that the named assumptions allow (the lengths
fit 16 bits, `size_t` is wider, `Torn` is no peer's payload, a threshold and a
counter width are naturals, `UInt32Mod` is between four and five seconds, ...), with any
number of messages, threads and bursts:

| theorem | statement |
|---|---|
| `SessionReadProofs!TypeCorrect` | `Spec => []TypeOK` |
| `SessionReadProofs!DispatchedInOrder` | `Spec => []InOrderExactlyOnce` |
| `SessionReadProofs!StaleAtTheEnd` | `Spec => []OnlyStaleHeadersAfterEnd` |
| `SessionWriteProofs!TypeCorrect` | `Spec => []TypeOK` |
| `SessionWriteProofs!StartsInWriteOrder` | `Spec => []HeadsInWriteOrder` |
| `SessionWriteProofs!EachByteOnceInOrder` | `Spec => []PiecesInOrder` |
| `SessionWriteProofs!NothingForgotten` | `Spec => []NoneLost`: while a connection is up, an unsent message has a handler posted or waits for the socket |
| `SessionWriteProofs!ContiguousUnlessCut` | `ShortCounts = {}`: `Spec => []FramesContiguous` |
| `PacketInMonitorProofs!TypeCorrect` | `Spec => []TypeOK` |
| `PacketInMonitorProofs!TriggersPaidFor` | `Spec => []EveryTriggerPaidFor` |
| `PacketInMonitorProofs!OneLateTrigger` | `Spec => []AtMostOneLateTrigger` |
| `PacketInMonitorProofs!SleepCounts` | `Spec => []SleepCountsAll` |
| `PacketInMonitorProofs!SampleDecides` | `action_` is next if and only if `thresh_hold_` PACKET_INs came since the counter was cleared, unless it wrapped |
| `EproxyProofs!TypeCorrect` | `Spec => []TypeOK` |
| `EproxyProofs!ComponentsHold` | the safety properties of the three components hold in the proxy |
| `EproxyProofs!PeerFirst` | `Spec => []PeerMessagesFirst` |
| `EproxyProofs!ReturnsRelayed` | `Spec => []ReturnsAfterRelaying` |
| `EproxyProofs!NothingDropped` | what a side dispatched is written for the other, once and in order, but for the PACKET_IN being counted |
| `EproxyProofs!FlowModsPaidFor` | each FLOW_MOD written to the switch has `thresh_hold_` PACKET_INs of its own; none is written to the controller |
| `EproxyProofs!TriggersReachSwitch` | when `run()` returns with the switch still connected, each trigger's FLOW_MOD is out to the last byte |
| `EproxyProofs!StepsOfRelay` | `Closing = {}`, `ShortCounts = {}`: initial states and steps are those of `Relay`, or stutter |
| `PacketInTesterProofs!TypeCorrect` | `Spec => []TypeOK` |
| `PacketInTesterProofs!SafeBehindFirst` | `Spec => OnlyFirstPushBackUnsafe` |
| `PacketInTesterProofs!CountsHold` | `Spec => []CountedOnce` |
| `PacketInTesterProofs!TornAtBoundary` | `Spec => []TornOnlyAtBoundary` |
| `PacketInTesterProofs!TestStartsOnReply` | `Uninitialised` has no FEATURES_REPLY: `Spec => []TestNeedsReply` |
| `OFPBufferProofs!TypeCorrect` | `Spec => []TypeOK` |
| `OFPBufferProofs!CheckedTakerSafe` | `Spec => []OneCheckedTakerIsSafe` |
| `OFPBufferProofs!StepsOfMessageQueue` | initial states and steps are those of `MessageQueue`, or stutter |
| `OFPBufferProofs!NoWakeUpLost` | while a thread waits in `getFront()`, at least as many threads are about to notify or awake as there are messages |
| `FlowGenProofs!TypeCorrect` | `Spec => []TypeOK` |
| `FlowGenProofs!BeginningKept` | `Spec => []BurstStartKept` |
| `FlowGenProofs!EndsOnTime` | `Spec => CutOff`: one late packet at most, no later than the delays; `is_run` is not cleared early |
| `FlowGenProofs!NewFlows` | `Spec => FlowsAreNew` |
| `FlowGenProofs!DeadlineHolds` | rates of three and more: `Spec => []DeadlineNotBehind` |
| `FlowGenProofs!NotTooFast` | rates of three and more: `Spec => NeverFasterThanAsked` |
| `WireProofs!TypeCorrect` | `Spec => []TypeOK` |
| `WireProofs!LaidOut` | `Spec => []LayoutAsAsserted` |
| `WireProofs!ReadRight` | `Spec => []ReadAsMeant` |

Four hypotheses are beyond the named assumptions. The sockets of `StepsOfRelay`
and `ContiguousUnlessCut` take all they are offered (`ShortCounts = {}`): with
partial writes frames are cut up, which is the finding of `write_frames`, and
what remains true then are the theorems without the hypothesis. `StepsOfRelay`
is about peers that stay connected, because `Relay` has no end of a stream;
`PeerFirst` and `ReturnsRelayed` cover closing. Rates of one and two are asked
for by no program of the repository, and `DeadlineNotBehind` is false for them.
`TestStartsOnReply` takes the memory `data_` is in not to hold a FEATURES_REPLY
before the first read, as a stream without a single byte would dispatch it.

*Reading.* The properties are not inductive: they say nothing of the buffer.
`Sound(s)` adds that during a body read the buffer holds the type and length of
the very message `pos[s]` points at, that a body read with no message left
means the peer has closed, and that after a failed header read all messages
were read, no bytes of the cut message are left and the buffer is what was
dispatched since. There is one lemma per handler, and a lemma that a step of one
session leaves the others alone (`StepsOfOthers`).

*Writing.* A message is in one of three places: a handler in `posted`, a write
in `sockq`, pieces in `stream`. `Typed` bounds the offsets in all three.
`Ordered` says that the starts in `posted` are behind those in `sockq` and these
behind what went out, that no index between is left out, and that a write which
is not at its start continues a piece that is out. `Single` says that a message
has one place at most and that its offset is where the pieces on the stream
end; `PiecesInOrder` needs both. `NoneLost` says that it has one at all. Each
action first gets a lemma that says what it does to the three places (`...Effect`);
the invariants use only these. Without partial writes no write is ever left in
the middle of its message (`Whole`), so each piece on a stream is a whole message.

*Monitor.* `Paid` says that all triggers so far are paid for by PACKET_INs that
arrived before the counter was last cleared, and that during a sleep the counter
is at most what arrived since. `Late` says that a late trigger puts the worker
in front of its loop condition, which then fails. `SleepCounts` needs a lemma on
remainders, since the counter is arithmetic modulo its width; `SampleDecides`
is what the sample makes of it.

*Proxy.* A step of the proxy is, for each component, one of its steps or a
stutter (`ReadStep`, `WriteStep`, `MonitorStep`), so the component proofs, which
do not use the components' bounds, carry over. What joins the halves is
`Relaying`: the messages written to a side, without the proxy's own, are those
dispatched by the other, but for the PACKET_IN that is being counted. With
`InOrderExactlyOnce` this gives `PeerFirst`. `Drained` says that `run()` leaves
nothing in the queues; with `NoneLost` this gives `ReturnsRelayed`. `Counted`
equates FLOW_MODs written with triggers, and PACKET_INs dispatched with
`arrived`; with `Paid` this gives `FlowModsPaidFor`, and with `Drained` and
`NoneLost`, `TriggersReachSwitch`. `NothingDropped` is `Relaying` itself.

*Relay.* The refinement takes a message as delivered when it is out to its last
byte. As long as nobody closes, no read fails and no connection breaks
(`NoneFails`), and no message is empty. With `Whole`, the write that is first in
line at a socket is of the message behind all that are out (`NextOut`, from
`Ordered` and `Single`; `InPlace`), so a `SocketSend` delivers exactly one more.
Whether that is a `Deliver` or an `Inject` of `Relay` depends on the message: of
a peer's it is the next one by `Relaying`, and a FLOW_MOD is paid for by
`FlowModsPaidFor`, counted among the PACKET_INs the switch has sent so far.
Start-up can fail only while nothing is out (`Quiet`). `Relay` counts messages
with `Cardinality` and not by selecting them from a sequence, which would need
induction.

*Tester.* `Shape` ties `group_index`, the length of `data` and the state of the
test thread to one another: from it come the types, and that an index is never
outside. `Moved`, that the first `push_back` is over and an element in use is in
the new storage, holds for ever once it holds. `Counts` keeps `CountedOnce`
while `push_back` has copied part of the elements and while `onMessage()` is
between two uses, in the old storage and the new. `Uncrossed` says what is so of
an element between two uses of it (`AtStage`), and that it is the element of the
group being tested where no boundary was crossed. `Seen` carries the types that
a session's handlers have seen (`SessionReadProofs`) to the thread they start.

*Buffer.* `SeenStays` says that what the only taker has seen in the queue stays
there until it takes it; `EverPut` that `is_empty_` is cleared only once
something was put, which is what the refinement needs in `front_of_empty`.
For `NoWakeUpLost`, `Awake` adds that `is_empty_` is set only over an empty
queue, so that a thread begins to wait only when there is nothing to take. Each
put then adds a thread that is about to notify, which leaves by waking a waiting
one, and a thread that is awake leaves with one message: the messages never
outnumber those who come for them while somebody waits, although the
notification comes after the unlock.

*FlowGen.* However often `timeval_subtract` changes `sec_beg`, its nanoseconds
stay within a second of zero (`Near`), so the products it needs are of one
second at most and never overflow: the beginning is kept. A check therefore
passes until the end and fails from then on, either way at the end itself
(`CheckInTime`); `Ending` says that a packet whose check was in time is late
only by the delays, and that behind a late one the clock is past the end, so
that the next check cannot pass. `Rising` says that the flow counters are ahead
of every flow made since they last went round. `OnPace`
is about the deadline: behind a second it runs ahead of its slot by two seconds
for every call of `timespec_add` that carried, and its nanoseconds tell how many
these were at least (`Lap`), up to the fourth second, where the sum wraps and
starts again. With three packets a second the wrap finds it far enough ahead.
`OnTime` adds what `nanosleep` makes of it: the sleep reaches the slot, unless
the nanoseconds are at three seconds or more, when the product overflows or the
time is refused; this lasts two packets at most.

*Wire.* `End` and `WireEnd` are functions defined by recursion. That they
satisfy their equations (`EndEquation`, `WireEquation`) needs induction, which is
done by hand: every set of naturals has a least element (`Least`, from the
library's well-founded relations), and the least number of fields without a
layout cannot exist. A struct is `Packed` when its fields end at given offsets
with no gap before any of them, whichever alignment the machine has; then both
equations have those ends as their solution (`PackedStruct`), and one lemma per
struct says that it is. With the offsets, the assignments become tables of
places and bytes (`HelloTable`, `FlowModTable`, `PacketTable`), in which neither
the byte order nor the machine appears, but in the two fields that `make_pkt`
does not convert: a number that is converted and then stored is reversed twice
or never. `MemoryInv` says that a byte is what was last assigned to it, or not
set; a field that no later assignment overlaps is then read as it was assigned.
`ReaderInv` says that the reader has read the first items of `Meant` and is
where the next one begins. Together with what `Init` chooses (`Known`) they are
inductive, and at the end of the buffer there is no item left.

Only model-checked: every liveness property, and with them `ImplementsRelay` and
`IsMessageQueue` as a whole (liveness under fairness is out of the prover's
reach; `StepsOfRelay` and `StepsOfMessageQueue` are their safety parts); and
that `wire` and `monitor` do not deadlock, which is about `ENABLED`.

## What is not modelled

- `OFPShaper`: it includes `SwitchSession.h`, which is not in the repository, so
  nothing can compile it; its `setDest` stores nothing, so its thread would
  never be started.
- The `OVS_ASSIST` variant of the proxy, which is compiled out, and
  `calculate_buffered_packet`, which nothing calls.
- The OXM header macros of `openflow.h`, which nothing uses.
- Log output, hexadecimal formatting, the build.
- A peer that sends a length below the eight bytes of a header on an open
  connection (`OpenFlow.Message` has none): no OpenFlow message is that short,
  and the code would go on reading behind the end of `data_`. That the same
  subtraction wraps on a buffer that is stale or was never filled is modelled.
- A connection reset that discards received bytes; a clock that is set back;
  what the worker or the test thread does with objects main has destroyed before
  the process ends.
