# vperfetto: models, checks and proofs

vperfetto lets a host program (typically a virtual machine monitor) write
Perfetto traces and combine them with a trace of its guest. This directory
holds TLA+ modules for the parts of it that keep state, TLC configurations
that check them on small instances, and TLAPS proofs of the results that hold
for every instance.

    tlc -workers 2 -config <run>.cfg <module>     # PROJECT.json lists the runs
    tlapm <Module>Proofs.tla

## 1. The system

| Part | Source | State | Operations |
|---|---|---|---|
| Trace contexts | `vperfetto.cpp` (class TraceContext) | per thread: buffer, lock, depth, interning tables, track ids | `beginTrace`, `endTrace`, `traceCounter`, `save`, exit of the thread |
| Trace storage | `vperfetto.cpp` (class TraceStorage) | registered contexts, saved buffers | `add`, `remove`, `saveTrace`, `saveTracesToDisk` |
| Trace configuration | `vperfetto.cpp` (`sTraceConfig`) | flags, counters shared by all threads, guest time difference | `setGuestTime`, `enableTracing`, `disableTracing` |
| Packet writing | `vperfetto.cpp`, protozero (`message.cc`, `scattered_stream_writer.cc`) | buffer, write pointer, open messages | `beginPacket`, `endPacket`, fields and nested messages, `GetNewBuffer`, `save` |
| Combined save, non-SDK | `vperfetto.cpp` (`asyncTraceSaveFunc`) | `saving`, three files | detached thread: polls the guest's file, concatenates |
| SDK session | `vperfetto-sdk.cpp` | `sTraceConfig`, `sTracingSession`, `sTraceProgress`, files | `setTraceConfig`, `setGuestTime`, `enableTracing`, `disableTracing`, detached saver |
| Merge | `vperfetto-sdk.cpp` (`constructCombinedTrace`) | two parsed traces, maxima, uuid map | five passes over the packets |
| Offline merge | `vperfetto-sdk.cpp` (`combineTraces`), `vperfetto_merge.cpp`, `vperfetto-util.h` | two files, time difference | derive or take a difference, merge |
| vperfetto-min | `vperfetto-min.cpp` | session, `saving`, callback | start and end of tracing with two backends |
| Perfetto SDK sessions | `perfetto.cc`, `perfetto.h` | task queue, consumers, service sessions, data source | tasks, callbacks, stop timeout |
| Rest of Perfetto | `perfetto.cc`, `perfetto.h`, `perfetto-min/`, `proto/` | vendored, mostly generated | - |

How they interact. The threads of the program share `sTraceConfig` and
`sTraceStorage`. A tracing call tests `tracingDisabled` without a lock, takes
the lock of its own context, and touches the shared counters
(`packetsWritten`, `sequenceIdWritten`, `currentInterningId`,
`currentThreadId`) with single atomic accesses. A full buffer goes to the
storage in the middle of a call, under the storage's lock. `disableTracing`
takes the storage's lock and then, one after the other, the locks of all
contexts, saves their buffers, writes the file in two passes and resets the
shared counters one at a time. With guest and combined file names it leaves a
detached thread behind, which looks at the size of the guest's file once a
second until the size seems stable, and then combines the traces, reading the
configuration that the client may be changing for its next session.
vperfetto-min and the SDK build leave the recording to a tracing session of the
Perfetto SDK: their calls post tasks to the SDK's thread, on which consumer,
service and data source post each other tasks, and wait for the one that wakes
them; the same thread calls the client's callback.

What is hard, and what makes each part correct:

* **Contexts and storage**: interleaving of calls, thread exits, handed-over
  buffers and saves. A file must hold the packets of one session, all of them,
  each once, in the order of their thread, the one that clears the
  incremental state first; every reference must be defined before it is used,
  in the same file; slices must nest; calls must return.
* **Sessions**: overlap of a save with the next session, a guest file that is
  missing, late, stalled or of an earlier session. A combined file must pair
  the whole traces of one session under that session's time difference; a
  host trace must not get lost; a save must end.
* **Packets**: a buffer that ends inside a packet, size fields that are filled
  in later, a writer that outlives its buffer. A packet must be in one buffer
  as a whole, with the right sizes.
* **Sessions of the SDK**: two threads, callbacks, a stop that times out while
  its answer is under way, sessions that are refused or replaced. Calls must
  return, with the file saved and the callback told; nothing may be traced for
  ever; what `perfetto.cc` asserts must hold.
* **Offline merge**: clocks that start anywhere, counters with an offset,
  unsigned arithmetic, options in any order, files that vanish. The traces must
  be aligned, and a result written only as the command line asks.
* **Merge**: state carried from packet to packet, ids of 0, ids that are equal
  in the two traces, references that precede what they refer to. Ids of the
  two traces must be disjoint, and tracks must be followed by everything that
  refers to them.

## 2. The modules

`TraceContext` **(vperfetto.cpp, 28-489, 555-600 and 626-713)**. `ctx[t]` is
thread t's TraceContext together with the point `pc` its call has reached. One
step of a thread is one access to state that another thread can touch, with the
thread-local work up to the next one: the test of `tracingDisabled` (`Call`,
`Check`), the decrement that `endTrace` makes before it takes the lock
(`DecrementDepth`), the lock with the increment of `packetsWritten`
(`LockAndCount`), the wait for `sequenceIdWritten` (`AwaitSequenceId`), the
read of `currentInterningId` (`InternCategory`, `InternEvent`) and its
increment (`EmitCategory`, `EmitEventName`), and so on. The decrement races
with the reset of a save, so its result is a choice between the two values. The
control thread does one step per lock, context, buffer and assignment. Packets
are records of what a reader resolves (kind, track, iids, name, time
difference); `n`, `by` and `sess` are history. `BufCapacity` packets stand for
the bytes of a buffer; a packet that does not fit waits in `out` until
`FinishAndRefresh` has handed the buffer over. The two iid arrays of a context
are one stretch of memory, because `traceCounter` at the maximal depth writes
behind the end of the first.

`CombinedSave` **(vperfetto.cpp, 503-553 and 626-679)** and `SdkSession`
**(vperfetto-sdk.cpp, 35-161 and 582-730)** are the sessions of the two builds,
with the host's trace as a value and the detached saver as a process.
`GuestFile` is what they share: the guest's file, written by a transfer outside
the program, and the polling loop. In `CombinedSave` every session has a saver
of its own, and several may be at work; `alone` is history and says whether the
last session began with none. `SessionLifecycle` is the abstract specification
of the SDK build's sessions, from the comments of `enableTracing`: a session is
started, traced, saved, and only then the next one starts. The non-SDK build has
the same comments and does not implement it (SaverOverlap, section 4).

`TraceMerge` **(vperfetto-sdk.cpp, 171-579)** is `constructCombinedTrace`: one
action per packet in the loops that carry state from one packet to the next
(`CalcMax`, `MapIds`), one per pass in the others. Protobuf messages with
repeated fields are taken apart into packets with one entry each. `pid` is every
id that the code treats as a pid (ftrace's pids, which are thread ids, too),
`tid` a tid of the process tree, and `dtid` the tid of a thread descriptor, which
the code neither scans nor shifts.

`PacketWriter` **(vperfetto.cpp, 132-147, 302-347 and 384-413, with protozero's
message.cc, message.h and scattered_stream_writer.cc)** is what `TraceContext`
abstracts: one context that writes packets, byte by byte in number. A packet
is a tag, a size field, and a body of fields and nested messages; `mPacket` is
the stack of open messages with their `size_`; the tag of a nested message has
one byte or two. A write is a sequence of bursts
(`WriteBurst`, `WriteRest`); when it meets the end of the buffer, `Extend` is
`GetNewBuffer`: the open messages are finalized under their caller, the buffer
is handed over and the packet begun anew in the next one. `torn`, `want` and
`nested` are history. All of this runs under the context's lock, so that no
other thread appears. That buffers of `BufCapacity` whole packets stand for
bytes in `TraceContext` is justified by `WholePackets`, for packets that fit
the space `beginPacket` makes sure of.

`TracingMuxer` **(perfetto.cc, mostly 30373-31575 and 38010-38694; perfetto.h,
4818-4907)** is a tracing session of the Perfetto SDK. `tasks` is the queue of
its thread, and one action is one task; `consumers`, `service` and `sources` are
the session as ConsumerImpl, the in-process TracingServiceImpl and the track
event data source see it. The service may refuse a session (no memory for its
buffers), the data source may answer after the stop timeout (`Timeout`), and
posts of an endpoint that is destroyed are not delivered. On a stop the service
scrapes what the threads have not committed, without the last packet of a
chunk still in use (`Scraped`). The system backend has no service to connect to.
`MinSession` **(vperfetto-min.cpp)** extends it with `vperfetto_min_startTracing`
and `vperfetto_min_endTracing`, called by one thread of the client in any
order: each task the calls post is a step (`Post`), each wait another.
`SdkSession` uses the same session through StartBlocking and StopBlocking and
takes these two as single steps; that they return, and return with the session
started and stopped, is what `MinSession` checks.

`OfflineMerge` **(vperfetto_merge.cpp; vperfetto-sdk.cpp, 748-917;
vperfetto-util.h)** is the merge program and `combineTraces`: arguments, options
one at a time, the two reads, and the derivation of the time difference with
its 64-bit arithmetic (modulo `Word`). What the merge does to ids and tracks is
left to `TraceMerge`. To say what alignment means, the traces are written in a
world where one time drives both clocks and both cycle counters; the module
derives the difference from the traces alone, as the code does, and the
properties compare it with the world. A conversion through doubles is off by at
most one as long as the result is within `Precise` (2^50 for 53 bits of
mantissa, with room for the roundings on the way), and any number beyond. A word
on the command line is read by `operator>>` (`Parses`): a number in front is
taken and the rest ignored, and one that does not fit the type it is read into
is not understood. The combined file is written, left alone because it cannot be
opened, or cut (`WriteCombined`); the program does not ask.

`MCTraceContext`, `MCSdkSession`, `MCTraceMerge` and `MCOfflineMerge` give
constants their values; `TraceContextProofs`, `GuestFileProofs`,
`SdkSessionProofs`, `CombinedSaveProofs`, `TraceMergeProofs`,
`PacketWriterProofs`, `OfflineMergeProofs` and `MinSessionProofs` hold the
proofs. Definitions commented as mutants are not part of the specifications:
each is the form a definition would have with a plausible bug, and PROJECT.json
says which property that bug violates.

## 3. The runs

| Run | Instance | Shows |
|---|---|---|
| ContextSessions | 2 threads, 2 calls of one and 1 of the other, buffers of 3, 2 sessions, client starts and stops at rest, fairness | `SessionIsolation`, `DefinedBeforeUse`, `OwnTracks`, `StartsCleared`, `ThreadOrder`, `CallsReturn`, `ControlReturns` |
| ContextSlices | 1 thread, 5 calls of all kinds, stack of 3, 2 names, 2 differences, 2 sessions | `TypeOK`, `DefinedBeforeUse`, `OwnTracks` (with counters), `NestedSlices`, `OneTimeBase` |
| ContextRaces | 1 thread, 3 calls, buffers of 2, 2 sessions, control calls at any moment | `Lossless`, `NoTornSave` |
| SdkSaves | 2 sessions, client that does not wait, any guest file | `TypeOK`, `SaverAlone`, `WholePair`, `HostSaved`, `SavingEnds`, `Implements` |
| CombinedSaves | 3 sessions, client that does not wait, savers that overlap, polls that may run out | `TypeOK`, `WholePair` |
| SaverOverlap | 2 sessions, client that does not wait | `NotWhileSaving` fails |
| MergeIds | all main traces of up to 2 packets and addon traces of up to 3 | `TypeOK`, `IdsDisjoint`, `TracksFollow`, `MergeEnds` |
| IidCollision | 2 threads, 2 names | `IidsUnique` fails |
| LockOrder | 1 thread, buffers of 2, control calls at any moment | `ControlReturns` fails |
| Packets | 3 packets, buffers of 44 bytes with 11 kept in reserve, fields of 4 and 50 bytes, 3 levels of messages | `TypeOK`, `WholePackets`, `OwnBuffer` |
| MinSessions | 3 in-process sessions, any number of system ones, 2 events per session, one name and callback, fairness | `TypeOK`, `Asserted`, `SavedOnReturn`, `ToldOnReturn`, `NoLateCallback`, `CallsReturn`, `TracingStops` |
| OfflineMerges | 3 worlds, 20 host and 10 guest traces, 17 command lines, 2 client configurations, words of 6 bits, doubles of 20 | `TypeOK`, `MergesAsAsked`, `Aligned`, `LinedUp` |

**Bounds.** The first call of a thread writes up to five packets (the packet
that clears the incremental state, category, track, name, event), so buffers of
2 or 3 packets are handed over once or twice within it, and the packet that
must come first may be in a buffer that is saved before or after others. Two
calls are a begin and its end; a third or fourth goes on after an unbalanced
end, a full stack or a save. Two sessions show what is remembered from the
first, a third adds nothing new to `TraceContext` (all state of a session is
reset) and is used for the files, where the session before the last may leave
something behind. A stack of 3 is the smallest on which two slices can be nested
and both closed, because a full stack is not popped; with five calls a third one
fills it. A guest file of 2 or 3 units can be seen empty, growing and whole;
`kMinItersForGuestFileSize` keeps its value 2 and `kMaxIters` is cut from 20 to
between 4 and 6, which is enough for the loop to succeed, to give up, and to
miss the end of a transfer. In Packets a buffer holds two small packets and part of a
third, so that packets end exactly at, just before and beyond the end of their
buffer, inside a field, a tag and a size field; a field of 50 bytes is longer
than a buffer. In MinSessions a session is only left behind by a system session
between two others, and is replaced by the third; two events are needed since
the last one may be lost. In OfflineMerges the clocks of the worlds are apart
by less and by more than half of a word and wrap, and the traces have none, one
and several snapshots of each form that the code tells apart; the command lines
include numbers just outside the signed and the unsigned range, and words that
only begin with a number. The merge's packets cover each kind that it treats
differently, with equal and unequal ids, and in every order. Symmetry is declared for threads and names in the safety
runs only. In ContextSessions, which has liveness and hence no symmetry, one
thread makes two calls and the other one; the five invariants are proved for any
number (section 5), the liveness is not.

**Assumptions of the runs.** `Quiesced`: the client calls `enableTracing` and
`disableTracing` while no tracing call is in progress, as the unit test does.
The library does not ask for it, and ContextRaces and the first theorems of
section 5 do without. `steady` is no assumption but a history variable:
during the last save the transfer had begun before the first poll and was not
seen at one size more than `MaxStall` times before it was complete, and (SDK
build) the client did not set another guest time or configuration. Other
behaviours are in the runs; `WholePair` and `HostSaved` speak of the steady ones.
Likewise `alone` (the last session began with no save at work) in CombinedSave,
which a client of the non-SDK build cannot ensure by any call, and `orderly`
(no `startTracing` while tracing, no end of a system session so far), `failed`
(the service refused the session) and `late` (the data source did not stop in
time) in MinSession.

**Fairness.** A thread inside a call and the control thread inside a call keep
running, and so does a detached thread: weak fairness of `InCall(t)`,
`InControl`, the `Saver` of `SdkSession`, and in `MinSession` the client inside
a call (`Continue`) and the SDK's thread (`Muxer`), whose queue is served in
order; no timeout and no event is counted on. The locks are `std::mutex` and a
spin lock of one holder at a time, on which strong fairness is not assumed:
under `Quiesced` nobody competes with a save. Nothing is assumed of the client,
which need not call anything, nor of the guest. The merge is the loop of one
thread. CHECK_DEADLOCK is off where the process may be gone, where two threads
may wait for each other (LockOrder, ContextRaces), and where a finite history
of sessions or packets may simply be over.

## 4. Where code and documentation disagree

Three runs expect a violation; PROJECT.json quotes the lines.

* *IidCollision*: `internEvent` and `internCategory` read the next iid and
  increment it in two steps, so two threads can give one iid to two names.
* *LockOrder*: a thread with a full buffer holds its tracing lock and waits for
  the storage's, `disableTracing` the other way round.
* *SaverOverlap*: "Set saving on" stores false (`vperfetto.cpp`, 676-677), so
  that "Don't enable if we are saving" never applies and `waitSavingDone` never
  waits: a session starts while the one before it is being saved, and then one
  saver can combine files of different sessions or truncate what another wrote.

The passing runs, their assumptions and the conditions of their properties mark
others; give a constant another value, or drop a condition, and TLC shows what
happens.

* `Quiesced = FALSE` in ContextSessions: packets of a late call surface in the
  next session's file, and a thread can wait for a sequence
  id that nobody writes, because the flag was reset after it was set
  (`CallsReturn`, even with `BufCapacity = 9`, where the deadlock of LockOrder
  cannot happen). Set CHECK_DEADLOCK FALSE to see these.
  In ContextSlices, a save between the test of the depth and its decrement makes
  the depth wrap (step "oob", from which the model does not go on).
* SdkSaves: a missing guest file has size -1, which differs from 0 and passes for
  a stable size after three polls; `resize(-1)` then throws in the detached
  thread, which ends the process (step "aborted"), where the message of line 626
  promises to skip the combined trace. `MaxStall = 2`: two unchanged sizes need
  not follow each other, so a transfer that pauses twice for one poll is cut off
  (`WholePair`), and a slow one outlasts the polls (`HostSaved`). Without `steady`: when the loop gives up, the host's trace is
  dropped with the combined one (`HostSaved`), and `setGuestTime` for the next
  session changes the difference of the save that is running (`WholePair`).
* MergeIds: once one descriptor has moved, every uuid that is not mapped becomes
  0 (vperfetto-sdk.cpp, 426), so that tracks without a process or thread, such
  as counters, collapse into one. `TracksFollow` therefore promises unrelated
  tracks only if nothing moved.
* Packets: a packet whose body is larger than the space kept in reserve (203
  bytes with the code's constants; a long event name is enough) and that meets
  the end of the buffer is torn: its messages are closed under their caller and
  the rest becomes another packet. `WholePackets` is about the packets that fit.
* MinSessions: after a session of the system backend `saving` stays set, and the
  next in-process session is neither stopped nor saved by `endTracing`
  (vperfetto-min.cpp, 162); `startTracing` while tracing replaces file name and
  callback of the running session; both end `orderly`. Nothing is flushed before
  the trace is read, so the last event of every thread that is still running may
  be missing (`SavedOnReturn`; the same holds for vperfetto-sdk.cpp, 669). If the
  service refuses a session, the callback is told of a start and of an end while
  `startTracing` may already have returned (`failed`). Only the first call's
  backends count: an in-process session after a first call for the system
  backend alone waits for a service that may not be there (`CallsReturn` is about
  the others).
* OfflineMerges: `deriveGuestTimeDiff` compares the clocks that the two traces
  set against the cycle counter with each other, not with the clock of the
  timestamps; snapshots of another clock align the wrong one (`Synchronised`
  excludes them). Differences from 2^63 - 1 on are clamped (`Meet`). A word such as
  "0x10" or "12abc" is taken for the number in front (`Parses`), so a misspelt
  value leads to a merge with another one. A combined file that cannot be written
  is not reported: the exit code is 0 (`WriteCombined`). A trace that cannot be
  parsed as the addon leaves an empty combined file, also with 0.
* At the maximal depth `endTrace` returns without an event (line 233), although
  `beginTrace` reaches that depth legally: slices stay open. `NestedSlices`
  holds, since it speaks of the ends that are written.
* `ShiftIds` moves thread ids and process ids by different amounts, so a main
  thread (tid = tgid) of the addon trace need not be one in the merged trace; the
  pids of ftrace events, which are thread ids, are shifted like process ids, and
  the tids of thread descriptors not at all, so that either may be the tid of a
  thread of the main trace. The comment of line 506 of vperfetto-sdk.cpp
  ("Calculate the max seqid/pid/tid in the main") says more than the code does:
  the tids of thread descriptors do not count. `IdsDisjoint` compares each kind
  of id with its own, and leaves out trusted uids, of which a 0 (root) in the
  addon trace is shifted onto the largest of the main trace.

## 5. The proofs

`TraceContextProofs`, from `ConstantsAssumption` only (buffers and stacks of at
least one place; any threads, names and operations, any number of calls and
sessions).

* `TypeCorrect`, `ContextsConsistent`, `SavesDoNotTear`: without `Quiesced`.
  `TypeOK` alone is not inductive: that a step of a call stays within the iid
  arrays needs to know that the depth at that point is below the maximum, which
  a save may have reset meanwhile. `ContextInv` says of every point of a call
  what its context is like, whatever the control thread does: the lock is held
  exactly in the guarded section, the depth fits, the argument fits. The two
  are proved together, one lemma per action (`InCallOK`, `StartCallOK`,
  `ControlOK`). That a save does not tear a call follows: `SaveContext` needs
  the lock that a guarded call holds.
* `SessionsKept`, `SessionsIsolated`: under `Quiesced`. `SessionInv`
  says where packets of the current session may be at each step of
  `disableTracing`, and that nothing is left when it has saved; it needs
  `ControlInv` (where the control thread is) and `RegisteredInv` (a thread with
  a buffer is registered or about to save it, so that the saver finds it).
  `SessionIsolation` follows from its part about the file.
* The properties of the file, under `Quiesced`. `CallFrame` says once what a step
  of a call can do to the packets (write one, write none, hand its buffer over,
  give it up), `Held` and `InFile` are the packets in buffers and storage and
  those in the file, and `FileStep` how these grow and shrink. The six
  invariants build on that:
  - `OneTimeBaseKept`: what is held was stamped with the difference now set
    (`TimeInv`), because the difference changes only while nothing is held.
  - `TracksOwned`: `TrackInv` bounds the ids of what is held by the next thread
    and counter id and ties them to the threads that hold them; ids are drawn
    anew only when no thread has one.
  - `StartsClearedKept`: `MarkInv` follows the one mark from the election by
    `packetsWritten` (`Election`) through buffers and storage to the front of
    the file (`OneMark`, `FileMarked`). Until the elected thread has written,
    nothing is buffered (`Fresh`), which needs the depths to be reset between
    sessions (`Reinitialised`): an `endTrace` does not wait for the election.
  - `ThreadOrderKept`: `OrderInv`, on top of `MarkInv`: saved buffers of a thread
    are in its order and the marked one, which is moved, is its thread's first.
  - `DefinedBeforeUseKept`: `DefInv`, on top of `OrderInv`: what a thread
    remembers (`Remembers`), has on its stack (`OnStack`) and knows at its point
    of a call (`CallKnows`) is defined by a packet of its own that is held; a
    context without a buffer remembers nothing (`Blank`), so forgetting the
    packets when the file is closed is safe; an event that is held, or in the
    file, is `Backed` by packets with smaller numbers. That the file is closed
    under this at each step of its two passes follows from `OrderInv`: what is
    written later was emitted later. On a full stack a counter overwrites the
    name of the outermost slice, so `OnStack` speaks of stacks that are not
    full; no end gets past the test of the depth then. `FitInv` (a buffer never
    exceeds its capacity) turns packets of the file into places of it.
  - `NestedSlicesKept`: `SliceInv`. The iid arrays are a stack of open slices
    (`Stacked`): level l holds the ids of a begin that is `Opened`, with as many
    slices open inside it as there are levels above l. `Levels` says what the
    height is in the middle of a call, since `endTrace` pops before it takes the
    lock and `beginTrace` pushes after it has written. One packet more opens a
    slice, closes the innermost or leaves the counts alone (`OpenedNext`), so an
    end that is written is `Matched` by the top of the stack, and stays so,
    because only earlier packets of its thread count. In the file it is matched
    because the two passes never overtake a packet of the same thread
    (`FileDown`, from `OrderInv` and `CopyInv` below). The counts are
    cardinalities of sets of packet numbers; the injection from places to
    numbers, monotone by `OrderInv`, carries them over to what a reader counts
    (`PlaceCount`).
* `LosslessKept`: without `Quiesced`, so whatever the client does. `TrailInv` says
  where the numbers of a thread's packets are: from lo + 1 to mid in the file, to
  hi in the saved traces, to top in the buffer, and up to `emitted` waiting
  (`Unbroken`), no number twice (`BufferedOnce`, `WrittenOnce`). A step moves one
  of these borders. While the file is written it has exactly the traces that the
  loops have passed (`CopyInv`) and nobody else saves (`LockInv`), so closing it
  moves everything saved behind mid. That the places are as many as the numbers
  is again an injection (`Counting`).

`GuestFileProofs` is about the polling loop alone, for every `GuestSize`,
`MaxStall`, `kMaxIters` and `kMinItersForGuestFileSize`: `SteadyLoop` bounds the
polls that counted towards a stable size by the sizes seen so far. Two conditions
on the constants appear as hypotheses of theorems. `GrowsInTime`: the polls that
find an unfinished file unchanged are too few to pass for a stable size; with the
source's constant 2, a transfer that grows from poll to poll. `FitsInPolls`: such
a transfer is over before `kMaxIters`. Neither is guaranteed by the code, which
can only poll: section 4 shows what happens without them (`MaxStall = 2`), and
the runs have instances that satisfy both.

`SdkSessionProofs`, for any guest file, number of polls and sessions.
`TypeCorrect` and `SaverIsAlone` from the invariant `TypeOK`, `OpenIsLast`,
`SaverAlone`: the open session is the last and excludes a save, a save excludes
an open session. `SdkImplementsLifecycle`: every step maps to a step or a
stutter of `SessionLifecycle` under `phase`; the invariant rules out the branch
of `disableTracing` that would leave a session open. `CombinedIsWhole`
(`GrowsInTime`) and `HostIsSaved` (`FitsInPolls` too): `SaveInv` says that no
file is newer than the last session and that the combined one is older until its
saver writes it; while the history is `steady`, `SteadySaver` adds what the saver
has read at each of its steps, with `SteadyLoop` for the polls, and `HostKept`
that the host's trace is in the saver's hands or in its file.

`CombinedSaveProofs`. `TypeCorrect` for any client (each session has a thread of
its own, several may run). `CombinedIsWhole` for any client as well, from
`GrowsInTime`: whatever earlier savers have done to each other, once a session
begins with none at work (`alone`), no other saver runs until the next session
begins (`OneSaver`), and then the argument is that of the SDK build. Nothing is
assumed of when the client starts sessions; a session that began during a save
is outside the property, and SaverOverlap shows that the code allows it.

`TraceMergeProofs`, for any two traces. The invariant says, pass by pass, how a
packet of the addon trace relates to what it was: `MaxInv` (the maxima bound
the ids seen so far), `IdInv` (packets behind the loop index are shifted, the
others are not), `TrackInv`, `MapInv` (the uuid map is injective and has every
moved track that the loop has passed), `LoopInv`, `DoneInv`. `IdsAreDisjoint`
and `TracksAreFollowed` follow from it. Assumptions: track descriptors have
uuids, and `GenUuidv4Lsb` repeats neither itself nor an uuid of the traces (it
draws them from a `minstd_rand` of 31 bits of state, seeded by the clock, so this
is likely and not certain). `MapHasReason` adds that the map stays empty unless
some descriptor moves, which is what the first part of `TracksFollow` needs.

`PacketWriterProofs`, from `WriterAssumption` (a buffer has room for one packet,
fields have at least one byte): any sizes, any nesting. `TypeCorrect` says that
the writer stays within its buffer, `PacketsAreWhole` and `OwnsItsBuffer` are the
two properties of the run. `WholePackets` speaks of packets that are finished;
the invariant adds what holds in the middle of one: `ShapeInv` (stack, depth and
call fit together), `BufferInv` (a packet is written only into the buffer the
context owns, and buffers are numbered in the order of their hand-over) and
`OpenInv`: as long as the packet fits, it has not been broken off, its messages
lie one behind the other, and the write pointer is where the sizes and the
pending bytes of the current call say. From this `MustExtend` is impossible in
a packet that fits, which is the heart of the proof.

`OfflineMergeProofs`, from `WordAssumption` and `InputsAssumption`: any even word
size, any traces, clocks and command lines. `MergesWhatWasAsked`: `MainInv` says
of each step of `main` what part of the command line the configuration stands
for, and that an error was returned for a reason. `LinesUp` and `Aligns`: `FilesInv` says that what is read is what was
recorded and what is written is a merge of it with one of the differences that
the code may derive; the rest is arithmetic modulo `Word`: each timestamp is
congruent to the clock it is compared with, and two congruent words are equal.
`First` and `Last` choose positions; that they exist is an induction over the
naturals (`LeastNatural`), which a least counterexample replaces. `Aligns` needs
`FastCounter` (the cycle counter counts no slower than nanoseconds, a time stamp
counter of 1 GHz or more: while the counter does not wrap, which `Aligned` asks
for, the nanoseconds that pass then fit in a word too) and
`InOrder` (snapshots of a trace are in the order in which they were taken, as
the tracing service writes them).

`MinSessionProofs`, from `MuxerAssumption` and `MinAssumption` (the bounds are
natural numbers, NULL is no file): any number of sessions and events, and every
interleaving of the client's thread, the muxer's thread, timeouts and events.
* `TypeCorrect`, with `CallHoldsSession`: a call that stops a session or reads
  its trace holds one, so that its tasks are not of the session `nullptr`.
* `QueueKept`: the inductive invariant `QueueInv`. None of the properties of the
  run is inductive: whether `OnTracingDisabled` finds a consumer that has not
  stopped, or whether a callback can still run when a call returns, depends on
  every task that is waiting and on the order of some of them. The queue is
  described as a set (`Queued`, and `Posted` for what the call has still to
  post), with the few orders that matter (`Before`) and `Once` (no task of a
  session is there twice). Of each session the invariant says whether it is
  `New`, `Current` or `Past`, and of the current one in which stage it is:
  `Unstarted` (StartBlocking is due), `Pending` (it waits for the connection),
  `Enabling` (for the data source, or for the news that the service refused),
  `Begun`, and then `Runs`, `Stopping` or `Over`; each stage says what the
  consumer and the service hold, and which tasks there can be. `Ran` says once
  what a task that runs and posts others does to the queue (`DoneQueue`), and
  `SessionKept` that the other sessions keep their part.
* `AssertionsHold` and `NoLateCallbacks`: `Asserted` and `NoLateCallback` follow
  from the stage of the session.
* `ToldOnReturns`: `ToldInv` on top of `QueueInv`. What the current callback was
  told last is what the session has got to (`Counts`: the callback for the start
  is gone, the one for the end has not run), all callbacks for a start in the
  queue run before those for an end (`StartedFirst`), and only the current
  session has one for an end. A session that was refused is told of both at
  once, which is why `ToldOnReturn` leaves it out: its end may be told
  after startTracing has returned.
* `SavedOnReturns`: `SavedInv` on top of `QueueInv` and `ToldInv`. A data source
  does not trace once its end is under way, and what the service has frozen of a
  session that was disabled in time lacks at most the last event (`SourceInv`);
  from there the invariant follows the trace that was read (`Holds`) from
  `raw_trace` to `hostTrace` and to the file that the session was started with,
  whose name must not change on the way.

Only model-checked: what is about liveness (`CallsReturn`, `ControlReturns`,
`SavingEnds`, `MergeEnds`, `TracingStops`), which the prover cannot express.
Every invariant that a passing run checks is stated by a theorem.

## 6. What is not modelled, and the plan

Not modelled: weak memory orders and the optimisation of the spin loop (the
default build is unoptimised); several control threads at once, for which
`sTraceConfig` has no lock; overflow of ids in the merge; events under way at the
moment the SDK disables their category, buffers of the service that overflow,
and several tracing threads in `TracingMuxer`; a system tracing service; the
unit tests, which were read as examples of use.

By lines, nearly all of the repository is Perfetto: `perfetto.h`, `perfetto.cc`,
`perfetto-min/` and `proto/` are an amalgamated third-party library and generated
protobuf classes. Of these the parts are modelled on whose behaviour vperfetto's
own correctness rests: tracing sessions, and the writer of protozero messages.
The rest (IPC, the shared memory ABI, trace buffers, accessors) is neither
vperfetto's logic nor, for the most part, logic, and a model of it would belong
to Perfetto. Of vperfetto's own sources nearly every operation that changes state
is modelled. Not: in the non-SDK build `setTraceConfig`, the file names from the
environment and a host file that cannot be opened; in vperfetto-min a
`TrackEvent::Register` that fails (there would have to be 32 data sources already)
and a file that cannot be opened or written.

Left for later, in this order:

1. Composition of `SdkSession` with `TraceMerge`: what the combined file holds,
   down to packets.
2. Several tracing threads and a system service in `TracingMuxer`.
