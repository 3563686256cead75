----------------------------- MODULE TraceContext -----------------------------
(***************************************************************************)
(* The trace writer of the non-SDK build (vperfetto.cpp): one TraceContext *)
(* per thread, the TraceStorage all of them share, and the control thread  *)
(* that calls enableTracing, disableTracing and setGuestTime.              *)
(*                                                                         *)
(* A step of a thread is one access to state another thread can touch (the *)
(* shared trace configuration, a lock, the storage), together with the     *)
(* thread-local work up to the next one.  Packets are records of the       *)
(* fields a reader of the trace resolves; the bytes are left out, and      *)
(* BufCapacity, a number of packets, stands for the room of a buffer.      *)
(* The memory is sequentially consistent and the wait loop on              *)
(* sequenceIdWritten rereads it, as in the unoptimised build that is the   *)
(* default of CMakeLists.txt.                                              *)
(***************************************************************************)
EXTENDS Integers, Sequences, FiniteSets

CONSTANTS
    Threads,      \* threads that trace
    Names,        \* event and counter names: distinct const char* pointers
    None,         \* not a name
    BufCapacity,  \* packets a buffer has room for
    StackMax,     \* TRACE_STACK_DEPTH_MAX
    Ops,          \* the exported calls the threads make
    GuestDiffs,   \* values getSignedDifference gives setGuestTime
    Quiesced,     \* the client starts and stops tracing only while no
                  \* tracing call and no thread exit is in progress
    MaxCalls,     \* bound: tracing calls of each thread
    MaxSessions   \* bound: sessions

ASSUME ConstantsAssumption ==
    /\ None \notin Names
    /\ BufCapacity \in Nat \ {0}
    /\ StackMax \in Nat \ {0}
    /\ Ops \subseteq {"begin", "end", "counter"}
    /\ GuestDiffs \subseteq Int
    /\ 0 \in GuestDiffs
    /\ Quiesced \in BOOLEAN
    /\ MaxCalls \in [Threads -> Nat]
    /\ MaxSessions \in Nat

VARIABLES
    config,        \* sTraceConfig
    ctx,           \* the TraceContext of each thread and the call it is in
    mContextsLock, \* TRUE while the saver holds the mutex of sTraceStorage
    mContexts,
    mSavedTraces,
    hostFile,      \* the buffers written to hostFilename
    ctl            \* the control thread

storage == <<mContextsLock, mContexts, mSavedTraces, hostFile>>
vars == <<config, ctx, storage, ctl>>

-----------------------------------------------------------------------------
Pos == Nat \ {0}
Depths == -1 .. StackMax   \* -1 is 2^32 - 1

Kinds == {"seq", "category", "name", "track", "counterTrack",
          "begin", "end", "counter"}
EventKinds == {"begin", "end", "counter"}

\* A track uuid is counterId << 32 | threadId; a thread's own track has
\* counter id 0.
Uuid == Nat \X Nat
NoUuid == <<0, 0>>

\* n numbers the packets of a thread and sess is the session its call was
\* made in (both history); diff is what getTimestamp adds to the clock.
Packet == [kind : Kinds, by : Threads, n : Nat, sess : Nat, uuid : Uuid,
           cat : Nat, iid : Nat, name : Names \union {None}, diff : Int]

SavedTraceInfo == [first : BOOLEAN, pkts : Seq(Packet)]

Config == [tracingDisabled : BOOLEAN, packetsWritten : Nat,
           sequenceIdWritten : BOOLEAN, currentInterningId : Pos,
           currentThreadId : Pos, guestTimeDiff : GuestDiffs]

Pcs == {"idle", "dead", "construct", "check", "dec", "lock", "first",
        "await", "category", "categoryAdd", "threadInfo", "name", "nameAdd",
        "counter", "event", "unlock", "exit", "oob"}

\* mCurrentCategoryIid and, behind it, mCurrentEventNameIid are one stretch
\* of memory: the category of an event at depth StackMax is the name at 0.
CatSlot(d) == d
NameSlot(d) == StackMax + d
Slots == 0 .. 2 * StackMax - 1

Context == [
    mTracingLock : BOOLEAN,
    mTraceBuffer : Seq(Packet),          \* <<>> is nullptr
    mFirst : BOOLEAN,
    mThreadId : Nat,                     \* 0 while mNeedToSetThreadId
    mStackDepth : Depths,
    mIids : [Slots -> Nat],
    mEventCategoryIid : Nat,             \* of the one category, 0 if absent
    mEventNameIids : [Names -> Nat],     \* 0 for a name that is absent
    mCounterUuids : [Names -> Uuid],     \* NoUuid for one that is absent
    mCurrentCounterId : Pos,
    pc : Pcs,
    op : {"begin", "end", "counter"},
    arg : Names \union {None},
    seenDepth : Depths,                  \* mStackDepth as endTrace tested it
    out : Seq(Packet),                   \* the packet that awaits a buffer
    calls : Nat, sess : Nat, emitted : Nat]

Control == [
    call : {"none", "enable", "disable"},
    step : {"none", "lock", "save", "firstPass", "restPass", "packets", "seq",
            "intern", "tid", "last"},
    todo : SUBSET Threads,               \* contexts still to be saved
    idx : Nat,                           \* loop index over mSavedTraces
    session : Nat]

TypeOK ==
    /\ config \in Config
    /\ ctx \in [Threads -> Context]
    /\ mContextsLock \in BOOLEAN
    /\ mContexts \in SUBSET Threads
    /\ mSavedTraces \in Seq(SavedTraceInfo)
    /\ hostFile \in Seq(SavedTraceInfo)
    /\ ctl \in Control

NewContext ==
    [mTracingLock |-> FALSE, mTraceBuffer |-> <<>>, mFirst |-> FALSE,
     mThreadId |-> 0, mStackDepth |-> 0, mIids |-> [i \in Slots |-> 0],
     mEventCategoryIid |-> 0, mEventNameIids |-> [n \in Names |-> 0],
     mCounterUuids |-> [n \in Names |-> NoUuid], mCurrentCounterId |-> 1,
     pc |-> "idle", op |-> "begin", arg |-> None, seenDepth |-> 0,
     out |-> <<>>, calls |-> 0, sess |-> 0, emitted |-> 0]

Init ==
    /\ config = [tracingDisabled |-> TRUE, packetsWritten |-> 0,
                 sequenceIdWritten |-> FALSE, currentInterningId |-> 1,
                 currentThreadId |-> 1, guestTimeDiff |-> 0]
    /\ ctx = [t \in Threads |-> NewContext]
    /\ mContextsLock = FALSE
    /\ mContexts = {}
    /\ mSavedTraces = <<>>
    /\ hostFile = <<>>
    /\ ctl = [call |-> "none", step |-> "none", todo |-> {}, idx |-> 0,
              session |-> 0]

-----------------------------------------------------------------------------
(***************************************************************************)
(* Packets and buffers                                                     *)
(***************************************************************************)

\* The packet thread t writes now.
PacketOf(t, kind, uuid, cat, iid, name) ==
    [kind |-> kind, by |-> t, n |-> ctx[t].emitted + 1, sess |-> ctx[t].sess,
     uuid |-> uuid, cat |-> cat, iid |-> iid, name |-> name,
     diff |-> IF kind \in EventKinds THEN config.guestTimeDiff ELSE 0]

\* Context c after beginPacket .. endPacket: the packet is in the buffer,
\* which is allocated if there is none; if the buffer is full the packet
\* waits until finishAndRefresh has handed the buffer over.
Written(c, p) ==
    IF Len(c.mTraceBuffer) < BufCapacity
    THEN [c EXCEPT !.emitted = @ + 1, !.mTraceBuffer = Append(@, p)]
    ELSE [c EXCEPT !.emitted = @ + 1, !.out = <<p>>]

\* saveTraceLocked(saveLocked(...)): a null buffer is not stored.
SaveBuffer(c) ==
    mSavedTraces' = IF c.mTraceBuffer = <<>> THEN mSavedTraces
                    ELSE Append(mSavedTraces, [first |-> c.mFirst,
                                               pkts |-> c.mTraceBuffer])

\* Mutants of Reset: the interning tables, the thread id survive the save.
ResetKeepsNames(c) ==
    [c EXCEPT !.mTraceBuffer = <<>>, !.mFirst = FALSE, !.mThreadId = 0,
              !.mCurrentCounterId = 1, !.mStackDepth = 0]
ResetKeepsThreadId(c) ==
    [c EXCEPT !.mTraceBuffer = <<>>, !.mFirst = FALSE, !.mStackDepth = 0,
              !.mEventCategoryIid = 0,
              !.mEventNameIids = [n \in Names |-> 0]]
\* The counter tracks are not described again in the next session.
ResetKeepsCounters(c) ==
    [c EXCEPT !.mTraceBuffer = <<>>, !.mFirst = FALSE, !.mThreadId = 0,
              !.mStackDepth = 0, !.mEventCategoryIid = 0,
              !.mEventNameIids = [n \in Names |-> 0]]
\* The first counter of the next session gets the thread's own track.
ResetCounterZero(c) ==
    [c EXCEPT !.mTraceBuffer = <<>>, !.mFirst = FALSE, !.mThreadId = 0,
              !.mCurrentCounterId = 0, !.mStackDepth = 0,
              !.mEventCategoryIid = 0,
              !.mEventNameIids = [n \in Names |-> 0],
              !.mCounterUuids = [n \in Names |-> NoUuid]]

\* resetLocked(false), after the buffer has been given away.
Reset(c) ==
    [c EXCEPT !.mTraceBuffer = <<>>, !.mFirst = FALSE, !.mThreadId = 0,
              !.mCurrentCounterId = 1, !.mStackDepth = 0,
              !.mEventCategoryIid = 0,
              !.mEventNameIids = [n \in Names |-> 0],
              !.mCounterUuids = [n \in Names |-> NoUuid]]

\* Mutants: the mark stays with the thread instead of going with the buffer;
\* the full buffer is dropped.
RefreshKeepsFirst(t) ==
    /\ ctx[t].out # <<>>
    /\ ~mContextsLock
    /\ SaveBuffer([ctx[t] EXCEPT !.mFirst = FALSE])
    /\ ctx' = [ctx EXCEPT ![t].mTraceBuffer = ctx[t].out, ![t].out = <<>>]
    /\ UNCHANGED <<config, mContextsLock, mContexts, hostFile, ctl>>
RefreshDropsBuffer(t) ==
    /\ ctx[t].out # <<>>
    /\ ctx' = [ctx EXCEPT ![t].mTraceBuffer = ctx[t].out, ![t].out = <<>>]
    /\ UNCHANGED <<config, storage, ctl>>

\* finishAndRefresh: the full buffer goes to the storage (partial reset) and
\* the waiting packet is the first of a fresh one.  The caller holds
\* mTracingLock and saveTrace takes mContextsLock.
FinishAndRefresh(t) ==
    /\ ctx[t].out # <<>>
    /\ ~mContextsLock
    /\ SaveBuffer(ctx[t])
    /\ ctx' = [ctx EXCEPT ![t].mFirst = FALSE,
                          ![t].mTraceBuffer = ctx[t].out,
                          ![t].out = <<>>]
    /\ UNCHANGED <<config, mContextsLock, mContexts, hostFile, ctl>>

-----------------------------------------------------------------------------
(***************************************************************************)
(* A tracing call                                                          *)
(***************************************************************************)

\* Thread t is at from with no packet waiting, and its context becomes c.
Step(t, from, c) ==
    /\ ctx[t].pc = from
    /\ ctx[t].out = <<>>
    /\ ctx' = [ctx EXCEPT ![t] = c]

\* The exported beginTrace, endTrace and traceCounter: the first test of
\* tracingDisabled, then the thread's TraceContext, constructed on first use.
Call(t, o, a) ==
    /\ Quiesced => ctl.call = "none"
    /\ ctx[t].calls < MaxCalls[t]
    /\ ~config.tracingDisabled
    /\ Step(t, "idle",
            [ctx[t] EXCEPT !.pc = IF t \in mContexts THEN "check"
                                  ELSE "construct",
                           !.op = o, !.arg = a, !.calls = @ + 1,
                           !.sess = ctl.session])
    /\ UNCHANGED <<config, storage, ctl>>

\* TraceContext::TraceContext, TraceStorage::add
Construct(t) ==
    /\ ~mContextsLock
    /\ Step(t, "construct", [ctx[t] EXCEPT !.pc = "check"])
    /\ mContexts' = mContexts \union {t}
    /\ UNCHANGED <<config, mContextsLock, mSavedTraces, hostFile, ctl>>

\* The guards at the top of the three methods, read without the lock.
Rejected(c) ==
    \/ config.tracingDisabled
    \/ c.op \in {"begin", "end"} /\ c.mStackDepth = StackMax
    \/ c.op = "end" /\ c.mStackDepth = 0

Check(t) ==
    /\ Step(t, "check",
            IF Rejected(ctx[t]) THEN [ctx[t] EXCEPT !.pc = "idle"]
            ELSE IF ctx[t].op = "end"
                 THEN [ctx[t] EXCEPT !.pc = "dec",
                                     !.seenDepth = ctx[t].mStackDepth]
                 ELSE [ctx[t] EXCEPT !.pc = "lock"])
    /\ UNCHANGED <<config, storage, ctl>>

\* Mutant: the stack is emptied.
DepthCleared(t) ==
    /\ Step(t, "dec", [ctx[t] EXCEPT !.pc = "lock", !.mStackDepth = 0])
    /\ UNCHANGED <<config, storage, ctl>>

\* endTrace decrements mStackDepth before it takes the lock: a save that
\* resets the depth meanwhile is a data race, after which either the value
\* read before the reset is stored, or 0 wraps around and the access to
\* mCurrentCategoryIid is out of bounds.
DecrementDepth(t) ==
    /\ \E d \in {ctx[t].seenDepth, ctx[t].mStackDepth} :
          Step(t, "dec", [ctx[t] EXCEPT !.pc = IF d = 0 THEN "oob" ELSE "lock",
                                        !.mStackDepth = d - 1])
    /\ UNCHANGED <<config, storage, ctl>>

\* Mutant: endTrace writes without the lock.
EndUnlocked(t) ==
    /\ ctx[t].op = "end"
    /\ Step(t, "lock", [ctx[t] EXCEPT !.pc = "event"])
    /\ UNCHANGED <<config, storage, ctl>>

\* ScopedTracingLock in endTrace.
LockEnd(t) ==
    /\ ctx[t].op = "end"
    /\ ~ctx[t].mTracingLock
    /\ Step(t, "lock", [ctx[t] EXCEPT !.pc = "event", !.mTracingLock = TRUE])
    /\ UNCHANGED <<config, storage, ctl>>

\* ScopedTracingLock in beginTrace and traceCounter, and the increment of
\* packetsWritten that starts ensureThreadInfo.
LockAndCount(t) ==
    /\ ctx[t].op # "end"
    /\ ~ctx[t].mTracingLock
    /\ Step(t, "lock",
            [ctx[t] EXCEPT !.pc = IF config.packetsWritten = 0 THEN "first"
                                  ELSE "await",
                           !.mTracingLock = TRUE])
    /\ config' = [config EXCEPT !.packetsWritten = @ + 1]
    /\ UNCHANGED <<storage, ctl>>

\* Mutant: nobody is told that the sequence id is written.
FirstPacketUntold(t) ==
    /\ Step(t, "first",
            Written([ctx[t] EXCEPT !.pc = "category", !.mFirst = TRUE],
                    PacketOf(t, "seq", NoUuid, 0, 0, None)))
    /\ UNCHANGED <<config, storage, ctl>>

\* The thread that counted 1 writes the packet that clears the sequence's
\* incremental state.
FirstPacket(t) ==
    /\ Step(t, "first",
            Written([ctx[t] EXCEPT !.pc = "category", !.mFirst = TRUE],
                    PacketOf(t, "seq", NoUuid, 0, 0, None)))
    /\ config' = [config EXCEPT !.sequenceIdWritten = TRUE]
    /\ UNCHANGED <<storage, ctl>>

\* The others spin on sequenceIdWritten.
AwaitSequenceId(t) ==
    /\ config.sequenceIdWritten
    /\ Step(t, "await", [ctx[t] EXCEPT !.pc = "category"])
    /\ UNCHANGED <<config, storage, ctl>>

\* internCategory: the lookup, and the read of currentInterningId if the
\* category is new to the thread.
InternCategory(t) ==
    LET c == ctx[t]
        known == c.mEventCategoryIid # 0
        iid == IF known THEN c.mEventCategoryIid ELSE config.currentInterningId
    IN  /\ Step(t, "category",
                [c EXCEPT !.pc = IF known THEN "threadInfo" ELSE "categoryAdd",
                          !.mEventCategoryIid = iid,
                          !.mIids[CatSlot(c.mStackDepth)] = iid])
        /\ UNCHANGED <<config, storage, ctl>>

\* internCategory: the atomic increment; then the packet with the category.
EmitCategory(t) ==
    /\ Step(t, "categoryAdd",
            Written([ctx[t] EXCEPT !.pc = "threadInfo"],
                    PacketOf(t, "category", NoUuid, 0,
                             ctx[t].mIids[CatSlot(ctx[t].mStackDepth)], None)))
    /\ config' = [config EXCEPT !.currentInterningId = @ + 1]
    /\ UNCHANGED <<storage, ctl>>

\* The end of ensureThreadInfo: the thread's track id, drawn and described
\* once per session.
SetThreadId(t) ==
    LET c == [ctx[t] EXCEPT !.pc = IF ctx[t].op = "begin" THEN "name"
                                   ELSE "counter"]
        id == config.currentThreadId + 1
    IN  /\ \/ /\ c.mThreadId = 0
              /\ Step(t, "threadInfo",
                      Written([c EXCEPT !.mThreadId = id],
                              PacketOf(t, "track", <<0, id>>, 0, 0, None)))
              /\ config' = [config EXCEPT !.currentThreadId = id]
           \/ /\ c.mThreadId # 0
              /\ Step(t, "threadInfo", c)
              /\ UNCHANGED config
        /\ UNCHANGED <<storage, ctl>>

\* internEvent, like internCategory in two steps.
InternEvent(t) ==
    LET c == ctx[t]
        known == c.mEventNameIids[c.arg] # 0
        iid == IF known THEN c.mEventNameIids[c.arg]
               ELSE config.currentInterningId
    IN  /\ Step(t, "name",
                [c EXCEPT !.pc = IF known THEN "event" ELSE "nameAdd",
                          !.mEventNameIids[c.arg] = iid,
                          !.mIids[NameSlot(c.mStackDepth)] = iid])
        /\ UNCHANGED <<config, storage, ctl>>

EmitEventName(t) ==
    /\ Step(t, "nameAdd",
            Written([ctx[t] EXCEPT !.pc = "event"],
                    PacketOf(t, "name", NoUuid, 0,
                             ctx[t].mIids[NameSlot(ctx[t].mStackDepth)],
                             ctx[t].arg)))
    /\ config' = [config EXCEPT !.currentInterningId = @ + 1]
    /\ UNCHANGED <<storage, ctl>>

\* Mutant: every counter of the thread gets the same uuid.
CounterTrackShared(t) ==
    LET c == [ctx[t] EXCEPT !.pc = "event"]
        uuid == <<c.mCurrentCounterId, c.mThreadId>>
    IN  /\ Step(t, "counter",
                IF c.mCounterUuids[c.arg] # NoUuid THEN c
                ELSE Written([c EXCEPT !.mCounterUuids[c.arg] = uuid],
                             PacketOf(t, "counterTrack", uuid, 0, 0, c.arg)))
        /\ UNCHANGED <<config, storage, ctl>>

\* getOrCreateCounterTrackUuid and the descriptor of a new counter track.
CounterTrack(t) ==
    LET c == [ctx[t] EXCEPT !.pc = "event"]
        uuid == <<c.mCurrentCounterId, c.mThreadId>>
    IN  /\ Step(t, "counter",
                IF c.mCounterUuids[c.arg] # NoUuid THEN c
                ELSE Written([c EXCEPT !.mCounterUuids[c.arg] = uuid,
                                       !.mCurrentCounterId = @ + 1],
                             PacketOf(t, "counterTrack", uuid, 0, 0, c.arg)))
        /\ UNCHANGED <<config, storage, ctl>>

\* "Finally do the actual thing": the track event.
EmitEvent(t) ==
    LET c == ctx[t]
    IN  /\ Step(t, "event",
                Written([c EXCEPT !.pc = "unlock"],
                    IF c.op = "counter"
                    THEN PacketOf(t, "counter", c.mCounterUuids[c.arg], 0, 0,
                                  None)
                    ELSE PacketOf(t, c.op, <<0, c.mThreadId>>,
                                  c.mIids[CatSlot(c.mStackDepth)],
                                  c.mIids[NameSlot(c.mStackDepth)], None)))
        /\ UNCHANGED <<config, storage, ctl>>

\* Mutant: the lock is not released.
UnlockForgotten(t) ==
    /\ Step(t, "unlock",
            [ctx[t] EXCEPT !.pc = "idle",
                           !.mStackDepth = IF ctx[t].op = "begin" THEN @ + 1
                                           ELSE @])
    /\ UNCHANGED <<config, storage, ctl>>

\* beginTrace's increment of mStackDepth, and ~ScopedTracingLock.
Unlock(t) ==
    /\ Step(t, "unlock",
            [ctx[t] EXCEPT !.pc = "idle", !.mTracingLock = FALSE,
                           !.mStackDepth = IF ctx[t].op = "begin" THEN @ + 1
                                           ELSE @])
    /\ UNCHANGED <<config, storage, ctl>>

-----------------------------------------------------------------------------
(***************************************************************************)
(* A thread exits: ~TraceContext                                           *)
(***************************************************************************)

Remove(t) ==
    /\ Quiesced => ctl.call = "none"
    /\ t \in mContexts
    /\ ~mContextsLock
    /\ Step(t, "idle", [ctx[t] EXCEPT !.pc = IF ctx[t].mTraceBuffer = <<>>
                                             THEN "dead" ELSE "exit"])
    /\ mContexts' = mContexts \ {t}
    /\ UNCHANGED <<config, mContextsLock, mSavedTraces, hostFile, ctl>>

SaveAtExit(t) ==
    /\ ~ctx[t].mTracingLock
    /\ ~mContextsLock
    /\ Step(t, "exit", [Reset(ctx[t]) EXCEPT !.pc = "dead"])
    /\ SaveBuffer(ctx[t])
    /\ UNCHANGED <<config, mContextsLock, mContexts, hostFile, ctl>>

-----------------------------------------------------------------------------
(***************************************************************************)
(* The control thread                                                      *)
(***************************************************************************)

\* No tracing call and no thread exit is in progress.
Quiet == \A t \in Threads : ctx[t].pc \in {"idle", "dead"}

\* Mutant: accepted while tracing.
SetGuestTimeAnytime(d) ==
    /\ ctl.call = "none"
    /\ config' = [config EXCEPT !.guestTimeDiff = d]
    /\ UNCHANGED <<ctx, storage, ctl>>

\* setGuestTime, ignored while tracing.
SetGuestTime(d) ==
    /\ ctl.call = "none"
    /\ config.tracingDisabled
    /\ config' = [config EXCEPT !.guestTimeDiff = d]
    /\ UNCHANGED <<ctx, storage, ctl>>

\* enableTracing with a host file name: nothing happens when tracing is on.
EnableTracing ==
    /\ Quiesced => Quiet
    /\ ctl.session < MaxSessions
    /\ ctl.call = "none"
    /\ config.tracingDisabled
    /\ ctl' = [ctl EXCEPT !.call = "enable", !.step = "packets"]
    /\ UNCHANGED <<config, ctx, storage>>

\* disableTracing with a host file name: the storage is saved if tracing
\* was on.
DisableTracing ==
    /\ Quiesced => Quiet
    /\ ctl.call = "none"
    /\ config' = [config EXCEPT !.tracingDisabled = TRUE]
    /\ ctl' = [ctl EXCEPT !.call = "disable",
                          !.step = IF config.tracingDisabled THEN "packets"
                                   ELSE "lock"]
    /\ UNCHANGED <<ctx, storage>>

\* saveTracesToDisk: mContextsLock, held until the file is written.
LockContexts ==
    /\ ctl.step = "lock"
    /\ mContextsLock' = TRUE
    /\ ctl' = [ctl EXCEPT !.step = "save", !.todo = mContexts]
    /\ UNCHANGED <<config, ctx, mContexts, mSavedTraces, hostFile>>

\* saveTraceLocked(context->save()), in the order of an unordered_set.
SaveContext(t) ==
    /\ ctl.step = "save"
    /\ t \in ctl.todo
    /\ ~ctx[t].mTracingLock
    /\ SaveBuffer(ctx[t])
    /\ ctx' = [ctx EXCEPT ![t] = Reset(ctx[t])]
    /\ ctl' = [ctl EXCEPT !.todo = @ \ {t}]
    /\ UNCHANGED <<config, mContextsLock, mContexts, hostFile>>

\* hostOut.open truncates the file.
OpenHostFile ==
    /\ ctl.step = "save"
    /\ ctl.todo = {}
    /\ hostFile' = <<>>
    /\ ctl' = [ctl EXCEPT !.step = "firstPass", !.idx = 1]
    /\ UNCHANGED <<config, ctx, mContextsLock, mContexts, mSavedTraces>>

\* Mutant: the buffers marked first are written last.
WriteSavedTraceSwapped ==
    LET trace == mSavedTraces[ctl.idx]
    IN  /\ ctl.step \in {"firstPass", "restPass"}
        /\ ctl.idx \in 1 .. Len(mSavedTraces)
        /\ hostFile' = IF trace.first <=> ctl.step = "restPass"
                       THEN Append(hostFile, trace) ELSE hostFile
        /\ ctl' = [ctl EXCEPT !.idx = @ + 1]
        /\ UNCHANGED <<config, ctx, mContextsLock, mContexts, mSavedTraces>>

\* One iteration of the two loops over mSavedTraces: the first writes the
\* buffers marked first, the second the others.
WriteSavedTrace ==
    LET trace == mSavedTraces[ctl.idx]
    IN  /\ ctl.step \in {"firstPass", "restPass"}
        /\ ctl.idx \in 1 .. Len(mSavedTraces)
        /\ hostFile' = IF trace.first <=> ctl.step = "firstPass"
                       THEN Append(hostFile, trace) ELSE hostFile
        /\ ctl' = [ctl EXCEPT !.idx = @ + 1]
        /\ UNCHANGED <<config, ctx, mContextsLock, mContexts, mSavedTraces>>

SecondPass ==
    /\ ctl.step = "firstPass"
    /\ ctl.idx > Len(mSavedTraces)
    /\ ctl' = [ctl EXCEPT !.step = "restPass", !.idx = 1]
    /\ UNCHANGED <<config, ctx, storage>>

\* Mutant: mSavedTraces is not cleared.
CloseKeepsTraces ==
    /\ ctl.step = "restPass"
    /\ ctl.idx > Len(mSavedTraces)
    /\ mContextsLock' = FALSE
    /\ ctl' = [ctl EXCEPT !.step = "packets", !.idx = 0]
    /\ UNCHANGED <<config, ctx, mContexts, mSavedTraces, hostFile>>

\* hostOut.close, mSavedTraces.clear and the release of mContextsLock; there
\* is no guest or combined file name, so no combined trace is made.
CloseHostFile ==
    /\ ctl.step = "restPass"
    /\ ctl.idx > Len(mSavedTraces)
    /\ mSavedTraces' = <<>>
    /\ mContextsLock' = FALSE
    /\ ctl' = [ctl EXCEPT !.step = "packets", !.idx = 0]
    /\ UNCHANGED <<config, ctx, mContexts, hostFile>>

\* The assignments that both calls make, one at a time.
ResetCounters ==
    /\ \/ /\ ctl.step = "packets"
          /\ config' = [config EXCEPT !.packetsWritten = 0]
          /\ ctl' = [ctl EXCEPT !.step = "seq"]
       \/ /\ ctl.step = "seq"
          /\ config' = [config EXCEPT !.sequenceIdWritten = FALSE]
          /\ ctl' = [ctl EXCEPT !.step = "intern"]
       \/ /\ ctl.step = "intern"
          /\ config' = [config EXCEPT !.currentInterningId = 1]
          /\ ctl' = [ctl EXCEPT !.step = "tid"]
       \/ /\ ctl.step = "tid"
          /\ config' = [config EXCEPT !.currentThreadId = 1]
          /\ ctl' = [ctl EXCEPT !.step = "last"]
    /\ UNCHANGED <<ctx, storage>>

FinishEnable ==
    /\ ctl.call = "enable"
    /\ ctl.step = "last"
    /\ config' = [config EXCEPT !.tracingDisabled = FALSE]
    /\ ctl' = [ctl EXCEPT !.call = "none", !.step = "none", !.session = @ + 1]
    /\ UNCHANGED <<ctx, storage>>

FinishDisable ==
    /\ ctl.call = "disable"
    /\ ctl.step = "last"
    /\ config' = [config EXCEPT !.guestTimeDiff = 0]
    /\ ctl' = [ctl EXCEPT !.call = "none", !.step = "none"]
    /\ UNCHANGED <<ctx, storage>>

-----------------------------------------------------------------------------
\* A step of a call, or of an exit, that thread t has begun.
InCall(t) ==
    \/ FinishAndRefresh(t)
    \/ Construct(t)
    \/ Check(t)
    \/ DecrementDepth(t)
    \/ LockEnd(t)
    \/ LockAndCount(t)
    \/ FirstPacket(t)
    \/ AwaitSequenceId(t)
    \/ InternCategory(t)
    \/ EmitCategory(t)
    \/ SetThreadId(t)
    \/ InternEvent(t)
    \/ EmitEventName(t)
    \/ CounterTrack(t)
    \/ EmitEvent(t)
    \/ Unlock(t)
    \/ SaveAtExit(t)

StartCall(t) ==
    \/ \E o \in Ops, a \in Names \union {None} :
          (a = None <=> o = "end") /\ Call(t, o, a)
    \/ Remove(t)

\* A step of the call the control thread has begun.
InControl ==
    \/ LockContexts
    \/ \E t \in Threads : SaveContext(t)
    \/ OpenHostFile
    \/ WriteSavedTrace
    \/ SecondPass
    \/ CloseHostFile
    \/ ResetCounters
    \/ FinishEnable
    \/ FinishDisable

StartControl ==
    \/ \E d \in GuestDiffs : SetGuestTime(d)
    \/ EnableTracing
    \/ DisableTracing

\* An access out of bounds ends the process.
Crashed == \E t \in Threads : ctx[t].pc = "oob"

Next ==
    /\ ~Crashed
    /\ \/ \E t \in Threads : InCall(t) \/ StartCall(t)
       \/ InControl
       \/ StartControl

Spec == Init /\ [][Next]_vars

\* A thread inside a call keeps running; calls need not be made.
Fairness ==
    /\ \A t \in Threads : WF_vars(~Crashed /\ InCall(t))
    /\ WF_vars(~Crashed /\ InControl)

FairSpec == Spec /\ Fairness

-----------------------------------------------------------------------------
(***************************************************************************)
(* What the host file must be                                              *)
(***************************************************************************)

\* The packets of a sequence of buffers, the place of each, and the order in
\* which a reader meets them.
Places(file) == {p \in (1 .. Len(file)) \X (1 .. BufCapacity) :
                    p[2] <= Len(file[p[1]].pkts)}
At(file, p) == file[p[1]].pkts[p[2]]
Before(p, q) == p[1] < q[1] \/ (p[1] = q[1] /\ p[2] < q[2])
Packets(file) == {At(file, p) : p \in Places(file)}

\* No file mixes packets of two sessions: what disableTracing saves was
\* written by calls made since the enableTracing before it, although the
\* buffers, mSavedTraces and the threads outlive the session.
SessionIsolation ==
    \A p, q \in Packets(hostFile) : p.sess = q.sess

\* The file starts with the packet that clears the sequence's incremental
\* state and has no other, whichever threads wrote first and however many
\* buffers were saved before the one marked first.
StartsCleared ==
    \A p \in Places(hostFile) :
        At(hostFile, p).kind = "seq" <=> p = <<1, 1>>

\* A track event follows the descriptor of its track and the interned
\* category and name it refers to, all written by its own thread in this
\* file: nothing is remembered from an earlier session.
DefinedBeforeUse ==
    \A q \in Places(hostFile) :
        LET e == At(hostFile, q)
            Defined(kind, field, value) ==
                \E p \in Places(hostFile) :
                    LET d == At(hostFile, p)
                    IN  /\ Before(p, q)
                        /\ d.kind = kind
                        /\ d.by = e.by
                        /\ d[field] = value
        IN  /\ e.kind \in {"begin", "end"} =>
                /\ Defined("track", "uuid", e.uuid)
                /\ Defined("category", "iid", e.cat)
                /\ Defined("name", "iid", e.iid)
            /\ e.kind = "counter" => Defined("counterTrack", "uuid", e.uuid)

\* Two threads never share a track, nor do two counters of a thread.
OwnTracks ==
    \A p, q \in Packets(hostFile) :
        (p.uuid = q.uuid /\ p.uuid # NoUuid) =>
            /\ p.by = q.by
            /\ {p.kind, q.kind} = {"counterTrack"} => p.name = q.name

\* Slices nest: of the events of a thread up to an end, the end closes the
\* latest begin that is still open and repeats its name and category.
NestedSlices ==
    \A q \in Places(hostFile) :
        LET e == At(hostFile, q)
            Mine(kind, p) == {r \in Places(hostFile) :
                                /\ At(hostFile, r).kind = kind
                                /\ At(hostFile, r).by = e.by
                                /\ Before(p, r)
                                /\ Before(r, q)}
        IN  e.kind = "end" =>
                \E p \in Mine("begin", <<0, 0>>) :
                    /\ At(hostFile, p).iid = e.iid
                    /\ At(hostFile, p).cat = e.cat
                    /\ Cardinality(Mine("begin", p)) = Cardinality(Mine("end", p))
                    /\ \A r \in Mine("end", p) :
                          Cardinality({b \in Mine("begin", p) : Before(b, r)})
                            > Cardinality({b \in Mine("end", p) : Before(b, r)})

\* All events of a file were stamped with the same guest time difference:
\* setGuestTime and the reset in disableTracing never hit a running session.
OneTimeBase ==
    \A p, q \in Packets(hostFile) :
        p.kind \in EventKinds /\ q.kind \in EventKinds => p.diff = q.diff

\* The packets of thread t in the file, in the storage, in its buffer and
\* waiting, in this order.
Trail(t) ==
    LET All == hostFile \o (IF ctl.step \in {"firstPass", "restPass"} THEN <<>>
                            ELSE mSavedTraces)
                        \o <<[first |-> FALSE, pkts |-> ctx[t].mTraceBuffer],
                             [first |-> FALSE, pkts |-> ctx[t].out]>>
    IN  [file |-> All, places |-> {p \in Places(All) : At(All, p).by = t}]

\* Outside the two loops that write the file, no packet of a thread is lost
\* or duplicated, whatever calls, exits, saves and refreshes interleave:
\* the packets still present are consecutive up to the last one emitted, and
\* they are all there until a second session overwrites the file.
Lossless ==
    ctl.step \notin {"firstPass", "restPass"} =>
        \A t \in Threads :
            LET tr == Trail(t)
                ns == {At(tr.file, p).n : p \in tr.places}
                k  == Cardinality(tr.places)
            IN  /\ ns = (ctx[t].emitted - k + 1) .. ctx[t].emitted
                /\ ctl.session <= 1 => k = ctx[t].emitted

\* And a reader meets the packets of one thread in the order it wrote them,
\* although the buffer marked first is moved to the front.
ThreadOrder ==
    \A p, q \in Places(hostFile) :
        /\ At(hostFile, p).by = At(hostFile, q).by
        /\ Before(p, q)
        => At(hostFile, p).n < At(hostFile, q).n

\* The pcs between ScopedTracingLock's constructor and its destructor.
Guarded == {"first", "await", "category", "categoryAdd", "threadInfo", "name",
            "nameAdd", "counter", "event", "unlock"}

\* A buffer is only ever taken from a thread that is not inside one of the
\* sections mTracingLock guards: no save tears a packet or a call apart.
TakenUnguarded ==
    \A t \in Threads :
        /\ ctx[t].mTraceBuffer # <<>>
        /\ ctx'[t].mTraceBuffer = <<>>
        => ctx[t].pc \notin Guarded
NoTornSave == [][TakenUnguarded]_vars

\* Two interned names of a trace with the same iid are the same name.
IidsUnique ==
    \A p, q \in Packets(hostFile) :
        p.kind = "name" /\ q.kind = "name" /\ p.iid = q.iid => p.name = q.name

\* Every tracing call, and every thread exit, returns.
CallsReturn == \A t \in Threads : ctx[t].pc \notin {"idle", "dead"} ~> ctx[t].pc \in {"idle", "dead"}

\* disableTracing and enableTracing return, the trace saved.
ControlReturns == ctl.call # "none" ~> ctl.call = "none"

-----------------------------------------------------------------------------
(***************************************************************************)
(* The inductive invariants behind the safety properties                   *)
(***************************************************************************)

\* What a call knows of its own context, however the control thread
\* interferes: the lock is held exactly in the guarded section, a packet
\* waits only there, the arguments fit the operation, and the depth indexes
\* both iid arrays (the category of a counter may spill into the names).
ContextOK(c) ==
    /\ c.mTracingLock <=> c.pc \in Guarded
    /\ c.out # <<>> => c.pc \in Guarded
    /\ c.mStackDepth = -1 => c.pc = "oob"
    /\ c.pc \in Guarded \ {"event", "unlock"} => c.op # "end"
    /\ c.pc \in {"name", "nameAdd"} => c.op = "begin"
    /\ c.pc = "counter" => c.op = "counter"
    /\ c.pc \notin {"idle", "dead", "exit"} /\ c.op # "end" => c.arg \in Names
    /\ c.pc \in {"lock"} \union Guarded /\ c.op # "counter" =>
          c.mStackDepth < StackMax
    /\ c.pc = "dec" => /\ c.op = "end"
                       /\ c.seenDepth \in 1 .. StackMax - 1
                       /\ c.mStackDepth < StackMax

\* Every thread's context is consistent with the point its call has reached.
ContextInv == \A t \in Threads : ContextOK(ctx[t])

Saving == {"lock", "save", "firstPass", "restPass"}

OfSession(pkts, k) == \A i \in 1 .. Len(pkts) : pkts[i].sess = k
TracesOfSession(traces, k) ==
    \A i \in 1 .. Len(traces) : OfSession(traces[i].pkts, k)

\* Where the control thread is.
ControlInv ==
    /\ ctl.call = "none" <=> ctl.step = "none"
    /\ ctl.call # "none" => config.tracingDisabled
    /\ ctl.step \in Saving => ctl.call = "disable"

\* A thread with a buffer is registered, so that the saver finds it.
RegisteredInv ==
    \A t \in Threads :
        /\ ctx[t].pc \in {"check", "dec", "lock"} \union Guarded =>
              t \in mContexts
        /\ ctx[t].mTraceBuffer # <<>> =>
              t \in mContexts \/ ctx[t].pc = "exit"

\* Calls run only while tracing is on, and belong to the current session.
CallsInSession ==
    \A t \in Threads :
        /\ ctx[t].pc \notin {"idle", "dead"} =>
              ctl.call = "none" /\ ~config.tracingDisabled
        /\ ctx[t].pc \notin {"idle", "dead", "exit"} =>
              ctx[t].sess = ctl.session
        /\ ctx[t].pc = "dec" => ctx[t].seenDepth = ctx[t].mStackDepth
        /\ ctx[t].pc # "oob"

\* Everything buffered is of the current session.
BufferedInSession ==
    /\ \A t \in Threads : /\ OfSession(ctx[t].mTraceBuffer, ctl.session)
                          /\ OfSession(ctx[t].out, ctl.session)
    /\ TracesOfSession(mSavedTraces, ctl.session)

\* The file is of one session, while it is written of the current one.
FileInSession ==
    /\ \E k \in 0 .. ctl.session : TracesOfSession(hostFile, k)
    /\ ctl.step \in {"firstPass", "restPass"} =>
          TracesOfSession(hostFile, ctl.session)

\* Once disableTracing has saved, nothing is left over.
NothingLeft ==
    /\ ctl.step = "save" =>
          \A t \in Threads \ ctl.todo : ctx[t].mTraceBuffer = <<>>
    /\ ctl.step \in {"firstPass", "restPass"} =>
          \A t \in Threads : ctx[t].mTraceBuffer = <<>>
    /\ config.tracingDisabled /\ ctl.step \notin Saving =>
          /\ mSavedTraces = <<>>
          /\ \A t \in Threads : ctx[t].mTraceBuffer = <<>>

\* Under Quiesced a session's packets are all saved before the next session
\* starts, whichever threads exit and however many buffers were handed over.
SessionInv ==
    CallsInSession /\ BufferedInSession /\ FileInSession /\ NothingLeft
=============================================================================
