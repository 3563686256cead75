-------------------------- MODULE TraceContextProofs --------------------------
(***************************************************************************)
(* Theorems about TraceContext, for any threads, names, buffer size, stack *)
(* depth and number of calls and sessions.                                 *)
(***************************************************************************)
EXTENDS TraceContext, TLAPS, FiniteSetTheorems

USE DEF CatSlot, NameSlot

-----------------------------------------------------------------------------
(***************************************************************************)
(* Packets and contexts                                                    *)
(***************************************************************************)

\* The values the steps store have the types Context asks for.
LEMMA Literals ==
    /\ <<>> \in Seq(Packet)
    /\ 0 \in Depths
    /\ 0 \in Nat
    /\ 1 \in Pos
    /\ NoUuid \in Uuid
    /\ [n \in Names |-> 0] \in [Names -> Nat]
    /\ [n \in Names |-> NoUuid] \in [Names -> Uuid]
    /\ [i \in Slots |-> 0] \in [Slots -> Nat]
  BY ConstantsAssumption DEF Depths, Pos, NoUuid, Uuid

\* A slot of the iid memory is in bounds for every depth an event can have.
LEMMA SlotsInBounds ==
    ASSUME NEW d \in Depths, d # -1
    PROVE  /\ CatSlot(d) \in Slots
           /\ d < StackMax => NameSlot(d) \in Slots
  BY ConstantsAssumption DEF Depths, Slots

\* What a thread emits is a packet.
LEMMA PacketOfType ==
    ASSUME TypeOK, NEW t \in Threads, NEW kind \in Kinds, NEW uuid \in Uuid,
           NEW cat \in Nat, NEW iid \in Nat, NEW name \in Names \union {None}
    PROVE  PacketOf(t, kind, uuid, cat, iid, name) \in Packet
  <1>1. ctx[t].emitted + 1 \in Nat /\ ctx[t].sess \in Nat
    BY DEF TypeOK, Context
  <1>2. config.guestTimeDiff \in Int
    BY ConstantsAssumption DEF TypeOK, Config
  <1>3. (IF kind \in EventKinds THEN config.guestTimeDiff ELSE 0) \in Int
    BY <1>2
  <1> QED BY <1>1, <1>3 DEF PacketOf, Packet

\* Writing a packet inside the guarded section keeps a context well formed
\* and its buffer non-null.
LEMMA WrittenOK ==
    ASSUME NEW c \in Context, ContextOK(c), c.pc \in Guarded,
           NEW p \in Packet
    PROVE  /\ Written(c, p) \in Context
           /\ ContextOK(Written(c, p))
           /\ c.mTraceBuffer # <<>> => Written(c, p).mTraceBuffer # <<>>
  <1>1. /\ Append(c.mTraceBuffer, p) \in Seq(Packet)
        /\ Append(c.mTraceBuffer, p) # <<>>
        /\ <<p>> \in Seq(Packet)
        /\ c.emitted + 1 \in Nat
    BY DEF Context
  <1> DEFINE a == [c EXCEPT !.emitted = @ + 1, !.mTraceBuffer = Append(@, p)]
             b == [c EXCEPT !.emitted = @ + 1, !.out = <<p>>]
  <1>2. a \in Context /\ ContextOK(a) /\ a.mTraceBuffer # <<>>
    BY <1>1 DEF Context, ContextOK
  <1>3. b \in Context /\ ContextOK(b) /\ b.mTraceBuffer = c.mTraceBuffer
    BY <1>1 DEF Context, ContextOK
  <1> HIDE DEF a, b
  <1>4. Written(c, p) = a \/ Written(c, p) = b
    BY DEF Written, a, b
  <1> QED BY <1>2, <1>3, <1>4

\* A context whose lock is free stays well formed when it is saved.
LEMMA ResetOK ==
    ASSUME NEW c \in Context, ContextOK(c), c.pc \notin Guarded
    PROVE  /\ Reset(c) \in Context
           /\ ContextOK(Reset(c))
  <1> DEFINE names == [n \in Names |-> 0]
             uuids == [n \in Names |-> NoUuid]
             empty == <<>>
             zero == 0
             one == 1
             no == FALSE
             r == [c EXCEPT !.mTraceBuffer = empty, !.mFirst = no,
                            !.mThreadId = zero, !.mCurrentCounterId = one,
                            !.mStackDepth = zero, !.mEventCategoryIid = zero,
                            !.mEventNameIids = names,
                            !.mCounterUuids = uuids]
  <1>1. /\ names \in [Names -> Nat]
        /\ uuids \in [Names -> Uuid]
        /\ empty \in Seq(Packet)
        /\ zero \in Depths /\ zero \in Nat /\ one \in Pos /\ no \in BOOLEAN
    BY Literals
  <1>2. /\ zero # -1 /\ zero < StackMax
    BY ConstantsAssumption
  <1>3. Reset(c) = r
    BY DEF Reset
  <1> HIDE DEF names, uuids, empty, zero, one, no
  <1>4. r \in Context
    BY <1>1 DEF Context
  <1>5. ContextOK(r)
    BY <1>2, <1>4 DEF ContextOK, Context
  <1> QED BY <1>3, <1>4, <1>5

-----------------------------------------------------------------------------
(***************************************************************************)
(* Types, and the consistency of each context with its call                *)
(***************************************************************************)

\* The initial state is typed and consistent.
LEMMA InitOK == Init => TypeOK /\ ContextInv
  <1> SUFFICES ASSUME Init PROVE TypeOK /\ ContextInv
    OBVIOUS
  <1> DEFINE names == [n \in Names |-> 0]
             uuids == [n \in Names |-> NoUuid]
             slots == [i \in Slots |-> 0]
  <1>1. /\ names \in [Names -> Nat]
        /\ uuids \in [Names -> Uuid]
        /\ slots \in [Slots -> Nat]
        /\ 0 \in Depths /\ 1 \in Pos
        /\ <<>> \in Seq(Packet)
    BY Literals
  <1>2. NewContext = [mTracingLock |-> FALSE, mTraceBuffer |-> <<>>,
            mFirst |-> FALSE, mThreadId |-> 0, mStackDepth |-> 0,
            mIids |-> slots, mEventCategoryIid |-> 0,
            mEventNameIids |-> names, mCounterUuids |-> uuids,
            mCurrentCounterId |-> 1, pc |-> "idle", op |-> "begin",
            arg |-> None, seenDepth |-> 0, out |-> <<>>, calls |-> 0,
            sess |-> 0, emitted |-> 0]
    BY DEF NewContext
  <1> HIDE DEF names, uuids, slots
  <1>3. NewContext \in Context
    BY <1>1, <1>2 DEF Context, Pcs
  <1>4. ContextOK(NewContext)
    BY <1>2 DEF ContextOK, Guarded
  <1>5. ContextInv
    BY <1>4 DEF ContextInv, Init
  <1>6. TypeOK
    <2>1. config \in Config
      BY <1>1, ConstantsAssumption DEF Init, Config
    <2>2. ctl \in Control
      BY DEF Init, Control
    <2>3. ctx \in [Threads -> Context]
      BY <1>3 DEF Init
    <2>4. mSavedTraces \in Seq(SavedTraceInfo) /\ hostFile \in Seq(SavedTraceInfo)
      BY DEF Init
    <2> QED BY <2>1, <2>2, <2>3, <2>4 DEF Init, TypeOK
  <1> QED BY <1>5, <1>6

\* A step that replaces one context by a well-formed one.
LEMMA StoreOK ==
    ASSUME TypeOK, ContextInv, NEW t \in Threads,
           NEW d \in Context, ContextOK(d), ctx' = [ctx EXCEPT ![t] = d],
           config' \in Config, mContextsLock' \in BOOLEAN,
           mContexts' \in SUBSET Threads, mSavedTraces' \in Seq(SavedTraceInfo),
           hostFile' \in Seq(SavedTraceInfo), ctl' \in Control
    PROVE  TypeOK' /\ ContextInv'
  BY DEF TypeOK, ContextInv

\* saveTraceLocked adds a saved trace.
LEMMA SaveBufferType ==
    ASSUME TypeOK, NEW c \in Context, SaveBuffer(c)
    PROVE  mSavedTraces' \in Seq(SavedTraceInfo)
  <1>1. [first |-> c.mFirst, pkts |-> c.mTraceBuffer] \in SavedTraceInfo
    BY DEF Context, SavedTraceInfo
  <1> QED BY <1>1 DEF SaveBuffer, TypeOK

\* A step of a thread inside a call, action by action.
LEMMA InCallOK ==
    ASSUME TypeOK, ContextInv, NEW t \in Threads, ~Crashed, InCall(t)
    PROVE  TypeOK' /\ ContextInv'
  <1> DEFINE c == ctx[t]
  <1>c. c \in Context /\ ContextOK(c) /\ c.pc # "oob" /\ config \in Config
    BY DEF TypeOK, ContextInv, Crashed
  <1>s. /\ mContextsLock \in BOOLEAN
        /\ mContexts \in SUBSET Threads
        /\ mSavedTraces \in Seq(SavedTraceInfo)
        /\ hostFile \in Seq(SavedTraceInfo)
        /\ ctl \in Control
    BY DEF TypeOK
  <1>1. CASE FinishAndRefresh(t)
    <2> DEFINE d == [c EXCEPT !.mFirst = FALSE, !.mTraceBuffer = c.out,
                              !.out = <<>>]
    <2>1. d \in Context
      BY <1>c, Literals DEF Context
    <2>2. ContextOK(d)
      BY <1>c, <2>1 DEF ContextOK, Context
    <2>3. ctx' = [ctx EXCEPT ![t] = d]
      BY <1>1 DEF FinishAndRefresh, TypeOK
    <2> QED BY <1>1, <1>c, <1>s, <2>1, <2>2, <2>3, StoreOK, SaveBufferType
            DEF FinishAndRefresh
  <1>2. CASE Construct(t)
    <2> DEFINE d == [c EXCEPT !.pc = "check"]
    <2>1. d \in Context
      BY <1>c DEF Context, Pcs
    <2>2. ContextOK(d)
      BY <1>2, <1>c, <2>1 DEF ContextOK, Context, Guarded, Construct, Step
    <2> QED BY <1>2, <1>c, <1>s, <2>1, <2>2, StoreOK DEF Construct, Step
  <1>3. CASE Check(t)
    <2>1. CASE Rejected(c)
      <3> DEFINE d == [c EXCEPT !.pc = "idle"]
      <3>1. d \in Context
        BY <1>c DEF Context, Pcs
      <3>2. ContextOK(d)
        BY <1>3, <1>c, <3>1 DEF ContextOK, Context, Guarded, Check, Step
      <3>3. ctx' = [ctx EXCEPT ![t] = d]
        BY <1>3, <2>1 DEF Check, Step
      <3> QED BY <1>3, <1>c, <1>s, <3>1, <3>2, <3>3, StoreOK
              DEF Check, storage
    <2>2. CASE ~Rejected(c) /\ c.op = "end"
      <3> DEFINE d == [c EXCEPT !.pc = "dec", !.seenDepth = c.mStackDepth]
      <3>1. d \in Context
        BY <1>c DEF Context, Pcs
      <3>2. c.mStackDepth \in 1 .. StackMax - 1
        <4>1. c.mStackDepth \in Depths
          BY <1>c DEF Context
        <4>2. c.mStackDepth # -1
          BY <1>c DEF ContextOK
        <4>3. c.mStackDepth # 0 /\ c.mStackDepth # StackMax
          BY <2>2 DEF Rejected
        <4> HIDE DEF c
        <4> QED BY <4>1, <4>2, <4>3, ConstantsAssumption DEF Depths
      <3>3. c.mStackDepth < StackMax /\ c.mStackDepth # -1
        <4> HIDE DEF c
        <4> QED BY <3>2, ConstantsAssumption
      <3>5. ContextOK(d)
        <4>1. c.pc = "check"
          BY <1>3 DEF Check, Step
        <4> HIDE DEF c
        <4> QED BY <1>c, <2>2, <3>2, <3>3, <4>1 DEF ContextOK, Context, Guarded
      <3>4. ctx' = [ctx EXCEPT ![t] = d]
        BY <1>3, <2>2 DEF Check, Step
      <3> QED BY <1>3, <1>c, <1>s, <3>1, <3>5, <3>4, StoreOK
              DEF Check, storage
    <2>3. CASE ~Rejected(c) /\ c.op # "end"
      <3> DEFINE d == [c EXCEPT !.pc = "lock"]
      <3>1. d \in Context
        BY <1>c DEF Context, Pcs
      <3>2. c.op = "begin" => c.mStackDepth < StackMax
        BY <1>c, <2>3, ConstantsAssumption
        DEF Rejected, Context, Depths
      <3>3. ContextOK(d)
        BY <1>3, <1>c, <2>3, <3>1, <3>2
        DEF ContextOK, Context, Guarded, Check, Step
      <3>4. ctx' = [ctx EXCEPT ![t] = d]
        BY <1>3, <2>3 DEF Check, Step
      <3> QED BY <1>3, <1>c, <1>s, <3>1, <3>3, <3>4, StoreOK
              DEF Check, storage
    <2> QED BY <2>1, <2>2, <2>3
  <1>4. CASE DecrementDepth(t)
    <2>0. c.pc = "dec"
      BY <1>4 DEF DecrementDepth, Step
    <2>1. PICK e \in {c.seenDepth, c.mStackDepth} :
             ctx' = [ctx EXCEPT ![t] =
                       [c EXCEPT !.pc = IF e = 0 THEN "oob" ELSE "lock",
                                 !.mStackDepth = e - 1]]
      BY <1>4 DEF DecrementDepth, Step
    <2> DEFINE npc == IF e = 0 THEN "oob" ELSE "lock"
               nd == e - 1
               d == [c EXCEPT !.pc = npc, !.mStackDepth = nd]
    <2> HIDE DEF c
    <2>2. e \in 0 .. StackMax - 1
      BY <1>c, <2>0, ConstantsAssumption DEF ContextOK, Context, Depths
    <2>3. nd \in Depths /\ nd < StackMax /\ (nd = -1 => npc = "oob") /\ npc \in Pcs
      BY <2>2, ConstantsAssumption DEF Depths, Pcs
    <2>4. npc \in {"oob", "lock"}
      OBVIOUS
    <2> HIDE DEF nd, npc
    <2>5. d \in Context
      BY <1>c, <2>3 DEF Context
    <2>6. ContextOK(d)
      BY <1>c, <2>0, <2>3, <2>4, <2>5 DEF ContextOK, Context, Guarded
    <2>7. ctx' = [ctx EXCEPT ![t] = d]
      BY <2>1 DEF nd, npc
    <2> QED BY <1>4, <1>c, <1>s, <2>5, <2>6, <2>7, StoreOK
            DEF DecrementDepth, storage
  <1>5. CASE LockEnd(t)
    <2> DEFINE d == [c EXCEPT !.pc = "event", !.mTracingLock = TRUE]
    <2>1. d \in Context
      BY <1>c DEF Context, Pcs
    <2>2. c.pc = "lock" /\ c.op = "end"
      BY <1>5 DEF LockEnd, Step
    <2>3. ContextOK(d)
      <3> HIDE DEF c
      <3> QED BY <1>c, <2>2 DEF ContextOK, Context, Guarded
    <2> QED BY <1>5, <1>c, <1>s, <2>1, <2>3, StoreOK DEF LockEnd, Step, storage
  <1>6. CASE LockAndCount(t)
    <2> DEFINE npc == IF config.packetsWritten = 0 THEN "first" ELSE "await"
               d == [c EXCEPT !.pc = npc, !.mTracingLock = TRUE]
    <2>1. npc \in {"first", "await"}
      OBVIOUS
    <2>2. c.pc = "lock" /\ c.op # "end" /\ ctx' = [ctx EXCEPT ![t] = d]
      BY <1>6 DEF LockAndCount, Step
    <2>3. d \in Context /\ ContextOK(d)
      <3> HIDE DEF c, npc
      <3> QED BY <1>c, <2>1, <2>2 DEF ContextOK, Context, Guarded, Pcs
    <2>4. config' \in Config
      BY <1>6, <1>c DEF LockAndCount, Config
    <2> QED BY <1>6, <1>s, <2>2, <2>3, <2>4, StoreOK
            DEF LockAndCount, storage
  <1>7. CASE FirstPacket(t)
    <2> DEFINE b == [c EXCEPT !.pc = "category", !.mFirst = TRUE]
               p == PacketOf(t, "seq", NoUuid, 0, 0, None)
    <2>1. c.pc = "first" /\ ctx' = [ctx EXCEPT ![t] = Written(b, p)]
      BY <1>7 DEF FirstPacket, Step
    <2>2. p \in Packet
      BY PacketOfType, Literals DEF Kinds
    <2>3. b \in Context /\ ContextOK(b) /\ b.pc \in Guarded
      <3> HIDE DEF c
      <3> QED BY <1>c, <2>1 DEF ContextOK, Context, Guarded, Pcs
    <2>4. config' \in Config
      BY <1>7, <1>c DEF FirstPacket, Config
    <2> HIDE DEF b, p
    <2> QED BY <1>7, <1>s, <2>1, <2>2, <2>3, <2>4, StoreOK, WrittenOK
            DEF FirstPacket, storage
  <1>8. CASE AwaitSequenceId(t)
    <2> DEFINE d == [c EXCEPT !.pc = "category"]
    <2>1. c.pc = "await"
      BY <1>8 DEF AwaitSequenceId, Step
    <2>2. d \in Context /\ ContextOK(d)
      <3> HIDE DEF c
      <3> QED BY <1>c, <2>1 DEF ContextOK, Context, Guarded, Pcs
    <2> QED BY <1>8, <1>c, <1>s, <2>2, StoreOK
            DEF AwaitSequenceId, Step, storage
  <1>d. /\ c.mStackDepth \in Depths /\ c.mStackDepth # -1
        /\ CatSlot(c.mStackDepth) \in Slots
        /\ c.mStackDepth < StackMax => NameSlot(c.mStackDepth) \in Slots
        /\ c.mIids \in [Slots -> Nat]
        /\ c.mIids[CatSlot(c.mStackDepth)] \in Nat
        /\ c.mStackDepth < StackMax => c.mIids[NameSlot(c.mStackDepth)] \in Nat
    <2>1. c.mStackDepth \in Depths /\ c.mStackDepth # -1 /\ c.mIids \in [Slots -> Nat]
      <3> HIDE DEF c
      <3> QED BY <1>c DEF ContextOK, Context
    <2>2. /\ CatSlot(c.mStackDepth) \in Slots
          /\ c.mStackDepth < StackMax => NameSlot(c.mStackDepth) \in Slots
      BY <2>1, SlotsInBounds
    <2> QED BY <2>1, <2>2
  <1>9. CASE InternCategory(t)
    <2> DEFINE known == c.mEventCategoryIid # 0
               iid == IF known THEN c.mEventCategoryIid
                      ELSE config.currentInterningId
               npc == IF known THEN "threadInfo" ELSE "categoryAdd"
               iids == [c.mIids EXCEPT ![CatSlot(c.mStackDepth)] = iid]
               d == [c EXCEPT !.pc = npc, !.mEventCategoryIid = iid,
                              !.mIids = iids]
    <2>1. c.pc = "category" /\ ctx' = [ctx EXCEPT ![t] = d]
      BY <1>9 DEF InternCategory, Step
    <2>2. iid \in Nat
      BY <1>c DEF Context, Config, Pos
    <2>3. iids \in [Slots -> Nat]
      <3> HIDE DEF iid
      <3> QED BY <1>d, <2>2
    <2>4. npc \in {"threadInfo", "categoryAdd"}
      OBVIOUS
    <2> HIDE DEF c, iid, iids, npc
    <2>5. d \in Context
      BY <1>c, <2>2, <2>3, <2>4 DEF Context, Pcs
    <2>6. ContextOK(d)
      BY <1>c, <2>1, <2>4 DEF ContextOK, Context, Guarded
    <2> QED BY <1>9, <1>c, <1>s, <2>1, <2>5, <2>6, StoreOK
            DEF InternCategory, storage
  <1>10. CASE EmitCategory(t)
    <2> DEFINE b == [c EXCEPT !.pc = "threadInfo"]
               p == PacketOf(t, "category", NoUuid, 0,
                             c.mIids[CatSlot(c.mStackDepth)], None)
    <2>1. c.pc = "categoryAdd" /\ ctx' = [ctx EXCEPT ![t] = Written(b, p)]
      BY <1>10 DEF EmitCategory, Step
    <2>2. p \in Packet
      BY <1>d, PacketOfType, Literals DEF Kinds
    <2>3. b \in Context /\ ContextOK(b) /\ b.pc \in Guarded
      <3> HIDE DEF c
      <3> QED BY <1>c, <2>1 DEF ContextOK, Context, Guarded, Pcs
    <2>4. config' \in Config
      BY <1>10, <1>c DEF EmitCategory, Config, Pos
    <2> HIDE DEF b, p
    <2> QED BY <1>10, <1>s, <2>1, <2>2, <2>3, <2>4, StoreOK, WrittenOK
            DEF EmitCategory, storage
  <1>11. CASE SetThreadId(t)
    <2> DEFINE npc == IF c.op = "begin" THEN "name" ELSE "counter"
               b == [c EXCEPT !.pc = npc]
               id == config.currentThreadId + 1
               e == [b EXCEPT !.mThreadId = id]
               p == PacketOf(t, "track", <<0, id>>, 0, 0, None)
    <2>1. c.pc = "threadInfo"
      BY <1>11 DEF SetThreadId, Step
    <2>2. id \in Nat /\ id \in Pos
      BY <1>c DEF Config, Pos
    <2>3. b \in Context /\ ContextOK(b) /\ b.pc \in Guarded
      <3>1. /\ npc \in {"name", "counter"}
            /\ npc = "name" => c.op = "begin"
            /\ npc = "counter" => c.op # "begin"
        OBVIOUS
      <3>2. c.op \in {"begin", "counter"}
        <4> HIDE DEF c
        <4> QED BY <1>c, <2>1 DEF ContextOK, Context, Guarded
      <3> HIDE DEF c, npc
      <3> QED BY <1>c, <2>1, <3>1, <3>2 DEF ContextOK, Context, Guarded, Pcs
    <2>4. CASE c.mThreadId = 0
      <3>1. p \in Packet
        BY <2>2, PacketOfType DEF Kinds, Uuid
      <3>2. /\ ctx' = [ctx EXCEPT ![t] = Written(e, p)]
            /\ config' = [config EXCEPT !.currentThreadId = id]
            /\ UNCHANGED <<storage, ctl>>
        BY <1>11, <2>4 DEF SetThreadId, Step
      <3> HIDE DEF c, id, b, p
      <3>3. e \in Context /\ ContextOK(e) /\ e.pc \in Guarded
        BY <2>2, <2>3 DEF ContextOK, Context
      <3>4. config' \in Config
        BY <1>c, <2>2, <3>2 DEF Config
      <3> HIDE DEF e
      <3> QED BY <1>s, <3>1, <3>2, <3>3, <3>4, StoreOK, WrittenOK DEF storage
    <2>5. CASE c.mThreadId # 0
      <3>1. ctx' = [ctx EXCEPT ![t] = b] /\ UNCHANGED <<config, storage, ctl>>
        BY <1>11, <2>5 DEF SetThreadId, Step
      <3> HIDE DEF c, b
      <3> QED BY <1>c, <1>s, <2>3, <3>1, StoreOK DEF storage
    <2> QED BY <2>4, <2>5
  <1>12. CASE InternEvent(t)
    <2> DEFINE known == c.mEventNameIids[c.arg] # 0
               iid == IF known THEN c.mEventNameIids[c.arg]
                      ELSE config.currentInterningId
               npc == IF known THEN "event" ELSE "nameAdd"
               names == [c.mEventNameIids EXCEPT ![c.arg] = iid]
               iids == [c.mIids EXCEPT ![NameSlot(c.mStackDepth)] = iid]
               d == [c EXCEPT !.pc = npc, !.mEventNameIids = names,
                              !.mIids = iids]
    <2>1. c.pc = "name" /\ ctx' = [ctx EXCEPT ![t] = d]
      BY <1>12 DEF InternEvent, Step
    <2>2. c.arg \in Names /\ c.mEventNameIids \in [Names -> Nat] /\ c.op = "begin"
      <3> HIDE DEF c
      <3> QED BY <1>c, <2>1 DEF ContextOK, Context
    <2>3. iid \in Nat
      BY <1>c, <2>2 DEF Config, Pos
    <2>4. iids \in [Slots -> Nat] /\ names \in [Names -> Nat]
      <3> HIDE DEF iid
      <3> QED BY <1>d, <2>2, <2>3
    <2>5. npc \in {"event", "nameAdd"}
      OBVIOUS
    <2> HIDE DEF c, iid, iids, names, npc
    <2>6. d \in Context
      BY <1>c, <2>4, <2>5 DEF Context, Pcs
    <2>7. ContextOK(d)
      BY <1>c, <2>1, <2>2, <2>5 DEF ContextOK, Context, Guarded
    <2> QED BY <1>12, <1>c, <1>s, <2>1, <2>6, <2>7, StoreOK
            DEF InternEvent, storage
  <1>13. CASE EmitEventName(t)
    <2> DEFINE b == [c EXCEPT !.pc = "event"]
               p == PacketOf(t, "name", NoUuid, 0,
                             c.mIids[NameSlot(c.mStackDepth)], c.arg)
    <2>1. c.pc = "nameAdd" /\ ctx' = [ctx EXCEPT ![t] = Written(b, p)]
      BY <1>13 DEF EmitEventName, Step
    <2>2. c.arg \in Names /\ c.mStackDepth < StackMax
      <3> HIDE DEF c
      <3> QED BY <1>c, <2>1 DEF ContextOK, Context, Guarded
    <2>3. p \in Packet
      BY <1>d, <2>2, PacketOfType, Literals DEF Kinds
    <2>4. b \in Context /\ ContextOK(b) /\ b.pc \in Guarded
      <3> HIDE DEF c
      <3> QED BY <1>c, <2>1 DEF ContextOK, Context, Guarded, Pcs
    <2>5. config' \in Config
      BY <1>13, <1>c DEF EmitEventName, Config, Pos
    <2> HIDE DEF b, p
    <2> QED BY <1>13, <1>s, <2>1, <2>3, <2>4, <2>5, StoreOK, WrittenOK
            DEF EmitEventName, storage
  <1>14. CASE CounterTrack(t)
    <2> DEFINE b == [c EXCEPT !.pc = "event"]
               uuid == <<b.mCurrentCounterId, b.mThreadId>>
               uuids == [b.mCounterUuids EXCEPT ![b.arg] = uuid]
               next == b.mCurrentCounterId + 1
               e == [b EXCEPT !.mCounterUuids = uuids,
                              !.mCurrentCounterId = next]
               p == PacketOf(t, "counterTrack", uuid, 0, 0, b.arg)
    <2>1. /\ c.pc = "counter"
          /\ \/ ctx' = [ctx EXCEPT ![t] = b]
             \/ ctx' = [ctx EXCEPT ![t] = Written(e, p)]
          /\ UNCHANGED <<config, storage, ctl>>
      BY <1>14 DEF CounterTrack, Step
    <2>2. /\ b \in Context /\ ContextOK(b) /\ b.pc \in Guarded
          /\ b.arg \in Names
      <3> HIDE DEF c
      <3> QED BY <1>c, <2>1 DEF ContextOK, Context, Guarded, Pcs
    <2> HIDE DEF c, b
    <2>3. uuid \in Uuid /\ next \in Pos /\ uuids \in [Names -> Uuid]
      BY <2>2 DEF Context, Uuid, Pos
    <2> HIDE DEF uuid, uuids, next
    <2>4. p \in Packet
      BY <2>2, <2>3, PacketOfType DEF Kinds
    <2>5. e \in Context /\ ContextOK(e) /\ e.pc \in Guarded
      BY <2>2, <2>3 DEF ContextOK, Context
    <2> HIDE DEF e, p
    <2> QED BY <1>c, <1>s, <2>1, <2>2, <2>4, <2>5, StoreOK, WrittenOK
            DEF storage
  <1>15. CASE EmitEvent(t)
    <2> DEFINE b == [c EXCEPT !.pc = "unlock"]
               p == IF c.op = "counter"
                    THEN PacketOf(t, "counter", c.mCounterUuids[c.arg], 0, 0,
                                  None)
                    ELSE PacketOf(t, c.op, <<0, c.mThreadId>>,
                                  c.mIids[CatSlot(c.mStackDepth)],
                                  c.mIids[NameSlot(c.mStackDepth)], None)
    <2>1. /\ c.pc = "event"
          /\ ctx' = [ctx EXCEPT ![t] = Written(b, p)]
          /\ UNCHANGED <<config, storage, ctl>>
      BY <1>15 DEF EmitEvent, Step
    <2>2. /\ c.op = "counter" => c.arg \in Names
          /\ c.op # "counter" => c.mStackDepth < StackMax
          /\ c.op \in Kinds
          /\ c.mCounterUuids \in [Names -> Uuid]
          /\ c.mThreadId \in Nat
      <3> HIDE DEF c
      <3> QED BY <1>c, <2>1 DEF ContextOK, Context, Guarded, Kinds
    <2>3. ASSUME c.op = "counter" PROVE p \in Packet
      BY <2>2, <2>3, PacketOfType DEF Kinds
    <2>4. ASSUME c.op # "counter" PROVE p \in Packet
      BY <2>2, <1>d, <2>4, PacketOfType DEF Uuid
    <2> HIDE DEF p
    <2>5. p \in Packet
      BY <2>3, <2>4
    <2>6. b \in Context /\ ContextOK(b) /\ b.pc \in Guarded
      <3> HIDE DEF c
      <3> QED BY <1>c, <2>1 DEF ContextOK, Context, Guarded, Pcs
    <2> HIDE DEF b
    <2> QED BY <1>c, <1>s, <2>1, <2>5, <2>6, StoreOK, WrittenOK DEF storage
  <1>16. CASE Unlock(t)
    <2> DEFINE nd == IF c.op = "begin" THEN c.mStackDepth + 1
                     ELSE c.mStackDepth
               d == [c EXCEPT !.pc = "idle", !.mTracingLock = FALSE,
                              !.mStackDepth = nd]
    <2>1. /\ c.pc = "unlock" /\ c.out = <<>>
          /\ ctx' = [ctx EXCEPT ![t] = d]
          /\ UNCHANGED <<config, storage, ctl>>
      BY <1>16 DEF Unlock, Step
    <2>2. nd \in Depths /\ nd # -1
      <3>1. c.op = "begin" => c.mStackDepth < StackMax
        <4> HIDE DEF c
        <4> QED BY <1>c, <2>1 DEF ContextOK, Guarded
      <3> HIDE DEF c
      <3> QED BY <1>d, <3>1, ConstantsAssumption DEF Depths
    <2> HIDE DEF c, nd
    <2>3. d \in Context
      BY <1>c, <2>2 DEF Context, Pcs
    <2>4. ContextOK(d)
      BY <1>c, <2>1, <2>2 DEF ContextOK, Context, Guarded
    <2> QED BY <1>c, <1>s, <2>1, <2>3, <2>4, StoreOK DEF storage
  <1>17. CASE SaveAtExit(t)
    <2> DEFINE r == Reset(c)
               d == [r EXCEPT !.pc = "dead"]
    <2>1. /\ c.pc = "exit" /\ c.out = <<>>
          /\ ctx' = [ctx EXCEPT ![t] = d]
          /\ SaveBuffer(c)
          /\ UNCHANGED <<config, mContextsLock, mContexts, hostFile, ctl>>
      BY <1>17 DEF SaveAtExit, Step
    <2>2. r \in Context /\ ContextOK(r) /\ r.pc = "exit" /\ r.out = <<>>
      <3>1. r.pc = c.pc /\ r.out = c.out
        <4> HIDE DEF c
        <4> QED BY <1>c DEF Reset, Context
      <3> QED BY <1>c, <2>1, <3>1, ResetOK DEF Guarded
    <2>3. mSavedTraces' \in Seq(SavedTraceInfo)
      BY <1>c, <2>1, SaveBufferType
    <2> HIDE DEF c, r
    <2>4. d \in Context /\ ContextOK(d)
      BY <2>2 DEF Context, ContextOK, Guarded, Pcs
    <2> QED BY <1>c, <1>s, <2>1, <2>3, <2>4, StoreOK
  <1> QED BY <1>1, <1>2, <1>3, <1>4, <1>5, <1>6, <1>7, <1>8, <1>9, <1>10,
             <1>11, <1>12, <1>13, <1>14, <1>15, <1>16, <1>17 DEF InCall

\* A thread starts a call.
LEMMA StartCallOK ==
    ASSUME TypeOK, ContextInv, NEW t \in Threads, StartCall(t)
    PROVE  TypeOK' /\ ContextInv'
  <1> DEFINE c == ctx[t]
  <1>c. c \in Context /\ ContextOK(c) /\ config \in Config
    BY DEF TypeOK, ContextInv
  <1>s. /\ mContextsLock \in BOOLEAN
        /\ mContexts \in SUBSET Threads
        /\ mSavedTraces \in Seq(SavedTraceInfo)
        /\ hostFile \in Seq(SavedTraceInfo)
        /\ ctl \in Control
    BY DEF TypeOK
  <1>1. ASSUME NEW o \in Ops, NEW a \in Names \union {None},
               a = None <=> o = "end", Call(t, o, a)
        PROVE  TypeOK' /\ ContextInv'
    <2> DEFINE npc == IF t \in mContexts THEN "check" ELSE "construct"
               k == ctl.session
               n == c.calls + 1
               d == [c EXCEPT !.pc = npc, !.op = o, !.arg = a, !.calls = n,
                              !.sess = k]
    <2>1. /\ c.pc = "idle" /\ c.out = <<>>
          /\ ctx' = [ctx EXCEPT ![t] = d]
          /\ UNCHANGED <<config, storage, ctl>>
      BY <1>1 DEF Call, Step
    <2>2. /\ npc \in {"check", "construct"} /\ k \in Nat /\ n \in Nat
          /\ o \in {"begin", "end", "counter"}
          /\ o # "end" => a \in Names
      BY <1>1, <1>c, <1>s, ConstantsAssumption DEF Context, Control
    <2> HIDE DEF c, npc, k, n
    <2>3. d \in Context
      BY <1>c, <2>2 DEF Context, Pcs
    <2>4. ContextOK(d)
      BY <1>c, <2>1, <2>2 DEF Context, ContextOK, Guarded
    <2> QED BY <1>c, <1>s, <2>1, <2>3, <2>4, StoreOK DEF storage
  <1>2. CASE Remove(t)
    <2> DEFINE npc == IF c.mTraceBuffer = <<>> THEN "dead" ELSE "exit"
               d == [c EXCEPT !.pc = npc]
    <2>1. /\ c.pc = "idle" /\ c.out = <<>>
          /\ ctx' = [ctx EXCEPT ![t] = d]
          /\ mContexts' = mContexts \ {t}
          /\ UNCHANGED <<config, mContextsLock, mSavedTraces, hostFile, ctl>>
      BY <1>2 DEF Remove, Step
    <2>2. npc \in {"dead", "exit"}
      OBVIOUS
    <2> HIDE DEF c, npc
    <2>3. d \in Context /\ ContextOK(d)
      BY <1>c, <2>1, <2>2 DEF Context, ContextOK, Guarded, Pcs
    <2> QED BY <1>c, <1>s, <2>1, <2>3, StoreOK
  <1> QED BY <1>1, <1>2 DEF StartCall

\* A step of the control thread, action by action.
LEMMA ControlOK ==
    ASSUME TypeOK, ContextInv, InControl \/ StartControl
    PROVE  TypeOK' /\ ContextInv'
  <1>1. ASSUME NEW t \in Threads, SaveContext(t)
        PROVE  TypeOK' /\ ContextInv'
    <2>1. ctx[t] \in Context /\ ContextOK(ctx[t]) /\ ctx[t].pc \notin Guarded
      BY <1>1 DEF TypeOK, ContextInv, SaveContext, ContextOK
    <2>2. Reset(ctx[t]) \in Context /\ ContextOK(Reset(ctx[t]))
      BY <2>1, ResetOK
    <2>3. ctl' \in Control
      BY <1>1 DEF TypeOK, Control, SaveContext
    <2>4. mSavedTraces' \in Seq(SavedTraceInfo)
      BY <1>1, <2>1, SaveBufferType DEF SaveContext
    <2> QED BY <1>1, <2>2, <2>3, <2>4, StoreOK DEF SaveContext, TypeOK
  <1>2. ASSUME UNCHANGED ctx, config' \in Config, mContextsLock' \in BOOLEAN,
               UNCHANGED mContexts, mSavedTraces' \in Seq(SavedTraceInfo),
               hostFile' \in Seq(SavedTraceInfo), ctl' \in Control
        PROVE  TypeOK' /\ ContextInv'
    BY <1>2 DEF TypeOK, ContextInv
  <1>k. ctl \in Control /\ config \in Config
    BY DEF TypeOK
  <1>3. CASE \E d \in GuestDiffs : SetGuestTime(d)
    BY <1>2, <1>3 DEF SetGuestTime, TypeOK, Config, storage
  <1>4. CASE EnableTracing
    BY <1>2, <1>4 DEF EnableTracing, TypeOK, Control, storage
  <1>5. CASE DisableTracing
    BY <1>2, <1>5 DEF DisableTracing, TypeOK, Config, Control, storage
  <1>6. CASE LockContexts
    BY <1>2, <1>6 DEF LockContexts, TypeOK, Control
  <1>7. CASE OpenHostFile
    <2>1. ctl' \in Control
      BY <1>k, <1>7 DEF OpenHostFile, Control
    <2> QED BY <1>2, <1>7, <2>1 DEF OpenHostFile, TypeOK
  <1>8. CASE WriteSavedTrace
    <2>1. hostFile' \in Seq(SavedTraceInfo)
      BY <1>8 DEF WriteSavedTrace, TypeOK
    <2>2. ctl' \in Control
      BY <1>8, <1>k DEF WriteSavedTrace, Control
    <2> QED BY <1>2, <1>8, <2>1, <2>2 DEF WriteSavedTrace, TypeOK
  <1>9. CASE SecondPass
    BY <1>2, <1>9 DEF SecondPass, TypeOK, Control, storage
  <1>10. CASE CloseHostFile
    <2>1. ctl' \in Control
      BY <1>k, <1>10 DEF CloseHostFile, Control
    <2>2. mSavedTraces' \in Seq(SavedTraceInfo) /\ mContextsLock' \in BOOLEAN
      <3>1. mSavedTraces' = <<>> /\ mContextsLock' = FALSE
        BY <1>10 DEF CloseHostFile
      <3>2. <<>> \in Seq(SavedTraceInfo)
        OBVIOUS
      <3> QED BY <3>1, <3>2
    <2> QED BY <1>2, <1>10, <2>1, <2>2 DEF CloseHostFile, TypeOK
  <1>11. CASE ResetCounters
    BY <1>k, <1>11, Literals, <1>2
    DEF ResetCounters, Control, Config, TypeOK, storage
  <1>12. CASE FinishEnable
    <2>1. ctl' \in Control
      <3> DEFINE k == ctl.session + 1
      <3>1. k \in Nat
        BY <1>k DEF Control
      <3>2. ctl' = [ctl EXCEPT !.call = "none", !.step = "none", !.session = k]
        BY <1>12 DEF FinishEnable
      <3> HIDE DEF k
      <3> QED BY <1>k, <3>1, <3>2 DEF Control
    <2>2. config' \in Config
      BY <1>k, <1>12 DEF FinishEnable, Config
    <2> QED BY <1>2, <1>12, <2>1, <2>2 DEF FinishEnable, TypeOK, storage
  <1>13. CASE FinishDisable
    BY <1>2, <1>13, ConstantsAssumption
    DEF FinishDisable, TypeOK, Config, Control, storage
  <1> QED BY <1>1, <1>3, <1>4, <1>5, <1>6, <1>7, <1>8, <1>9, <1>10, <1>11,
             <1>12, <1>13 DEF InControl, StartControl

\* A stuttering step.
LEMMA StutterOK ==
    ASSUME TypeOK, ContextInv, UNCHANGED vars
    PROVE  TypeOK' /\ ContextInv'
  BY DEF TypeOK, ContextInv, vars, storage

\* Every reachable state is typed, and every thread's context is consistent
\* with the point its call has reached, however tracing calls, thread exits,
\* enableTracing and disableTracing interleave.
THEOREM TypesAndContexts == Spec => [](TypeOK /\ ContextInv)
  <1>1. TypeOK /\ ContextInv /\ [Next]_vars => TypeOK' /\ ContextInv'
    BY InCallOK, StartCallOK, ControlOK, StutterOK DEF Next
  <1> QED BY <1>1, InitOK, PTL DEF Spec

\* The types of the trace configuration, the contexts, the storage and the
\* file: in particular the stack depth never leaves -1 .. StackMax.
THEOREM TypeCorrect == Spec => []TypeOK
  BY TypesAndContexts, PTL

\* The consistency of the contexts on its own.
THEOREM ContextsConsistent == Spec => []ContextInv
  BY TypesAndContexts, PTL

-----------------------------------------------------------------------------
(***************************************************************************)
(* What a step of a call does to the buffers                               *)
(***************************************************************************)

Registered == {"check", "dec", "lock"} \union Guarded

\* The context goes from c to d: it keeps its buffer, gets one more packet,
\* makes a packet wait, swaps a full buffer for a fresh one, or gives its
\* buffer away at exit.
Kept(c, d) ==
    /\ d.mTraceBuffer = c.mTraceBuffer
    /\ d.out = c.out
    /\ UNCHANGED mSavedTraces
Extended(c, d) ==
    /\ c.pc \in Guarded
    /\ d.out = c.out
    /\ \E p : p.sess = c.sess /\ d.mTraceBuffer = Append(c.mTraceBuffer, p)
    /\ UNCHANGED mSavedTraces
Delayed(c, d) ==
    /\ c.pc \in Guarded
    /\ d.mTraceBuffer = c.mTraceBuffer
    /\ \E p : p.sess = c.sess /\ d.out = <<p>>
    /\ UNCHANGED mSavedTraces
Refreshed(c, d) ==
    /\ c.pc \in Guarded
    /\ c.out # <<>>
    /\ d.mTraceBuffer = c.out
    /\ d.out = <<>>
    /\ SaveBuffer(c)
GivenAway(c, d) ==
    /\ c.pc = "exit"
    /\ d.mTraceBuffer = <<>>
    /\ d.out = c.out
    /\ SaveBuffer(c)

BufferStep(c, d) ==
    Kept(c, d) \/ Extended(c, d) \/ Delayed(c, d) \/ Refreshed(c, d)
               \/ GivenAway(c, d)

\* How the control state of the thread changes.
PcStep(t, c, d) ==
    /\ d.sess = c.sess
    /\ c.pc \notin {"idle", "dead"}
    /\ d.pc # "exit"
    /\ c.pc = "exit" => d.pc = "dead" /\ d.mTraceBuffer = <<>>
    /\ d.pc \in Registered => c.pc \in Registered \/ t \in mContexts'
    /\ d.pc = "dec" => d.seenDepth = d.mStackDepth
    /\ d.pc = "oob" => c.pc = "dec" /\ (c.seenDepth = 0 \/ c.mStackDepth = 0)

\* A packet is written to the buffer or waits for the next one.
LEMMA WrittenFrame ==
    ASSUME NEW c \in Context, NEW p
    PROVE  LET d == Written(c, p)
           IN  /\ d.sess = c.sess /\ d.pc = c.pc
               /\ \/ d.out = c.out /\ d.mTraceBuffer = Append(c.mTraceBuffer, p)
                  \/ d.out = <<p>> /\ d.mTraceBuffer = c.mTraceBuffer
  <1> DEFINE a == [c EXCEPT !.emitted = @ + 1, !.mTraceBuffer = Append(@, p)]
             b == [c EXCEPT !.emitted = @ + 1, !.out = <<p>>]
  <1>1. /\ a.sess = c.sess /\ a.pc = c.pc /\ a.out = c.out
        /\ a.mTraceBuffer = Append(c.mTraceBuffer, p)
    BY DEF Context
  <1>2. /\ b.sess = c.sess /\ b.pc = c.pc /\ b.out = <<p>>
        /\ b.mTraceBuffer = c.mTraceBuffer
    BY DEF Context
  <1>3. Written(c, p) = a \/ Written(c, p) = b
    BY DEF Written
  <1> HIDE DEF a, b
  <1> QED BY <1>1, <1>2, <1>3

\* A step that writes a packet of the call's session.
LEMMA WriteFrame ==
    ASSUME NEW t \in Threads, NEW c \in Context, c.pc \in Guarded,
           NEW b \in Context, NEW p,
           b.pc \in Guarded, b.sess = c.sess, b.out = c.out,
           b.mTraceBuffer = c.mTraceBuffer, p.sess = c.sess,
           UNCHANGED mSavedTraces
    PROVE  BufferStep(c, Written(b, p)) /\ PcStep(t, c, Written(b, p))
  <1>1. BufferStep(c, Written(b, p))
    BY WrittenFrame DEF BufferStep, Extended, Delayed
  <1>2. PcStep(t, c, Written(b, p))
    BY WrittenFrame DEF PcStep, Registered, Guarded
  <1> QED BY <1>1, <1>2

\* A packet is appended to a buffer.
LEMMA AppendFacts ==
    ASSUME NEW s \in Seq(Packet), NEW p
    PROVE  /\ Append(s, p) # <<>>
           /\ Len(Append(s, p)) = Len(s) + 1
           /\ \A i \in 1 .. Len(s) : Append(s, p)[i] = s[i]
           /\ Append(s, p)[Len(s) + 1] = p
  <1>1. s \in Seq(Packet \union {p})
    OBVIOUS
  <1> QED BY <1>1

\* A call or an exit begins: only the thread's control state changes.
LEMMA StartCallFrame ==
    ASSUME TypeOK, NEW t \in Threads, StartCall(t)
    PROVE  /\ ctx'[t].mTraceBuffer = ctx[t].mTraceBuffer
           /\ ctx'[t].out = ctx[t].out
           /\ \A u \in Threads \ {t} : ctx'[u] = ctx[u]
           /\ UNCHANGED <<config, mSavedTraces, hostFile, ctl>>
           /\ Quiesced => ctl.call = "none"
           /\ ctx[t].pc = "idle"
           /\ \/ /\ ~config.tracingDisabled
                 /\ ctx'[t].sess = ctl.session
                 /\ ctx'[t].pc \in {"check", "construct"}
                 /\ ctx'[t].pc = "check" => t \in mContexts
                 /\ UNCHANGED mContexts
              \/ /\ ctx[t].mTraceBuffer = <<>>
                 /\ ctx'[t].pc = "dead"
                 /\ mContexts' = mContexts \ {t}
              \/ /\ ctx[t].mTraceBuffer # <<>>
                 /\ ctx'[t].pc = "exit"
                 /\ mContexts' = mContexts \ {t}
  <1>1. ctx[t] \in Context /\ ctx \in [Threads -> Context]
    BY DEF TypeOK
  <1>2. ASSUME NEW o, NEW a, Call(t, o, a)
        PROVE  /\ ctx'[t].mTraceBuffer = ctx[t].mTraceBuffer
               /\ ctx'[t].out = ctx[t].out
               /\ \A u \in Threads \ {t} : ctx'[u] = ctx[u]
               /\ UNCHANGED <<config, storage, ctl>>
               /\ Quiesced => ctl.call = "none"
               /\ ctx[t].pc = "idle"
               /\ ~config.tracingDisabled
               /\ ctx'[t].sess = ctl.session
               /\ ctx'[t].pc \in {"check", "construct"}
               /\ ctx'[t].pc = "check" => t \in mContexts
    BY <1>1, <1>2 DEF Call, Step, Context
  <1>3. CASE Remove(t)
    <2> DEFINE npc == IF ctx[t].mTraceBuffer = <<>> THEN "dead" ELSE "exit"
               d == [ctx[t] EXCEPT !.pc = npc]
    <2>1. /\ ctx' = [ctx EXCEPT ![t] = d]
          /\ mContexts' = mContexts \ {t}
          /\ UNCHANGED <<config, mSavedTraces, hostFile, ctl>>
          /\ Quiesced => ctl.call = "none"
          /\ ctx[t].pc = "idle"
      BY <1>3 DEF Remove, Step
    <2>2. /\ d.mTraceBuffer = ctx[t].mTraceBuffer
          /\ d.out = ctx[t].out /\ d.pc = npc
      BY <1>1 DEF Context
    <2> HIDE DEF d
    <2> QED BY <1>1, <2>1, <2>2
  <1> QED BY <1>2, <1>3 DEF StartCall, storage

\* What a step of a thread inside a call leaves alone, and how it changes its buffer.
LEMMA InCallFrame ==
    ASSUME TypeOK, ContextInv, NEW t \in Threads, ~Crashed, InCall(t)
    PROVE  /\ BufferStep(ctx[t], ctx'[t])
           /\ PcStep(t, ctx[t], ctx'[t])
           /\ \A u \in Threads \ {t} : ctx'[u] = ctx[u]
           /\ config'.tracingDisabled = config.tracingDisabled
           /\ mContexts \subseteq mContexts'
           /\ UNCHANGED <<hostFile, ctl>>
  <1> DEFINE c == ctx[t]
             Frame == /\ \A u \in Threads \ {t} : ctx'[u] = ctx[u]
                      /\ config'.tracingDisabled = config.tracingDisabled
                      /\ mContexts \subseteq mContexts'
                      /\ UNCHANGED <<hostFile, ctl>>
             Goal == BufferStep(c, ctx'[t]) /\ PcStep(t, c, ctx'[t]) /\ Frame
  <1>c. c \in Context /\ ContextOK(c) /\ c.pc # "oob" /\ config \in Config
    BY DEF TypeOK, ContextInv, Crashed
  <1>x. ctx \in [Threads -> Context]
    BY DEF TypeOK
  <1>p. \A kind, uuid, cat, iid, name :
          PacketOf(t, kind, uuid, cat, iid, name).sess = c.sess
    BY DEF PacketOf
  <1>1. CASE FinishAndRefresh(t)
    <2>1. /\ c.pc \in Guarded /\ c.out # <<>>
      BY <1>1, <1>c DEF FinishAndRefresh, ContextOK
    <2>2. /\ ctx'[t].mTraceBuffer = c.out
          /\ ctx'[t].out = <<>>
          /\ ctx'[t].pc = c.pc /\ ctx'[t].sess = c.sess
          /\ \A u \in Threads \ {t} : ctx'[u] = ctx[u]
      BY <1>1, <1>c, <1>x DEF FinishAndRefresh, Context
    <2>3. BufferStep(c, ctx'[t])
      BY <1>1, <2>1, <2>2 DEF FinishAndRefresh, BufferStep, Refreshed
    <2>4. PcStep(t, c, ctx'[t])
      BY <2>1, <2>2 DEF PcStep, Registered, Guarded
    <2> QED BY <1>1, <2>2, <2>3, <2>4 DEF FinishAndRefresh
  <1>2. CASE Construct(t)
    BY <1>2, <1>c, <1>x
    DEF Construct, Step, BufferStep, Kept, PcStep, Registered, Guarded, Context
  <1>3. CASE Check(t)
    <2>1. c.pc = "check" /\ UNCHANGED <<config, storage, ctl>>
      BY <1>3 DEF Check, Step
    <2>2. /\ ctx'[t].mTraceBuffer = c.mTraceBuffer
          /\ ctx'[t].out = c.out /\ ctx'[t].sess = c.sess
          /\ ctx'[t].pc \in {"idle", "dec", "lock"}
          /\ ctx'[t].pc = "dec" => ctx'[t].seenDepth = ctx'[t].mStackDepth
          /\ \A u \in Threads \ {t} : ctx'[u] = ctx[u]
      BY <1>3, <1>c, <1>x DEF Check, Step, Context
    <2>3. BufferStep(c, ctx'[t])
      BY <2>1, <2>2 DEF BufferStep, Kept, storage
    <2>4. PcStep(t, c, ctx'[t])
      BY <2>1, <2>2 DEF PcStep, Registered, Guarded
    <2> QED BY <2>1, <2>2, <2>3, <2>4 DEF storage
  <1>4. CASE DecrementDepth(t)
    <2>1. c.pc = "dec" /\ UNCHANGED <<config, storage, ctl>>
      BY <1>4 DEF DecrementDepth, Step
    <2>2. /\ ctx'[t].mTraceBuffer = c.mTraceBuffer
          /\ ctx'[t].out = c.out /\ ctx'[t].sess = c.sess
          /\ \/ ctx'[t].pc = "lock"
             \/ ctx'[t].pc = "oob" /\ (c.seenDepth = 0 \/ c.mStackDepth = 0)
          /\ \A u \in Threads \ {t} : ctx'[u] = ctx[u]
      BY <1>4, <1>c, <1>x DEF DecrementDepth, Step, Context
    <2>3. BufferStep(c, ctx'[t])
      BY <2>1, <2>2 DEF BufferStep, Kept, storage
    <2>4. PcStep(t, c, ctx'[t])
      BY <2>1, <2>2 DEF PcStep, Registered, Guarded
    <2> QED BY <2>1, <2>2, <2>3, <2>4 DEF storage
  <1>5. ASSUME c.pc \in {"lock"} \union Guarded, UNCHANGED <<mSavedTraces, mContexts, hostFile, ctl>>,
               config'.tracingDisabled = config.tracingDisabled,
               NEW d \in Context, ctx' = [ctx EXCEPT ![t] = d],
               d.mTraceBuffer = c.mTraceBuffer, d.out = c.out,
               d.sess = c.sess, d.pc \in {"idle"} \union Guarded
        PROVE  Goal
    BY <1>5, <1>x DEF BufferStep, Kept, PcStep, Registered, Guarded
  <1>6. ASSUME c.pc \in Guarded, UNCHANGED <<mSavedTraces, mContexts, hostFile, ctl>>,
               config'.tracingDisabled = config.tracingDisabled,
               NEW b \in Context, NEW p,
               ctx' = [ctx EXCEPT ![t] = Written(b, p)],
               b.mTraceBuffer = c.mTraceBuffer, b.out = c.out,
               b.sess = c.sess, b.pc \in Guarded, p.sess = c.sess
        PROVE  Goal
    BY <1>6, <1>c, <1>x, WriteFrame
  <1>7. CASE LockEnd(t)
    <2> DEFINE d == [c EXCEPT !.pc = "event", !.mTracingLock = TRUE]
    <2>1. /\ c.pc = "lock" /\ ctx' = [ctx EXCEPT ![t] = d]
          /\ UNCHANGED <<config, storage, ctl>>
      BY <1>7 DEF LockEnd, Step
    <2>2. /\ d \in Context /\ d.pc = "event" /\ d.mTraceBuffer = c.mTraceBuffer
          /\ d.out = c.out /\ d.sess = c.sess
      BY <1>c DEF Context, Pcs
    <2> HIDE DEF d
    <2> QED BY <1>5, <2>1, <2>2 DEF storage, Guarded
  <1>8. CASE LockAndCount(t)
    <2> DEFINE npc == IF config.packetsWritten = 0 THEN "first" ELSE "await"
               d == [c EXCEPT !.pc = npc, !.mTracingLock = TRUE]
    <2>1. /\ c.pc = "lock" /\ ctx' = [ctx EXCEPT ![t] = d]
          /\ config' = [config EXCEPT !.packetsWritten = @ + 1]
          /\ UNCHANGED <<storage, ctl>>
      BY <1>8 DEF LockAndCount, Step
    <2>2. npc \in {"first", "await"}
      OBVIOUS
    <2> HIDE DEF npc
    <2>3. /\ d \in Context /\ d.pc \in {"first", "await"}
          /\ d.mTraceBuffer = c.mTraceBuffer
          /\ d.out = c.out /\ d.sess = c.sess
      BY <1>c, <2>2 DEF Context, Pcs
    <2>4. config'.tracingDisabled = config.tracingDisabled
      BY <1>c, <2>1 DEF Config
    <2> HIDE DEF d
    <2> QED BY <1>5, <2>1, <2>3, <2>4 DEF storage, Guarded
  <1>9. CASE FirstPacket(t)
    <2> DEFINE b == [c EXCEPT !.pc = "category", !.mFirst = TRUE]
               p == PacketOf(t, "seq", NoUuid, 0, 0, None)
    <2>1. /\ c.pc = "first" /\ ctx' = [ctx EXCEPT ![t] = Written(b, p)]
          /\ config' = [config EXCEPT !.sequenceIdWritten = TRUE]
          /\ UNCHANGED <<storage, ctl>>
      BY <1>9 DEF FirstPacket, Step
    <2>2. /\ b \in Context /\ b.pc = "category"
          /\ b.mTraceBuffer = c.mTraceBuffer
          /\ b.out = c.out /\ b.sess = c.sess
      BY <1>c DEF Context, Pcs
    <2>3. config'.tracingDisabled = config.tracingDisabled
      BY <1>c, <2>1 DEF Config
    <2>4. p.sess = c.sess
      BY <1>p
    <2> HIDE DEF b, p
    <2> QED BY <1>6, <2>1, <2>2, <2>3, <2>4 DEF storage, Guarded
  <1>10. CASE AwaitSequenceId(t)
    <2> DEFINE d == [c EXCEPT !.pc = "category"]
    <2>1. /\ c.pc = "await" /\ ctx' = [ctx EXCEPT ![t] = d]
          /\ UNCHANGED <<config, storage, ctl>>
      BY <1>10 DEF AwaitSequenceId, Step
    <2>2. /\ d \in Context /\ d.pc = "category"
          /\ d.mTraceBuffer = c.mTraceBuffer
          /\ d.out = c.out /\ d.sess = c.sess
      BY <1>c DEF Context, Pcs
    <2> HIDE DEF d
    <2> QED BY <1>5, <2>1, <2>2 DEF storage, Guarded
  <1>t. \A u \in Threads : ctx'[u] \in Context
    BY InCallOK DEF TypeOK
  <1>11. CASE InternCategory(t)
    <2>1. /\ c.pc = "category" /\ ctx'[t].pc \in {"threadInfo", "categoryAdd"}
          /\ ctx' = [ctx EXCEPT ![t] = ctx'[t]]
          /\ UNCHANGED <<config, storage, ctl>>
      BY <1>11, <1>c, <1>x DEF InternCategory, Step, Context
    <2>2. /\ ctx'[t].mTraceBuffer = c.mTraceBuffer
          /\ ctx'[t].out = c.out /\ ctx'[t].sess = c.sess
      BY <1>11, <1>c, <1>x DEF InternCategory, Step, Context
    <2> QED BY <1>5, <1>t, <2>1, <2>2 DEF storage, Guarded
  <1>12. CASE EmitCategory(t)
    <2> DEFINE b == [c EXCEPT !.pc = "threadInfo"]
               p == PacketOf(t, "category", NoUuid, 0,
                             c.mIids[CatSlot(c.mStackDepth)], None)
    <2>1. /\ c.pc = "categoryAdd" /\ ctx' = [ctx EXCEPT ![t] = Written(b, p)]
          /\ config' = [config EXCEPT !.currentInterningId = @ + 1]
          /\ UNCHANGED <<storage, ctl>>
      BY <1>12 DEF EmitCategory, Step
    <2>2. /\ b \in Context /\ b.pc = "threadInfo"
          /\ b.mTraceBuffer = c.mTraceBuffer
          /\ b.out = c.out /\ b.sess = c.sess
      BY <1>c DEF Context, Pcs
    <2>3. config'.tracingDisabled = config.tracingDisabled
      BY <1>c, <2>1 DEF Config
    <2>4. p.sess = c.sess
      BY <1>p
    <2> HIDE DEF b, p
    <2> QED BY <1>6, <2>1, <2>2, <2>3, <2>4 DEF storage, Guarded
  <1>13. CASE SetThreadId(t)
    <2> DEFINE npc == IF c.op = "begin" THEN "name" ELSE "counter"
               b == [c EXCEPT !.pc = npc]
               id == config.currentThreadId + 1
               e == [b EXCEPT !.mThreadId = id]
               p == PacketOf(t, "track", <<0, id>>, 0, 0, None)
    <2>1. c.pc = "threadInfo" /\ UNCHANGED <<storage, ctl>>
      BY <1>13 DEF SetThreadId, Step
    <2>2. /\ b \in Context /\ b.pc \in {"name", "counter"}
          /\ b.mTraceBuffer = c.mTraceBuffer
          /\ b.out = c.out /\ b.sess = c.sess
      <3>1. npc \in {"name", "counter"}
        OBVIOUS
      <3> HIDE DEF npc
      <3> QED BY <1>c, <3>1 DEF Context, Pcs
    <2>3. id \in Nat
      BY <1>c DEF Config, Pos
    <2>4. CASE /\ ctx' = [ctx EXCEPT ![t] = Written(e, p)]
               /\ config' = [config EXCEPT !.currentThreadId = id]
      <3>1. p.sess = c.sess
        BY <1>p
      <3>2. config'.tracingDisabled = config.tracingDisabled
        BY <1>c, <2>4 DEF Config
      <3> HIDE DEF b, p, id
      <3>3. /\ e \in Context /\ e.pc = b.pc
            /\ e.mTraceBuffer = b.mTraceBuffer
            /\ e.out = b.out /\ e.sess = b.sess
        BY <2>2, <2>3 DEF Context
      <3> HIDE DEF e
      <3> QED BY <1>6, <2>1, <2>2, <2>4, <3>1, <3>2, <3>3 DEF storage, Guarded
    <2>5. CASE ctx' = [ctx EXCEPT ![t] = b] /\ UNCHANGED config
      <3> HIDE DEF b
      <3> QED BY <1>5, <2>1, <2>2, <2>5 DEF storage, Guarded
    <2> QED BY <1>13, <2>4, <2>5 DEF SetThreadId, Step
  <1>14. CASE InternEvent(t)
    <2>1. /\ c.pc = "name" /\ ctx'[t].pc \in {"event", "nameAdd"}
          /\ ctx' = [ctx EXCEPT ![t] = ctx'[t]]
          /\ UNCHANGED <<config, storage, ctl>>
      BY <1>14, <1>c, <1>x DEF InternEvent, Step, Context
    <2>2. /\ ctx'[t].mTraceBuffer = c.mTraceBuffer
          /\ ctx'[t].out = c.out /\ ctx'[t].sess = c.sess
      BY <1>14, <1>c, <1>x DEF InternEvent, Step, Context
    <2> QED BY <1>5, <1>t, <2>1, <2>2 DEF storage, Guarded
  <1>15. CASE EmitEventName(t)
    <2> DEFINE b == [c EXCEPT !.pc = "event"]
               p == PacketOf(t, "name", NoUuid, 0,
                             c.mIids[NameSlot(c.mStackDepth)], c.arg)
    <2>1. /\ c.pc = "nameAdd" /\ ctx' = [ctx EXCEPT ![t] = Written(b, p)]
          /\ config' = [config EXCEPT !.currentInterningId = @ + 1]
          /\ UNCHANGED <<storage, ctl>>
      BY <1>15 DEF EmitEventName, Step
    <2>2. /\ b \in Context /\ b.pc = "event"
          /\ b.mTraceBuffer = c.mTraceBuffer
          /\ b.out = c.out /\ b.sess = c.sess
      BY <1>c DEF Context, Pcs
    <2>3. config'.tracingDisabled = config.tracingDisabled
      BY <1>c, <2>1 DEF Config
    <2>4. p.sess = c.sess
      BY <1>p
    <2> HIDE DEF b, p
    <2> QED BY <1>6, <2>1, <2>2, <2>3, <2>4 DEF storage, Guarded
  <1>16. CASE CounterTrack(t)
    <2> DEFINE b == [c EXCEPT !.pc = "event"]
               uuid == <<b.mCurrentCounterId, b.mThreadId>>
               e == [b EXCEPT !.mCounterUuids[b.arg] = uuid,
                              !.mCurrentCounterId = @ + 1]
               p == PacketOf(t, "counterTrack", uuid, 0, 0, b.arg)
    <2>1. /\ c.pc = "counter"
          /\ \/ ctx' = [ctx EXCEPT ![t] = b]
             \/ ctx' = [ctx EXCEPT ![t] = Written(e, p)]
          /\ UNCHANGED <<config, storage, ctl>>
      BY <1>16 DEF CounterTrack, Step
    <2>2. /\ b \in Context /\ b.pc = "event"
          /\ b.mTraceBuffer = c.mTraceBuffer
          /\ b.out = c.out /\ b.sess = c.sess
          /\ c.arg \in Names /\ b.arg = c.arg
      BY <1>c, <2>1 DEF ContextOK, Context, Pcs
    <2>3. p.sess = c.sess
      BY <1>p
    <2> HIDE DEF b, p
    <2>4. /\ e \in Context /\ e.pc = b.pc
          /\ e.mTraceBuffer = b.mTraceBuffer
          /\ e.out = b.out /\ e.sess = b.sess
      <3> DEFINE uuids == [b.mCounterUuids EXCEPT ![b.arg] = uuid]
                 next == b.mCurrentCounterId + 1
      <3>1. /\ b.mCounterUuids \in [Names -> Uuid]
            /\ b.mCurrentCounterId \in Pos /\ b.mThreadId \in Nat
        BY <2>2 DEF Context
      <3>2. next \in Pos /\ uuid \in Uuid
        BY <3>1 DEF Uuid, Pos
      <3>4. uuids \in [Names -> Uuid]
        <4> HIDE DEF uuid
        <4> QED BY <3>1, <3>2
      <3>3. e = [b EXCEPT !.mCounterUuids = uuids, !.mCurrentCounterId = next]
        OBVIOUS
      <3> HIDE DEF uuids, next, e
      <3> QED BY <2>2, <3>2, <3>3, <3>4 DEF Context
    <2> HIDE DEF e
    <2> QED BY <1>5, <1>6, <2>1, <2>2, <2>3, <2>4 DEF storage, Guarded
  <1>17. CASE EmitEvent(t)
    <2> DEFINE b == [c EXCEPT !.pc = "unlock"]
               p == IF c.op = "counter"
                    THEN PacketOf(t, "counter", c.mCounterUuids[c.arg], 0, 0,
                                  None)
                    ELSE PacketOf(t, c.op, <<0, c.mThreadId>>,
                                  c.mIids[CatSlot(c.mStackDepth)],
                                  c.mIids[NameSlot(c.mStackDepth)], None)
    <2>1. /\ c.pc = "event" /\ ctx' = [ctx EXCEPT ![t] = Written(b, p)]
          /\ UNCHANGED <<config, storage, ctl>>
      BY <1>17 DEF EmitEvent, Step
    <2>2. /\ b \in Context /\ b.pc = "unlock"
          /\ b.mTraceBuffer = c.mTraceBuffer
          /\ b.out = c.out /\ b.sess = c.sess
      BY <1>c DEF Context, Pcs
    <2>3. p.sess = c.sess
      BY <1>p
    <2> HIDE DEF b, p
    <2> QED BY <1>6, <2>1, <2>2, <2>3 DEF storage, Guarded
  <1>18. CASE Unlock(t)
    <2>1. /\ c.pc = "unlock" /\ ctx'[t].pc = "idle"
          /\ ctx' = [ctx EXCEPT ![t] = ctx'[t]]
          /\ UNCHANGED <<config, storage, ctl>>
      BY <1>18, <1>c, <1>x DEF Unlock, Step, Context
    <2>2. /\ ctx'[t].mTraceBuffer = c.mTraceBuffer
          /\ ctx'[t].out = c.out /\ ctx'[t].sess = c.sess
      BY <1>18, <1>c, <1>x DEF Unlock, Step, Context
    <2> QED BY <1>5, <1>t, <2>1, <2>2 DEF storage, Guarded
  <1>19. CASE SaveAtExit(t)
    <2>1. /\ c.pc = "exit" /\ SaveBuffer(c)
          /\ ctx' = [ctx EXCEPT ![t] = [Reset(c) EXCEPT !.pc = "dead"]]
          /\ UNCHANGED <<config, mContexts, hostFile, ctl>>
      BY <1>19 DEF SaveAtExit, Step
    <2>2. /\ Reset(c) \in Context
          /\ Reset(c).mTraceBuffer = <<>>
          /\ Reset(c).out = c.out /\ Reset(c).sess = c.sess
      BY <1>c, <2>1, ResetOK DEF Guarded, Reset, Context
    <2> DEFINE r == Reset(c)
               d == [r EXCEPT !.pc = "dead"]
    <2>3. ctx' = [ctx EXCEPT ![t] = d]
      BY <2>1
    <2> HIDE DEF r
    <2>4. /\ d.mTraceBuffer = <<>> /\ d.out = c.out
          /\ d.sess = c.sess /\ d.pc = "dead"
      BY <2>2 DEF Context, r
    <2> HIDE DEF d
    <2>5. BufferStep(c, ctx'[t])
      BY <1>x, <2>1, <2>3, <2>4 DEF BufferStep, GivenAway
    <2>6. PcStep(t, c, ctx'[t])
      BY <1>x, <2>1, <2>3, <2>4 DEF PcStep, Registered, Guarded
    <2> QED BY <1>x, <2>1, <2>3, <2>5, <2>6
  <1> QED BY <1>1, <1>2, <1>3, <1>4, <1>7, <1>8, <1>9, <1>10, <1>11, <1>12,
             <1>13, <1>14, <1>15, <1>16, <1>17, <1>18, <1>19 DEF InCall

-----------------------------------------------------------------------------
(***************************************************************************)
(* Saves do not tear                                                       *)
(***************************************************************************)

\* The saver takes a buffer only from a thread outside the section that
\* mTracingLock guards, whatever interleaves.
THEOREM SavesDoNotTear == Spec => NoTornSave
  <1>1. ASSUME TypeOK, ContextInv, Next
        PROVE  TakenUnguarded
    <2>1. ASSUME NEW u \in Threads, ctx[u].mTraceBuffer # <<>>,
                 ctx'[u].mTraceBuffer = <<>>
          PROVE  ctx[u].pc \notin Guarded
      <3>0. ctx[u] \in Context /\ ctx \in [Threads -> Context]
        BY <1>1 DEF TypeOK
      <3>1. ASSUME NEW t \in Threads, InCall(t), ~Crashed
            PROVE  ctx[u].pc \notin Guarded
        <4>1. t = u
          BY <2>1, <3>1, <1>1, InCallFrame
        <4>2. BufferStep(ctx[u], ctx'[u])
          BY <3>1, <4>1, <1>1, InCallFrame
        <4>3. ~Kept(ctx[u], ctx'[u]) /\ ~Delayed(ctx[u], ctx'[u])
          BY <2>1 DEF Kept, Delayed
        <4>4. ~Extended(ctx[u], ctx'[u])
          <5>1. ctx[u].mTraceBuffer \in Seq(Packet)
            BY <3>0 DEF Context
          <5> QED BY <2>1, <5>1, AppendFacts DEF Extended
        <4>5. ~Refreshed(ctx[u], ctx'[u])
          BY <2>1 DEF Refreshed
        <4>6. GivenAway(ctx[u], ctx'[u])
          BY <4>2, <4>3, <4>4, <4>5 DEF BufferStep
        <4> QED BY <4>6 DEF GivenAway, Guarded
      <3>2. ASSUME NEW t \in Threads, StartCall(t)
            PROVE  FALSE
        BY <3>2, StartCallFrame, <1>1, <2>1
      <3>3. ASSUME NEW t \in Threads, SaveContext(t)
            PROVE  ctx[u].pc \notin Guarded
        BY <2>1, <3>0, <3>3, <1>1 DEF SaveContext, ContextInv, ContextOK
      <3>4. CASE UNCHANGED ctx
        BY <2>1, <3>4
      <3> QED BY <1>1, <3>1, <3>2, <3>3, <3>4
              DEF Next, InControl, StartControl, LockContexts, OpenHostFile,
                  WriteSavedTrace, SecondPass, CloseHostFile, ResetCounters,
                  FinishEnable, FinishDisable, SetGuestTime, EnableTracing,
                  DisableTracing
    <2> QED BY <2>1 DEF TakenUnguarded
  <1>2. TypeOK /\ ContextInv /\ [Next]_vars => [TakenUnguarded]_vars
    BY <1>1
  <1> QED BY <1>2, TypesAndContexts, PTL DEF Spec, NoTornSave

-----------------------------------------------------------------------------
(***************************************************************************)
(* Sessions do not mix                                                     *)
(***************************************************************************)

\* The initial state satisfies the invariants about sessions.
LEMMA InitSession == Init => ControlInv /\ RegisteredInv /\ SessionInv
  <1> SUFFICES ASSUME Init PROVE ControlInv /\ RegisteredInv /\ SessionInv
    OBVIOUS
  <1>1. \A t \in Threads : /\ ctx[t].pc = "idle"
                           /\ ctx[t].mTraceBuffer = <<>> /\ ctx[t].out = <<>>
    BY DEF Init, NewContext
  <1>2. ctl.call = "none" /\ ctl.step = "none" /\ ctl.session = 0
    BY DEF Init
  <1>3. ControlInv
    BY <1>2 DEF ControlInv, Saving
  <1>4. RegisteredInv
    BY <1>1 DEF RegisteredInv, Guarded
  <1>5. mSavedTraces = <<>> /\ hostFile = <<>>
    BY DEF Init
  <1>6. SessionInv
    BY <1>1, <1>2, <1>5
    DEF SessionInv, CallsInSession, BufferedInSession, FileInSession,
        NothingLeft, OfSession, TracesOfSession
  <1> QED BY <1>3, <1>4, <1>6

\* Every step keeps the control thread where its variables say it is.
LEMMA ControlStep ==
    ASSUME TypeOK, ContextInv, ControlInv, [Next]_vars
    PROVE  ControlInv'
  <1>k. ctl \in Control /\ config \in Config
    BY DEF TypeOK
  <1>1. ASSUME NEW t \in Threads, InCall(t), ~Crashed
        PROVE  ControlInv'
    BY <1>1, InCallFrame DEF ControlInv
  <1>2. ASSUME NEW t \in Threads, StartCall(t)
        PROVE  ControlInv'
    BY <1>2, StartCallFrame DEF ControlInv
  <1>3. ASSUME NEW t \in Threads, SaveContext(t)
        PROVE  ControlInv'
    BY <1>3, <1>k DEF ControlInv, SaveContext, Control
  <1>4. CASE StartControl
    <2>1. ASSUME NEW d \in GuestDiffs, SetGuestTime(d)
          PROVE  ControlInv'
      BY <1>k, <2>1 DEF ControlInv, SetGuestTime, Config
    <2>2. CASE EnableTracing
      BY <1>k, <2>2 DEF ControlInv, EnableTracing, Control, Saving
    <2>3. CASE DisableTracing
      BY <1>k, <2>3 DEF DisableTracing, Config, Control, ControlInv
    <2> QED BY <1>4, <2>1, <2>2, <2>3 DEF StartControl
  <1>5. CASE LockContexts \/ OpenHostFile \/ WriteSavedTrace \/ SecondPass
             \/ CloseHostFile
    BY <1>5, <1>k
    DEF ControlInv, LockContexts, OpenHostFile, WriteSavedTrace, SecondPass,
        CloseHostFile, Control, Saving
  <1>6. CASE ResetCounters
    BY <1>6, <1>k DEF ControlInv, ResetCounters, Control, Config, Saving
  <1>7. CASE FinishEnable \/ FinishDisable
    BY <1>7, <1>k
    DEF ControlInv, FinishEnable, FinishDisable, Control, Config, Saving
  <1>8. CASE UNCHANGED vars
    BY <1>8 DEF ControlInv, vars
  <1> QED BY <1>1, <1>2, <1>3, <1>4, <1>5, <1>6, <1>7, <1>8
          DEF Next, InControl

\* Every step keeps a thread with a buffer registered, or about to save it.
LEMMA RegisteredStep ==
    ASSUME TypeOK, ContextInv, RegisteredInv, [Next]_vars
    PROVE  RegisteredInv'
  <1>1. ASSUME NEW t \in Threads, InCall(t), ~Crashed, NEW u \in Threads
        PROVE  /\ ctx'[u].pc \in {"check", "dec", "lock"} \union Guarded =>
                    u \in mContexts'
               /\ ctx'[u].mTraceBuffer # <<>> =>
                    u \in mContexts' \/ ctx'[u].pc = "exit"
    <2>1. CASE u # t
      BY <1>1, <2>1, InCallFrame DEF RegisteredInv
    <2>2. CASE u = t
      BY <1>1, InCallFrame, <2>2
      DEF PcStep, Registered, RegisteredInv, BufferStep, Kept, Extended,
          Delayed, Refreshed, GivenAway
    <2> QED BY <2>1, <2>2
  <1>2. ASSUME NEW t \in Threads, StartCall(t), NEW u \in Threads
        PROVE  /\ ctx'[u].pc \in {"check", "dec", "lock"} \union Guarded =>
                    u \in mContexts'
               /\ ctx'[u].mTraceBuffer # <<>> =>
                    u \in mContexts' \/ ctx'[u].pc = "exit"
    BY <1>2, StartCallFrame DEF RegisteredInv, Guarded
  <1>3. ASSUME NEW t \in Threads, SaveContext(t), NEW u \in Threads
        PROVE  /\ ctx'[u].pc \in {"check", "dec", "lock"} \union Guarded =>
                    u \in mContexts'
               /\ ctx'[u].mTraceBuffer # <<>> =>
                    u \in mContexts' \/ ctx'[u].pc = "exit"
    BY <1>3 DEF SaveContext, TypeOK, Reset, Context, RegisteredInv
  <1>4. CASE UNCHANGED <<ctx, mContexts>>
    BY <1>4 DEF RegisteredInv
  <1> QED BY <1>1, <1>2, <1>3, <1>4
          DEF Next, InControl, StartControl, LockContexts, OpenHostFile,
              WriteSavedTrace, SecondPass, CloseHostFile, ResetCounters,
              FinishEnable, FinishDisable, SetGuestTime, EnableTracing,
              DisableTracing, vars, storage, RegisteredInv

\* A buffer of one session takes a packet of that session.
LEMMA AppendOfSession ==
    ASSUME NEW s \in Seq(Packet), NEW p, NEW k, p.sess = k, OfSession(s, k)
    PROVE  OfSession(Append(s, p), k)
  <1>1. Len(s) \in Nat
    OBVIOUS
  <1>2. \A i \in 1 .. Len(s) + 1 : i \in 1 .. Len(s) \/ i = Len(s) + 1
    BY <1>1
  <1> QED BY <1>2, AppendFacts DEF OfSession

\* A buffer that is saved joins the others of the session.
LEMMA SaveOfSession ==
    ASSUME NEW c \in Context, NEW k, mSavedTraces \in Seq(SavedTraceInfo),
           TracesOfSession(mSavedTraces, k), OfSession(c.mTraceBuffer, k),
           SaveBuffer(c)
    PROVE  TracesOfSession(mSavedTraces', k)
  <1> DEFINE r == [first |-> c.mFirst, pkts |-> c.mTraceBuffer]
  <1>1. r \in SavedTraceInfo
    BY DEF SavedTraceInfo, Context
  <1>2. OfSession(r.pkts, k)
    OBVIOUS
  <1>3. mSavedTraces' = mSavedTraces \/ mSavedTraces' = Append(mSavedTraces, r)
    BY DEF SaveBuffer
  <1> HIDE DEF r
  <1>4. CASE mSavedTraces' = Append(mSavedTraces, r)
    BY <1>1, <1>4, <1>2 DEF TracesOfSession
  <1>5. CASE mSavedTraces' = mSavedTraces
    BY <1>5 DEF TracesOfSession
  <1> QED BY <1>3, <1>4, <1>5

\* A step of a call keeps the session's packets together.
LEMMA InCallSession ==
    ASSUME TypeOK, ContextInv, ControlInv, SessionInv,
           NEW t \in Threads, ~Crashed, InCall(t)
    PROVE  SessionInv'
  <1> DEFINE c == ctx[t]
             d == ctx'[t]
  <1>1. /\ BufferStep(c, d)
        /\ PcStep(t, c, d)
        /\ \A u \in Threads \ {t} : ctx'[u] = ctx[u]
        /\ config'.tracingDisabled = config.tracingDisabled
        /\ UNCHANGED <<hostFile, ctl>>
    BY InCallFrame
  <1>2. /\ c \in Context /\ ContextOK(c)
        /\ mSavedTraces \in Seq(SavedTraceInfo)
    BY DEF TypeOK, ContextInv
  <1>3. /\ CallsInSession /\ BufferedInSession /\ FileInSession /\ NothingLeft
    BY DEF SessionInv
  <1>4. /\ c.pc \notin {"idle", "dead"} /\ ctl.call = "none"
        /\ ctl.step = "none" /\ ~config.tracingDisabled
    BY <1>1, <1>3 DEF PcStep, CallsInSession, ControlInv
  <1>5. /\ OfSession(c.mTraceBuffer, ctl.session)
        /\ OfSession(c.out, ctl.session)
        /\ TracesOfSession(mSavedTraces, ctl.session)
        /\ c.pc # "exit" => c.sess = ctl.session
        /\ c.pc = "dec" => c.seenDepth = c.mStackDepth
        /\ c.mTraceBuffer \in Seq(Packet)
    BY <1>2, <1>3, <1>4 DEF CallsInSession, BufferedInSession, Context
  <1>6. /\ d.pc \notin {"idle", "dead", "exit"} => d.sess = ctl.session
        /\ d.pc = "dec" => d.seenDepth = d.mStackDepth
        /\ d.pc # "oob"
    BY <1>1, <1>2, <1>5 DEF PcStep, ContextOK
  <1>7. CallsInSession'
    BY <1>1, <1>3, <1>4, <1>6 DEF CallsInSession
  <1>8. /\ OfSession(d.mTraceBuffer, ctl.session)
        /\ OfSession(d.out, ctl.session)
        /\ TracesOfSession(mSavedTraces', ctl.session)
    <2> HIDE DEF c, d
    <2>1. CASE Kept(c, d)
      BY <1>5, <2>1 DEF Kept
    <2>2. CASE Extended(c, d)
      <3>1. /\ c.sess = ctl.session /\ d.out = c.out
            /\ mSavedTraces' = mSavedTraces
        BY <1>5, <2>2 DEF Extended, Guarded
      <3>2. PICK p : p.sess = c.sess /\ d.mTraceBuffer = Append(c.mTraceBuffer, p)
        BY <2>2 DEF Extended
      <3> QED BY <1>5, <3>1, <3>2, AppendOfSession
    <2>3. CASE Delayed(c, d)
      <3>1. /\ c.sess = ctl.session /\ d.mTraceBuffer = c.mTraceBuffer
            /\ mSavedTraces' = mSavedTraces
        BY <1>5, <2>3 DEF Delayed, Guarded
      <3>2. PICK p : p.sess = c.sess /\ d.out = <<p>>
        BY <2>3 DEF Delayed
      <3>3. OfSession(d.out, ctl.session)
        BY <3>1, <3>2 DEF OfSession
      <3> QED BY <1>5, <3>1, <3>3
    <2>4. CASE Refreshed(c, d)
      BY <1>2, <1>5, <2>4, SaveOfSession DEF Refreshed, OfSession
    <2>5. CASE GivenAway(c, d)
      BY <1>2, <1>5, <2>5, SaveOfSession DEF GivenAway, OfSession
    <2> QED BY <1>1, <2>1, <2>2, <2>3, <2>4, <2>5 DEF BufferStep
  <1>9. BufferedInSession'
    BY <1>1, <1>3, <1>8 DEF BufferedInSession
  <1>10. FileInSession' /\ NothingLeft'
    BY <1>1, <1>3, <1>4 DEF FileInSession, NothingLeft
  <1> QED BY <1>7, <1>9, <1>10 DEF SessionInv

\* A call starts only while tracing is on, and a thread that exits while it
\* is off has no buffer to save.
LEMMA StartCallSession ==
    ASSUME Quiesced, TypeOK, ControlInv, SessionInv,
           NEW t \in Threads, StartCall(t)
    PROVE  SessionInv'
  <1>1. /\ CallsInSession /\ BufferedInSession /\ FileInSession /\ NothingLeft
    BY DEF SessionInv
  <1>2. /\ ctl.call = "none" /\ ctl.step = "none" /\ ctx[t].pc = "idle"
        /\ UNCHANGED <<config, mSavedTraces, hostFile, ctl>>
        /\ \A u \in Threads : /\ ctx'[u].mTraceBuffer = ctx[u].mTraceBuffer
                              /\ ctx'[u].out = ctx[u].out
        /\ \A u \in Threads \ {t} : ctx'[u] = ctx[u]
    BY StartCallFrame DEF ControlInv
  <1>3. /\ ctx'[t].pc \notin {"oob", "dec"}
        /\ ctx'[t].pc \notin {"idle", "dead"} => ~config.tracingDisabled
        /\ ctx'[t].pc \notin {"idle", "dead", "exit"} =>
              ctx'[t].sess = ctl.session
    BY <1>1, <1>2, StartCallFrame DEF NothingLeft, Saving
  <1>4. CallsInSession'
    BY <1>1, <1>2, <1>3 DEF CallsInSession
  <1>5. BufferedInSession'
    BY <1>1, <1>2 DEF BufferedInSession
  <1>6. FileInSession' /\ NothingLeft'
    BY <1>1, <1>2 DEF FileInSession, NothingLeft
  <1> QED BY <1>4, <1>5, <1>6 DEF SessionInv

\* The control thread saves a context: its buffer moves to the storage.
LEMMA SaveContextSession ==
    ASSUME TypeOK, ContextInv, ControlInv, SessionInv,
           NEW t \in Threads, SaveContext(t)
    PROVE  SessionInv'
  <1> DEFINE c == ctx[t]
             r == Reset(c)
  <1>1. /\ CallsInSession /\ BufferedInSession /\ FileInSession /\ NothingLeft
    BY DEF SessionInv
  <1>2. /\ ctx \in [Threads -> Context] /\ c \in Context /\ ctl \in Control
        /\ mSavedTraces \in Seq(SavedTraceInfo)
    BY DEF TypeOK
  <1>3. /\ ctl.step = "save" /\ t \in ctl.todo /\ SaveBuffer(c)
        /\ ctx' = [ctx EXCEPT ![t] = r]
        /\ ctl' = [ctl EXCEPT !.todo = @ \ {t}]
        /\ UNCHANGED <<config, hostFile>>
    BY DEF SaveContext
  <1>4. /\ r.mTraceBuffer = <<>> /\ r.out = c.out /\ r.pc = c.pc
    BY <1>2 DEF Reset, Context
  <1>5. /\ ctl'.step = ctl.step /\ ctl'.call = ctl.call
        /\ ctl'.session = ctl.session /\ ctl'.todo = ctl.todo \ {t}
    BY <1>2, <1>3 DEF Control
  <1>6. c.pc \in {"idle", "dead"}
    BY <1>1, <1>3 DEF CallsInSession, ControlInv
  <1> HIDE DEF r
  <1>7. /\ ctx'[t] = r
        /\ \A u \in Threads \ {t} : ctx'[u] = ctx[u]
    BY <1>2, <1>3
  <1>8. CallsInSession'
    BY <1>1, <1>3, <1>4, <1>5, <1>6, <1>7 DEF CallsInSession
  <1>9. TracesOfSession(mSavedTraces', ctl.session)
    BY <1>1, <1>2, <1>3, SaveOfSession DEF BufferedInSession
  <1>10. OfSession(r.mTraceBuffer, ctl.session) /\ OfSession(r.out, ctl.session)
    BY <1>1, <1>4 DEF BufferedInSession, OfSession
  <1>11. BufferedInSession'
    BY <1>1, <1>5, <1>7, <1>9, <1>10 DEF BufferedInSession
  <1>12. FileInSession' /\ NothingLeft'
    BY <1>1, <1>3, <1>4, <1>5, <1>7 DEF FileInSession, NothingLeft, Saving
  <1> QED BY <1>8, <1>11, <1>12 DEF SessionInv

\* What stays of the invariant while the contexts, the storage and the
\* session do.
LEMMA SessionFrame ==
    ASSUME TypeOK, SessionInv, UNCHANGED <<ctx, mSavedTraces>>,
           ctl'.session = ctl.session
    PROVE  /\ BufferedInSession'
           /\ (\A t \in Threads : ctx[t].pc \in {"idle", "dead"}) =>
                 CallsInSession'
           /\ UNCHANGED hostFile =>
                 \E k \in 0 .. ctl'.session : TracesOfSession(hostFile', k)
  BY DEF SessionInv, BufferedInSession, CallsInSession, FileInSession

\* The steps of the control thread keep sessions apart.
LEMMA ControlSession ==
    ASSUME Quiesced, TypeOK, ContextInv, ControlInv, RegisteredInv, SessionInv,
           InControl \/ StartControl
    PROVE  SessionInv'
  <1>1. /\ CallsInSession /\ BufferedInSession /\ FileInSession /\ NothingLeft
    BY DEF SessionInv
  <1>2. /\ ctx \in [Threads -> Context] /\ ctl \in Control /\ config \in Config
        /\ mSavedTraces \in Seq(SavedTraceInfo)
        /\ hostFile \in Seq(SavedTraceInfo)
    BY DEF TypeOK
  <1>3. ctl.call # "none" =>
          /\ config.tracingDisabled
          /\ \A t \in Threads : ctx[t].pc \in {"idle", "dead"}
    BY <1>1 DEF ControlInv, CallsInSession
  <1>4. ctl.step # "none" => ctl.call # "none"
    BY DEF ControlInv
  <1>5. CASE \E d \in GuestDiffs : SetGuestTime(d)
    BY <1>2, <1>5, <1>1
    DEF SetGuestTime, Config, SessionInv, CallsInSession, BufferedInSession,
        FileInSession, NothingLeft, storage
  <1>6. CASE EnableTracing
    <2>1. /\ UNCHANGED <<config, ctx, storage>>
          /\ ctl'.step = "packets" /\ ctl'.session = ctl.session
          /\ config.tracingDisabled /\ ctl.call = "none" /\ Quiet
      BY <1>2, <1>6 DEF EnableTracing, Control
    <2>2. CallsInSession' /\ BufferedInSession'
      BY <2>1, SessionFrame DEF storage, Quiet
    <2>3. ctl.step = "none"
      BY <2>1 DEF ControlInv
    <2>4. FileInSession' /\ NothingLeft'
      BY <1>1, <2>1, <2>3 DEF FileInSession, NothingLeft, Saving, storage
    <2> QED BY <2>2, <2>4 DEF SessionInv
  <1>7. CASE DisableTracing
    <2>1. /\ UNCHANGED <<ctx, storage>>
          /\ ctl'.step \in {"packets", "lock"} /\ ctl'.session = ctl.session
          /\ ctl'.step = "packets" => config.tracingDisabled
          /\ ctl.call = "none" /\ Quiet
      BY <1>2, <1>7 DEF DisableTracing, Control
    <2>2. CallsInSession' /\ BufferedInSession'
      BY <2>1, SessionFrame DEF storage, Quiet
    <2>3. ctl.step = "none"
      BY <2>1 DEF ControlInv
    <2>4. FileInSession' /\ NothingLeft'
      BY <1>1, <2>1, <2>3 DEF FileInSession, NothingLeft, Saving, storage
    <2> QED BY <2>2, <2>4 DEF SessionInv
  <1>8. CASE LockContexts
    <2>1. /\ UNCHANGED <<config, ctx, mSavedTraces, hostFile>>
          /\ ctl'.step = "save" /\ ctl'.session = ctl.session
          /\ ctl'.todo = mContexts /\ ctl.step = "lock"
      BY <1>2, <1>8 DEF LockContexts, Control
    <2>2. CallsInSession' /\ BufferedInSession'
      BY <1>3, <1>4, <2>1, SessionFrame
    <2>3. \A t \in Threads \ mContexts : ctx[t].mTraceBuffer = <<>>
      BY <1>3, <1>4, <2>1 DEF RegisteredInv
    <2>4. FileInSession' /\ NothingLeft'
      BY <1>1, <2>1, <2>3 DEF FileInSession, NothingLeft, Saving
    <2> QED BY <2>2, <2>4 DEF SessionInv
  <1>9. CASE OpenHostFile
    <2>1. /\ UNCHANGED <<config, ctx, mSavedTraces>> /\ hostFile' = <<>>
          /\ ctl'.step = "firstPass" /\ ctl'.session = ctl.session
          /\ ctl.step = "save" /\ ctl.todo = {} /\ ctl.session \in Nat
      BY <1>2, <1>9 DEF OpenHostFile, Control
    <2>2. CallsInSession' /\ BufferedInSession'
      BY <1>3, <1>4, <2>1, SessionFrame
    <2>3. FileInSession'
      BY <2>1 DEF FileInSession, TracesOfSession
    <2>4. NothingLeft'
      BY <1>1, <2>1 DEF NothingLeft, Saving
    <2> QED BY <2>2, <2>3, <2>4 DEF SessionInv
  <1>10. CASE WriteSavedTrace
    <2> DEFINE trace == mSavedTraces[ctl.idx]
    <2>1. /\ UNCHANGED <<config, ctx, mSavedTraces>>
          /\ hostFile' = hostFile \/ hostFile' = Append(hostFile, trace)
          /\ ctl'.step = ctl.step /\ ctl'.session = ctl.session
          /\ ctl.step \in {"firstPass", "restPass"} /\ ctl.session \in Nat
          /\ ctl.idx \in 1 .. Len(mSavedTraces)
      BY <1>2, <1>10 DEF WriteSavedTrace, Control
    <2>2. CallsInSession' /\ BufferedInSession'
      BY <1>3, <1>4, <2>1, SessionFrame
    <2>3. trace \in SavedTraceInfo /\ OfSession(trace.pkts, ctl.session)
      BY <1>1, <1>2, <2>1 DEF BufferedInSession, TracesOfSession
    <2>4. TracesOfSession(hostFile, ctl.session)
      BY <1>1, <2>1 DEF FileInSession
    <2> HIDE DEF trace
    <2>5. TracesOfSession(hostFile', ctl.session)
      <3>1. CASE hostFile' = Append(hostFile, trace)
        BY <1>2, <2>3, <3>1, <2>4 DEF TracesOfSession
      <3> QED BY <2>1, <2>4, <3>1
    <2>6. FileInSession' /\ NothingLeft'
      BY <1>1, <2>1, <2>5 DEF FileInSession, NothingLeft, Saving
    <2> QED BY <2>2, <2>6 DEF SessionInv
  <1>11. CASE SecondPass
    BY <1>2, <1>11, <1>3, <1>4, SessionFrame, <1>1
    DEF SecondPass, Control, storage, FileInSession, NothingLeft, Saving,
        SessionInv
  <1>12. CASE CloseHostFile
    BY <1>2, <1>12, <1>1, <1>3, <1>4
    DEF CloseHostFile, Control, CallsInSession, FileInSession, NothingLeft,
        Saving, BufferedInSession, TracesOfSession, SessionInv
  <1>13. CASE ResetCounters
    BY <1>2, <1>13, <1>3, <1>4, SessionFrame, <1>1
    DEF ResetCounters, Control, Config, storage, FileInSession, NothingLeft,
        Saving, SessionInv
  <1>14. CASE FinishEnable
    <2>1. /\ UNCHANGED <<ctx, storage>> /\ ctl'.session = ctl.session + 1
          /\ ~config'.tracingDisabled /\ ctl.session \in Nat
          /\ ctl.call = "enable" /\ ctl.step = "last" /\ ctl'.step = "none"
      BY <1>2, <1>14 DEF FinishEnable, Control, Config
    <2>2. /\ mSavedTraces = <<>>
          /\ \A t \in Threads : /\ ctx[t].mTraceBuffer = <<>>
                                /\ ctx[t].out = <<>>
                                /\ ctx[t].pc \in {"idle", "dead"}
      BY <1>1, <1>3, <2>1
      DEF NothingLeft, Saving, ContextInv, ContextOK, Guarded
    <2>3. CallsInSession' /\ NothingLeft'
      BY <2>1, <2>2 DEF CallsInSession, NothingLeft
    <2>4. BufferedInSession'
      BY <2>1, <2>2 DEF BufferedInSession, OfSession, TracesOfSession, storage
    <2>5. FileInSession'
      <3>1. PICK k \in 0 .. ctl.session : TracesOfSession(hostFile, k)
        BY <1>1 DEF FileInSession
      <3>2. k \in 0 .. ctl'.session
        BY <2>1
      <3> QED BY <2>1, <3>1, <3>2 DEF FileInSession, storage
    <2> QED BY <2>3, <2>4, <2>5 DEF SessionInv
  <1>15. CASE FinishDisable
    BY <1>2, <1>15, <1>3, <1>4, SessionFrame, <1>1
    DEF FinishDisable, Control, Config, storage, FileInSession, NothingLeft,
        Saving, SessionInv
  <1> QED BY <1>5, <1>6, <1>7, <1>8, <1>9, <1>10, <1>11, <1>12, <1>13, <1>14,
             <1>15, SaveContextSession DEF InControl, StartControl

\* Every step keeps sessions apart.
LEMMA SessionStep ==
    ASSUME Quiesced, TypeOK, ContextInv, ControlInv, RegisteredInv, SessionInv,
           [Next]_vars
    PROVE  SessionInv'
  <1>1. CASE UNCHANGED vars
    BY <1>1
    DEF SessionInv, CallsInSession, BufferedInSession, FileInSession,
        NothingLeft, vars, storage
  <1>2. CASE Next
    BY <1>2, InCallSession, StartCallSession, ControlSession DEF Next
  <1> QED BY <1>1, <1>2

\* If the client starts and stops tracing only while no tracing call and no
\* thread exit is in progress, everything buffered belongs to the current
\* session and disableTracing leaves nothing over for the next one.
THEOREM SessionsKept ==
    Quiesced => (Spec => [](TypeOK /\ SessionInv))
  <1> SUFFICES ASSUME Quiesced PROVE Spec => [](TypeOK /\ SessionInv)
    OBVIOUS
  <1> DEFINE Inv == TypeOK /\ ContextInv /\ ControlInv /\ RegisteredInv
                    /\ SessionInv
  <1>1. Init => Inv
    BY InitOK, InitSession
  <1>2. TypeOK /\ ContextInv /\ [Next]_vars => TypeOK' /\ ContextInv'
    BY InCallOK, StartCallOK, ControlOK, StutterOK DEF Next
  <1>3. Inv /\ [Next]_vars => Inv'
    BY <1>2, ControlStep, RegisteredStep, SessionStep
  <1>4. Inv => TypeOK /\ SessionInv
    OBVIOUS
  <1> HIDE DEF Inv
  <1> QED BY <1>1, <1>3, <1>4, PTL DEF Spec

\* No host file mixes packets of two sessions.
THEOREM SessionsIsolated == Quiesced => (Spec => []SessionIsolation)
  <1> SUFFICES ASSUME Quiesced PROVE Spec => []SessionIsolation
    OBVIOUS
  <1>1. ASSUME TypeOK, SessionInv
        PROVE  SessionIsolation
    <2>1. PICK k \in 0 .. ctl.session : TracesOfSession(hostFile, k)
      BY <1>1 DEF SessionInv, FileInSession
    <2>2. ASSUME NEW p \in Packets(hostFile)
          PROVE  p.sess = k
      <3>1. PICK q \in Places(hostFile) : p = At(hostFile, q)
        BY <2>2 DEF Packets
      <3>2. /\ q \in (1 .. Len(hostFile)) \X (1 .. BufCapacity)
            /\ q[2] <= Len(hostFile[q[1]].pkts)
        BY <3>1 DEF Places
      <3>3. q[1] \in 1 .. Len(hostFile) /\ q[2] \in 1 .. BufCapacity
        BY <3>2
      <3>4. hostFile[q[1]].pkts \in Seq(Packet)
        <4>1. hostFile \in Seq(SavedTraceInfo)
          BY <1>1 DEF TypeOK
        <4>2. hostFile[q[1]] \in SavedTraceInfo
          BY <3>3, <4>1
        <4> QED BY <4>2 DEF SavedTraceInfo
      <3>5. q[2] \in 1 .. Len(hostFile[q[1]].pkts)
        BY <3>2, <3>3, <3>4, ConstantsAssumption
      <3>6. OfSession(hostFile[q[1]].pkts, k)
        BY <2>1, <3>3 DEF TracesOfSession
      <3> QED BY <3>1, <3>5, <3>6 DEF At, OfSession
    <2> QED BY <2>2 DEF SessionIsolation
  <1>2. TypeOK /\ SessionInv => SessionIsolation
    BY <1>1
  <1> QED BY <1>2, SessionsKept, PTL

-----------------------------------------------------------------------------
(***************************************************************************)
(* What a step of a call writes                                            *)
(***************************************************************************)

\* Between c and d a thread wrote packet p: to its buffer while there is
\* room, else it waits for the next buffer.
Added(c, d, p) ==
    /\ c.out = <<>>
    /\ d.emitted = c.emitted + 1
    /\ \/ /\ Len(c.mTraceBuffer) < BufCapacity
          /\ d.mTraceBuffer = Append(c.mTraceBuffer, p)
          /\ d.out = <<>>
       \/ /\ ~(Len(c.mTraceBuffer) < BufCapacity)
          /\ d.mTraceBuffer = c.mTraceBuffer
          /\ d.out = <<p>>

\* The track ids a thread holds stay.
SameTracks(c, d) ==
    /\ d.mThreadId = c.mThreadId
    /\ d.mCounterUuids = c.mCounterUuids
    /\ d.mCurrentCounterId = c.mCurrentCounterId

\* The track packet p refers to: none, or one the thread holds; its own
\* track, just drawn; or a new counter's.
OnTrack(c, d, p) ==
    \/ /\ SameTracks(c, d)
       /\ config'.currentThreadId = config.currentThreadId
       /\ p.kind # "counterTrack"
       /\ \/ p.uuid = NoUuid
          \/ p.uuid = <<0, c.mThreadId>>
          \/ c.arg \in Names /\ p.uuid = c.mCounterUuids[c.arg]
    \/ /\ c.mThreadId = 0
       /\ d.mThreadId = config.currentThreadId + 1
       /\ config'.currentThreadId = d.mThreadId
       /\ d.mCounterUuids = c.mCounterUuids
       /\ d.mCurrentCounterId = c.mCurrentCounterId
       /\ p.kind = "track"
       /\ p.uuid = <<0, d.mThreadId>>
    \/ /\ c.pc = "counter"
       /\ c.arg \in Names
       /\ c.mCounterUuids[c.arg] = NoUuid
       /\ config'.currentThreadId = config.currentThreadId
       /\ d.mThreadId = c.mThreadId
       /\ d.mCounterUuids = [c.mCounterUuids EXCEPT ![c.arg] = p.uuid]
       /\ d.mCurrentCounterId = c.mCurrentCounterId + 1
       /\ p.kind = "counterTrack"
       /\ p.uuid = <<c.mCurrentCounterId, c.mThreadId>>
       /\ p.name = c.arg

\* A step of thread t that writes packet p.
Emits(t, c, d, p) ==
    /\ c.pc \in Guarded
    /\ Added(c, d, p)
    /\ p \in Packet
    /\ p.by = t
    /\ p.n = c.emitted + 1
    /\ p.kind \in EventKinds => p.diff = config.guestTimeDiff
    /\ p.kind = "seq" <=> c.pc = "first"
    /\ d.mFirst <=> (c.mFirst \/ c.pc = "first")
    /\ OnTrack(c, d, p)
    /\ UNCHANGED mSavedTraces

\* A step that writes nothing.
Silent(c, d) ==
    /\ c.pc # "first"
    /\ d.mTraceBuffer = c.mTraceBuffer
    /\ d.out = c.out
    /\ d.emitted = c.emitted
    /\ d.mFirst = c.mFirst
    /\ SameTracks(c, d)
    /\ config'.currentThreadId = config.currentThreadId
    /\ UNCHANGED mSavedTraces

\* A step that hands the buffer over, and goes on with the waiting packet.
HandsOver(c, d) ==
    /\ c.out # <<>>
    /\ SaveBuffer(c)
    /\ d.mTraceBuffer = c.out
    /\ d.out = <<>>
    /\ d.emitted = c.emitted
    /\ ~d.mFirst
    /\ SameTracks(c, d)
    /\ config'.currentThreadId = config.currentThreadId

\* A step that gives the buffer away for good.
GivesUp(c, d) ==
    /\ c.pc = "exit"
    /\ d.pc = "dead"
    /\ SaveBuffer(c)
    /\ d.mTraceBuffer = <<>>
    /\ d.out = c.out
    /\ d.emitted = c.emitted
    /\ ~d.mFirst
    /\ d.mThreadId = 0
    /\ d.mCounterUuids = [n \in Names |-> NoUuid]
    /\ config'.currentThreadId = config.currentThreadId

\* Where a step of a call leads, and what it does to the two variables that
\* elect the thread that writes the first packet.
Leads(c, d) ==
    /\ config'.guestTimeDiff = config.guestTimeDiff
    /\ d.pc \in {"name", "nameAdd", "counter"} =>
          c.pc \in {"name", "nameAdd", "counter"} \/ d.mThreadId # 0
    /\ \/ /\ c.out # <<>>
          /\ d.pc = c.pc
          /\ d.mStackDepth = c.mStackDepth
          /\ UNCHANGED config
       \/ /\ c.pc = "construct"
          /\ d.pc = "check"
          /\ d.mStackDepth = c.mStackDepth
          /\ UNCHANGED config
       \/ /\ c.pc = "check"
          /\ d.pc \in {"idle", "lock", "dec"}
          /\ d.pc = "lock" => d.op # "end"
          /\ d.pc = "dec" => c.mStackDepth # 0
          /\ d.mStackDepth = c.mStackDepth
          /\ UNCHANGED config
       \/ /\ c.pc = "lock"
          /\ c.op # "end"
          /\ d.pc = IF config.packetsWritten = 0 THEN "first" ELSE "await"
          /\ d.mStackDepth = c.mStackDepth
          /\ config'.packetsWritten = config.packetsWritten + 1
          /\ config'.sequenceIdWritten = config.sequenceIdWritten
       \/ /\ c.pc = "first"
          /\ d.pc = "category"
          /\ config'.packetsWritten = config.packetsWritten
          /\ config'.sequenceIdWritten
       \/ /\ c.pc = "await"
          /\ d.pc = "category"
          /\ config.sequenceIdWritten
          /\ UNCHANGED config
       \/ /\ \/ c.pc = "lock" /\ c.op = "end"
             \/ c.pc \in {"dec", "exit"} \union (Guarded \ {"first", "await"})
          /\ d.pc \notin {"first", "await", "construct", "check"}
          /\ config'.packetsWritten = config.packetsWritten
          /\ config'.sequenceIdWritten = config.sequenceIdWritten

\* The fields of a context that a write leaves alone.
LEMMA WrittenFields ==
    ASSUME NEW c \in Context, NEW p
    PROVE  LET d == Written(c, p)
           IN  /\ c.out = <<>> => Added(c, d, p)
               /\ d.pc = c.pc /\ d.op = c.op
               /\ d.mFirst = c.mFirst
               /\ d.mStackDepth = c.mStackDepth
               /\ SameTracks(c, d)
  <1> DEFINE a == [c EXCEPT !.emitted = @ + 1, !.mTraceBuffer = Append(@, p)]
             b == [c EXCEPT !.emitted = @ + 1, !.out = <<p>>]
  <1>1. /\ a.pc = c.pc /\ a.op = c.op /\ a.mFirst = c.mFirst
        /\ a.mStackDepth = c.mStackDepth
        /\ a.out = c.out /\ a.emitted = c.emitted + 1
        /\ a.mTraceBuffer = Append(c.mTraceBuffer, p)
        /\ SameTracks(c, a)
    BY DEF Context, SameTracks
  <1>2. /\ b.pc = c.pc /\ b.op = c.op /\ b.mFirst = c.mFirst
        /\ b.mStackDepth = c.mStackDepth
        /\ b.out = <<p>> /\ b.emitted = c.emitted + 1
        /\ b.mTraceBuffer = c.mTraceBuffer
        /\ SameTracks(c, b)
    BY DEF Context, SameTracks
  <1>3. Written(c, p) = IF Len(c.mTraceBuffer) < BufCapacity THEN a ELSE b
    BY DEF Written
  <1> HIDE DEF a, b
  <1> QED BY <1>1, <1>2, <1>3 DEF Added

\* The fields of the packet a thread writes.
LEMMA PacketFields ==
    ASSUME NEW t, NEW kind, NEW uuid, NEW cat, NEW iid, NEW name
    PROVE  LET p == PacketOf(t, kind, uuid, cat, iid, name)
           IN  /\ p.by = t /\ p.n = ctx[t].emitted + 1
               /\ p.kind = kind /\ p.uuid = uuid /\ p.name = name
               /\ kind \in EventKinds => p.diff = config.guestTimeDiff
  BY DEF PacketOf

\* Every step of a call writes a packet, or nothing, or hands a buffer over.
LEMMA CallFrame ==
    ASSUME TypeOK, ContextInv, NEW t \in Threads, ~Crashed, InCall(t)
    PROVE  /\ \/ \E p : Emits(t, ctx[t], ctx'[t], p)
              \/ Silent(ctx[t], ctx'[t])
              \/ HandsOver(ctx[t], ctx'[t])
              \/ GivesUp(ctx[t], ctx'[t])
           /\ Leads(ctx[t], ctx'[t])
  <1> DEFINE c == ctx[t]
             d == ctx'[t]
             Goal == /\ \/ \E p : Emits(t, c, d, p)
                        \/ Silent(c, d)
                        \/ HandsOver(c, d)
                        \/ GivesUp(c, d)
                     /\ Leads(c, d)
  <1> SUFFICES Goal
    OBVIOUS
  <1>c. c \in Context /\ ContextOK(c) /\ c.pc # "oob" /\ config \in Config
    BY DEF TypeOK, ContextInv, Crashed
  <1>x. ctx \in [Threads -> Context]
    BY DEF TypeOK
  <1>t. ctx' \in [Threads -> Context]
    BY InCallOK DEF TypeOK
  <1>1. CASE FinishAndRefresh(t)
    <2>1. /\ c.out # <<>> /\ SaveBuffer(c) /\ UNCHANGED config
          /\ ctx' = [ctx EXCEPT ![t].mFirst = FALSE, ![t].mTraceBuffer = c.out,
                                ![t].out = <<>>]
      BY <1>1 DEF FinishAndRefresh
    <2>2. /\ d.mTraceBuffer = c.out /\ d.out = <<>> /\ d.emitted = c.emitted
          /\ ~d.mFirst /\ SameTracks(c, d) /\ d.pc = c.pc
          /\ d.mStackDepth = c.mStackDepth
      BY <1>c, <1>x, <2>1 DEF Context, SameTracks
    <2>3. HandsOver(c, d)
      BY <2>1, <2>2 DEF HandsOver
    <2>4. Leads(c, d)
      BY <2>1, <2>2 DEF Leads
    <2> QED BY <2>3, <2>4
  <1>2. ASSUME NEW from, Step(t, from, d), d \in Context, from # "first",
               d.mTraceBuffer = c.mTraceBuffer, d.emitted = c.emitted,
               d.out = c.out, d.mFirst = c.mFirst, SameTracks(c, d),
               config'.currentThreadId = config.currentThreadId,
               UNCHANGED mSavedTraces
        PROVE  Silent(c, d)
    BY <1>2 DEF Step, Silent
  <1>3. CASE Construct(t)
    <2>1. /\ c.pc = "construct" /\ d = [c EXCEPT !.pc = "check"]
          /\ UNCHANGED <<config, mSavedTraces>>
      BY <1>3, <1>x DEF Construct, Step
    <2>2. /\ d.pc = "check" /\ d.mTraceBuffer = c.mTraceBuffer
          /\ d.emitted = c.emitted /\ d.out = c.out /\ d.mFirst = c.mFirst
          /\ SameTracks(c, d) /\ d.mStackDepth = c.mStackDepth
      <3> HIDE DEF c
      <3> QED BY <1>c, <2>1 DEF Context, SameTracks
    <2> QED BY <2>1, <2>2 DEF Silent, Leads
  <1>4. CASE Check(t)
    <2>1. /\ c.pc = "check" /\ UNCHANGED <<config, storage, ctl>>
          /\ d = IF Rejected(c) THEN [c EXCEPT !.pc = "idle"]
                 ELSE IF c.op = "end"
                      THEN [c EXCEPT !.pc = "dec",
                                     !.seenDepth = c.mStackDepth]
                      ELSE [c EXCEPT !.pc = "lock"]
      BY <1>4, <1>x DEF Check, Step
    <2>2. ~Rejected(c) /\ c.op = "end" => c.mStackDepth # 0
      BY DEF Rejected
    <2>3. /\ d.pc \in {"idle", "lock", "dec"} /\ d.mTraceBuffer = c.mTraceBuffer
          /\ d.emitted = c.emitted /\ d.out = c.out /\ d.mFirst = c.mFirst
          /\ SameTracks(c, d) /\ d.mStackDepth = c.mStackDepth
          /\ d.pc = "lock" => d.op # "end"
          /\ d.pc = "dec" => c.mStackDepth # 0
      <3> DEFINE i == [c EXCEPT !.pc = "idle"]
                 e == [c EXCEPT !.pc = "dec", !.seenDepth = c.mStackDepth]
                 l == [c EXCEPT !.pc = "lock"]
      <3>1. d = i \/ (d = e /\ c.mStackDepth # 0) \/ (d = l /\ c.op # "end")
        BY <2>1, <2>2
      <3> HIDE DEF c, d
      <3>2. /\ i.pc = "idle" /\ i.mTraceBuffer = c.mTraceBuffer
            /\ i.emitted = c.emitted /\ i.out = c.out /\ i.mFirst = c.mFirst
            /\ SameTracks(c, i) /\ i.mStackDepth = c.mStackDepth
        BY <1>c DEF Context, SameTracks
      <3>3. /\ e.pc = "dec" /\ e.mTraceBuffer = c.mTraceBuffer
            /\ e.emitted = c.emitted /\ e.out = c.out /\ e.mFirst = c.mFirst
            /\ SameTracks(c, e) /\ e.mStackDepth = c.mStackDepth
        BY <1>c DEF Context, SameTracks
      <3>4. /\ l.pc = "lock" /\ l.mTraceBuffer = c.mTraceBuffer
            /\ l.emitted = c.emitted /\ l.out = c.out /\ l.mFirst = c.mFirst
            /\ SameTracks(c, l) /\ l.mStackDepth = c.mStackDepth
            /\ l.op = c.op
        BY <1>c DEF Context, SameTracks
      <3> HIDE DEF i, e, l
      <3> QED BY <3>1, <3>2, <3>3, <3>4
    <2> QED BY <2>1, <2>3 DEF Silent, Leads, storage
  <1>5. CASE DecrementDepth(t)
    <2>1. /\ c.pc = "dec" /\ UNCHANGED <<config, storage, ctl>>
          /\ \E e \in {c.seenDepth, c.mStackDepth} :
                d = [c EXCEPT !.pc = IF e = 0 THEN "oob" ELSE "lock",
                              !.mStackDepth = e - 1]
      BY <1>5, <1>x DEF DecrementDepth, Step
    <2>2. /\ d.pc \in {"oob", "lock"} /\ d.mTraceBuffer = c.mTraceBuffer
          /\ d.emitted = c.emitted /\ d.out = c.out /\ d.mFirst = c.mFirst
          /\ SameTracks(c, d)
      <3> HIDE DEF c, d
      <3> QED BY <1>c, <2>1 DEF Context, SameTracks
    <2> QED BY <2>1, <2>2 DEF Silent, Leads, storage
  <1>6. CASE LockEnd(t)
    <2>1. /\ c.pc = "lock" /\ c.op = "end" /\ UNCHANGED <<config, storage, ctl>>
          /\ d = [c EXCEPT !.pc = "event", !.mTracingLock = TRUE]
      BY <1>6, <1>x DEF LockEnd, Step
    <2>2. /\ d.pc = "event" /\ d.mTraceBuffer = c.mTraceBuffer
          /\ d.emitted = c.emitted /\ d.out = c.out /\ d.mFirst = c.mFirst
          /\ SameTracks(c, d)
      <3> HIDE DEF c, d
      <3> QED BY <1>c, <2>1 DEF Context, SameTracks
    <2> QED BY <2>1, <2>2 DEF Silent, Leads, storage
  <1>7. CASE LockAndCount(t)
    <2> DEFINE npc == IF config.packetsWritten = 0 THEN "first" ELSE "await"
    <2>1. /\ c.pc = "lock" /\ c.op # "end" /\ UNCHANGED <<storage, ctl>>
          /\ config' = [config EXCEPT !.packetsWritten = @ + 1]
          /\ d = [c EXCEPT !.pc = npc, !.mTracingLock = TRUE]
      BY <1>7, <1>x DEF LockAndCount, Step
    <2>2. /\ d.pc = npc /\ d.mTraceBuffer = c.mTraceBuffer
          /\ d.emitted = c.emitted /\ d.out = c.out /\ d.mFirst = c.mFirst
          /\ SameTracks(c, d) /\ d.mStackDepth = c.mStackDepth
      <3> HIDE DEF c, d, npc
      <3> QED BY <1>c, <2>1 DEF Context, SameTracks
    <2>3. /\ config'.packetsWritten = config.packetsWritten + 1
          /\ config'.sequenceIdWritten = config.sequenceIdWritten
          /\ config'.guestTimeDiff = config.guestTimeDiff
          /\ config'.currentThreadId = config.currentThreadId
      BY <1>c, <2>1 DEF Config
    <2>4. npc \notin {"name", "nameAdd", "counter"}
      OBVIOUS
    <2>5. Silent(c, d)
      BY <2>1, <2>2, <2>3 DEF Silent, storage
    <2>6. Leads(c, d)
      BY <2>1, <2>2, <2>3, <2>4 DEF Leads
    <2> QED BY <2>5, <2>6
  <1>8. CASE AwaitSequenceId(t)
    <2>1. /\ c.pc = "await" /\ config.sequenceIdWritten
          /\ UNCHANGED <<config, storage, ctl>>
          /\ d = [c EXCEPT !.pc = "category"]
      BY <1>8, <1>x DEF AwaitSequenceId, Step
    <2>2. /\ d.pc = "category" /\ d.mTraceBuffer = c.mTraceBuffer
          /\ d.emitted = c.emitted /\ d.out = c.out /\ d.mFirst = c.mFirst
          /\ SameTracks(c, d)
      <3> HIDE DEF c, d
      <3> QED BY <1>c, <2>1 DEF Context, SameTracks
    <2> QED BY <2>1, <2>2 DEF Silent, Leads, storage
  <1>9. CASE InternCategory(t)
    BY <1>9, <1>c, <1>x
    DEF InternCategory, Step, Context, SameTracks, Silent, Leads, storage,
        Guarded
  <1>10. CASE InternEvent(t)
    BY <1>10, <1>c, <1>x
    DEF InternEvent, Step, Context, SameTracks, Silent, Leads, storage, Guarded
  <1>11. CASE Unlock(t)
    BY <1>11, <1>c, <1>x
    DEF Unlock, Step, Context, SameTracks, Silent, Leads, storage, Guarded
  <1>12. CASE SaveAtExit(t)
    <2>1. /\ c.pc = "exit" /\ SaveBuffer(c) /\ UNCHANGED config
          /\ d = [Reset(c) EXCEPT !.pc = "dead"]
      BY <1>12, <1>x DEF SaveAtExit, Step
    <2>2. /\ d.pc = "dead" /\ d.mTraceBuffer = <<>> /\ d.out = c.out
          /\ d.emitted = c.emitted /\ ~d.mFirst /\ d.mThreadId = 0
          /\ d.mCounterUuids = [n \in Names |-> NoUuid]
      <3> HIDE DEF c, d
      <3> QED BY <1>c, <2>1 DEF Reset, Context
    <2> QED BY <2>1, <2>2 DEF GivesUp, Leads
  <1>13. CASE FirstPacket(t)
    <2> DEFINE b == [c EXCEPT !.pc = "category", !.mFirst = TRUE]
               p == PacketOf(t, "seq", NoUuid, 0, 0, None)
    <2>1. /\ c.pc = "first" /\ c.out = <<>> /\ UNCHANGED <<storage, ctl>>
          /\ config' = [config EXCEPT !.sequenceIdWritten = TRUE]
          /\ d = Written(b, p)
      BY <1>13, <1>x DEF FirstPacket, Step
    <2>2. p \in Packet
      BY PacketOfType, Literals DEF Kinds
    <2>3. /\ p.by = t /\ p.n = c.emitted + 1 /\ p.kind = "seq"
          /\ p.uuid = NoUuid
      BY PacketFields
    <2>4. /\ b \in Context /\ b.pc = "category" /\ b.mFirst
          /\ b.mTraceBuffer = c.mTraceBuffer /\ b.out = c.out
          /\ b.emitted = c.emitted /\ SameTracks(c, b)
      <3> HIDE DEF c
      <3> QED BY <1>c DEF Context, Pcs, SameTracks
    <2>5. /\ config'.packetsWritten = config.packetsWritten
          /\ config'.sequenceIdWritten
          /\ config'.guestTimeDiff = config.guestTimeDiff
          /\ config'.currentThreadId = config.currentThreadId
      BY <1>c, <2>1 DEF Config
    <2> HIDE DEF b, p, c, d
    <2>6. /\ Added(c, d, p) /\ d.pc = "category" /\ d.mFirst /\ SameTracks(c, d)
      BY <2>1, <2>4, WrittenFields DEF Added, SameTracks
    <2>7. Emits(t, c, d, p)
      BY <2>1, <2>2, <2>3, <2>5, <2>6
      DEF Emits, OnTrack, Guarded, EventKinds, storage
    <2>8. Leads(c, d)
      BY <2>1, <2>5, <2>6 DEF Leads
    <2> QED BY <2>7, <2>8
  <1>14. ASSUME NEW b \in Context, NEW p \in Packet, d = Written(b, p),
                c.pc \in Guarded \ {"first", "await"}, c.out = <<>>,
                b.mTraceBuffer = c.mTraceBuffer, b.out = c.out,
                b.emitted = c.emitted, b.mFirst = c.mFirst,
                p.by = t, p.n = c.emitted + 1, p.kind # "seq",
                p.kind \in EventKinds => p.diff = config.guestTimeDiff,
                config'.packetsWritten = config.packetsWritten,
                config'.sequenceIdWritten = config.sequenceIdWritten,
                config'.guestTimeDiff = config.guestTimeDiff,
                b.pc \in {"threadInfo", "name", "counter", "event", "unlock"},
                b.pc \in {"name", "nameAdd", "counter"} => b.mThreadId # 0,
                OnTrack(c, b, p), UNCHANGED <<storage, ctl>>
         PROVE  Goal
    <2> HIDE DEF c, d
    <2>1. /\ Added(c, d, p) /\ d.pc = b.pc /\ d.mFirst = c.mFirst
          /\ SameTracks(b, d)
      BY <1>14, WrittenFields DEF Added
    <2>2. OnTrack(c, d, p)
      BY <1>14, <2>1 DEF OnTrack, SameTracks
    <2>3. Emits(t, c, d, p)
      BY <1>14, <2>1, <2>2 DEF Emits, storage
    <2>4. Leads(c, d)
      BY <1>14, <2>1 DEF Leads, SameTracks
    <2> QED BY <2>3, <2>4
  <1>d. /\ c.mStackDepth \in Depths /\ c.mStackDepth # -1
        /\ c.mIids[CatSlot(c.mStackDepth)] \in Nat
        /\ c.mStackDepth < StackMax => c.mIids[NameSlot(c.mStackDepth)] \in Nat
    <2>1. c.mStackDepth \in Depths /\ c.mStackDepth # -1 /\ c.mIids \in [Slots -> Nat]
      <3> HIDE DEF c
      <3> QED BY <1>c DEF ContextOK, Context
    <2>2. /\ CatSlot(c.mStackDepth) \in Slots
          /\ c.mStackDepth < StackMax => NameSlot(c.mStackDepth) \in Slots
      BY <2>1, SlotsInBounds
    <2> QED BY <2>1, <2>2
  <1>15. CASE EmitCategory(t)
    <2> DEFINE b == [c EXCEPT !.pc = "threadInfo"]
               p == PacketOf(t, "category", NoUuid, 0,
                             c.mIids[CatSlot(c.mStackDepth)], None)
    <2>1. /\ c.pc = "categoryAdd" /\ c.out = <<>> /\ UNCHANGED <<storage, ctl>>
          /\ config' = [config EXCEPT !.currentInterningId = @ + 1]
          /\ d = Written(b, p)
      BY <1>15, <1>x DEF EmitCategory, Step
    <2>2. p \in Packet
      BY <1>d, PacketOfType, Literals DEF Kinds
    <2>3. /\ p.by = t /\ p.n = c.emitted + 1 /\ p.kind = "category"
          /\ p.uuid = NoUuid
      BY PacketFields
    <2>4. /\ b \in Context /\ b.pc = "threadInfo" /\ b.mFirst = c.mFirst
          /\ b.mTraceBuffer = c.mTraceBuffer /\ b.out = c.out
          /\ b.emitted = c.emitted /\ SameTracks(c, b)
      <3> HIDE DEF c
      <3> QED BY <1>c DEF Context, Pcs, SameTracks
    <2>5. /\ config'.packetsWritten = config.packetsWritten
          /\ config'.sequenceIdWritten = config.sequenceIdWritten
          /\ config'.guestTimeDiff = config.guestTimeDiff
          /\ config'.currentThreadId = config.currentThreadId
      BY <1>c, <2>1 DEF Config
    <2> HIDE DEF b, p
    <2>6. OnTrack(c, b, p)
      BY <2>3, <2>4, <2>5 DEF OnTrack
    <2> QED BY <1>14, <2>1, <2>2, <2>3, <2>4, <2>5, <2>6
            DEF Guarded, EventKinds
  <1>16. CASE SetThreadId(t)
    <2> DEFINE npc == IF c.op = "begin" THEN "name" ELSE "counter"
               b == [c EXCEPT !.pc = npc]
               id == config.currentThreadId + 1
               e == [b EXCEPT !.mThreadId = id]
               p == PacketOf(t, "track", <<0, id>>, 0, 0, None)
    <2>1. /\ c.pc = "threadInfo" /\ c.out = <<>> /\ UNCHANGED <<storage, ctl>>
      BY <1>16 DEF SetThreadId, Step
    <2>2. /\ b \in Context /\ b.pc = npc /\ b.mFirst = c.mFirst
          /\ b.mTraceBuffer = c.mTraceBuffer /\ b.out = c.out
          /\ b.emitted = c.emitted /\ SameTracks(c, b)
          /\ npc \in {"name", "counter"}
      <3>1. npc \in {"name", "counter"}
        OBVIOUS
      <3> HIDE DEF c, npc
      <3> QED BY <1>c, <3>1 DEF Context, Pcs, SameTracks
    <2>3. id \in Nat /\ id # 0
      BY <1>c DEF Config, Pos
    <2>4. CASE c.mThreadId = 0
      <3>1. /\ d = Written(e, p)
            /\ config' = [config EXCEPT !.currentThreadId = id]
        BY <1>16, <1>x, <2>2, <2>4 DEF SetThreadId, Step, SameTracks
      <3>2. p \in Packet
        BY <2>3, PacketOfType DEF Kinds, Uuid
      <3>3. /\ p.by = t /\ p.n = c.emitted + 1 /\ p.kind = "track"
            /\ p.uuid = <<0, id>>
        BY PacketFields
      <3>4. /\ config'.packetsWritten = config.packetsWritten
            /\ config'.sequenceIdWritten = config.sequenceIdWritten
            /\ config'.guestTimeDiff = config.guestTimeDiff
            /\ config'.currentThreadId = id
        <4> HIDE DEF id
        <4> QED BY <1>c, <2>3, <3>1 DEF Config
      <3> DEFINE i == id
      <3>i. i = config.currentThreadId + 1
        OBVIOUS
      <3>5. /\ e \in Context /\ e.pc = npc /\ e.mFirst = c.mFirst
            /\ e.mTraceBuffer = c.mTraceBuffer /\ e.out = c.out
            /\ e.emitted = c.emitted /\ e.mThreadId = id
            /\ e.mCounterUuids = c.mCounterUuids
            /\ e.mCurrentCounterId = c.mCurrentCounterId
        <4> HIDE DEF c, b, id, npc
        <4> QED BY <2>2, <2>3 DEF Context, SameTracks
      <3> HIDE DEF p, e
      <3>6. OnTrack(c, e, p)
        BY <2>4, <3>3, <3>4, <3>5 DEF OnTrack
      <3> HIDE DEF c, d, id, npc
      <3> QED BY <1>14, <2>1, <2>2, <2>3, <3>1, <3>2, <3>3, <3>4, <3>5, <3>6
              DEF Guarded, EventKinds
    <2>5. CASE c.mThreadId # 0
      <3>1. d = b /\ UNCHANGED config
        BY <1>16, <1>x, <2>2, <2>5 DEF SetThreadId, Step, SameTracks
      <3> HIDE DEF c, d, b, npc
      <3>2. Silent(c, d)
        BY <2>1, <2>2, <3>1 DEF Silent, storage
      <3>3. Leads(c, d)
        BY <2>1, <2>2, <2>5, <3>1 DEF Leads, Guarded, SameTracks
      <3> QED BY <3>2, <3>3
    <2> QED BY <2>4, <2>5
  <1>17. CASE EmitEventName(t)
    <2> DEFINE b == [c EXCEPT !.pc = "event"]
               p == PacketOf(t, "name", NoUuid, 0,
                             c.mIids[NameSlot(c.mStackDepth)], c.arg)
    <2>1. /\ c.pc = "nameAdd" /\ c.out = <<>> /\ UNCHANGED <<storage, ctl>>
          /\ config' = [config EXCEPT !.currentInterningId = @ + 1]
          /\ d = Written(b, p)
      BY <1>17, <1>x DEF EmitEventName, Step
    <2>0. c.arg \in Names /\ c.mStackDepth < StackMax
      <3> HIDE DEF c
      <3> QED BY <1>c, <2>1 DEF ContextOK, Context, Guarded
    <2>2. p \in Packet
      BY <1>d, <2>0, PacketOfType, Literals DEF Kinds
    <2>3. /\ p.by = t /\ p.n = c.emitted + 1 /\ p.kind = "name"
          /\ p.uuid = NoUuid
      BY PacketFields
    <2>4. /\ b \in Context /\ b.pc = "event" /\ b.mFirst = c.mFirst
          /\ b.mTraceBuffer = c.mTraceBuffer /\ b.out = c.out
          /\ b.emitted = c.emitted /\ SameTracks(c, b)
      <3> HIDE DEF c
      <3> QED BY <1>c DEF Context, Pcs, SameTracks
    <2>5. /\ config'.packetsWritten = config.packetsWritten
          /\ config'.sequenceIdWritten = config.sequenceIdWritten
          /\ config'.guestTimeDiff = config.guestTimeDiff
          /\ config'.currentThreadId = config.currentThreadId
      BY <1>c, <2>1 DEF Config
    <2> HIDE DEF b, p
    <2>6. OnTrack(c, b, p)
      BY <2>3, <2>4, <2>5 DEF OnTrack
    <2> QED BY <1>14, <2>1, <2>2, <2>3, <2>4, <2>5, <2>6
            DEF Guarded, EventKinds
  <1>18. CASE CounterTrack(t)
    <2> DEFINE b == [c EXCEPT !.pc = "event"]
               uuid == <<c.mCurrentCounterId, c.mThreadId>>
               uuids == [c.mCounterUuids EXCEPT ![c.arg] = uuid]
               next == c.mCurrentCounterId + 1
               e == [b EXCEPT !.mCounterUuids = uuids, !.mCurrentCounterId = next]
               p == PacketOf(t, "counterTrack", uuid, 0, 0, c.arg)
    <2>0. /\ b.mCurrentCounterId = c.mCurrentCounterId
          /\ b.mThreadId = c.mThreadId /\ b.arg = c.arg
          /\ b.mCounterUuids = c.mCounterUuids
      <3> HIDE DEF c
      <3> QED BY <1>c DEF Context
    <2>1. /\ c.pc = "counter" /\ c.out = <<>> /\ UNCHANGED <<config, storage, ctl>>
          /\ \/ d = b
             \/ c.mCounterUuids[c.arg] = NoUuid /\ d = Written(e, p)
      BY <1>18, <1>x, <2>0 DEF CounterTrack, Step
    <2>2. c.arg \in Names /\ uuid \in Uuid /\ next \in Pos
          /\ uuids \in [Names -> Uuid]
      <3>1. /\ c.arg \in Names /\ c.mCounterUuids \in [Names -> Uuid]
            /\ c.mCurrentCounterId \in Pos /\ c.mThreadId \in Nat
        <4> HIDE DEF c
        <4> QED BY <1>c, <2>1 DEF ContextOK, Context
      <3>2. uuid \in Uuid /\ next \in Pos
        BY <3>1 DEF Uuid, Pos
      <3> HIDE DEF c, uuid
      <3> QED BY <3>1, <3>2
    <2>3. p \in Packet
      BY <2>2, PacketOfType DEF Kinds
    <2>4. /\ p.by = t /\ p.n = c.emitted + 1 /\ p.kind = "counterTrack"
          /\ p.uuid = uuid /\ p.name = c.arg
      BY PacketFields
    <2>5. /\ b \in Context /\ b.pc = "event" /\ b.mFirst = c.mFirst
          /\ b.mTraceBuffer = c.mTraceBuffer /\ b.out = c.out
          /\ b.emitted = c.emitted /\ SameTracks(c, b)
      <3> HIDE DEF c
      <3> QED BY <1>c DEF Context, Pcs, SameTracks
    <2>6. CASE d = b
      <3> HIDE DEF b, c, d
      <3> QED BY <2>1, <2>5, <2>6 DEF Silent, Leads, Guarded, storage
    <2>7. CASE c.mCounterUuids[c.arg] = NoUuid /\ d = Written(e, p)
      <3>1. /\ e \in Context /\ e.pc = "event" /\ e.mFirst = c.mFirst
            /\ e.mTraceBuffer = c.mTraceBuffer /\ e.out = c.out
            /\ e.emitted = c.emitted /\ e.mThreadId = c.mThreadId
            /\ e.mCounterUuids = uuids /\ e.mCurrentCounterId = next
        <4> HIDE DEF c, b, uuid, uuids, next
        <4> QED BY <2>2, <2>5 DEF Context, SameTracks
      <3> HIDE DEF p, e
      <3>2. OnTrack(c, e, p)
        BY <2>1, <2>2, <2>4, <2>7, <3>1 DEF OnTrack
      <3> QED BY <1>14, <2>1, <2>3, <2>4, <2>7, <3>1, <3>2
              DEF Guarded, EventKinds
    <2> QED BY <2>1, <2>6, <2>7
  <1>19. CASE EmitEvent(t)
    <2> DEFINE b == [c EXCEPT !.pc = "unlock"]
               q == PacketOf(t, "counter", c.mCounterUuids[c.arg], 0, 0, None)
               r == PacketOf(t, c.op, <<0, c.mThreadId>>,
                             c.mIids[CatSlot(c.mStackDepth)],
                             c.mIids[NameSlot(c.mStackDepth)], None)
    <2>1. /\ c.pc = "event" /\ c.out = <<>> /\ UNCHANGED <<config, storage, ctl>>
          /\ d = Written(b, IF c.op = "counter" THEN q ELSE r)
      BY <1>19, <1>x DEF EmitEvent, Step
    <2>2. /\ c.op = "counter" => c.arg \in Names
          /\ c.op # "counter" => c.mStackDepth < StackMax
          /\ c.op \in {"begin", "end", "counter"}
          /\ c.mCounterUuids \in [Names -> Uuid]
          /\ c.mThreadId \in Nat
      <3> HIDE DEF c
      <3> QED BY <1>c, <2>1 DEF ContextOK, Context, Guarded
    <2>3. /\ b \in Context /\ b.pc = "unlock" /\ b.mFirst = c.mFirst
          /\ b.mTraceBuffer = c.mTraceBuffer /\ b.out = c.out
          /\ b.emitted = c.emitted /\ SameTracks(c, b)
      <3> HIDE DEF c
      <3> QED BY <1>c DEF Context, Pcs, SameTracks
    <2>4. CASE c.op = "counter"
      <3>1. c.mCounterUuids[c.arg] \in Uuid
        BY <2>2, <2>4
      <3>2. q \in Packet
        BY <3>1, PacketOfType DEF Kinds
      <3>3. /\ q.by = t /\ q.n = c.emitted + 1 /\ q.kind = "counter"
            /\ q.uuid = c.mCounterUuids[c.arg]
            /\ q.diff = config.guestTimeDiff
        BY PacketFields DEF EventKinds
      <3> HIDE DEF b, q
      <3>4. OnTrack(c, b, q)
        BY <2>1, <2>2, <2>3, <2>4, <3>3 DEF OnTrack
      <3> QED BY <1>14, <2>1, <2>3, <2>4, <3>2, <3>3, <3>4
              DEF Guarded
    <2>5. CASE c.op # "counter"
      <3>1. <<0, c.mThreadId>> \in Uuid
        BY <2>2 DEF Uuid
      <3>2. r \in Packet
        BY <1>d, <2>2, <2>5, <3>1, PacketOfType DEF Kinds
      <3>3. /\ r.by = t /\ r.n = c.emitted + 1 /\ r.kind = c.op
            /\ r.uuid = <<0, c.mThreadId>>
            /\ r.diff = config.guestTimeDiff
        BY <2>2, <2>5, PacketFields DEF EventKinds
      <3> HIDE DEF b, r
      <3>4. OnTrack(c, b, r)
        BY <2>1, <2>2, <2>3, <3>3 DEF OnTrack
      <3> QED BY <1>14, <2>1, <2>2, <2>3, <2>5, <3>2, <3>3, <3>4
              DEF Guarded
    <2> QED BY <2>4, <2>5
  <1> QED BY <1>1, <1>3, <1>4, <1>5, <1>6, <1>7, <1>8, <1>9, <1>10, <1>11,
             <1>12, <1>13, <1>15, <1>16, <1>17, <1>18, <1>19 DEF InCall

-----------------------------------------------------------------------------
(***************************************************************************)
(* The packets that are held, and those in the file                        *)
(***************************************************************************)

\* The packets of a sequence; of the buffers and the storage; of the file.
Elems(s) == {s[i] : i \in 1 .. Len(s)}
Held ==
    (UNION {Elems(ctx[t].mTraceBuffer) \union Elems(ctx[t].out) :
               t \in Threads})
      \union
    (UNION {Elems(mSavedTraces[j].pkts) : j \in 1 .. Len(mSavedTraces)})
InFile == UNION {Elems(hostFile[k].pkts) : k \in 1 .. Len(hostFile)}

Writing == {"firstPass", "restPass"}

\* A packet that is appended, and one that waits.
LEMMA ElemsFacts ==
    /\ Elems(<<>>) = {}
    /\ \A p : Elems(<<p>>) = {p}
    /\ \A s \in Seq(Packet) :
          \A p : Elems(Append(s, p)) = Elems(s) \union {p}
  <1>1. Elems(<<>>) = {} /\ \A p : Elems(<<p>>) = {p}
    BY DEF Elems
  <1>2. ASSUME NEW s \in Seq(Packet), NEW p
        PROVE  Elems(Append(s, p)) = Elems(s) \union {p}
    BY AppendFacts DEF Elems
  <1> QED BY <1>1, <1>2

\* A buffer that is saved joins the saved traces.
LEMMA SaveFacts ==
    ASSUME NEW c \in Context, mSavedTraces \in Seq(SavedTraceInfo),
           SaveBuffer(c)
    PROVE  \/ /\ c.mTraceBuffer = <<>>
              /\ mSavedTraces' = mSavedTraces
           \/ /\ c.mTraceBuffer # <<>>
              /\ Len(mSavedTraces') = Len(mSavedTraces) + 1
              /\ \A j \in 1 .. Len(mSavedTraces) :
                    mSavedTraces'[j] = mSavedTraces[j]
              /\ mSavedTraces'[Len(mSavedTraces) + 1].first = c.mFirst
              /\ mSavedTraces'[Len(mSavedTraces) + 1].pkts = c.mTraceBuffer
              /\ \A j \in 1 .. Len(mSavedTraces') :
                    j \in 1 .. Len(mSavedTraces) \/ j = Len(mSavedTraces) + 1
  <1> DEFINE r == [first |-> c.mFirst, pkts |-> c.mTraceBuffer]
  <1>1. r \in SavedTraceInfo
    BY DEF SavedTraceInfo, Context
  <1>2. r.first = c.mFirst /\ r.pkts = c.mTraceBuffer
    OBVIOUS
  <1>3. \/ c.mTraceBuffer = <<>> /\ mSavedTraces' = mSavedTraces
        \/ c.mTraceBuffer # <<>> /\ mSavedTraces' = Append(mSavedTraces, r)
    BY DEF SaveBuffer
  <1> HIDE DEF r
  <1>4. CASE mSavedTraces' = Append(mSavedTraces, r)
    BY <1>1, <1>4, <1>2, <1>3
  <1> QED BY <1>3, <1>4

\* Who holds a packet.
LEMMA HeldBy ==
    ASSUME NEW p
    PROVE  p \in Held <=>
             \/ \E t \in Threads : \/ p \in Elems(ctx[t].mTraceBuffer)
                                   \/ p \in Elems(ctx[t].out)
             \/ \E j \in 1 .. Len(mSavedTraces) :
                   p \in Elems(mSavedTraces[j].pkts)
  BY DEF Held

\* A step that saves a context's buffer, and keeps no more of it than the
\* waiting packet, adds nothing to what is held.
LEMMA HeldSave ==
    ASSUME TypeOK, NEW t \in Threads, SaveBuffer(ctx[t]),
           \A u \in Threads \ {t} : ctx'[u] = ctx[u],
           ctx'[t].mTraceBuffer = <<>> \/ ctx'[t].mTraceBuffer = ctx[t].out,
           ctx'[t].out = <<>> \/ ctx'[t].out = ctx[t].out
    PROVE  Held' \subseteq Held
  <1> SUFFICES ASSUME NEW p \in Held' PROVE p \in Held
    OBVIOUS
  <1>1. ctx[t] \in Context /\ mSavedTraces \in Seq(SavedTraceInfo)
    BY DEF TypeOK
  <1>2. \/ mSavedTraces' = mSavedTraces
        \/ \A j \in 1 .. Len(mSavedTraces') :
             \/ /\ j \in 1 .. Len(mSavedTraces)
                /\ mSavedTraces'[j] = mSavedTraces[j]
             \/ mSavedTraces'[j].pkts = ctx[t].mTraceBuffer
    BY <1>1, SaveFacts
  <1>3. \/ \E u \in Threads : \/ p \in Elems(ctx'[u].mTraceBuffer)
                              \/ p \in Elems(ctx'[u].out)
        \/ \E j \in 1 .. Len(mSavedTraces') : p \in Elems(mSavedTraces'[j].pkts)
    BY DEF Held, Elems
  <1>4. CASE \E j \in 1 .. Len(mSavedTraces') : p \in Elems(mSavedTraces'[j].pkts)
    BY <1>2, <1>4, HeldBy
  <1>5. CASE \E u \in Threads : \/ p \in Elems(ctx'[u].mTraceBuffer)
                                \/ p \in Elems(ctx'[u].out)
    BY <1>5, HeldBy, ElemsFacts
  <1> QED BY <1>3, <1>4, <1>5

\* A step of a call adds to what is held the packet it writes, if any.
LEMMA HeldCall ==
    ASSUME TypeOK, ContextInv, NEW t \in Threads, ~Crashed, InCall(t)
    PROVE  \/ Held' \subseteq Held
           \/ \E p : /\ Emits(t, ctx[t], ctx'[t], p)
                     /\ Held' \subseteq Held \union {p}
  <1> DEFINE c == ctx[t]
             d == ctx'[t]
  <1>1. \A u \in Threads \ {t} : ctx'[u] = ctx[u]
    BY InCallFrame
  <1>2. c.mTraceBuffer \in Seq(Packet) /\ c \in Context
    BY DEF TypeOK, Context
  <1>3. ASSUME NEW p, Emits(t, c, d, p)
        PROVE  Held' \subseteq Held \union {p}
    <2>1. /\ Elems(d.mTraceBuffer) \subseteq Elems(c.mTraceBuffer) \union {p}
          /\ Elems(d.out) \subseteq {p}
          /\ mSavedTraces' = mSavedTraces
      BY <1>2, <1>3, ElemsFacts DEF Emits, Added
    <2>2. ASSUME NEW q \in Held' PROVE q \in Held \union {p}
      <3>1. \/ \E u \in Threads : \/ q \in Elems(ctx'[u].mTraceBuffer)
                                  \/ q \in Elems(ctx'[u].out)
            \/ \E j \in 1 .. Len(mSavedTraces') :
                  q \in Elems(mSavedTraces'[j].pkts)
        BY <2>2 DEF Held, Elems
      <3> QED BY <1>1, <2>1, <3>1, HeldBy
    <2> QED BY <2>2
  <1>4. CASE Silent(c, d)
    BY <1>1, <1>4 DEF Silent, Held, Elems
  <1>5. CASE HandsOver(c, d)
    BY <1>1, <1>5, HeldSave DEF HandsOver
  <1>6. CASE GivesUp(c, d)
    BY <1>1, <1>6, HeldSave DEF GivesUp
  <1> QED BY <1>3, <1>4, <1>5, <1>6, CallFrame

\* Any other step adds nothing to what is held.
LEMMA HeldOther ==
    ASSUME TypeOK, ContextInv,
           \/ \E t \in Threads : StartCall(t)
           \/ InControl \/ StartControl \/ UNCHANGED vars
    PROVE  Held' \subseteq Held
  <1>1. ASSUME NEW t \in Threads, StartCall(t)
        PROVE  Held' \subseteq Held
    BY <1>1, StartCallFrame DEF Held, Elems
  <1>2. ASSUME NEW t \in Threads, SaveContext(t)
        PROVE  Held' \subseteq Held
    BY <1>2, HeldSave DEF SaveContext, TypeOK, Reset, Context
  <1>3. CASE UNCHANGED <<ctx, mSavedTraces>>
    BY <1>3 DEF Held, Elems
  <1>4. CASE CloseHostFile
    <2>1. ctx' = ctx /\ mSavedTraces' = <<>>
      BY <1>4 DEF CloseHostFile
    <2>2. ASSUME NEW p \in Held' PROVE p \in Held
      BY <2>1, <2>2, HeldBy DEF Held, Elems
    <2> QED BY <2>2
  <1> QED BY <1>1, <1>2, <1>3, <1>4
          DEF InControl, StartControl, LockContexts, OpenHostFile,
              WriteSavedTrace, SecondPass, ResetCounters, FinishEnable,
              FinishDisable, SetGuestTime, EnableTracing, DisableTracing,
              vars, storage

\* Nothing is held while tracing is off and no trace is being saved.
LEMMA NothingHeld ==
    ASSUME ContextInv, ControlInv, SessionInv,
           config.tracingDisabled, ctl.step \notin Saving
    PROVE  Held = {}
  <1>1. /\ mSavedTraces = <<>>
        /\ \A t \in Threads : ctx[t].mTraceBuffer = <<>>
    BY DEF SessionInv, NothingLeft
  <1>2. \A t \in Threads : ctx[t].out = <<>>
    BY DEF SessionInv, CallsInSession, ContextInv, ContextOK, Guarded
  <1> QED BY <1>1, <1>2, HeldBy, ElemsFacts

\* What is written to the file is held; no other step adds to the file.
LEMMA FileStep ==
    ASSUME Quiesced, TypeOK, ContextInv, ControlInv, SessionInv, [Next]_vars
    PROVE  \/ /\ ctl.step \in Writing
              /\ InFile' \subseteq InFile \union Held
              /\ Held' = Held
              /\ ctl'.step = ctl.step
              /\ config' = config
           \/ InFile' = {}
           \/ /\ InFile' = InFile
              /\ ctl'.step \in Writing =>
                    ctl.step \in Writing /\ Held' = Held /\ config' = config
  <1>k. ctl \in Control
    BY DEF TypeOK
  <1>w. ctl.step \in Writing => ctl.call = "disable"
    BY DEF ControlInv, Saving, Writing
  <1>1. CASE WriteSavedTrace
    <2> DEFINE trace == mSavedTraces[ctl.idx]
    <2>1. /\ ctl.step \in Writing /\ ctl'.step = ctl.step
          /\ UNCHANGED <<config, ctx, mSavedTraces>>
          /\ ctl.idx \in 1 .. Len(mSavedTraces)
          /\ hostFile' = hostFile \/ hostFile' = Append(hostFile, trace)
      BY <1>1, <1>k DEF WriteSavedTrace, Writing, Control
    <2>2. Held' = Held
      BY <2>1 DEF Held, Elems
    <2>3. /\ hostFile \in Seq(SavedTraceInfo) /\ trace \in SavedTraceInfo
          /\ Len(hostFile) \in Nat
      BY <2>1 DEF TypeOK
    <2>4. Elems(trace.pkts) \subseteq Held
      BY <2>1, HeldBy
    <2> HIDE DEF trace
    <2>5. \A k \in 1 .. Len(hostFile') :
             \/ k \in 1 .. Len(hostFile) /\ hostFile'[k] = hostFile[k]
             \/ hostFile'[k] = trace
      <3>1. CASE hostFile' = Append(hostFile, trace)
        BY <2>3, <3>1
      <3> QED BY <2>1, <3>1
    <2>6. InFile' \subseteq InFile \union Held
      <3>1. ASSUME NEW p \in InFile'
            PROVE  p \in InFile \union Held
        <4>1. PICK k \in 1 .. Len(hostFile') : p \in Elems(hostFile'[k].pkts)
          BY <3>1 DEF InFile, Elems
        <4> QED BY <2>4, <2>5, <4>1 DEF InFile
      <3> QED BY <3>1
    <2> QED BY <2>1, <2>2, <2>6
  <1>2. CASE OpenHostFile
    BY <1>2 DEF OpenHostFile, InFile
  <1>3. CASE SecondPass
    BY <1>3 DEF SecondPass, Writing, storage, Held, InFile, Elems
  <1>4. ASSUME UNCHANGED hostFile, ctl'.step \notin Writing
        PROVE  InFile' = InFile /\ ctl'.step \notin Writing
    BY <1>4 DEF InFile, Elems
  <1>5. ASSUME NEW t \in Threads, SaveContext(t)
        PROVE  UNCHANGED hostFile /\ ctl'.step \notin Writing
    BY <1>5, <1>k DEF SaveContext, Control, Writing
  <1>6. CASE LockContexts \/ CloseHostFile \/ ResetCounters \/ FinishEnable
             \/ FinishDisable
    BY <1>6, <1>k, <1>4
    DEF LockContexts, CloseHostFile, ResetCounters, FinishEnable,
        FinishDisable, Control, Writing, storage
  <1>7. CASE StartControl
    BY <1>7, <1>w, <1>k, <1>4
    DEF StartControl, SetGuestTime, EnableTracing, DisableTracing, Control,
        Writing, storage
  <1>8. CASE UNCHANGED vars
    BY <1>8 DEF vars, storage, Held, InFile, Elems
  <1>9. ASSUME NEW t \in Threads, ~Crashed, InCall(t)
        PROVE  UNCHANGED hostFile /\ ctl'.step \notin Writing
    BY <1>9, InCallFrame, <1>w DEF PcStep, SessionInv, CallsInSession
  <1>10. ASSUME NEW t \in Threads, StartCall(t)
         PROVE  UNCHANGED hostFile /\ ctl'.step \notin Writing
    BY <1>w, <1>10, StartCallFrame
  <1> QED BY <1>1, <1>2, <1>3, <1>4, <1>5, <1>6, <1>7, <1>8, <1>9, <1>10
          DEF Next, InControl

\* Everything proved so far, for the theorems about the file.
SafeInv == TypeOK /\ ContextInv /\ ControlInv /\ RegisteredInv /\ SessionInv

\* It is inductive for a client that starts and stops tracing in quiet.
LEMMA SafeStep ==
    /\ Init => SafeInv
    /\ Quiesced => (SafeInv /\ [Next]_vars => SafeInv')
  <1>1. TypeOK /\ ContextInv /\ [Next]_vars => TypeOK' /\ ContextInv'
    BY InCallOK, StartCallOK, ControlOK, StutterOK DEF Next
  <1> QED BY <1>1, InitOK, InitSession, ControlStep, RegisteredStep,
             SessionStep DEF SafeInv

-----------------------------------------------------------------------------
(***************************************************************************)
(* One time base per file                                                  *)
(***************************************************************************)

\* The events among some packets were stamped with difference d.
Stamped(S, d) == \A p \in S : p.kind \in EventKinds => p.diff = d

\* What is held has the difference now set; the file has one; and what is
\* written to the file is still held.
TimeInv ==
    /\ Stamped(Held, config.guestTimeDiff)
    /\ \E d \in GuestDiffs : Stamped(InFile, d)
    /\ ctl.step \in Writing => InFile \subseteq Held

\* What is written to the file is held until it is closed.
LEMMA WritingHeld ==
    ASSUME Quiesced, SafeInv, [Next]_vars,
           ctl.step \in Writing => InFile \subseteq Held
    PROVE  ctl'.step \in Writing => InFile' \subseteq Held'
  BY FileStep DEF SafeInv

\* While packets are held, the difference stays as it is.
LEMMA DiffFixed ==
    ASSUME SafeInv, [Next]_vars
    PROVE  Held = {} \/ config'.guestTimeDiff = config.guestTimeDiff
  <1>c. config \in Config
    BY DEF SafeInv, TypeOK
  <1>1. ASSUME NEW t \in Threads, ~Crashed, InCall(t)
        PROVE  config'.guestTimeDiff = config.guestTimeDiff
    BY <1>1, CallFrame DEF Leads, SafeInv
  <1>2. ASSUME NEW t \in Threads, StartCall(t)
        PROVE  config' = config
    BY <1>2, StartCallFrame DEF SafeInv
  <1>3. CASE \E d \in GuestDiffs : SetGuestTime(d)
    BY <1>3, NothingHeld DEF SetGuestTime, SafeInv, ControlInv, Saving
  <1>4. CASE FinishDisable
    BY <1>4, NothingHeld DEF FinishDisable, Saving, SafeInv, ControlInv
  <1>5. CASE ResetCounters \/ FinishEnable \/ DisableTracing
    BY <1>c, <1>5 DEF ResetCounters, FinishEnable, DisableTracing, Config
  <1>6. CASE UNCHANGED config
    BY <1>6
  <1> QED BY <1>1, <1>2, <1>3, <1>4, <1>5, <1>6
          DEF Next, InControl, StartControl, EnableTracing, LockContexts,
              SaveContext, OpenHostFile, WriteSavedTrace, SecondPass,
              CloseHostFile, vars

\* Every step keeps the time bases apart.
LEMMA TimeStep ==
    ASSUME Quiesced, SafeInv, TimeInv, [Next]_vars
    PROVE  TimeInv'
  <1>1. Stamped(Held', config'.guestTimeDiff)
    <2>1. \/ Held' \subseteq Held
          \/ \E t \in Threads : \E p :
                /\ Emits(t, ctx[t], ctx'[t], p)
                /\ Held' \subseteq Held \union {p}
                /\ config'.guestTimeDiff = config.guestTimeDiff
      BY HeldCall, HeldOther, CallFrame DEF Next, SafeInv, Leads
    <2>2. Stamped(Held, config'.guestTimeDiff)
      BY DiffFixed DEF TimeInv, Stamped
    <2>3. CASE Held' \subseteq Held
      BY <2>2, <2>3 DEF Stamped
    <2>4. ASSUME NEW t \in Threads, NEW p, Emits(t, ctx[t], ctx'[t], p),
                 Held' \subseteq Held \union {p},
                 config'.guestTimeDiff = config.guestTimeDiff
          PROVE  Stamped(Held', config'.guestTimeDiff)
      BY <2>2, <2>4 DEF Stamped, Emits
    <2> QED BY <2>1, <2>3, <2>4
  <1>2. \E d \in GuestDiffs : Stamped(InFile', d)
    <2>1. PICK d \in GuestDiffs : Stamped(InFile, d)
      BY DEF TimeInv
    <2>2. CASE ctl.step \in Writing /\ InFile' \subseteq InFile \union Held
      BY <2>2 DEF TimeInv, Stamped, SafeInv, TypeOK, Config
    <2>3. CASE InFile' \subseteq InFile
      BY <2>1, <2>3 DEF Stamped
    <2> QED BY <2>2, <2>3, FileStep DEF SafeInv
  <1>3. ctl'.step \in Writing => InFile' \subseteq Held'
    BY WritingHeld DEF TimeInv
  <1>4. /\ (Stamped(Held, config.guestTimeDiff))'
        /\ (\E d \in GuestDiffs : Stamped(InFile, d))'
    BY <1>1, <1>2 DEF Stamped
  <1> QED BY <1>3, <1>4 DEF TimeInv

\* A packet at a place of the file is in the file.
LEMMA PlacesInFile ==
    ASSUME hostFile \in Seq(SavedTraceInfo), NEW q \in Places(hostFile)
    PROVE  /\ q[1] \in 1 .. Len(hostFile)
           /\ hostFile[q[1]] \in SavedTraceInfo
           /\ q[2] \in 1 .. Len(hostFile[q[1]].pkts)
           /\ q = <<q[1], q[2]>>
           /\ At(hostFile, q) = hostFile[q[1]].pkts[q[2]]
           /\ At(hostFile, q) \in InFile
  <1>1. /\ q \in (1 .. Len(hostFile)) \X (1 .. BufCapacity)
        /\ q[2] <= Len(hostFile[q[1]].pkts)
    BY DEF Places
  <1>2. q[1] \in 1 .. Len(hostFile) /\ q[2] \in 1 .. BufCapacity
        /\ q = <<q[1], q[2]>>
    BY <1>1
  <1>3. hostFile[q[1]] \in SavedTraceInfo
    BY <1>2
  <1>4. hostFile[q[1]].pkts \in Seq(Packet)
    BY <1>3 DEF SavedTraceInfo
  <1>5. q[2] \in 1 .. Len(hostFile[q[1]].pkts)
    BY <1>1, <1>2, <1>4, ConstantsAssumption
  <1>6. At(hostFile, q) \in Elems(hostFile[q[1]].pkts)
    BY <1>5 DEF At, Elems
  <1> QED BY <1>2, <1>3, <1>5, <1>6 DEF InFile, At

\* What a reader finds is in the file.
LEMMA PacketsInFile ==
    ASSUME hostFile \in Seq(SavedTraceInfo)
    PROVE  Packets(hostFile) \subseteq InFile
  BY PlacesInFile DEF Packets

\* All events of a file were stamped with the same guest time difference:
\* neither setGuestTime nor the reset in disableTracing comes between two
\* events of a session.
THEOREM OneTimeBaseKept == Quiesced => (Spec => []OneTimeBase)
  <1> SUFFICES ASSUME Quiesced PROVE Spec => []OneTimeBase
    OBVIOUS
  <1>1. Init => TimeInv
    <2> SUFFICES ASSUME Init PROVE TimeInv
      OBVIOUS
    <2>1. /\ \A t \in Threads : /\ ctx[t].mTraceBuffer = <<>>
                                /\ ctx[t].out = <<>>
          /\ mSavedTraces = <<>> /\ hostFile = <<>> /\ ctl.step = "none"
      BY DEF Init, NewContext
    <2>2. Held = {}
      BY <2>1, HeldBy, ElemsFacts
    <2>3. InFile = {}
      BY <2>1 DEF InFile
    <2>4. Stamped(Held, config.guestTimeDiff) /\ Stamped(InFile, 0)
      BY <2>2, <2>3 DEF Stamped
    <2> QED BY <2>1, <2>4, ConstantsAssumption DEF TimeInv, Writing
  <1>2. SafeInv /\ TimeInv => OneTimeBase
    <2> SUFFICES ASSUME SafeInv, TimeInv PROVE OneTimeBase
      OBVIOUS
    <2>1. Packets(hostFile) \subseteq InFile
      BY PacketsInFile DEF SafeInv, TypeOK
    <2> QED BY <2>1 DEF TimeInv, Stamped, OneTimeBase
  <1>3. SafeInv /\ TimeInv /\ [Next]_vars => SafeInv' /\ TimeInv'
    BY SafeStep, TimeStep
  <1> QED BY <1>1, <1>2, <1>3, SafeStep, PTL DEF Spec

-----------------------------------------------------------------------------
(***************************************************************************)
(* Tracks are not shared                                                   *)
(***************************************************************************)

\* What a context remembers stays, although its control state may change.
Untouched(c, d) ==
    /\ d.mTraceBuffer = c.mTraceBuffer
    /\ d.out = c.out
    /\ d.emitted = c.emitted
    /\ d.mFirst = c.mFirst
    /\ d.mStackDepth = c.mStackDepth
    /\ SameTracks(c, d)

\* The context is saved and reset.
WipedOut(c, d) ==
    /\ SaveBuffer(c)
    /\ d.mTraceBuffer = <<>>
    /\ d.out = c.out
    /\ d.emitted = c.emitted
    /\ ~d.mFirst
    /\ d.mStackDepth = 0
    /\ d.mThreadId = 0
    /\ d.mCounterUuids = [n \in Names |-> NoUuid]
    /\ d.pc = c.pc

\* A thread that starts a call, or exits, keeps what its context remembers.
LEMMA StartFrame ==
    ASSUME TypeOK, NEW t \in Threads, StartCall(t)
    PROVE  \A u \in Threads : Untouched(ctx[u], ctx'[u])
  <1>1. ctx[t] \in Context /\ ctx \in [Threads -> Context]
    BY DEF TypeOK
  <1>2. \A u \in Threads \ {t} : ctx'[u] = ctx[u]
    BY StartCallFrame
  <1>3. Untouched(ctx[t], ctx'[t])
    <2>1. ASSUME NEW o, NEW a, Call(t, o, a)
          PROVE  Untouched(ctx[t], ctx'[t])
      BY <1>1, <2>1 DEF Call, Step, Context, Untouched, SameTracks
    <2>2. CASE Remove(t)
      <3> DEFINE npc == IF ctx[t].mTraceBuffer = <<>> THEN "dead" ELSE "exit"
      <3>1. ctx' = [ctx EXCEPT ![t] = [ctx[t] EXCEPT !.pc = npc]]
        BY <2>2 DEF Remove, Step
      <3> HIDE DEF npc
      <3> QED BY <1>1, <3>1 DEF Context, Untouched, SameTracks
    <2> QED BY <2>1, <2>2 DEF StartCall
  <1> QED BY <1>2, <1>3 DEF Untouched, SameTracks

\* The saver takes one context's buffer and resets that context.
LEMMA SaveFrame ==
    ASSUME TypeOK, NEW t \in Threads, SaveContext(t)
    PROVE  /\ WipedOut(ctx[t], ctx'[t])
           /\ \A u \in Threads \ {t} : ctx'[u] = ctx[u]
           /\ ctl.step = "save" /\ ctl'.step = "save"
           /\ ctl'.idx = ctl.idx /\ ctl'.todo = ctl.todo \ {t}
           /\ UNCHANGED <<config, mContexts, hostFile>>
  <1>1. ctx[t] \in Context /\ ctx \in [Threads -> Context] /\ ctl \in Control
    BY DEF TypeOK
  <1>2. /\ SaveBuffer(ctx[t]) /\ ctx' = [ctx EXCEPT ![t] = Reset(ctx[t])]
        /\ ctl' = [ctl EXCEPT !.todo = @ \ {t}] /\ ctl.step = "save"
        /\ UNCHANGED <<config, mContexts, hostFile>>
    BY DEF SaveContext
  <1>3. WipedOut(ctx[t], Reset(ctx[t]))
    BY <1>1, <1>2 DEF Reset, Context, WipedOut
  <1>4. ctl'.step = "save" /\ ctl'.idx = ctl.idx /\ ctl'.todo = ctl.todo \ {t}
    BY <1>1, <1>2 DEF Control
  <1> QED BY <1>1, <1>2, <1>3, <1>4

\* The control thread does nothing else to the contexts.
LEMMA ControlFrame ==
    ASSUME InControl \/ StartControl \/ UNCHANGED vars
    PROVE  (\E t \in Threads : SaveContext(t)) \/ UNCHANGED ctx
  BY DEF InControl, StartControl, LockContexts, OpenHostFile,
         WriteSavedTrace, SecondPass, CloseHostFile, ResetCounters,
         FinishEnable, FinishDisable, SetGuestTime, EnableTracing,
         DisableTracing, vars

\* A write leaves the buffer non-null.
LEMMA AddedBuffer ==
    ASSUME NEW c \in Context, NEW d, NEW p, Added(c, d, p)
    PROVE  d.mTraceBuffer # <<>>
  <1>1. c.mTraceBuffer \in Seq(Packet)
    BY DEF Context
  <1>2. Append(c.mTraceBuffer, p) # <<>>
    BY <1>1, AppendFacts
  <1>3. ~(Len(c.mTraceBuffer) < BufCapacity) => c.mTraceBuffer # <<>>
    BY ConstantsAssumption
  <1> QED BY <1>2, <1>3 DEF Added

\* What is held is a packet.
LEMMA HeldType == TypeOK => Held \subseteq Packet
  <1> SUFFICES ASSUME TypeOK, NEW p \in Held PROVE p \in Packet
    OBVIOUS
  <1>1. \A s \in Seq(Packet) : Elems(s) \subseteq Packet
    BY DEF Elems
  <1>2. \A t \in Threads : /\ ctx[t].mTraceBuffer \in Seq(Packet)
                           /\ ctx[t].out \in Seq(Packet)
    BY DEF TypeOK, Context
  <1>3. \A j \in 1 .. Len(mSavedTraces) : mSavedTraces[j].pkts \in Seq(Packet)
    <2>1. mSavedTraces \in Seq(SavedTraceInfo)
      BY DEF TypeOK
    <2>2. \A j \in 1 .. Len(mSavedTraces) : mSavedTraces[j] \in SavedTraceInfo
      BY <2>1
    <2> QED BY <2>2 DEF SavedTraceInfo
  <1> QED BY <1>1, <1>2, <1>3, HeldBy

\* A thread's id is drawn once it has a buffer, and before it needs a track;
\* its counters' tracks are under that id and below the next counter id.
ThreadTracks(c, last) ==
    /\ c.mThreadId # 0 =>
          c.mTraceBuffer # <<>> /\ c.mThreadId <= last
    /\ c.pc \in {"name", "nameAdd", "counter"} => c.mThreadId # 0
    /\ \A n \in Names : c.mCounterUuids[n] # NoUuid =>
          /\ c.mThreadId # 0
          /\ c.mCounterUuids[n][2] = c.mThreadId
          /\ c.mCounterUuids[n][1] < c.mCurrentCounterId

IdsDistinct ==
    \A t, u \in Threads :
        ctx[t].mThreadId = ctx[u].mThreadId /\ ctx[t].mThreadId # 0 => t = u

\* A packet that is held was written under an id that has been drawn; if a
\* thread still has that id the packet is its own, and a counter's track is
\* still remembered under its name.
HeldTracks ==
    \A p \in Held : p.uuid # NoUuid =>
        /\ p.uuid[2] # 0
        /\ ~config.tracingDisabled => p.uuid[2] <= config.currentThreadId
        /\ \A t \in Threads : p.uuid[2] = ctx[t].mThreadId =>
              /\ p.by = t
              /\ p.kind = "counterTrack" =>
                    p.name \in Names /\ ctx[t].mCounterUuids[p.name] = p.uuid

\* Packets under one id are of one thread, and under one counter's track of
\* one name.
TracksApart(S) ==
    \A p, q \in S : p.uuid # NoUuid /\ q.uuid # NoUuid =>
        /\ p.uuid[2] = q.uuid[2] => p.by = q.by
        /\ p.kind = "counterTrack" /\ q.kind = "counterTrack"
             /\ p.uuid = q.uuid => p.name = q.name

TrackInv ==
    /\ \A t \in Threads : ThreadTracks(ctx[t], config.currentThreadId)
    /\ IdsDistinct
    /\ HeldTracks
    /\ TracksApart(Held)
    /\ TracksApart(InFile)
    /\ ctl.step \in Writing => InFile \subseteq Held

\* A packet a thread writes is on a track under the thread's id.
LEMMA EmitsOnTrack ==
    ASSUME NEW t \in Threads, NEW c \in Context, NEW d \in Context, NEW p,
           config \in Config, ThreadTracks(c, config.currentThreadId), Emits(t, c, d, p),
           p.uuid # NoUuid
    PROVE  p.uuid[2] = d.mThreadId /\ d.mThreadId # 0
  <1>1. OnTrack(c, d, p) /\ c.mThreadId \in Nat
    BY DEF Emits, Context
  <1>2. config.currentThreadId \in Nat /\ config.currentThreadId + 1 # 0
    BY DEF Config, Pos
  <1>3. CASE p.uuid = <<0, c.mThreadId>> /\ SameTracks(c, d)
    BY <1>3 DEF SameTracks, NoUuid
  <1>4. CASE c.arg \in Names /\ p.uuid = c.mCounterUuids[c.arg] /\ SameTracks(c, d)
    BY <1>4 DEF SameTracks, ThreadTracks
  <1>5. CASE /\ d.mThreadId = config.currentThreadId + 1
             /\ p.uuid = <<0, d.mThreadId>>
    BY <1>2, <1>5
  <1>6. CASE /\ c.pc = "counter" /\ d.mThreadId = c.mThreadId
             /\ p.uuid = <<c.mCurrentCounterId, c.mThreadId>>
    BY <1>6 DEF ThreadTracks
  <1> QED BY <1>1, <1>3, <1>4, <1>5, <1>6 DEF OnTrack

\* Dropping packets, or contexts that forget their tracks, disturbs nothing.
LEMMA TrackFrame ==
    ASSUME TypeOK, TypeOK', TrackInv, Held' \subseteq Held,
           config.tracingDisabled => config'.tracingDisabled,
           \A t \in Threads :
              \/ ctx'[t].mThreadId = 0
              \/ /\ ctx'[t].mThreadId = ctx[t].mThreadId
                 /\ ctx'[t].mCounterUuids = ctx[t].mCounterUuids,
           \A t \in Threads : ThreadTracks(ctx'[t], config'.currentThreadId),
           config'.currentThreadId >= config.currentThreadId
    PROVE  IdsDistinct' /\ HeldTracks' /\ TracksApart(Held)'
  <1>1. IdsDistinct'
    BY DEF TrackInv, IdsDistinct
  <1>2. HeldTracks'
    <2>1. ASSUME NEW p \in Held', p.uuid # NoUuid
          PROVE  /\ p.uuid[2] # 0
                 /\ ~config'.tracingDisabled => p.uuid[2] <= config'.currentThreadId
                 /\ \A t \in Threads : p.uuid[2] = ctx'[t].mThreadId =>
                       /\ p.by = t
                       /\ p.kind = "counterTrack" =>
                             /\ p.name \in Names
                             /\ ctx'[t].mCounterUuids[p.name] = p.uuid
      <3>1. p \in Held /\ p \in Packet
        BY <2>1, HeldType
      <3>2. /\ p.uuid[2] # 0
            /\ ~config.tracingDisabled => p.uuid[2] <= config.currentThreadId
            /\ \A t \in Threads : p.uuid[2] = ctx[t].mThreadId =>
                  /\ p.by = t
                  /\ p.kind = "counterTrack" =>
                        /\ p.name \in Names
                        /\ ctx[t].mCounterUuids[p.name] = p.uuid
        BY <2>1, <3>1 DEF TrackInv, HeldTracks
      <3>3. /\ p.uuid[2] \in Nat /\ config.currentThreadId \in Nat
            /\ config'.currentThreadId \in Nat
        BY <3>1 DEF Packet, Uuid, TypeOK, Config, Pos
      <3> QED BY <3>2, <3>3
    <2> QED BY <2>1 DEF HeldTracks
  <1>3. TracksApart(Held')
    BY DEF TrackInv, TracksApart
  <1> QED BY <1>1, <1>2, <1>3 DEF TracksApart

\* A step of a call keeps each thread's tracks its own.
LEMMA TrackCall ==
    ASSUME SafeInv, TypeOK', TrackInv, NEW t \in Threads, ~Crashed, InCall(t)
    PROVE  /\ \A u \in Threads : ThreadTracks(ctx'[u], config'.currentThreadId)
           /\ IdsDistinct' /\ HeldTracks' /\ TracksApart(Held)'
  <1> DEFINE c == ctx[t]
             d == ctx'[t]
  <1>0. /\ TypeOK /\ ContextInv /\ config \in Config /\ config' \in Config
        /\ c \in Context /\ d \in Context
        /\ c.mThreadId \in Nat /\ d.mThreadId \in Nat
        /\ c.mCurrentCounterId \in Nat
        /\ c.mCounterUuids \in [Names -> Uuid]
        /\ config.currentThreadId \in Nat /\ config'.currentThreadId \in Nat
    BY DEF SafeInv, TypeOK, Context, Config, Pos
  <1>1. /\ \A u \in Threads \ {t} : ctx'[u] = ctx[u]
        /\ config'.tracingDisabled = config.tracingDisabled
        /\ ~config.tracingDisabled
    BY <1>0, InCallFrame DEF PcStep, SafeInv, SessionInv, CallsInSession
  <1>2. Leads(c, d)
    BY <1>0, CallFrame
  <1>3. \A u \in Threads : ThreadTracks(ctx[u], config.currentThreadId)
    BY DEF TrackInv
  <1>4. ASSUME config'.currentThreadId >= config.currentThreadId, ThreadTracks(d, config'.currentThreadId)
        PROVE  \A u \in Threads : ThreadTracks(ctx'[u], config'.currentThreadId)
    <2>1. ASSUME NEW u \in Threads \ {t} PROVE ThreadTracks(ctx'[u], config'.currentThreadId)
      <3>1. ctx'[u] = ctx[u] /\ ThreadTracks(ctx[u], config.currentThreadId) /\ ctx[u].mThreadId \in Nat
        BY <1>1, <1>3, <1>0 DEF TypeOK, Context
      <3> QED BY <1>0, <1>4, <3>1 DEF ThreadTracks
    <2> QED BY <1>4, <2>1
  <1>5. CASE Silent(c, d) \/ HandsOver(c, d)
    <2>1. /\ SameTracks(c, d)
          /\ config'.currentThreadId = config.currentThreadId
          /\ c.mTraceBuffer # <<>> => d.mTraceBuffer # <<>>
      BY <1>5 DEF Silent, HandsOver
    <2>2. d.pc \in {"name", "nameAdd", "counter"} => d.mThreadId # 0
      BY <1>2, <1>3, <2>1 DEF Leads, ThreadTracks, SameTracks
    <2>3. ThreadTracks(d, config'.currentThreadId)
      BY <1>3, <2>1, <2>2 DEF ThreadTracks, SameTracks
    <2>4. Held' \subseteq Held
      <3>1. CASE Silent(c, d)
        BY <1>1, <3>1 DEF Silent, Held, Elems
      <3>2. CASE HandsOver(c, d)
        BY <1>0, <1>1, <3>2, HeldSave DEF HandsOver
      <3> QED BY <1>5, <3>1, <3>2
    <2>5. config'.currentThreadId >= config.currentThreadId
      BY <1>0, <2>1
    <2> QED BY <1>0, <1>1, <1>4, <2>1, <2>3, <2>4, <2>5, TrackFrame
            DEF SameTracks
  <1>6. CASE GivesUp(c, d)
    <2>1. /\ d.mThreadId = 0 /\ d.mCounterUuids = [n \in Names |-> NoUuid]
          /\ d.pc = "dead"
          /\ config'.currentThreadId = config.currentThreadId
      BY <1>6 DEF GivesUp
    <2>2. ThreadTracks(d, config'.currentThreadId)
      BY <2>1 DEF ThreadTracks
    <2>3. Held' \subseteq Held
      BY <1>0, <1>1, <1>6, HeldSave DEF GivesUp
    <2>4. config'.currentThreadId >= config.currentThreadId
      BY <1>0, <2>1
    <2> QED BY <1>0, <1>1, <1>4, <2>1, <2>2, <2>3, <2>4, TrackFrame
  <1>7. ASSUME NEW p, Emits(t, c, d, p), Held' \subseteq Held \union {p}
        PROVE  /\ \A u \in Threads : ThreadTracks(ctx'[u], config'.currentThreadId)
               /\ IdsDistinct' /\ HeldTracks' /\ TracksApart(Held)'
    <2>1. /\ OnTrack(c, d, p) /\ p.by = t /\ p \in Packet /\ p.uuid \in Uuid
      BY <1>7 DEF Emits, Packet
    <2>2. p.uuid # NoUuid => p.uuid[2] = d.mThreadId /\ d.mThreadId # 0
      BY <1>0, <1>3, <1>7, EmitsOnTrack
    <2>3. config'.currentThreadId >= config.currentThreadId
      BY <1>0, <2>1 DEF OnTrack
    <2>4. d.mTraceBuffer # <<>>
      BY <1>0, <1>7, AddedBuffer DEF Emits
    <2>5. d.mThreadId # c.mThreadId =>
             /\ c.mThreadId = 0
             /\ d.mThreadId = config.currentThreadId + 1
             /\ config'.currentThreadId = d.mThreadId
      BY <2>1 DEF OnTrack, SameTracks
    <2>6. d.pc \in {"name", "nameAdd", "counter"} => d.mThreadId # 0
      BY <1>0, <1>2, <1>3, <2>5 DEF Leads, ThreadTracks
    <2>7. c.mThreadId # 0 => c.mThreadId <= config.currentThreadId
      BY <1>3 DEF ThreadTracks
    <2>8. d.mThreadId <= config'.currentThreadId
      BY <1>0, <2>3, <2>5, <2>7
    <2>9. \A n \in Names : c.mCounterUuids[n] # NoUuid =>
             /\ c.mThreadId # 0
             /\ c.mCounterUuids[n][2] = c.mThreadId
             /\ c.mCounterUuids[n][1] < c.mCurrentCounterId
      BY <1>3 DEF ThreadTracks
    <2>10. \A n \in Names : c.mCounterUuids[n] \in Uuid
      BY <1>0
    <2>11. \A n \in Names : d.mCounterUuids[n] # NoUuid =>
             /\ d.mThreadId # 0
             /\ d.mCounterUuids[n][2] = d.mThreadId
             /\ d.mCounterUuids[n][1] < d.mCurrentCounterId
      <3>1. CASE /\ d.mCounterUuids = c.mCounterUuids
                 /\ d.mCurrentCounterId = c.mCurrentCounterId
        BY <2>5, <2>9, <3>1
      <3>2. CASE /\ c.arg \in Names /\ d.mThreadId = c.mThreadId
                 /\ d.mCounterUuids = [c.mCounterUuids EXCEPT ![c.arg] = p.uuid]
                 /\ d.mCurrentCounterId = c.mCurrentCounterId + 1
                 /\ p.uuid = <<c.mCurrentCounterId, c.mThreadId>>
        <4>1. ASSUME NEW n \in Names, d.mCounterUuids[n] # NoUuid, n # c.arg
              PROVE  /\ d.mThreadId # 0
                     /\ d.mCounterUuids[n][2] = d.mThreadId
                     /\ d.mCounterUuids[n][1] < d.mCurrentCounterId
          BY <1>0, <3>2, <4>1, <2>10, <2>9 DEF Uuid
        <4>2. /\ d.mCounterUuids[c.arg] = p.uuid
              /\ p.uuid[2] = c.mThreadId /\ p.uuid[1] < d.mCurrentCounterId
          BY <1>0, <3>2
        <4> QED BY <2>2, <3>2, <4>1, <4>2
      <3> QED BY <2>1, <3>1, <3>2 DEF OnTrack, SameTracks
    <2>12. ThreadTracks(d, config'.currentThreadId)
      BY <2>4, <2>6, <2>8, <2>11 DEF ThreadTracks
    <2>13. IdsDistinct'
      <3>1. ASSUME NEW u \in Threads, u # t, ctx[u].mThreadId = d.mThreadId
            PROVE  d.mThreadId = 0
        <4>1. /\ ctx[u].mThreadId \in Nat
              /\ ctx[u].mThreadId # 0 =>
                    ctx[u].mThreadId <= config.currentThreadId
          BY <1>0, <1>3 DEF TypeOK, Context, ThreadTracks
        <4>2. CASE d.mThreadId = c.mThreadId
          BY <3>1, <4>2 DEF TrackInv, IdsDistinct
        <4>3. CASE d.mThreadId # c.mThreadId
          BY <1>0, <2>5, <3>1, <4>1, <4>3
        <4> QED BY <4>2, <4>3
      <3>2. \A u, v \in Threads : ctx[u].mThreadId = ctx[v].mThreadId
                 /\ ctx[u].mThreadId # 0 => u = v
        BY DEF TrackInv, IdsDistinct
      <3> QED BY <1>1, <3>1, <3>2 DEF IdsDistinct
    <2>14. ASSUME NEW q \in Held, q.uuid # NoUuid
           PROVE  /\ q \in Packet
                  /\ q.uuid[2] \in Nat /\ q.uuid[2] # 0
                  /\ q.uuid[2] <= config.currentThreadId
                  /\ \A u \in Threads : q.uuid[2] = ctx[u].mThreadId =>
                        /\ q.by = u
                        /\ q.kind = "counterTrack" =>
                             /\ q.name \in Names
                             /\ ctx[u].mCounterUuids[q.name] = q.uuid
      <3>1. q \in Packet
        BY <1>0, HeldType
      <3> QED BY <1>1, <2>14, <3>1 DEF TrackInv, HeldTracks, Packet, Uuid
    <2>15. ASSUME NEW q \in Held, q.uuid # NoUuid, q.uuid[2] = d.mThreadId
           PROVE  /\ q.by = t /\ d.mThreadId = c.mThreadId
                  /\ q.kind = "counterTrack" =>
                        /\ q.name \in Names
                        /\ c.mCounterUuids[q.name] = q.uuid
                        /\ d.mCounterUuids[q.name] = q.uuid
      BY <1>0, <2>5, <2>14, <2>15, <2>1 DEF OnTrack, SameTracks
    <2>16. HeldTracks'
      <3>1. ASSUME NEW q \in Held', q.uuid # NoUuid
            PROVE  /\ q.uuid[2] # 0
                   /\ q.uuid[2] <= config'.currentThreadId
                   /\ \A u \in Threads : q.uuid[2] = ctx'[u].mThreadId =>
                         /\ q.by = u
                         /\ q.kind = "counterTrack" =>
                               /\ q.name \in Names
                               /\ ctx'[u].mCounterUuids[q.name] = q.uuid
        <4>1. CASE q \in Held
          BY <1>0, <2>3, <2>14, <3>1, <4>1, <1>1, <2>15
        <4>2. CASE q = p
          BY <2>2, <3>1, <4>2, <2>13, <1>0, <2>1, <2>8 DEF IdsDistinct, OnTrack
        <4> QED BY <1>7, <3>1, <4>1, <4>2
      <3> QED BY <3>1 DEF HeldTracks
    <2>17. TracksApart(Held \union {p})
      <3>1. ASSUME NEW q \in Held, q.uuid # NoUuid, p.uuid # NoUuid
            PROVE  /\ p.uuid[2] = q.uuid[2] => p.by = q.by
                   /\ ~(p.kind = "counterTrack" /\ q.kind = "counterTrack"
                          /\ p.uuid = q.uuid)
        <4>1. p.uuid[2] = q.uuid[2] => p.by = q.by
          BY <2>1, <2>2, <2>15, <3>1
        <4>2. ASSUME p.kind = "counterTrack", q.kind = "counterTrack",
                     p.uuid = q.uuid
              PROVE  FALSE
          BY <2>2, <2>15, <3>1, <4>2, <2>9, <2>1, <1>0 DEF OnTrack
        <4> QED BY <4>1, <4>2
      <3>2. TracksApart(Held)
        BY DEF TrackInv
      <3> QED BY <3>1, <3>2 DEF TracksApart
    <2>18. TracksApart(Held')
      BY <1>7, <2>17 DEF TracksApart
    <2> QED BY <1>4, <2>3, <2>12, <2>13, <2>16, <2>18 DEF TracksApart
  <1>8. CASE Held' \subseteq Held /\ \E p : Emits(t, c, d, p)
    BY <1>7, <1>8
  <1> QED BY <1>0, <1>5, <1>6, <1>7, <1>8, CallFrame, HeldCall

\* So do the other steps: the ids are drawn anew only when no thread has one.
LEMMA TrackOther ==
    ASSUME Quiesced, SafeInv, TypeOK', TrackInv,
           \/ \E t \in Threads : StartCall(t)
           \/ InControl \/ StartControl \/ UNCHANGED vars
    PROVE  /\ \A u \in Threads : ThreadTracks(ctx'[u], config'.currentThreadId)
           /\ IdsDistinct' /\ HeldTracks' /\ TracksApart(Held)'
  <1> DEFINE Goal == /\ \A u \in Threads :
                           ThreadTracks(ctx'[u], config'.currentThreadId)
                     /\ IdsDistinct' /\ HeldTracks' /\ TracksApart(Held)'
  <1>0. /\ TypeOK /\ ContextInv /\ ControlInv /\ SessionInv
        /\ config \in Config /\ config.currentThreadId \in Nat
    BY DEF SafeInv, TypeOK, Config, Pos
  <1>1. Held' \subseteq Held
    BY <1>0, HeldOther
  <1>2. \A u \in Threads : ThreadTracks(ctx[u], config.currentThreadId)
    BY DEF TrackInv
  <1>3. ASSUME NEW t \in Threads, StartCall(t)
        PROVE  Goal
    BY <1>0, <1>3, StartFrame, StartCallFrame, <1>2, <1>1, TrackFrame
    DEF ThreadTracks, Untouched, SameTracks
  <1>4. ASSUME NEW t \in Threads, SaveContext(t)
        PROVE  Goal
    <2>1. /\ WipedOut(ctx[t], ctx'[t]) /\ config' = config
          /\ \A u \in Threads \ {t} : ctx'[u] = ctx[u]
      BY <1>0, <1>4, SaveFrame
    <2>2. ctx[t].pc \in {"idle", "dead"}
      BY <1>0, <1>4 DEF SaveContext, ControlInv, SessionInv, CallsInSession
    <2>3. ThreadTracks(ctx'[t], config'.currentThreadId)
      BY <2>1, <2>2 DEF ThreadTracks, WipedOut
    <2>4. \A u \in Threads : ThreadTracks(ctx'[u], config'.currentThreadId)
      BY <1>2, <2>1, <2>3
    <2>5. config'.currentThreadId >= config.currentThreadId
      BY <1>0, <2>1
    <2> QED BY <1>0, <1>1, <2>1, <2>4, <2>5, TrackFrame DEF WipedOut
  <1>5. CASE UNCHANGED ctx /\ config.tracingDisabled /\ ctl.step \notin Saving
    <2>1. Held = {}
      BY <1>0, <1>5, NothingHeld
    <2>2. \A u \in Threads : ctx[u].mTraceBuffer = <<>>
      BY <1>0, <1>5 DEF SessionInv, NothingLeft
    <2>3. \A u \in Threads : ThreadTracks(ctx'[u], config'.currentThreadId)
      BY <1>2, <1>5, <2>2 DEF ThreadTracks
    <2>4. IdsDistinct'
      BY <1>5 DEF TrackInv, IdsDistinct
    <2>5. Held' = {}
      BY <1>1, <2>1
    <2> QED BY <2>3, <2>4, <2>5 DEF HeldTracks, TracksApart
  <1>6. ASSUME UNCHANGED ctx,
               config'.currentThreadId = config.currentThreadId,
               config.tracingDisabled => config'.tracingDisabled
        PROVE  Goal
    BY <1>2, <1>6, <1>0, <1>1, TrackFrame
  <1>7. CASE DisableTracing
    BY <1>0, <1>7, <1>6 DEF DisableTracing, Config
  <1>8. CASE ResetCounters \/ FinishEnable \/ FinishDisable
    BY <1>8, <1>0, <1>5
    DEF ResetCounters, FinishEnable, FinishDisable, Saving, ControlInv
  <1>9. CASE \E d \in GuestDiffs : SetGuestTime(d)
    BY <1>9, <1>0, <1>5 DEF SetGuestTime, ControlInv, Saving
  <1>10. CASE UNCHANGED <<ctx, config>>
    BY <1>6, <1>10
  <1> QED BY <1>3, <1>4, <1>7, <1>8, <1>9, <1>10
          DEF InControl, StartControl, EnableTracing, LockContexts,
              OpenHostFile, WriteSavedTrace, SecondPass, CloseHostFile, vars

\* Every step keeps the tracks apart, in what is held and in the file.
LEMMA TrackStep ==
    ASSUME Quiesced, SafeInv, SafeInv', TrackInv, [Next]_vars
    PROVE  TrackInv'
  <1>1. /\ \A u \in Threads : ThreadTracks(ctx'[u], config'.currentThreadId)
        /\ IdsDistinct' /\ HeldTracks' /\ TracksApart(Held)'
    BY TrackCall, TrackOther DEF Next, SafeInv
  <1>2. TracksApart(InFile')
    <2>1. CASE ctl.step \in Writing /\ InFile' \subseteq InFile \union Held
      BY <2>1 DEF TrackInv, TracksApart
    <2>2. CASE InFile' \subseteq InFile
      BY <2>2 DEF TrackInv, TracksApart
    <2> QED BY <2>1, <2>2, FileStep DEF SafeInv
  <1>3. ctl'.step \in Writing => InFile' \subseteq Held'
    BY WritingHeld DEF TrackInv
  <1> QED BY <1>1, <1>2, <1>3 DEF TrackInv, TracksApart

\* No two threads share a track of the file, nor do two counters of a
\* thread: the thread ids of a session are drawn from one counter, and the
\* counter ids of a thread start again only with its thread id.
THEOREM TracksOwned == Quiesced => (Spec => []OwnTracks)
  <1> SUFFICES ASSUME Quiesced PROVE Spec => []OwnTracks
    OBVIOUS
  <1>1. Init => TrackInv
    <2> SUFFICES ASSUME Init PROVE TrackInv
      OBVIOUS
    <2>1. /\ \A t \in Threads : /\ ctx[t].mTraceBuffer = <<>>
                                /\ ctx[t].out = <<>>
                                /\ ctx[t].mThreadId = 0
                                /\ ctx[t].pc = "idle"
                                /\ \A n \in Names :
                                      ctx[t].mCounterUuids[n] = NoUuid
          /\ mSavedTraces = <<>> /\ hostFile = <<>> /\ ctl.step = "none"
      BY DEF Init, NewContext
    <2>2. Held = {}
      BY <2>1, HeldBy, ElemsFacts
    <2>3. InFile = {}
      BY <2>1 DEF InFile
    <2>4. HeldTracks /\ TracksApart(Held) /\ TracksApart(InFile)
      BY <2>2, <2>3 DEF TracksApart, HeldTracks
    <2>5. IdsDistinct
      BY <2>1 DEF IdsDistinct
    <2>6. \A t \in Threads : ThreadTracks(ctx[t], config.currentThreadId)
      BY <2>1 DEF ThreadTracks
    <2> QED BY <2>1, <2>4, <2>5, <2>6 DEF TrackInv, Writing
  <1>2. SafeInv /\ TrackInv => OwnTracks
    <2> SUFFICES ASSUME SafeInv, TrackInv,
                        NEW p \in Packets(hostFile), NEW q \in Packets(hostFile),
                        p.uuid = q.uuid, p.uuid # NoUuid
                 PROVE  /\ p.by = q.by
                        /\ {p.kind, q.kind} = {"counterTrack"} => p.name = q.name
      BY DEF OwnTracks
    <2>1. p \in InFile /\ q \in InFile
      BY PacketsInFile DEF SafeInv, TypeOK
    <2>2. {p.kind, q.kind} = {"counterTrack"} =>
             p.kind = "counterTrack" /\ q.kind = "counterTrack"
      OBVIOUS
    <2> QED BY <2>1, <2>2 DEF TrackInv, TracksApart
  <1>3. SafeInv /\ TrackInv /\ [Next]_vars => SafeInv' /\ TrackInv'
    BY SafeStep, TrackStep
  <1> QED BY <1>1, <1>2, <1>3, SafeStep, PTL DEF Spec

-----------------------------------------------------------------------------
(***************************************************************************)
(* The file starts with the packet that clears the sequence's state        *)
(***************************************************************************)

\* The clearing packet is the first of a buffer that is marked, and is in no
\* other place.
Marked(first, pkts) ==
    /\ first => pkts # <<>>
    /\ \A i \in 1 .. Len(pkts) : pkts[i].kind = "seq" <=> (first /\ i = 1)

BuffersMarked ==
    /\ \A t \in Threads : /\ Marked(ctx[t].mFirst, ctx[t].mTraceBuffer)
                          /\ Marked(FALSE, ctx[t].out)
    /\ \A j \in 1 .. Len(mSavedTraces) :
          Marked(mSavedTraces[j].first, mSavedTraces[j].pkts)

OneMark ==
    /\ \A t, u \in Threads : ctx[t].mFirst /\ ctx[u].mFirst => t = u
    /\ \A i, j \in 1 .. Len(mSavedTraces) :
          mSavedTraces[i].first /\ mSavedTraces[j].first => i = j
    /\ \A t \in Threads, j \in 1 .. Len(mSavedTraces) :
          ~(ctx[t].mFirst /\ mSavedTraces[j].first)

HasMark ==
    \/ \E t \in Threads : ctx[t].mFirst
    \/ \E j \in 1 .. Len(mSavedTraces) : mSavedTraces[j].first

\* From enableTracing until the file is closed.
Active == ~config.tracingDisabled \/ ctl.step \in Saving

\* A context before the clearing packet is written: no end is under way,
\* because no begin has been counted.
Fresh(c) ==
    /\ c.mTraceBuffer = <<>>
    /\ c.out = <<>>
    /\ c.pc \in {"idle", "dead", "construct", "check", "lock", "first", "await"}
    /\ c.pc # "dead" => c.mStackDepth = 0
    /\ c.pc = "lock" => c.op # "end"

\* packetsWritten elects one thread; until it has written the clearing
\* packet nothing is buffered, afterwards some buffer has the mark.
Election ==
    /\ Active /\ config.sequenceIdWritten => HasMark
    /\ Active /\ ~config.sequenceIdWritten =>
          /\ mSavedTraces = <<>>
          /\ \A t \in Threads : Fresh(ctx[t])
    /\ Active /\ config.packetsWritten = 0 => ~config.sequenceIdWritten
    /\ \A t \in Threads : ctx[t].pc = "first" =>
          /\ ~config.sequenceIdWritten
          /\ config.packetsWritten # 0
          /\ \A u \in Threads : ctx[u].pc = "first" => t = u

\* Between sessions the depths and the two variables are reset; a context
\* the saver does not find has depth 0.
Reinitialised ==
    /\ \A t \in Threads :
          t \notin mContexts /\ ctx[t].pc \notin {"dead", "exit"} =>
              ctx[t].mStackDepth = 0
    /\ ctl.step = "save" =>
          \A t \in Threads \ ctl.todo :
              ctx[t].pc # "dead" => ctx[t].mStackDepth = 0
    /\ config.tracingDisabled /\ ctl.step \notin {"lock", "save"} =>
          \A t \in Threads : ctx[t].pc # "dead" => ctx[t].mStackDepth = 0
    /\ ctl.step \in {"seq", "intern", "tid", "last"} =>
          config.packetsWritten = 0
    /\ ctl.step \in {"intern", "tid", "last"} => ~config.sequenceIdWritten

\* The first pass moves the marked buffer, and only that, to the front.
FileMarked ==
    /\ \A k \in 1 .. Len(hostFile) :
          /\ Marked(hostFile[k].first, hostFile[k].pkts)
          /\ hostFile[k].first <=> k = 1
    /\ ctl.step = "firstPass" =>
          \/ /\ hostFile = <<>>
             /\ \A j \in 1 .. Len(mSavedTraces) :
                   mSavedTraces[j].first => j >= ctl.idx
          \/ /\ Len(hostFile) = 1
             /\ \A j \in 1 .. Len(mSavedTraces) :
                   mSavedTraces[j].first => j < ctl.idx
    /\ ctl.step = "restPass" => hostFile # <<>> \/ mSavedTraces = <<>>

MarkInv ==
    BuffersMarked /\ OneMark /\ Election /\ Reinitialised /\ FileMarked

\* What is appended to a buffer after the clearing packet.
LEMMA MarkedAppend ==
    ASSUME NEW s \in Seq(Packet), NEW p, NEW first, Marked(first, s),
           p.kind # "seq"
    PROVE  Marked(first, Append(s, p))
  <1>1. /\ Append(s, p) # <<>>
        /\ Len(Append(s, p)) = Len(s) + 1 /\ Len(s) \in Nat
        /\ \A i \in 1 .. Len(s) : Append(s, p)[i] = s[i]
        /\ Append(s, p)[Len(s) + 1] = p
    BY AppendFacts
  <1>2. \A i \in 1 .. Len(s) + 1 : i \in 1 .. Len(s) \/ i = Len(s) + 1
    BY <1>1
  <1>3. first => Len(s) + 1 # 1
    BY <1>1 DEF Marked
  <1> QED BY <1>1, <1>2, <1>3 DEF Marked

\* A buffer of one packet.
LEMMA MarkedOne ==
    ASSUME NEW p
    PROVE  /\ p.kind = "seq" => Marked(TRUE, <<p>>)
           /\ p.kind # "seq" => Marked(FALSE, <<p>>)
           /\ Marked(FALSE, <<>>)
  BY DEF Marked

\* The mark goes with the buffer that is saved.
LEMMA MarkMoves ==
    ASSUME TypeOK, BuffersMarked, OneMark, NEW t \in Threads,
           SaveBuffer(ctx[t]), \A u \in Threads \ {t} : ctx'[u] = ctx[u],
           ~ctx'[t].mFirst, Marked(ctx'[t].mFirst, ctx'[t].mTraceBuffer),
           Marked(FALSE, ctx'[t].out)
    PROVE  BuffersMarked' /\ OneMark' /\ (HasMark => HasMark')
  <1> DEFINE c == ctx[t]
             n == Len(mSavedTraces)
  <1>1. c \in Context /\ mSavedTraces \in Seq(SavedTraceInfo) /\ n \in Nat
    BY DEF TypeOK
  <1>2. /\ \A u \in Threads : /\ Marked(ctx[u].mFirst, ctx[u].mTraceBuffer)
                              /\ Marked(FALSE, ctx[u].out)
        /\ \A j \in 1 .. n : Marked(mSavedTraces[j].first, mSavedTraces[j].pkts)
    BY DEF BuffersMarked
  <1>3. /\ \A u, v \in Threads : ctx[u].mFirst /\ ctx[v].mFirst => u = v
        /\ \A i, j \in 1 .. n :
              mSavedTraces[i].first /\ mSavedTraces[j].first => i = j
        /\ \A u \in Threads, j \in 1 .. n :
              ~(ctx[u].mFirst /\ mSavedTraces[j].first)
    BY DEF OneMark
  <1>4. \A u \in Threads : /\ Marked(ctx'[u].mFirst, ctx'[u].mTraceBuffer)
                           /\ Marked(FALSE, ctx'[u].out)
    BY <1>2
  <1>5. \A u \in Threads : ctx'[u].mFirst => ctx[u].mFirst /\ u # t
    OBVIOUS
  <1>6. CASE c.mTraceBuffer = <<>> /\ mSavedTraces' = mSavedTraces
    <2>1. ~c.mFirst
      BY <1>2, <1>6 DEF Marked
    <2>2. BuffersMarked'
      BY <1>2, <1>4, <1>6 DEF BuffersMarked
    <2>3. OneMark'
      BY <1>3, <1>5, <1>6 DEF OneMark
    <2>4. HasMark => HasMark'
      BY <1>6, <2>1 DEF HasMark
    <2> QED BY <2>2, <2>3, <2>4
  <1>7. CASE /\ Len(mSavedTraces') = n + 1
             /\ \A j \in 1 .. n : mSavedTraces'[j] = mSavedTraces[j]
             /\ mSavedTraces'[n + 1].first = c.mFirst
             /\ mSavedTraces'[n + 1].pkts = c.mTraceBuffer
             /\ \A j \in 1 .. Len(mSavedTraces') : j \in 1 .. n \/ j = n + 1
    <2>1. /\ n + 1 \in 1 .. Len(mSavedTraces')
          /\ \A j \in 1 .. n : j \in 1 .. Len(mSavedTraces')
      BY <1>1, <1>7
    <2> HIDE DEF n
    <2>2. BuffersMarked'
      BY <1>2, <1>4, <1>7 DEF BuffersMarked
    <2>3. \A i, j \in 1 .. Len(mSavedTraces') :
             mSavedTraces'[i].first /\ mSavedTraces'[j].first => i = j
      BY <1>3, <1>7
    <2>4. \A u \in Threads, j \in 1 .. Len(mSavedTraces') :
             ~(ctx'[u].mFirst /\ mSavedTraces'[j].first)
      BY <1>3, <1>5, <1>7
    <2>5. OneMark'
      BY <1>3, <1>5, <2>3, <2>4 DEF OneMark
    <2>6. HasMark => HasMark'
      <3>1. CASE c.mFirst
        BY <1>7, <2>1, <3>1 DEF HasMark
      <3>2. CASE \E u \in Threads : u # t /\ ctx[u].mFirst
        BY <3>2 DEF HasMark
      <3>3. CASE \E j \in 1 .. n : mSavedTraces[j].first
        BY <1>7, <2>1, <3>3 DEF HasMark
      <3> QED BY <3>1, <3>2, <3>3 DEF HasMark, n
    <2> QED BY <2>2, <2>5, <2>6
  <1> QED BY <1>1, <1>6, <1>7, SaveFacts

\* A step of a call: one thread is elected and writes the clearing packet
\* into an empty buffer, before any other packet.
LEMMA MarkCall ==
    ASSUME SafeInv, MarkInv, NEW t \in Threads, ~Crashed, InCall(t)
    PROVE  MarkInv'
  <1> DEFINE c == ctx[t]
             d == ctx'[t]
  <1>0. /\ TypeOK /\ ContextInv /\ ControlInv /\ RegisteredInv /\ SessionInv
        /\ BuffersMarked /\ OneMark /\ Election /\ Reinitialised /\ FileMarked
        /\ c \in Context /\ ContextOK(c) /\ config.packetsWritten \in Nat
        /\ c.mTraceBuffer \in Seq(Packet)
        /\ c.pc # "oob" /\ mSavedTraces \in Seq(SavedTraceInfo)
    BY DEF SafeInv, MarkInv, TypeOK, ContextInv, Context, Config, Crashed
  <1>1. /\ \A u \in Threads \ {t} : ctx'[u] = ctx[u]
        /\ config'.tracingDisabled = config.tracingDisabled
        /\ mContexts \subseteq mContexts'
        /\ UNCHANGED <<hostFile, ctl>>
        /\ c.pc \notin {"idle", "dead"}
        /\ c.pc = "exit" => d.pc = "dead"
        /\ d.pc \in Registered => c.pc \in Registered \/ t \in mContexts'
    BY <1>0, InCallFrame DEF PcStep
  <1>2. ~config.tracingDisabled /\ ctl.call = "none" /\ ctl.step = "none"
    BY <1>0, <1>1 DEF SessionInv, CallsInSession, ControlInv
  <1>3. Leads(c, d)
    BY <1>0, CallFrame
  <1>4. Active /\ Active'
    BY <1>1, <1>2 DEF Active
  <1>5. /\ config.sequenceIdWritten => HasMark
        /\ ~config.sequenceIdWritten =>
              mSavedTraces = <<>> /\ \A u \in Threads : Fresh(ctx[u])
        /\ config.packetsWritten = 0 => ~config.sequenceIdWritten
        /\ \A u \in Threads : ctx[u].pc = "first" =>
              /\ ~config.sequenceIdWritten
              /\ config.packetsWritten # 0
              /\ \A v \in Threads : ctx[v].pc = "first" => u = v
    BY <1>0, <1>4 DEF Election
  <1>6. FileMarked'
    BY <1>0, <1>1, <1>2 DEF FileMarked
  <1>7. Reinitialised'
    <2>1. ASSUME t \notin mContexts', d.pc \notin {"dead", "exit"}
          PROVE  FALSE
      BY <1>0, <1>1, <2>1, <1>3
      DEF RegisteredInv, Registered, ContextOK, Leads, Guarded
    <2>2. \A u \in Threads \ {t} :
             u \notin mContexts' /\ ctx'[u].pc \notin {"dead", "exit"} =>
                ctx'[u].mStackDepth = 0
      BY <1>0, <1>1 DEF Reinitialised
    <2> QED BY <1>1, <1>2, <2>1, <2>2 DEF Reinitialised
  <1>8. /\ config.sequenceIdWritten => config'.sequenceIdWritten
        /\ c.pc # "first" =>
              config'.sequenceIdWritten = config.sequenceIdWritten
        /\ config'.packetsWritten = 0 => ~config'.sequenceIdWritten
        /\ config.packetsWritten # 0 => config'.packetsWritten # 0
    BY <1>0, <1>3, <1>5 DEF Leads
  <1>9. ~config'.sequenceIdWritten => c.pc # "first" \/ c.out # <<>>
    BY <1>3 DEF Leads
  <1>10. ~config'.sequenceIdWritten => Fresh(d) /\ mSavedTraces' = mSavedTraces
    <2> SUFFICES ASSUME ~config'.sequenceIdWritten
                 PROVE  Fresh(d) /\ mSavedTraces' = mSavedTraces
      OBVIOUS
    <2>1. ~config.sequenceIdWritten /\ Fresh(c)
      BY <1>5, <1>8
    <2>2. c.pc \in {"construct", "check", "lock", "await"} /\ c.out = <<>>
      BY <1>1, <1>9, <2>1 DEF Fresh
    <2>3. \/ c.pc = "construct" /\ d.pc = "check" /\ d.mStackDepth = 0
          \/ c.pc = "check" /\ d.pc = "idle" /\ d.mStackDepth = 0
          \/ c.pc = "check" /\ d.pc = "lock" /\ d.mStackDepth = 0
                /\ d.op # "end"
          \/ c.pc = "lock" /\ d.pc \in {"first", "await"} /\ d.mStackDepth = 0
      BY <1>3, <2>1, <2>2 DEF Leads, Fresh, Guarded
    <2>4. Silent(c, d)
      BY <2>2, <2>3, <1>0, CallFrame DEF HandsOver, GivesUp, Emits, Guarded
    <2> QED BY <2>1, <2>3, <2>4 DEF Fresh, Silent
  <1>11. \A u \in Threads : ctx'[u].pc = "first" =>
            /\ ~config'.sequenceIdWritten
            /\ config'.packetsWritten # 0
            /\ \A v \in Threads : ctx'[v].pc = "first" => u = v
    <2>1. CASE d.pc = "first"
      <3>1. /\ c.pc = "lock" /\ config.packetsWritten = 0
            /\ config'.packetsWritten = config.packetsWritten + 1
            /\ config'.sequenceIdWritten = config.sequenceIdWritten
        BY <1>5, <1>3, <2>1 DEF Fresh, Leads, Guarded
      <3>2. \A u \in Threads : ctx[u].pc # "first"
        BY <1>5, <3>1
      <3>3. config'.packetsWritten # 0 /\ ~config'.sequenceIdWritten
        BY <1>0, <1>5, <3>1
      <3> QED BY <1>1, <3>2, <3>3
    <2>2. CASE d.pc # "first"
      BY <1>1, <1>5, <2>2, <1>8
    <2> QED BY <2>1, <2>2
  <1>12. ASSUME HasMark' \/ ~config'.sequenceIdWritten
         PROVE  Election'
    BY <1>1, <1>5, <1>8, <1>10, <1>11, <1>12 DEF Fresh, Election
  <1>13. ASSUME NEW p, Emits(t, c, d, p), c.pc = "first"
         PROVE  BuffersMarked' /\ OneMark' /\ HasMark'
    <2>1. /\ mSavedTraces = <<>> /\ c.mTraceBuffer = <<>>
          /\ \A u \in Threads : /\ ctx[u].mTraceBuffer = <<>>
                                /\ ctx[u].out = <<>> /\ ~ctx[u].mFirst
      BY <1>0, <1>5, <1>13 DEF Fresh, BuffersMarked, Marked
    <2>2. p.kind = "seq" /\ d.mFirst /\ mSavedTraces' = <<>>
      BY <1>13, <2>1 DEF Emits
    <2>3. d.mTraceBuffer = Append(<<>>, p) /\ d.out = <<>>
      BY <1>13, <2>1, ConstantsAssumption DEF Emits, Added
    <2>4. d.mTraceBuffer = <<p>>
      BY <2>3
    <2>5. Marked(d.mFirst, d.mTraceBuffer) /\ Marked(FALSE, d.out)
      BY <2>2, <2>3, <2>4, MarkedOne
    <2>6. BuffersMarked'
      <3>1. \A u \in Threads : /\ Marked(ctx'[u].mFirst, ctx'[u].mTraceBuffer)
                               /\ Marked(FALSE, ctx'[u].out)
        BY <1>1, <1>0, <2>5 DEF BuffersMarked
      <3>2. 1 .. Len(mSavedTraces') = {}
        BY <2>2
      <3> QED BY <3>1, <3>2 DEF BuffersMarked
    <2>7. OneMark' /\ HasMark'
      BY <1>1, <2>1, <2>2 DEF OneMark, HasMark
    <2> QED BY <2>6, <2>7
  <1>14. ASSUME NEW p, Emits(t, c, d, p), c.pc # "first"
         PROVE  BuffersMarked' /\ OneMark' /\ (HasMark => HasMark')
    <2>1. /\ p.kind # "seq"
          /\ (d.mFirst <=> c.mFirst)
          /\ mSavedTraces' = mSavedTraces
          /\ \/ d.mTraceBuffer = Append(c.mTraceBuffer, p) /\ d.out = <<>>
             \/ d.mTraceBuffer = c.mTraceBuffer /\ d.out = <<p>>
      BY <1>14 DEF Emits, Added
    <2>2. Marked(c.mFirst, c.mTraceBuffer) /\ Marked(FALSE, c.out)
      BY <1>0 DEF BuffersMarked
    <2>3. Marked(c.mFirst, Append(c.mTraceBuffer, p))
      BY <1>0, <2>1, <2>2, MarkedAppend
    <2>4. Marked(c.mFirst, d.mTraceBuffer) /\ Marked(FALSE, d.out)
      BY <2>1, <2>2, <2>3, MarkedOne
    <2>5. Marked(d.mFirst, d.mTraceBuffer)
      BY <2>1, <2>4 DEF Marked
    <2>6. BuffersMarked'
      BY <1>1, <1>0, <2>1, <2>4, <2>5 DEF BuffersMarked
    <2>7. OneMark' /\ (HasMark => HasMark')
      BY <1>0, <1>1, <2>1 DEF OneMark, HasMark
    <2> QED BY <2>6, <2>7
  <1>15. CASE Silent(c, d)
    <2>1. /\ d.mFirst = c.mFirst /\ d.mTraceBuffer = c.mTraceBuffer
          /\ d.out = c.out /\ mSavedTraces' = mSavedTraces /\ c.pc # "first"
      BY <1>15 DEF Silent
    <2>2. BuffersMarked'
      BY <1>0, <1>1, <2>1 DEF BuffersMarked
    <2>3. OneMark' /\ (HasMark => HasMark')
      BY <1>0, <1>1, <2>1 DEF OneMark, HasMark
    <2>4. HasMark' \/ ~config'.sequenceIdWritten
      BY <1>5, <1>8, <2>1, <2>3
    <2> QED BY <1>6, <1>7, <1>12, <2>2, <2>3, <2>4 DEF MarkInv
  <1>16. CASE HandsOver(c, d) \/ GivesUp(c, d)
    <2>1. /\ SaveBuffer(c) /\ ~d.mFirst
          /\ \/ d.mTraceBuffer = <<>> /\ d.out = c.out
             \/ d.mTraceBuffer = c.out /\ d.out = <<>>
          /\ (c.pc = "exit" \/ c.out # <<>>)
      BY <1>16 DEF HandsOver, GivesUp
    <2>2. config.sequenceIdWritten
      BY <1>5, <2>1 DEF Fresh
    <2>3. Marked(FALSE, d.mTraceBuffer) /\ Marked(FALSE, d.out)
      BY <1>0, <2>1, MarkedOne DEF BuffersMarked
    <2>4. Marked(d.mFirst, d.mTraceBuffer)
      BY <2>1, <2>3 DEF Marked
    <2>5. BuffersMarked' /\ OneMark' /\ (HasMark => HasMark')
      BY <1>0, <1>1, <2>1, <2>3, <2>4, MarkMoves
    <2> QED BY <1>5, <1>6, <1>7, <1>12, <2>2, <2>5 DEF MarkInv
  <1>17. CASE \E p : Emits(t, c, d, p)
    <2>1. CASE c.pc = "first"
      BY <1>6, <1>7, <1>12, <1>13, <1>17, <2>1 DEF MarkInv
    <2>2. CASE c.pc # "first"
      BY <1>14, <1>17, <2>2, <1>5, <1>8, <1>6, <1>7, <1>12 DEF MarkInv
    <2> QED BY <2>1, <2>2
  <1> QED BY <1>0, <1>15, <1>16, <1>17, CallFrame

\* A step that leaves the buffers alone leaves the mark where it is.
LEMMA MarkStays ==
    ASSUME \A u \in Threads : Untouched(ctx[u], ctx'[u]),
           UNCHANGED mSavedTraces, BuffersMarked, OneMark
    PROVE  BuffersMarked' /\ OneMark' /\ (HasMark => HasMark')
  <1>1. \A u \in Threads : /\ ctx'[u].mTraceBuffer = ctx[u].mTraceBuffer
                           /\ ctx'[u].out = ctx[u].out
                           /\ ctx'[u].mFirst = ctx[u].mFirst
    BY DEF Untouched
  <1>2. BuffersMarked'
    BY <1>1 DEF BuffersMarked
  <1>3. OneMark' /\ (HasMark => HasMark')
    BY <1>1 DEF OneMark, HasMark
  <1> QED BY <1>2, <1>3

\* The election is not disturbed by a step that elects nobody, buffers
\* nothing and does not start a session.
LEMMA ElectionStays ==
    ASSUME Election, HasMark => HasMark', Active' => Active,
           config'.packetsWritten = config.packetsWritten,
           config'.sequenceIdWritten = config.sequenceIdWritten,
           mSavedTraces = <<>> => mSavedTraces' = <<>>,
           \A u \in Threads : Fresh(ctx[u]) => Fresh(ctx'[u]),
           \A u \in Threads : ctx'[u].pc = "first" => ctx[u].pc = "first"
    PROVE  Election'
  <1>1. \A u \in Threads : Fresh(ctx[u])' <=> Fresh(ctx'[u])
    BY DEF Fresh
  <1>2. Active' /\ ~config'.sequenceIdWritten =>
           mSavedTraces' = <<>> /\ \A u \in Threads : Fresh(ctx'[u])
    BY DEF Election
  <1>3. /\ Active' /\ config'.sequenceIdWritten => HasMark'
        /\ Active' /\ config'.packetsWritten = 0 => ~config'.sequenceIdWritten
    BY DEF Election
  <1>4. \A t \in Threads : ctx'[t].pc = "first" =>
           /\ ~config'.sequenceIdWritten
           /\ config'.packetsWritten # 0
           /\ \A u \in Threads : ctx'[u].pc = "first" => t = u
    BY DEF Election
  <1> QED BY <1>1, <1>2, <1>3, <1>4 DEF Election

\* The control thread works while the threads are quiet.
LEMMA QuietInControl ==
    ASSUME SafeInv, ctl.step # "none" \/ config.tracingDisabled
    PROVE  /\ \A u \in Threads : /\ ctx[u].pc \in {"idle", "dead"}
                                 /\ ctx[u].out = <<>>
           /\ ctl.step # "none" => config.tracingDisabled
  <1>1. \A u \in Threads : ctx[u].pc \in {"idle", "dead"}
    BY DEF SafeInv, ControlInv, SessionInv, CallsInSession
  <1>2. \A u \in Threads : ctx[u].out = <<>>
    BY <1>1 DEF SafeInv, ContextInv, ContextOK, Guarded
  <1>3. ctl.step # "none" => config.tracingDisabled
    BY DEF SafeInv, ControlInv
  <1> QED BY <1>1, <1>2, <1>3

\* A thread that starts a call, or exits, has written nothing yet.
LEMMA MarkStart ==
    ASSUME Quiesced, SafeInv, MarkInv, NEW t \in Threads, StartCall(t)
    PROVE  MarkInv'
  <1>0. /\ TypeOK /\ ControlInv
        /\ BuffersMarked /\ OneMark /\ Election /\ Reinitialised /\ FileMarked
    BY DEF SafeInv, MarkInv
  <1>1. /\ \A u \in Threads : Untouched(ctx[u], ctx'[u])
        /\ \A u \in Threads \ {t} : ctx'[u] = ctx[u]
        /\ UNCHANGED <<config, mSavedTraces, hostFile, ctl>>
        /\ ctl.call = "none" /\ ctx[t].pc = "idle"
    BY <1>0, StartFrame, StartCallFrame
  <1>2. ctl.step = "none"
    BY <1>0, <1>1 DEF ControlInv
  <1>3. \/ ctx'[t].pc \in {"check", "construct"} /\ mContexts' = mContexts
        \/ /\ mContexts' = mContexts \ {t}
           /\ \/ ctx'[t].pc = "dead"
              \/ ctx'[t].pc = "exit" /\ ctx[t].mTraceBuffer # <<>>
    BY <1>0, StartCallFrame
  <1>4. BuffersMarked' /\ OneMark' /\ (HasMark => HasMark')
    BY <1>0, <1>1, MarkStays
  <1>5. \A u \in Threads : Fresh(ctx[u]) => Fresh(ctx'[u])
    BY <1>1, <1>3 DEF Fresh, Untouched
  <1>6. Active' => Active
    BY <1>1 DEF Active
  <1>7. Election'
    BY <1>0, <1>1, <1>3, <1>4, <1>5, <1>6, ElectionStays
  <1>8. Reinitialised'
    BY <1>0, <1>1, <1>3, <1>2 DEF Reinitialised, Untouched
  <1>9. FileMarked'
    BY <1>0, <1>1 DEF FileMarked
  <1> QED BY <1>4, <1>7, <1>8, <1>9 DEF MarkInv

\* The saver takes the mark along with the buffer.
LEMMA MarkSave ==
    ASSUME Quiesced, SafeInv, MarkInv, NEW t \in Threads, SaveContext(t)
    PROVE  MarkInv'
  <1>0. /\ TypeOK /\ ControlInv
        /\ BuffersMarked /\ OneMark /\ Election /\ Reinitialised /\ FileMarked
    BY DEF SafeInv, MarkInv
  <1>1. /\ WipedOut(ctx[t], ctx'[t])
        /\ \A u \in Threads \ {t} : ctx'[u] = ctx[u]
        /\ ctl.step = "save" /\ ctl'.step = "save"
        /\ ctl'.todo = ctl.todo \ {t}
        /\ UNCHANGED <<config, mContexts, hostFile>>
    BY <1>0, SaveFrame
  <1>2. ctx[t].pc \in {"idle", "dead"} /\ ctx[t].out = <<>>
    BY <1>1, QuietInControl
  <1>3. /\ SaveBuffer(ctx[t]) /\ ~ctx'[t].mFirst
        /\ ctx'[t].mTraceBuffer = <<>> /\ ctx'[t].out = <<>>
        /\ ctx'[t].mStackDepth = 0 /\ ctx'[t].pc = ctx[t].pc
    BY <1>1, <1>2 DEF WipedOut
  <1>4. /\ Marked(ctx'[t].mFirst, ctx'[t].mTraceBuffer)
        /\ Marked(FALSE, ctx'[t].out)
    BY <1>3 DEF Marked
  <1>5. BuffersMarked' /\ OneMark' /\ (HasMark => HasMark')
    BY <1>0, <1>1, <1>3, <1>4, MarkMoves
  <1>6. Election'
    <2>1. Active /\ (Active' => Active)
      BY <1>1 DEF Active, Saving
    <2>2. \A u \in Threads : Fresh(ctx[u]) => Fresh(ctx'[u])
      BY <1>1, <1>2, <1>3 DEF Fresh
    <2>3. CASE config.sequenceIdWritten
      BY <1>1, <1>3, <1>0, <1>5, <2>1, <2>3 DEF Fresh, Election
    <2>4. CASE ~config.sequenceIdWritten
      BY <1>0, <2>1, <2>4, <1>3, <1>1, <1>5, <2>2, ElectionStays
      DEF Election, Fresh, SaveBuffer
    <2> QED BY <2>3, <2>4
  <1>7. Reinitialised'
    BY <1>0, <1>1, <1>3 DEF Reinitialised
  <1>8. FileMarked'
    BY <1>0, <1>1 DEF FileMarked
  <1> QED BY <1>5, <1>6, <1>7, <1>8 DEF MarkInv

\* A step of the two loops: the first moves the marked buffer to the front,
\* the second appends the others behind it.
LEMMA MarkWrite ==
    ASSUME SafeInv, MarkInv, WriteSavedTrace
    PROVE  FileMarked'
  <1> DEFINE trace == mSavedTraces[ctl.idx]
             n == Len(hostFile)
  <1>0. /\ BuffersMarked /\ OneMark /\ FileMarked
        /\ hostFile \in Seq(SavedTraceInfo)
        /\ mSavedTraces \in Seq(SavedTraceInfo) /\ ctl \in Control
    BY DEF SafeInv, MarkInv, TypeOK
  <1>1. /\ ctl.step \in {"firstPass", "restPass"}
        /\ ctl.idx \in 1 .. Len(mSavedTraces)
        /\ hostFile' = IF trace.first <=> ctl.step = "firstPass"
                       THEN Append(hostFile, trace) ELSE hostFile
        /\ ctl' = [ctl EXCEPT !.idx = @ + 1]
        /\ UNCHANGED mSavedTraces
    BY DEF WriteSavedTrace
  <1>2. /\ ctl'.step = ctl.step /\ ctl'.idx = ctl.idx + 1
        /\ ctl.idx \in Nat /\ Len(mSavedTraces) \in Nat
        /\ trace \in SavedTraceInfo /\ n \in Nat
        /\ \A j \in 1 .. Len(mSavedTraces) : j \in Nat
    BY <1>0, <1>1 DEF Control
  <1>3. /\ Marked(trace.first, trace.pkts)
        /\ \A j \in 1 .. Len(mSavedTraces) :
              trace.first /\ mSavedTraces[j].first => j = ctl.idx
    BY <1>0, <1>1 DEF BuffersMarked, OneMark
  <1>4. /\ \A k \in 1 .. n : /\ Marked(hostFile[k].first, hostFile[k].pkts)
                             /\ (hostFile[k].first <=> k = 1)
        /\ ctl.step = "firstPass" =>
             \/ /\ hostFile = <<>>
                /\ \A j \in 1 .. Len(mSavedTraces) :
                      mSavedTraces[j].first => j >= ctl.idx
             \/ /\ n = 1
                /\ \A j \in 1 .. Len(mSavedTraces) :
                      mSavedTraces[j].first => j < ctl.idx
        /\ ctl.step = "restPass" => hostFile # <<>> \/ mSavedTraces = <<>>
    BY <1>0 DEF FileMarked
  <1>5. mSavedTraces # <<>>
    BY <1>1
  <1>a. /\ Append(hostFile, trace) # <<>>
        /\ Len(Append(hostFile, trace)) = n + 1
        /\ \A k \in 1 .. n : Append(hostFile, trace)[k] = hostFile[k]
        /\ Append(hostFile, trace)[n + 1] = trace
        /\ \A k \in 1 .. n + 1 : k \in 1 .. n \/ k = n + 1
        /\ n + 1 = 1 <=> hostFile = <<>>
    BY <1>0, <1>2, AppendFacts
  <1>b. \A k \in 1 .. n + 1 : k = 1 \/ k # 1
    OBVIOUS
  <1> HIDE DEF trace
  <1>6. CASE ctl.step = "firstPass" /\ trace.first
    <2>1. ctl.idx >= ctl.idx /\ ~(ctl.idx < ctl.idx)
      BY <1>2
    <2>2. hostFile = <<>>
      BY <1>1, <1>4, <1>6, <2>1 DEF trace
    <2>3. /\ hostFile' = Append(hostFile, trace) /\ n + 1 = 1
          /\ 1 .. n = {}
      BY <1>1, <1>6, <1>a, <2>2
    <2>4. \A j \in 1 .. Len(mSavedTraces) :
             mSavedTraces[j].first => j < ctl.idx + 1
      BY <1>2, <1>3, <1>6
    <2>5. \A k \in 1 .. Len(hostFile') :
             /\ Marked(hostFile'[k].first, hostFile'[k].pkts)
             /\ (hostFile'[k].first <=> k = 1)
      BY <1>3, <1>6, <1>a, <2>3
    <2> QED BY <1>1, <1>2, <1>6, <1>a, <2>3, <2>4, <2>5 DEF FileMarked
  <1>7. CASE ctl.step = "firstPass" /\ ~trace.first
    BY <1>1, <1>7, <1>2, <1>4 DEF trace, FileMarked
  <1>8. CASE ctl.step = "restPass" /\ ~trace.first
    BY <1>1, <1>4, <1>5, <1>8, <1>a, <1>3, <1>2 DEF FileMarked
  <1>9. CASE ctl.step = "restPass" /\ trace.first
    BY <1>1, <1>9, <1>2, <1>4 DEF FileMarked
  <1> QED BY <1>1, <1>6, <1>7, <1>8, <1>9

\* When the first pass ends without having found the mark, no thread wrote
\* the clearing packet, and then there is no other packet either.
LEMMA MarkSecond ==
    ASSUME SafeInv, MarkInv, SecondPass
    PROVE  FileMarked'
  <1>0. /\ BuffersMarked /\ Election /\ FileMarked /\ SessionInv
        /\ mSavedTraces \in Seq(SavedTraceInfo) /\ ctl \in Control
    BY DEF SafeInv, MarkInv, TypeOK
  <1>1. /\ ctl.step = "firstPass" /\ ctl.idx > Len(mSavedTraces)
        /\ ctl'.step = "restPass" /\ UNCHANGED <<hostFile, mSavedTraces>>
        /\ ctl.idx \in Nat /\ Len(mSavedTraces) \in Nat
    BY <1>0 DEF SecondPass, Control, storage
  <1>2. \A j \in 1 .. Len(mSavedTraces) : ~(j >= ctl.idx)
    BY <1>1
  <1>3. CASE hostFile # <<>>
    BY <1>0, <1>1, <1>3 DEF FileMarked
  <1>4. CASE hostFile = <<>>
    <2>1. \A j \in 1 .. Len(mSavedTraces) : ~mSavedTraces[j].first
      <3>1. Len(hostFile) # 1
        BY <1>4
      <3> QED BY <1>0, <1>1, <1>2, <3>1 DEF FileMarked
    <2>2. \A u \in Threads : ~ctx[u].mFirst
      BY <1>0, <1>1 DEF SessionInv, NothingLeft, BuffersMarked, Marked
    <2>3. ~HasMark /\ Active
      BY <1>1, <2>1, <2>2 DEF HasMark, Active, Saving
    <2>4. mSavedTraces = <<>>
      BY <1>0, <2>3 DEF Election
    <2> QED BY <1>0, <1>1, <2>4 DEF FileMarked
  <1> QED BY <1>3, <1>4

\* A step of the control thread: a session starts with no packet counted,
\* no depth left over and no mark.
LEMMA MarkControl ==
    ASSUME Quiesced, SafeInv, MarkInv,
           InControl \/ StartControl \/ UNCHANGED vars
    PROVE  MarkInv'
  <1>0. /\ TypeOK /\ ControlInv /\ ContextInv /\ SessionInv
        /\ BuffersMarked /\ OneMark /\ Election /\ Reinitialised /\ FileMarked
        /\ config \in Config /\ ctl \in Control
        /\ mSavedTraces \in Seq(SavedTraceInfo)
    BY DEF SafeInv, MarkInv, TypeOK
  <1>1. ASSUME UNCHANGED <<ctx, mSavedTraces>>
        PROVE  /\ BuffersMarked' /\ OneMark' /\ (HasMark => HasMark')
               /\ \A u \in Threads : Fresh(ctx[u]) => Fresh(ctx'[u])
    BY <1>1, <1>0, MarkStays DEF Untouched, SameTracks
  <1>2. ASSUME UNCHANGED <<ctx, mSavedTraces>>, Active' => Active,
               config'.packetsWritten = config.packetsWritten,
               config'.sequenceIdWritten = config.sequenceIdWritten
        PROVE  BuffersMarked' /\ OneMark' /\ Election'
    BY <1>0, <1>1, <1>2, ElectionStays
  <1>3. ASSUME UNCHANGED hostFile, ctl'.step \notin {"firstPass", "restPass"}
        PROVE  FileMarked'
    BY <1>0, <1>3 DEF FileMarked
  <1>4. ASSUME ~Active', \A u \in Threads : ctx'[u].pc # "first"
        PROVE  Election'
    BY <1>4 DEF Election
  <1>5. CASE \E t \in Threads : SaveContext(t)
    BY <1>5, MarkSave
  <1>6. CASE LockContexts
    <2>1. /\ ctl.step = "lock" /\ ctl'.step = "save" /\ ctl'.todo = mContexts
          /\ UNCHANGED <<config, ctx, mContexts, mSavedTraces, hostFile>>
      BY <1>0, <1>6 DEF LockContexts, Control
    <2>2. \A u \in Threads : ctx[u].pc \in {"idle", "dead"}
      BY <2>1, QuietInControl
    <2>3. Active
      BY <2>1 DEF Active, Saving
    <2>4. Reinitialised'
      BY <1>0, <2>1, <2>2 DEF Reinitialised
    <2> QED BY <1>2, <1>3, <2>1, <2>3, <2>4 DEF MarkInv
  <1>7. CASE OpenHostFile
    <2>1. /\ ctl.step = "save" /\ ctl.todo = {} /\ ctl'.step = "firstPass"
          /\ ctl'.idx = 1 /\ hostFile' = <<>>
          /\ UNCHANGED <<config, ctx, mContexts, mSavedTraces>>
      BY <1>0, <1>7 DEF OpenHostFile, Control
    <2>2. Active
      BY <2>1 DEF Active, Saving
    <2>3. Reinitialised'
      BY <1>0, <2>1 DEF Reinitialised
    <2>4. \A j \in 1 .. Len(mSavedTraces) : j >= 1
      BY <1>0
    <2>5. FileMarked'
      BY <2>1, <2>4 DEF FileMarked
    <2> QED BY <1>2, <2>1, <2>2, <2>3, <2>5 DEF MarkInv
  <1>8. CASE WriteSavedTrace \/ SecondPass
    <2>1. /\ UNCHANGED <<config, ctx, mContexts, mSavedTraces>>
          /\ ctl.step \in {"firstPass", "restPass"}
          /\ ctl'.step \in {"firstPass", "restPass"}
      BY <1>0, <1>8 DEF WriteSavedTrace, SecondPass, Control, storage
    <2>2. Active
      BY <2>1 DEF Active, Saving
    <2>3. Reinitialised'
      BY <1>0, <2>1 DEF Reinitialised
    <2>4. FileMarked'
      BY <1>8, MarkWrite, MarkSecond
    <2> QED BY <1>2, <2>1, <2>2, <2>3, <2>4 DEF MarkInv
  <1>9. CASE CloseHostFile
    <2>1. /\ ctl.step = "restPass" /\ ctl'.step = "packets"
          /\ mSavedTraces' = <<>> /\ UNCHANGED <<config, ctx, mContexts, hostFile>>
      BY <1>0, <1>9 DEF CloseHostFile, Control
    <2>2. /\ config.tracingDisabled
          /\ \A u \in Threads : ctx[u].pc # "first"
      BY <2>1, QuietInControl
    <2>3. BuffersMarked' /\ OneMark'
      <3>1. 1 .. Len(mSavedTraces') = {}
        BY <2>1
      <3> QED BY <1>0, <2>1, <3>1 DEF BuffersMarked, OneMark
    <2>4. ~Active'
      BY <2>1, <2>2 DEF Active, Saving
    <2>5. Reinitialised'
      BY <1>0, <2>1 DEF Reinitialised
    <2> QED BY <1>3, <1>4, <2>1, <2>2, <2>3, <2>4, <2>5 DEF MarkInv
  <1>10. CASE ResetCounters
    <2>1. /\ UNCHANGED <<ctx, mContexts, mSavedTraces, hostFile>>
          /\ ctl.step \in {"packets", "seq", "intern", "tid"}
          /\ ctl'.step \in {"seq", "intern", "tid", "last"}
          /\ config'.tracingDisabled = config.tracingDisabled
          /\ ctl.step = "packets" => config'.packetsWritten = 0
          /\ ctl.step # "packets" =>
                config'.packetsWritten = config.packetsWritten
          /\ ctl.step = "seq" => ~config'.sequenceIdWritten
          /\ ctl.step # "seq" =>
                config'.sequenceIdWritten = config.sequenceIdWritten
          /\ ctl.step = "packets" => ctl'.step = "seq"
      BY <1>0, <1>10 DEF ResetCounters, Control, Config, storage
    <2>2. /\ config.tracingDisabled
          /\ \A u \in Threads : ctx[u].pc # "first"
      BY <2>1, QuietInControl
    <2>3. ~Active'
      BY <2>1, <2>2 DEF Active, Saving
    <2>4. Reinitialised'
      BY <1>0, <2>1, <2>2 DEF Reinitialised
    <2> QED BY <1>1, <1>3, <1>4, <2>1, <2>2, <2>3, <2>4 DEF MarkInv
  <1>11. CASE FinishEnable
    <2>1. /\ UNCHANGED <<ctx, mContexts, mSavedTraces, hostFile>>
          /\ ctl.step = "last" /\ ctl'.step = "none"
          /\ ~config'.tracingDisabled
          /\ config'.packetsWritten = config.packetsWritten
          /\ config'.sequenceIdWritten = config.sequenceIdWritten
      BY <1>0, <1>11 DEF FinishEnable, Control, Config, storage
    <2>2. /\ config.tracingDisabled
          /\ \A u \in Threads : /\ ctx[u].pc \in {"idle", "dead"}
                                /\ ctx[u].out = <<>>
      BY <2>1, QuietInControl
    <2>3. /\ mSavedTraces = <<>> /\ ~config.sequenceIdWritten
          /\ \A u \in Threads : /\ ctx[u].mTraceBuffer = <<>>
                                /\ ctx[u].pc # "dead" => ctx[u].mStackDepth = 0
      BY <1>0, <2>1, <2>2
      DEF SessionInv, NothingLeft, Saving, Reinitialised
    <2>4. \A u \in Threads : Fresh(ctx'[u])
      BY <2>1, <2>2, <2>3 DEF Fresh
    <2>5. \A u \in Threads : Fresh(ctx[u])' <=> Fresh(ctx'[u])
      BY DEF Fresh
    <2>6. Election'
      BY <2>1, <2>2, <2>3, <2>4, <2>5 DEF Election
    <2>7. Reinitialised'
      BY <1>0, <2>1 DEF Reinitialised
    <2> QED BY <1>1, <1>3, <2>1, <2>6, <2>7 DEF MarkInv
  <1>12. CASE FinishDisable \/ (\E d \in GuestDiffs : SetGuestTime(d))
    <2>1. /\ UNCHANGED <<ctx, mContexts, mSavedTraces, hostFile>>
          /\ ctl.step = "last" \/ (ctl.call = "none" /\ config.tracingDisabled)
          /\ ctl'.step = "none"
          /\ config'.tracingDisabled = config.tracingDisabled
          /\ config'.packetsWritten = config.packetsWritten
          /\ config'.sequenceIdWritten = config.sequenceIdWritten
      BY <1>0, <1>12
      DEF FinishDisable, SetGuestTime, Control, Config, storage, ControlInv
    <2>2. config.tracingDisabled /\ ctl.step \notin {"lock", "save"}
      BY <1>0, <2>1 DEF ControlInv
    <2>3. Active' => Active
      BY <2>1, <2>2 DEF Active, Saving
    <2>4. Reinitialised'
      BY <1>0, <2>1, <2>2 DEF Reinitialised
    <2> QED BY <1>2, <1>3, <2>1, <2>3, <2>4 DEF MarkInv
  <1>13. CASE EnableTracing \/ DisableTracing
    <2>1. /\ UNCHANGED <<ctx, mContexts, mSavedTraces, hostFile>>
          /\ ctl.call = "none"
          /\ config'.tracingDisabled
          /\ config'.packetsWritten = config.packetsWritten
          /\ config'.sequenceIdWritten = config.sequenceIdWritten
          /\ ctl'.step = IF config.tracingDisabled THEN "packets" ELSE "lock"
      BY <1>0, <1>13 DEF EnableTracing, DisableTracing, Control, Config, storage
    <2>2. ctl.step = "none"
      BY <1>0, <2>1 DEF ControlInv
    <2>3. Active' => Active
      BY <2>1 DEF Active, Saving
    <2>4. Reinitialised'
      BY <1>0, <2>1, <2>2 DEF Reinitialised
    <2> QED BY <1>2, <1>3, <2>1, <2>3, <2>4 DEF MarkInv
  <1>14. CASE UNCHANGED vars
    BY <1>14, <1>0, <1>2
    DEF vars, storage, Active, Reinitialised, FileMarked, MarkInv
  <1> QED BY <1>5, <1>6, <1>7, <1>8, <1>9, <1>10, <1>11, <1>12, <1>13, <1>14
          DEF InControl, StartControl

\* Every step keeps the mark.
LEMMA MarkStep ==
    ASSUME Quiesced, SafeInv, MarkInv, [Next]_vars
    PROVE  MarkInv'
  BY MarkCall, MarkStart, MarkControl DEF Next

\* Nothing is written yet, nothing marked.
LEMMA MarkInit == Init => MarkInv
  <1> SUFFICES ASSUME Init PROVE MarkInv
    OBVIOUS
  <1>1. /\ \A t \in Threads : /\ ctx[t].mTraceBuffer = <<>>
                              /\ ctx[t].out = <<>> /\ ctx[t].mFirst = FALSE
                              /\ ctx[t].mStackDepth = 0
                              /\ ctx[t].pc = "idle"
        /\ mSavedTraces = <<>> /\ hostFile = <<>> /\ ctl.step = "none"
        /\ config.tracingDisabled
    BY DEF Init, NewContext
  <1>2. BuffersMarked /\ OneMark
    BY <1>1 DEF BuffersMarked, OneMark, Marked
  <1>3. ~Active
    BY <1>1 DEF Active, Saving
  <1>4. Election
    BY <1>1, <1>3 DEF Election
  <1>5. Reinitialised /\ FileMarked
    BY <1>1 DEF Reinitialised, FileMarked
  <1> QED BY <1>2, <1>4, <1>5 DEF MarkInv

\* The file starts with the packet that clears the sequence's state and has
\* no other: of all threads that race for it one is elected, the others
\* wait, and the buffer it was written to is saved in front.
THEOREM StartsClearedKept == Quiesced => (Spec => []StartsCleared)
  <1> SUFFICES ASSUME Quiesced PROVE Spec => []StartsCleared
    OBVIOUS
  <1>1. SafeInv /\ MarkInv => StartsCleared
    <2> SUFFICES ASSUME SafeInv, MarkInv, NEW p \in Places(hostFile)
                 PROVE  At(hostFile, p).kind = "seq" <=> p = <<1, 1>>
      BY DEF StartsCleared
    <2>1. /\ p[1] \in 1 .. Len(hostFile)
          /\ p[2] \in 1 .. Len(hostFile[p[1]].pkts)
          /\ p = <<p[1], p[2]>>
          /\ At(hostFile, p) = hostFile[p[1]].pkts[p[2]]
      BY PlacesInFile DEF SafeInv, TypeOK
    <2>2. /\ Marked(hostFile[p[1]].first, hostFile[p[1]].pkts)
          /\ (hostFile[p[1]].first <=> p[1] = 1)
      BY <2>1 DEF MarkInv, FileMarked
    <2>3. At(hostFile, p).kind = "seq" <=> (p[1] = 1 /\ p[2] = 1)
      BY <2>1, <2>2 DEF Marked
    <2> QED BY <2>1, <2>3
  <1>2. SafeInv /\ MarkInv /\ [Next]_vars => SafeInv' /\ MarkInv'
    BY SafeStep, MarkStep
  <1> QED BY <1>1, <1>2, SafeStep, MarkInit, PTL DEF Spec

-----------------------------------------------------------------------------
(***************************************************************************)
(* A thread's packets are in the file in the order it wrote them           *)
(***************************************************************************)

\* The packets of a thread within a buffer, and across two sets of packets.
Increasing(s) ==
    \A i, j \in 1 .. Len(s) : i < j /\ s[i].by = s[j].by => s[i].n < s[j].n
Earlier(P, Q) == \A p \in P, q \in Q : p.by = q.by => p.n < q.n

Ordered(traces) ==
    /\ \A i \in 1 .. Len(traces) : Increasing(traces[i].pkts)
    /\ \A i, j \in 1 .. Len(traces) :
          i < j => Earlier(Elems(traces[i].pkts), Elems(traces[j].pkts))

\* What a thread holds it wrote itself, after whatever of its packets the
\* saved trace s has; a marked buffer is its first.
Follows(t, c, s) ==
    /\ Earlier(Elems(s), Elems(c.mTraceBuffer))
    /\ Earlier(Elems(s), Elems(c.out))
    /\ \A p \in Elems(s) : p.by = t => ~c.mFirst /\ p.n <= c.emitted
BufferOrdered(t, c) ==
    /\ \A p \in Elems(c.mTraceBuffer) \union Elems(c.out) :
          p.by = t /\ p.n <= c.emitted
    /\ Increasing(c.mTraceBuffer)
    /\ Increasing(c.out)
    /\ Earlier(Elems(c.mTraceBuffer), Elems(c.out))
BuffersOrdered ==
    \A t \in Threads :
        /\ BufferOrdered(t, ctx[t])
        /\ \A j \in 1 .. Len(mSavedTraces) :
              Follows(t, ctx[t], mSavedTraces[j].pkts)

\* The marked trace may be moved before all others.
SavedOrdered ==
    /\ Ordered(mSavedTraces)
    /\ \A i, j \in 1 .. Len(mSavedTraces) :
          mSavedTraces[i].first /\ i # j =>
              Earlier(Elems(mSavedTraces[i].pkts), Elems(mSavedTraces[j].pkts))

\* What is still to be written comes after what is written.
FileOrdered ==
    /\ Ordered(hostFile)
    /\ \A k \in 1 .. Len(hostFile), j \in 1 .. Len(mSavedTraces) :
          /\ ~mSavedTraces[j].first
          /\ ctl.step = "firstPass" \/ (ctl.step = "restPass" /\ j >= ctl.idx)
          => Earlier(Elems(hostFile[k].pkts), Elems(mSavedTraces[j].pkts))

OrderInv == BuffersOrdered /\ SavedOrdered /\ FileOrdered

\* A packet appended to a buffer of older ones.
LEMMA IncreasingAppend ==
    ASSUME NEW s \in Seq(Packet), NEW p, Increasing(s),
           \A q \in Elems(s) : q.n < p.n
    PROVE  Increasing(Append(s, p))
  <1>1. /\ Len(Append(s, p)) = Len(s) + 1 /\ Len(s) \in Nat
        /\ \A i \in 1 .. Len(s) : Append(s, p)[i] = s[i]
        /\ Append(s, p)[Len(s) + 1] = p
    BY AppendFacts
  <1>2. \A i \in 1 .. Len(s) : s[i].n < p.n
    BY DEF Elems
  <1>3. \A i, j \in 1 .. Len(s) + 1 : i < j =>
           /\ i \in 1 .. Len(s)
           /\ j \in 1 .. Len(s) \/ j = Len(s) + 1
    BY <1>1
  <1> QED BY <1>1, <1>2, <1>3 DEF Increasing

\* A trace appended to ordered traces.
LEMMA OrderedAppend ==
    ASSUME NEW s \in Seq(SavedTraceInfo), NEW z, NEW r, Ordered(s),
           Len(z) = Len(s) + 1, \A i \in 1 .. Len(s) : z[i] = s[i],
           z[Len(s) + 1].pkts = r, Increasing(r),
           \A i \in 1 .. Len(s) : Earlier(Elems(s[i].pkts), Elems(r))
    PROVE  Ordered(z)
  <1>1. Len(s) \in Nat
    OBVIOUS
  <1>2. /\ \A i \in 1 .. Len(z) : i \in 1 .. Len(s) \/ i = Len(s) + 1
        /\ \A i, j \in 1 .. Len(z) : i < j => i \in 1 .. Len(s)
    BY <1>1
  <1> QED BY <1>1, <1>2 DEF Ordered

\* A step that writes packet p.
LEMMA OrderEmit ==
    ASSUME TypeOK, MarkInv, OrderInv, NEW t \in Threads, NEW p,
           ~config.tracingDisabled,
           Emits(t, ctx[t], ctx'[t], p),
           \A u \in Threads \ {t} : ctx'[u] = ctx[u]
    PROVE  BuffersOrdered' /\ SavedOrdered'
  <1> DEFINE c == ctx[t]
             d == ctx'[t]
  <1>1. /\ c \in Context /\ c.mTraceBuffer \in Seq(Packet)
        /\ c.emitted \in Nat /\ mSavedTraces \in Seq(SavedTraceInfo)
    BY DEF TypeOK, Context
  <1>2. /\ p \in Packet /\ p.by = t /\ p.n = c.emitted + 1
        /\ d.emitted = c.emitted + 1 /\ c.out = <<>>
        /\ mSavedTraces' = mSavedTraces
        /\ (d.mFirst <=> (c.mFirst \/ c.pc = "first"))
        /\ \/ d.mTraceBuffer = Append(c.mTraceBuffer, p) /\ d.out = <<>>
           \/ d.mTraceBuffer = c.mTraceBuffer /\ d.out = <<p>>
    BY DEF Emits, Added
  <1>3. /\ BufferOrdered(t, c)
        /\ \A j \in 1 .. Len(mSavedTraces) : Follows(t, c, mSavedTraces[j].pkts)
    BY DEF OrderInv, BuffersOrdered
  <1>4. \A j \in 1 .. Len(mSavedTraces) :
           \A q \in Elems(mSavedTraces[j].pkts) : q \in Packet
    <2> SUFFICES ASSUME NEW j \in 1 .. Len(mSavedTraces)
                 PROVE  \A q \in Elems(mSavedTraces[j].pkts) : q \in Packet
      OBVIOUS
    <2>1. mSavedTraces[j] \in SavedTraceInfo
      BY <1>1
    <2>2. mSavedTraces[j].pkts \in Seq(Packet)
      BY <2>1 DEF SavedTraceInfo
    <2> QED BY <2>2 DEF Elems
  <1>5. \A q \in Elems(c.mTraceBuffer) : q \in Packet
    BY <1>1 DEF Elems
  <1>6. \A q \in Packet : q.n \in Nat
    BY DEF Packet
  <1>7. d.mFirst => c.mFirst \/ mSavedTraces = <<>>
    BY <1>2 DEF MarkInv, Election, Active
  <1>8. /\ Elems(<<>>) = {} /\ Elems(<<p>>) = {p}
        /\ Elems(Append(c.mTraceBuffer, p)) = Elems(c.mTraceBuffer) \union {p}
    BY <1>1, ElemsFacts
  <1>9. /\ Increasing(c.mTraceBuffer)
        /\ \A q \in Elems(c.mTraceBuffer) : q.by = t /\ q.n <= c.emitted
    BY <1>3 DEF BufferOrdered
  <1>10. \A q \in Elems(c.mTraceBuffer) : q.n < p.n /\ q.n <= d.emitted
    BY <1>1, <1>2, <1>5, <1>6, <1>9
  <1>11. Increasing(Append(c.mTraceBuffer, p))
    BY <1>1, <1>9, <1>10, IncreasingAppend
  <1>12. Increasing(<<>>) /\ Increasing(<<p>>)
    BY DEF Increasing
  <1>13. BufferOrdered(t, d)
    <2>1. p.n <= d.emitted
      BY <1>1, <1>2
    <2> HIDE DEF c, d
    <2> QED BY <1>2, <1>8, <1>9, <1>10, <1>11, <1>12, <2>1
            DEF BufferOrdered, Earlier
  <1>14. ASSUME NEW j \in 1 .. Len(mSavedTraces)
         PROVE  Follows(t, d, mSavedTraces[j].pkts)
    <2> DEFINE s == mSavedTraces[j].pkts
    <2>1. /\ Earlier(Elems(s), Elems(c.mTraceBuffer))
          /\ \A q \in Elems(s) : q.by = t => ~c.mFirst /\ q.n <= c.emitted
      BY <1>3 DEF Follows
    <2>2. \A q \in Elems(s) :
             q.by = t => ~d.mFirst /\ q.n <= d.emitted /\ q.n < p.n
      <3>1. mSavedTraces # <<>>
        BY <1>14
      <3> QED BY <1>1, <1>2, <1>4, <1>6, <1>7, <2>1, <3>1
    <2> HIDE DEF s, c, d
    <2>3. Earlier(Elems(s), {p})
      BY <1>2, <2>2 DEF Earlier
    <2>4. Earlier(Elems(s), {})
      BY DEF Earlier
    <2>5. Earlier(Elems(s), Elems(c.mTraceBuffer) \union {p})
      BY <2>1, <2>3 DEF Earlier
    <2>6. Earlier(Elems(s), Elems(d.mTraceBuffer)) /\ Earlier(Elems(s), Elems(d.out))
      BY <1>2, <1>8, <2>1, <2>3, <2>4, <2>5
    <2> QED BY <2>2, <2>6 DEF Follows, s
  <1>15. \A u \in Threads : /\ BufferOrdered(u, ctx'[u])
                            /\ \A j \in 1 .. Len(mSavedTraces) :
                                  Follows(u, ctx'[u], mSavedTraces[j].pkts)
    BY <1>13, <1>14 DEF OrderInv, BuffersOrdered
  <1>16. BuffersOrdered'
    <2>1. \A u \in Threads : BufferOrdered(u, ctx[u])' <=> BufferOrdered(u, ctx'[u])
      BY DEF BufferOrdered, Increasing, Earlier, Elems
    <2>2. \A u \in Threads, j \in 1 .. Len(mSavedTraces) :
             Follows(u, ctx[u], mSavedTraces[j].pkts)' <=>
                Follows(u, ctx'[u], mSavedTraces[j].pkts)
      BY <1>2 DEF Follows, Earlier, Elems
    <2> QED BY <1>2, <1>15, <2>1, <2>2 DEF BuffersOrdered
  <1>17. SavedOrdered'
    BY <1>2 DEF OrderInv, SavedOrdered
  <1> QED BY <1>16, <1>17

\* A step that saves a thread's buffer: it follows what is saved, and what
\* the thread keeps follows it.
LEMMA OrderSave ==
    ASSUME TypeOK, OrderInv, NEW t \in Threads,
           SaveBuffer(ctx[t]), \A u \in Threads \ {t} : ctx'[u] = ctx[u],
           ctx'[t].emitted = ctx[t].emitted, ~ctx'[t].mFirst,
           \/ ctx'[t].mTraceBuffer = <<>> /\ ctx'[t].out = ctx[t].out
           \/ ctx'[t].mTraceBuffer = ctx[t].out /\ ctx'[t].out = <<>>
    PROVE  BuffersOrdered' /\ SavedOrdered'
  <1> DEFINE c == ctx[t]
             d == ctx'[t]
             n == Len(mSavedTraces)
             b == c.mTraceBuffer
  <1>1. c \in Context /\ mSavedTraces \in Seq(SavedTraceInfo) /\ n \in Nat
    BY DEF TypeOK
  <1>2. \A u \in Threads :
           /\ BufferOrdered(u, ctx[u])
           /\ \A j \in 1 .. n : Follows(u, ctx[u], mSavedTraces[j].pkts)
    BY DEF OrderInv, BuffersOrdered
  <1>3. /\ \A p \in Elems(b) \union Elems(c.out) : p.by = t /\ p.n <= c.emitted
        /\ Increasing(b) /\ Increasing(c.out) /\ Earlier(Elems(b), Elems(c.out))
    BY <1>2 DEF BufferOrdered
  <1>4. /\ Elems(<<>>) = {} /\ Increasing(<<>>)
        /\ \A P : Earlier(P, {}) /\ Earlier({}, P)
    BY ElemsFacts DEF Increasing, Earlier
  <1>5. BufferOrdered(t, d)
    <2> HIDE DEF c, d
    <2> QED BY <1>3, <1>4 DEF BufferOrdered, c, d
  <1>6. \A u \in Threads : BufferOrdered(u, ctx'[u])
    BY <1>2, <1>5
  <1>7. \A u \in Threads, j \in 1 .. n : Follows(u, ctx'[u], mSavedTraces[j].pkts)
    <2> SUFFICES ASSUME NEW u \in Threads, NEW j \in 1 .. n
                 PROVE  Follows(u, ctx'[u], mSavedTraces[j].pkts)
      OBVIOUS
    <2>1. CASE u # t
      BY <1>2, <2>1
    <2>2. CASE u = t
      <3>1. Follows(t, c, mSavedTraces[j].pkts)
        BY <1>2
      <3> HIDE DEF c, d, n
      <3> QED BY <1>4, <2>2, <3>1 DEF Follows, c, d
    <2> QED BY <2>1, <2>2
  <1>8. \A u \in Threads : Follows(u, ctx'[u], b)
    <2> SUFFICES ASSUME NEW u \in Threads PROVE Follows(u, ctx'[u], b)
      OBVIOUS
    <2>1. CASE u = t
      <3>1. Earlier(Elems(b), Elems(d.mTraceBuffer)) /\ Earlier(Elems(b), Elems(d.out))
        BY <1>3, <1>4
      <3> HIDE DEF c, d, b
      <3> QED BY <1>3, <2>1, <3>1 DEF Follows, d, c
    <2>2. CASE u # t
      <3>1. \A p \in Elems(ctx'[u].mTraceBuffer) \union Elems(ctx'[u].out) :
               p.by = u
        BY <1>6 DEF BufferOrdered
      <3> HIDE DEF b, c
      <3> QED BY <1>3, <2>2, <3>1 DEF Follows, Earlier
    <2> QED BY <2>1, <2>2
  <1>9. \A u \in Threads : BufferOrdered(u, ctx[u])' <=> BufferOrdered(u, ctx'[u])
    BY DEF BufferOrdered, Increasing, Earlier, Elems
  <1>10. ASSUME \A u \in Threads, j \in 1 .. Len(mSavedTraces') :
                   Follows(u, ctx'[u], mSavedTraces'[j].pkts)
         PROVE  BuffersOrdered'
    BY <1>6, <1>9, <1>10 DEF Follows, Earlier, Elems, BuffersOrdered
  <1>11. CASE mSavedTraces' = mSavedTraces
    BY <1>7, <1>10, <1>11 DEF OrderInv, SavedOrdered
  <1>12. CASE /\ Len(mSavedTraces') = n + 1
              /\ \A j \in 1 .. n : mSavedTraces'[j] = mSavedTraces[j]
              /\ mSavedTraces'[n + 1].first = c.mFirst
              /\ mSavedTraces'[n + 1].pkts = b
              /\ \A j \in 1 .. Len(mSavedTraces') : j \in 1 .. n \/ j = n + 1
    <2>1. BuffersOrdered'
      <3> HIDE DEF n, b
      <3> QED BY <1>7, <1>8, <1>10, <1>12
    <2>2. \A j \in 1 .. n : Earlier(Elems(mSavedTraces[j].pkts), Elems(b))
      BY <1>2 DEF Follows
    <2>3. Ordered(mSavedTraces')
      BY <1>1, <1>3, <1>12, <2>2, OrderedAppend DEF OrderInv, SavedOrdered
    <2>4. c.mFirst => \A j \in 1 .. n : Earlier(Elems(b), Elems(mSavedTraces[j].pkts))
      <3> SUFFICES ASSUME c.mFirst, NEW j \in 1 .. n
                   PROVE  Earlier(Elems(b), Elems(mSavedTraces[j].pkts))
        OBVIOUS
      <3>1. \A p \in Elems(mSavedTraces[j].pkts) : p.by # t
        BY <1>2 DEF Follows
      <3> HIDE DEF b, c
      <3> QED BY <1>3, <3>1 DEF Earlier
    <2>5. \A i, j \in 1 .. Len(mSavedTraces') :
             mSavedTraces'[i].first /\ i # j =>
                Earlier(Elems(mSavedTraces'[i].pkts), Elems(mSavedTraces'[j].pkts))
      <3> SUFFICES ASSUME NEW i \in 1 .. Len(mSavedTraces'),
                          NEW j \in 1 .. Len(mSavedTraces'),
                          mSavedTraces'[i].first, i # j
                   PROVE  Earlier(Elems(mSavedTraces'[i].pkts),
                                  Elems(mSavedTraces'[j].pkts))
        OBVIOUS
      <3>1. \/ i \in 1 .. n /\ j \in 1 .. n
            \/ i \in 1 .. n /\ j = n + 1
            \/ i = n + 1 /\ j \in 1 .. n
        BY <1>12
      <3> HIDE DEF n, b
      <3>2. CASE i \in 1 .. n /\ j \in 1 .. n
        BY <1>12, <3>2 DEF OrderInv, SavedOrdered, n
      <3>3. CASE i \in 1 .. n /\ j = n + 1
        BY <1>12, <2>2, <3>3
      <3>4. CASE i = n + 1 /\ j \in 1 .. n
        BY <1>12, <2>4, <3>4
      <3> QED BY <3>1, <3>2, <3>3, <3>4
    <2>6. SavedOrdered'
      BY <2>3, <2>5 DEF SavedOrdered, Ordered, Increasing, Earlier, Elems
    <2> QED BY <2>1, <2>6
  <1> QED BY <1>1, <1>11, <1>12, SaveFacts

\* A step that leaves the buffers alone.
LEMMA OrderStays ==
    ASSUME OrderInv, UNCHANGED mSavedTraces,
           \A u \in Threads : Untouched(ctx[u], ctx'[u])
    PROVE  BuffersOrdered' /\ SavedOrdered'
  <1>1. \A u \in Threads : /\ ctx'[u].mTraceBuffer = ctx[u].mTraceBuffer
                           /\ ctx'[u].out = ctx[u].out
                           /\ ctx'[u].mFirst = ctx[u].mFirst
                           /\ ctx'[u].emitted = ctx[u].emitted
    BY DEF Untouched
  <1>2. BuffersOrdered'
    BY <1>1 DEF OrderInv, BuffersOrdered, BufferOrdered, Follows
  <1>3. SavedOrdered'
    BY DEF OrderInv, SavedOrdered
  <1> QED BY <1>2, <1>3

\* A step of the two loops: the marked trace goes to the front, where it is
\* before everything else of its thread; the others follow as they were
\* saved.
LEMMA OrderWrite ==
    ASSUME SafeInv, MarkInv, OrderInv, WriteSavedTrace
    PROVE  FileOrdered'
  <1> DEFINE trace == mSavedTraces[ctl.idx]
             n == Len(hostFile)
  <1>0. /\ hostFile \in Seq(SavedTraceInfo) /\ n \in Nat
        /\ mSavedTraces \in Seq(SavedTraceInfo) /\ ctl \in Control
    BY DEF SafeInv, TypeOK
  <1>1. /\ ctl.step \in {"firstPass", "restPass"}
        /\ ctl.idx \in 1 .. Len(mSavedTraces)
        /\ hostFile' = IF trace.first <=> ctl.step = "firstPass"
                       THEN Append(hostFile, trace) ELSE hostFile
        /\ ctl' = [ctl EXCEPT !.idx = @ + 1]
        /\ UNCHANGED mSavedTraces
    BY DEF WriteSavedTrace
  <1>2. /\ ctl'.step = ctl.step /\ ctl'.idx = ctl.idx + 1
        /\ ctl.idx \in Nat /\ trace \in SavedTraceInfo
        /\ \A j \in 1 .. Len(mSavedTraces) : j \in Nat
    BY <1>0, <1>1 DEF Control
  <1>3. /\ Ordered(hostFile) /\ Increasing(trace.pkts)
        /\ \A k \in 1 .. n, j \in 1 .. Len(mSavedTraces) :
              /\ ~mSavedTraces[j].first
              /\ ctl.step = "firstPass" \/ (ctl.step = "restPass" /\ j >= ctl.idx)
              => Earlier(Elems(hostFile[k].pkts), Elems(mSavedTraces[j].pkts))
        /\ \A j \in 1 .. Len(mSavedTraces) :
              /\ ctl.idx < j =>
                    Earlier(Elems(trace.pkts), Elems(mSavedTraces[j].pkts))
              /\ trace.first /\ ctl.idx # j =>
                    Earlier(Elems(trace.pkts), Elems(mSavedTraces[j].pkts))
    BY <1>1 DEF OrderInv, FileOrdered, SavedOrdered, Ordered
  <1>a. /\ Len(Append(hostFile, trace)) = n + 1
        /\ \A k \in 1 .. n : Append(hostFile, trace)[k] = hostFile[k]
        /\ Append(hostFile, trace)[n + 1] = trace
        /\ \A k \in 1 .. n + 1 : k \in 1 .. n \/ k = n + 1
    BY <1>0, <1>2, AppendFacts
  <1>b. \A j \in 1 .. Len(mSavedTraces) :
           j >= ctl.idx + 1 => ctl.idx < j /\ j >= ctl.idx
    BY <1>2
  <1>c. ctl.idx >= ctl.idx /\ ~(ctl.idx < ctl.idx)
    BY <1>2
  <1>d. ASSUME Ordered(hostFile'),
               \A k \in 1 .. Len(hostFile'), j \in 1 .. Len(mSavedTraces) :
                  /\ ~mSavedTraces[j].first
                  /\ \/ ctl'.step = "firstPass"
                     \/ (ctl'.step = "restPass" /\ j >= ctl'.idx)
                  => Earlier(Elems(hostFile'[k].pkts), Elems(mSavedTraces[j].pkts))
        PROVE  FileOrdered'
    <2>1. Ordered(hostFile)' <=> Ordered(hostFile')
      BY DEF Ordered, Increasing, Earlier, Elems
    <2>2. \A k \in 1 .. Len(hostFile'), j \in 1 .. Len(mSavedTraces) :
             Earlier(Elems(hostFile[k].pkts), Elems(mSavedTraces[j].pkts))' <=>
                Earlier(Elems(hostFile'[k].pkts), Elems(mSavedTraces[j].pkts))
      BY <1>1 DEF Earlier, Elems
    <2> QED BY <1>1, <1>d, <2>1, <2>2 DEF FileOrdered
  <1>4. ASSUME hostFile' = Append(hostFile, trace),
               \A k \in 1 .. n : Earlier(Elems(hostFile[k].pkts), Elems(trace.pkts))
        PROVE  Ordered(hostFile')
    <2>1. /\ Len(hostFile') = n + 1
          /\ \A k \in 1 .. n : hostFile'[k] = hostFile[k]
          /\ hostFile'[n + 1].pkts = trace.pkts
      BY <1>4, <1>a
    <2> HIDE DEF trace
    <2> QED BY <1>0, <1>3, <1>4, <2>1, OrderedAppend
  <1>5. CASE ctl.step = "firstPass" /\ trace.first
    <2>1. hostFile = <<>>
      BY <1>1, <1>5, <1>c DEF MarkInv, FileMarked
    <2>2. hostFile' = Append(hostFile, trace) /\ 1 .. n = {}
      BY <1>1, <1>5, <2>1
    <2>3. Ordered(hostFile')
      BY <1>4, <2>2
    <2>4. \A k \in 1 .. Len(hostFile'), j \in 1 .. Len(mSavedTraces) :
             ~mSavedTraces[j].first =>
                Earlier(Elems(hostFile'[k].pkts), Elems(mSavedTraces[j].pkts))
      <3>1. \A j \in 1 .. Len(mSavedTraces) :
               ~mSavedTraces[j].first =>
                  Earlier(Elems(trace.pkts), Elems(mSavedTraces[j].pkts))
        BY <1>3, <1>5
      <3> HIDE DEF trace
      <3> QED BY <1>a, <2>2, <3>1
    <2> QED BY <1>d, <2>3, <2>4
  <1>6. CASE ctl.step = "restPass" /\ ~trace.first
    <2>1. hostFile' = Append(hostFile, trace)
      BY <1>1, <1>6
    <2>2. \A k \in 1 .. n : Earlier(Elems(hostFile[k].pkts), Elems(trace.pkts))
      BY <1>1, <1>3, <1>6, <1>c
    <2>3. Ordered(hostFile')
      BY <1>4, <2>1, <2>2
    <2>4. \A k \in 1 .. Len(hostFile'), j \in 1 .. Len(mSavedTraces) :
             ~mSavedTraces[j].first /\ j >= ctl.idx + 1 =>
                Earlier(Elems(hostFile'[k].pkts), Elems(mSavedTraces[j].pkts))
      <3> HIDE DEF trace
      <3> QED BY <1>3, <1>6, <1>a, <1>b, <2>1
    <2> QED BY <1>2, <1>6, <1>d, <2>3, <2>4
  <1>7. CASE hostFile' = hostFile
    BY <1>2, <1>3, <1>b, <1>7, <1>d
  <1> QED BY <1>1, <1>5, <1>6, <1>7

\* Every step keeps the order.
LEMMA OrderStep ==
    ASSUME Quiesced, SafeInv, MarkInv, OrderInv, [Next]_vars
    PROVE  OrderInv'
  <1>0. /\ TypeOK /\ ContextInv /\ ControlInv /\ SessionInv
        /\ ctl \in Control /\ mSavedTraces \in Seq(SavedTraceInfo)
    BY DEF SafeInv, TypeOK
  <1>1. ASSUME UNCHANGED hostFile, ctl'.step \notin Writing
        PROVE  FileOrdered'
    BY <1>1 DEF OrderInv, FileOrdered, Writing
  <1>2. ASSUME NEW t \in Threads, InCall(t), ~Crashed
        PROVE  OrderInv'
    <2> DEFINE c == ctx[t]
               d == ctx'[t]
    <2>1. /\ \A u \in Threads \ {t} : ctx'[u] = ctx[u]
          /\ UNCHANGED <<hostFile, ctl>> /\ c.pc \notin {"idle", "dead"}
      BY <1>0, <1>2, InCallFrame DEF PcStep
    <2>2. ~config.tracingDisabled /\ ctl.step = "none"
      BY <1>0, <2>1 DEF SessionInv, CallsInSession, ControlInv
    <2>3. FileOrdered'
      BY <1>1, <2>1, <2>2 DEF Writing
    <2>4. CASE \E p : Emits(t, c, d, p)
      BY <1>0, <2>1, <2>2, <2>3, <2>4, OrderEmit DEF OrderInv
    <2>5. CASE Silent(c, d)
      BY <2>5, <2>1, <2>3
      DEF Silent, OrderInv, BuffersOrdered, BufferOrdered, Follows,
          SavedOrdered
    <2>6. CASE HandsOver(c, d) \/ GivesUp(c, d)
      BY <2>6, <1>0, <2>1, OrderSave, <2>3 DEF HandsOver, GivesUp, OrderInv
    <2> QED BY <1>0, <1>2, <2>4, <2>5, <2>6, CallFrame
  <1>3. ASSUME NEW t \in Threads, StartCall(t)
        PROVE  OrderInv'
    BY <1>0, <1>3, StartFrame, StartCallFrame, <1>1, OrderStays
    DEF ControlInv, Writing, OrderInv
  <1>4. ASSUME NEW t \in Threads, SaveContext(t)
        PROVE  OrderInv'
    BY <1>0, <1>4, SaveFrame, OrderSave, <1>1 DEF WipedOut, OrderInv, Writing
  <1>5. ASSUME UNCHANGED <<ctx, mSavedTraces>>, FileOrdered'
        PROVE  OrderInv'
    BY <1>5, OrderStays DEF Untouched, SameTracks, OrderInv
  <1>6. CASE OpenHostFile
    BY <1>6, <1>5 DEF OpenHostFile, FileOrdered, Ordered
  <1>7. CASE WriteSavedTrace
    BY <1>7, <1>5, OrderWrite DEF WriteSavedTrace
  <1>8. CASE SecondPass
    BY <1>0, <1>8, <1>5 DEF SecondPass, Control, storage, OrderInv, FileOrdered
  <1>9. CASE CloseHostFile
    <2>1. /\ UNCHANGED <<ctx, hostFile>> /\ mSavedTraces' = <<>>
          /\ ctl'.step = "packets"
      BY <1>0, <1>9 DEF CloseHostFile, Control
    <2>2. 1 .. Len(mSavedTraces') = {}
      BY <2>1
    <2>3. SavedOrdered'
      BY <2>2 DEF SavedOrdered, Ordered
    <2>4. BuffersOrdered'
      BY <2>1, <2>2
      DEF OrderInv, BuffersOrdered, BufferOrdered, Increasing, Earlier, Elems
    <2> QED BY <1>1, <2>1, <2>3, <2>4 DEF OrderInv, Writing
  <1>10. CASE LockContexts \/ ResetCounters \/ FinishEnable \/ FinishDisable
    BY <1>0, <1>10, <1>1, <1>5
    DEF LockContexts, ResetCounters, FinishEnable, FinishDisable, Control,
        Writing, storage
  <1>11. CASE StartControl
    <2>1. UNCHANGED <<ctx, mSavedTraces, hostFile>> /\ ctl'.step \notin Writing
      BY <1>11, <1>0
      DEF StartControl, SetGuestTime, EnableTracing, DisableTracing,
          ControlInv, Control, Writing, storage
    <2> QED BY <1>1, <1>5, <2>1
  <1>12. CASE UNCHANGED vars
    BY <1>12, <1>5 DEF vars, storage, OrderInv, FileOrdered
  <1> QED BY <1>2, <1>3, <1>4, <1>6, <1>7, <1>8, <1>9, <1>10, <1>11, <1>12
          DEF Next, InControl

\* Nothing is written yet, nothing out of order.
LEMMA OrderInit == Init => OrderInv
  <1> SUFFICES ASSUME Init PROVE OrderInv
    OBVIOUS
  <1>1. /\ \A t \in Threads : ctx[t].mTraceBuffer = <<>> /\ ctx[t].out = <<>>
        /\ mSavedTraces = <<>> /\ hostFile = <<>>
    BY DEF Init, NewContext
  <1>2. Elems(<<>>) = {} /\ Increasing(<<>>) /\ Earlier({}, {})
    BY ElemsFacts DEF Increasing, Earlier
  <1>3. BuffersOrdered
    <2>1. \A t \in Threads : BufferOrdered(t, ctx[t])
      BY <1>1, <1>2 DEF BufferOrdered
    <2>2. 1 .. Len(mSavedTraces) = {}
      BY <1>1
    <2> QED BY <2>1, <2>2 DEF BuffersOrdered
  <1>4. SavedOrdered /\ FileOrdered
    BY <1>1 DEF SavedOrdered, FileOrdered, Ordered
  <1> QED BY <1>3, <1>4 DEF OrderInv

\* The order of the buffers is the order a reader of the file meets.
LEMMA FileInOrder == SafeInv /\ OrderInv => ThreadOrder
  <1> SUFFICES ASSUME SafeInv, OrderInv,
                      NEW p \in Places(hostFile), NEW q \in Places(hostFile),
                      At(hostFile, p).by = At(hostFile, q).by, Before(p, q)
               PROVE  At(hostFile, p).n < At(hostFile, q).n
    BY DEF ThreadOrder
  <1>1. hostFile \in Seq(SavedTraceInfo)
    BY DEF SafeInv, TypeOK
  <1>2. /\ p[1] \in 1 .. Len(hostFile)
        /\ p[2] \in 1 .. Len(hostFile[p[1]].pkts)
        /\ At(hostFile, p) = hostFile[p[1]].pkts[p[2]]
    BY <1>1, PlacesInFile
  <1>3. /\ q[1] \in 1 .. Len(hostFile)
        /\ q[2] \in 1 .. Len(hostFile[q[1]].pkts)
        /\ At(hostFile, q) = hostFile[q[1]].pkts[q[2]]
    BY <1>1, PlacesInFile
  <1>4. /\ At(hostFile, p) \in Elems(hostFile[p[1]].pkts)
        /\ At(hostFile, q) \in Elems(hostFile[q[1]].pkts)
    BY <1>2, <1>3 DEF Elems
  <1>5. CASE p[1] < q[1]
    BY <1>2, <1>3, <1>4, <1>5 DEF OrderInv, FileOrdered, Ordered, Earlier
  <1>6. CASE p[1] = q[1] /\ p[2] < q[2]
    BY <1>2, <1>3, <1>6 DEF OrderInv, FileOrdered, Ordered, Increasing
  <1> QED BY <1>5, <1>6 DEF Before

\* A reader meets the packets of a thread in the order the thread wrote
\* them: buffers are saved in that order, and the one that is moved to the
\* front is its thread's first.
THEOREM ThreadOrderKept == Quiesced => (Spec => []ThreadOrder)
  <1> SUFFICES ASSUME Quiesced PROVE Spec => []ThreadOrder
    OBVIOUS
  <1>1. SafeInv /\ OrderInv => ThreadOrder
    BY FileInOrder
  <1>2. SafeInv /\ MarkInv /\ OrderInv /\ [Next]_vars
           => SafeInv' /\ MarkInv' /\ OrderInv'
    BY SafeStep, MarkStep, OrderStep
  <1> QED BY <1>1, <1>2, SafeStep, MarkInit, OrderInit, PTL DEF Spec

-----------------------------------------------------------------------------
(***************************************************************************)
(* What an event refers to is defined before it                            *)
(***************************************************************************)

\* Among the packets S thread t describes a track, interns an id.
Describes(S, t, kind, uuid) ==
    \E d \in S : d.kind = kind /\ d.by = t /\ d.uuid = uuid
Interns(S, t, kind, iid) ==
    \E d \in S : d.kind = kind /\ d.by = t /\ d.iid = iid

\* What a thread remembers it has written, except the id it has just drawn.
Remembers(S, t, c) ==
    /\ c.mThreadId # 0 => Describes(S, t, "track", <<0, c.mThreadId>>)
    /\ c.mEventCategoryIid # 0 /\ c.pc # "categoryAdd" =>
          Interns(S, t, "category", c.mEventCategoryIid)
    /\ \A n \in Names :
          c.mEventNameIids[n] # 0 /\ ~(c.pc = "nameAdd" /\ n = c.arg) =>
              Interns(S, t, "name", c.mEventNameIids[n])
    /\ \A n \in Names :
          c.mCounterUuids[n] # NoUuid =>
              Describes(S, t, "counterTrack", c.mCounterUuids[n])

\* The ids on the stack are interned, those of the open slices and, from
\* where they are known, those of the event under way.  On a full stack a
\* counter's category overwrites the name of the outermost slice, but no
\* end gets past the test of the depth any more.
Category(S, t, c, l) == Interns(S, t, "category", c.mIids[CatSlot(l)])
EventName(S, t, c, l) == Interns(S, t, "name", c.mIids[NameSlot(l)])
Ending(c) == c.op = "end" /\ c.pc \in {"lock", "event"}
OnStack(S, t, c) ==
    /\ c.mStackDepth < StackMax =>
          \A l \in 0 .. c.mStackDepth - 1 :
              Category(S, t, c, l) /\ EventName(S, t, c, l)
    /\ \/ Ending(c)
       \/ c.op = "begin"
            /\ c.pc \in {"threadInfo", "name", "nameAdd", "event", "unlock"}
       => Category(S, t, c, c.mStackDepth)
    /\ Ending(c) \/ (c.op = "begin" /\ c.pc \in {"event", "unlock"}) =>
          EventName(S, t, c, c.mStackDepth)

\* How far a call has got.
Blank(c) ==
    /\ c.mThreadId = 0
    /\ c.mEventCategoryIid = 0
    /\ c.mEventNameIids = [n \in Names |-> 0]
    /\ c.mCounterUuids = [n \in Names |-> NoUuid]
    /\ c.mStackDepth = 0
CallKnows(c) ==
    /\ c.pc = "categoryAdd" =>
          c.mIids[CatSlot(c.mStackDepth)] = c.mEventCategoryIid
    /\ c.pc = "nameAdd" =>
          c.mIids[NameSlot(c.mStackDepth)] = c.mEventNameIids[c.arg]
    /\ \/ c.pc \in {"name", "nameAdd", "counter", "event", "unlock"}
       \/ c.mStackDepth > 0
       \/ c.op = "end" /\ c.pc \in {"dec", "lock"}
       => c.mThreadId # 0
    /\ c.pc = "event" /\ c.op = "counter" => c.mCounterUuids[c.arg] # NoUuid
    /\ c.mTraceBuffer # <<>> \/ Blank(c) \/ c.pc = "categoryAdd"

\* The packets an event refers to are among S, written before it.
Prior(S, e) == {d \in S : d.n < e.n}
Backed(S, e) ==
    /\ e.kind \in {"begin", "end"} =>
          /\ Describes(Prior(S, e), e.by, "track", e.uuid)
          /\ Interns(Prior(S, e), e.by, "category", e.cat)
          /\ Interns(Prior(S, e), e.by, "name", e.iid)
    /\ e.kind = "counter" =>
          Describes(Prior(S, e), e.by, "counterTrack", e.uuid)

\* Which saved traces are in the file already.
Copied(j) ==
    \/ ctl.step = "restPass" /\ (mSavedTraces[j].first \/ j < ctl.idx)
    \/ ctl.step = "firstPass" /\ mSavedTraces[j].first /\ j < ctl.idx
FileCopied ==
    /\ \A j \in 1 .. Len(mSavedTraces) :
          Copied(j) => Elems(mSavedTraces[j].pkts) \subseteq InFile
    /\ ctl.step \in Writing => InFile \subseteq Held

DefInv ==
    /\ \A t \in Threads : /\ Remembers(Held, t, ctx[t])
                          /\ OnStack(Held, t, ctx[t])
                          /\ CallKnows(ctx[t])
    /\ \A e \in Held : Backed(Held, e)
    /\ \A e \in InFile : Backed(InFile, e)
    /\ FileCopied

\* What a step of a call writes; here with what it leaves in the storage.
Writes(c, d, p) == Added(c, d, p) /\ UNCHANGED mSavedTraces
WritesNothing(c, d) ==
    /\ d.mTraceBuffer = c.mTraceBuffer
    /\ d.out = c.out
    /\ UNCHANGED mSavedTraces
Saves(c, d) ==
    /\ SaveBuffer(c)
    /\ \/ d.mTraceBuffer = <<>> /\ d.out = c.out
       \/ d.mTraceBuffer = c.out /\ d.out = <<>>

\* A save keeps what is held.
LEMMA SavesKeep ==
    ASSUME TypeOK, NEW t \in Threads, Saves(ctx[t], ctx'[t]),
           \A u \in Threads \ {t} : ctx'[u] = ctx[u]
    PROVE  Held' = Held
  <1> DEFINE c == ctx[t]
             d == ctx'[t]
  <1>1. c \in Context /\ mSavedTraces \in Seq(SavedTraceInfo)
        /\ Len(mSavedTraces) \in Nat
    BY DEF TypeOK
  <1>2. Held' \subseteq Held
    BY HeldSave DEF Saves
  <1>3. ASSUME NEW p \in Held PROVE p \in Held'
    <2>1. /\ p \in Elems(c.mTraceBuffer) =>
                \E j \in 1 .. Len(mSavedTraces') : p \in Elems(mSavedTraces'[j].pkts)
          /\ \A j \in 1 .. Len(mSavedTraces) :
                j \in 1 .. Len(mSavedTraces') /\ mSavedTraces'[j] = mSavedTraces[j]
      <3>1. CASE c.mTraceBuffer = <<>> /\ mSavedTraces' = mSavedTraces
        BY <3>1, ElemsFacts
      <3>2. CASE /\ Len(mSavedTraces') = Len(mSavedTraces) + 1
                 /\ \A j \in 1 .. Len(mSavedTraces) :
                       mSavedTraces'[j] = mSavedTraces[j]
                 /\ mSavedTraces'[Len(mSavedTraces) + 1].pkts = c.mTraceBuffer
        BY <1>1, <3>2
      <3> QED BY <1>1, <3>1, <3>2, SaveFacts DEF Saves
    <2>2. p \in Elems(c.out) => p \in Elems(d.mTraceBuffer) \/ p \in Elems(d.out)
      BY ElemsFacts DEF Saves
    <2>3. \/ \E u \in Threads : \/ p \in Elems(ctx'[u].mTraceBuffer)
                                \/ p \in Elems(ctx'[u].out)
          \/ \E j \in 1 .. Len(mSavedTraces') : p \in Elems(mSavedTraces'[j].pkts)
      BY <1>3, <2>1, <2>2, HeldBy
    <2> QED BY <2>3 DEF Held, Elems
  <1> QED BY <1>2, <1>3

\* A write adds the packet.
LEMMA WritesAdd ==
    ASSUME TypeOK, NEW t \in Threads, NEW p, Writes(ctx[t], ctx'[t], p),
           \A u \in Threads \ {t} : ctx'[u] = ctx[u]
    PROVE  Held' = Held \union {p}
  <1> DEFINE c == ctx[t]
             d == ctx'[t]
  <1>1. c.mTraceBuffer \in Seq(Packet)
    BY DEF TypeOK, Context
  <1>2. /\ c.out = <<>> /\ mSavedTraces' = mSavedTraces
        /\ Elems(c.out) = {}
        /\ \/ /\ Elems(d.mTraceBuffer) = Elems(c.mTraceBuffer) \union {p}
              /\ Elems(d.out) = {}
           \/ /\ Elems(d.mTraceBuffer) = Elems(c.mTraceBuffer)
              /\ Elems(d.out) = {p}
    BY <1>1, ElemsFacts DEF Writes, Added
  <1>3. \A q : q \in Held' <=>
           \/ \E u \in Threads : \/ q \in Elems(ctx'[u].mTraceBuffer)
                                 \/ q \in Elems(ctx'[u].out)
           \/ \E j \in 1 .. Len(mSavedTraces') : q \in Elems(mSavedTraces'[j].pkts)
    BY DEF Held, Elems
  <1>4. \A u \in Threads \ {t} : /\ ctx'[u].mTraceBuffer = ctx[u].mTraceBuffer
                                 /\ ctx'[u].out = ctx[u].out
    OBVIOUS
  <1>5. ASSUME NEW q PROVE q \in Held' <=> q \in Held \union {p}
    BY <1>2, <1>4, <1>3, HeldBy
  <1> QED BY <1>5

\* What is held stays if nothing is written.
LEMMA NothingAdds ==
    ASSUME UNCHANGED mSavedTraces,
           \A u \in Threads : /\ ctx'[u].mTraceBuffer = ctx[u].mTraceBuffer
                              /\ ctx'[u].out = ctx[u].out
    PROVE  Held' = Held
  <1>1. \A q : q \in Held' <=>
           \/ \E u \in Threads : \/ q \in Elems(ctx'[u].mTraceBuffer)
                                 \/ q \in Elems(ctx'[u].out)
           \/ \E j \in 1 .. Len(mSavedTraces') : q \in Elems(mSavedTraces'[j].pkts)
    BY DEF Held, Elems
  <1>2. \A q : q \in Held' <=> q \in Held
    BY <1>1, HeldBy
  <1> QED BY <1>2

\* The parts of a context that a call reads again later.
SameMemory(c, d) ==
    /\ d.mThreadId = c.mThreadId
    /\ d.mEventCategoryIid = c.mEventCategoryIid
    /\ d.mEventNameIids = c.mEventNameIids
    /\ d.mCounterUuids = c.mCounterUuids
    /\ d.mIids = c.mIids
    /\ d.mStackDepth = c.mStackDepth
    /\ d.op = c.op
    /\ d.arg = c.arg

\* Steps that only move on.
MovesOn(c, d) ==
    \/ c.pc = "construct" /\ d.pc = "check"
    \/ c.pc = "check" /\ d.pc = "idle"
    \/ c.pc = "check" /\ d.pc = "lock" /\ c.op # "end"
    \/ c.pc = "check" /\ d.pc = "dec" /\ c.op = "end" /\ c.mStackDepth > 0
    \/ c.pc = "lock" /\ d.pc = "event" /\ c.op = "end"
    \/ c.pc = "lock" /\ d.pc \in {"first", "await"} /\ c.op # "end"
    \/ c.pc = "await" /\ d.pc = "category"
    \/ c.pc = "threadInfo" /\ d.pc = "name" /\ c.op = "begin"
         /\ c.mThreadId # 0
    \/ c.pc = "threadInfo" /\ d.pc = "counter" /\ c.op = "counter"
         /\ c.mThreadId # 0
    \/ c.pc = "counter" /\ d.pc = "event" /\ c.op = "counter"
         /\ c.mCounterUuids[c.arg] # NoUuid

\* Steps that change the stack, or look an id up.
Pops(c, d) ==
    /\ c.pc = "dec" /\ d.pc = "lock" /\ c.op = "end"
    /\ c.mStackDepth \in 1 .. StackMax - 1
    /\ SameMemory([c EXCEPT !.mStackDepth = @ - 1], d)
Pushes(c, d) ==
    /\ c.pc = "unlock" /\ d.pc = "idle"
    /\ \/ /\ c.op = "begin"
          /\ SameMemory([c EXCEPT !.mStackDepth = @ + 1], d)
       \/ c.op # "begin" /\ SameMemory(c, d)
LooksUpCategory(c, d) ==
    \E iid \in Pos :
        /\ c.pc = "category"
        /\ \/ d.pc = "threadInfo" /\ iid = c.mEventCategoryIid
           \/ d.pc = "categoryAdd" /\ c.mEventCategoryIid = 0
        /\ SameMemory([c EXCEPT !.mEventCategoryIid = iid,
                                !.mIids[CatSlot(c.mStackDepth)] = iid], d)
LooksUpName(c, d) ==
    \E iid \in Pos :
        /\ c.pc = "name"
        /\ \/ d.pc = "event" /\ iid = c.mEventNameIids[c.arg]
           \/ d.pc = "nameAdd" /\ c.mEventNameIids[c.arg] = 0
        /\ SameMemory([c EXCEPT !.mEventNameIids[c.arg] = iid,
                                !.mIids[NameSlot(c.mStackDepth)] = iid], d)

\* Steps that write packet p.
Defines(t, c, d, p) ==
    \/ /\ c.pc = "first" /\ d.pc = "category" /\ p.kind = "seq"
       /\ SameMemory(c, d)
    \/ /\ c.pc = "categoryAdd" /\ d.pc = "threadInfo" /\ p.kind = "category"
       /\ p.iid = c.mIids[CatSlot(c.mStackDepth)]
       /\ SameMemory(c, d)
    \/ /\ c.pc = "nameAdd" /\ d.pc = "event" /\ p.kind = "name"
       /\ p.iid = c.mIids[NameSlot(c.mStackDepth)]
       /\ SameMemory(c, d)
    \/ /\ c.pc = "threadInfo" /\ p.kind = "track"
       /\ \/ d.pc = "name" /\ c.op = "begin"
          \/ d.pc = "counter" /\ c.op = "counter"
       /\ \E id \in Pos : /\ p.uuid = <<0, id>>
                          /\ SameMemory([c EXCEPT !.mThreadId = id], d)
    \/ /\ c.pc = "counter" /\ d.pc = "event" /\ p.kind = "counterTrack"
       /\ c.op = "counter" /\ p.uuid # NoUuid
       /\ SameMemory([c EXCEPT !.mCounterUuids[c.arg] = p.uuid], d)
    \/ /\ c.pc = "event" /\ d.pc = "unlock" /\ SameMemory(c, d)
       /\ \/ /\ c.op = "counter" /\ p.kind = "counter"
             /\ p.uuid = c.mCounterUuids[c.arg]
          \/ /\ c.op \in {"begin", "end"} /\ p.kind = c.op
             /\ p.uuid = <<0, c.mThreadId>>
             /\ p.cat = c.mIids[CatSlot(c.mStackDepth)]
             /\ p.iid = c.mIids[NameSlot(c.mStackDepth)]

\* What a step of a call does to its context's memory.
Learns(t, c, d) ==
    \/ Saves(c, d) /\ SameMemory(c, d) /\ d.pc = c.pc /\ d.mTraceBuffer # <<>>
    \/ Saves(c, d) /\ Blank(d) /\ d.pc = "dead"
    \/ WritesNothing(c, d) /\ SameMemory(c, d) /\ MovesOn(c, d)
    \/ WritesNothing(c, d) /\ \/ Pops(c, d)
                              \/ Pushes(c, d)
                              \/ LooksUpCategory(c, d)
                              \/ LooksUpName(c, d)
    \/ \E p : /\ Writes(c, d, p) /\ d.mTraceBuffer # <<>>
              /\ p.by = t /\ p.n = c.emitted + 1
              /\ Defines(t, c, d, p)

\* A write leaves what is remembered alone.
LEMMA WrittenMemory ==
    ASSUME NEW c \in Context, NEW p, c.out = <<>>
    PROVE  /\ SameMemory(c, Written(c, p))
           /\ Written(c, p).pc = c.pc
           /\ Added(c, Written(c, p), p)
           /\ Written(c, p).mTraceBuffer # <<>>
  <1> DEFINE a == [c EXCEPT !.emitted = @ + 1, !.mTraceBuffer = Append(@, p)]
             b == [c EXCEPT !.emitted = @ + 1, !.out = <<p>>]
  <1>1. SameMemory(c, a) /\ SameMemory(c, b)
    BY DEF Context, SameMemory
  <1>2. Written(c, p) = IF Len(c.mTraceBuffer) < BufCapacity THEN a ELSE b
    BY DEF Written
  <1>3. Added(c, Written(c, p), p) /\ Written(c, p).pc = c.pc
    BY WrittenFields
  <1> HIDE DEF a, b
  <1> QED BY <1>1, <1>2, <1>3, AddedBuffer

\* The ids in the packet a thread writes.
LEMMA PacketIds ==
    ASSUME NEW t, NEW kind, NEW uuid, NEW cat, NEW iid, NEW name
    PROVE  LET p == PacketOf(t, kind, uuid, cat, iid, name)
           IN  /\ p.by = t /\ p.n = ctx[t].emitted + 1 /\ p.kind = kind
               /\ p.uuid = uuid /\ p.cat = cat /\ p.iid = iid
  BY DEF PacketOf

\* Every step of a call is one of these.
LEMMA LearnsFrame ==
    ASSUME TypeOK, ContextInv, CallsInSession, NEW t \in Threads, ~Crashed,
           InCall(t)
    PROVE  Learns(t, ctx[t], ctx'[t])
  <1> DEFINE c == ctx[t]
             d == ctx'[t]
  <1>c. c \in Context /\ ContextOK(c) /\ c.pc # "oob" /\ config \in Config
    BY DEF TypeOK, ContextInv, Crashed
  <1>x. ctx \in [Threads -> Context]
    BY DEF TypeOK
  <1>f. /\ c.mThreadId \in Nat /\ c.mStackDepth \in Depths
        /\ c.mEventCategoryIid \in Nat /\ c.mEventNameIids \in [Names -> Nat]
        /\ c.mCounterUuids \in [Names -> Uuid] /\ c.mCurrentCounterId \in Pos
        /\ c.mIids \in [Slots -> Nat] /\ c.op \in {"begin", "end", "counter"}
        /\ config.currentInterningId \in Pos /\ config.currentThreadId \in Pos
    <2> HIDE DEF c
    <2> QED BY <1>c DEF Context, Config
  <1>1. CASE FinishAndRefresh(t)
    <2>1. /\ c.out # <<>> /\ SaveBuffer(c)
          /\ d = [c EXCEPT !.mFirst = FALSE, !.mTraceBuffer = c.out,
                           !.out = <<>>]
      BY <1>1, <1>x DEF FinishAndRefresh
    <2>2. /\ d.mTraceBuffer = c.out /\ d.out = <<>> /\ d.pc = c.pc
          /\ SameMemory(c, d)
      <3> HIDE DEF c, d
      <3> QED BY <1>c, <2>1 DEF Context, SameMemory
    <2> QED BY <2>1, <2>2 DEF Learns, Saves
  <1>2. CASE SaveAtExit(t)
    <2>1. SaveBuffer(c) /\ d = [Reset(c) EXCEPT !.pc = "dead"]
      BY <1>2, <1>x DEF SaveAtExit, Step
    <2>2. d.mTraceBuffer = <<>> /\ d.out = c.out /\ d.pc = "dead" /\ Blank(d)
      <3> HIDE DEF c, d
      <3> QED BY <1>c, <2>1 DEF Reset, Context, Blank
    <2> QED BY <2>1, <2>2 DEF Learns, Saves
  <1>3. CASE Construct(t)
    <2>1. /\ c.pc = "construct" /\ UNCHANGED mSavedTraces
          /\ d = [c EXCEPT !.pc = "check"]
      BY <1>3, <1>x DEF Construct, Step, storage
    <2>2. /\ d.mTraceBuffer = c.mTraceBuffer /\ d.out = c.out /\ d.pc = "check"
          /\ SameMemory(c, d)
      <3> HIDE DEF c, d
      <3> QED BY <1>c, <2>1 DEF Context, SameMemory
    <2> QED BY <2>1, <2>2 DEF Learns, WritesNothing, MovesOn
  <1>4. CASE LockEnd(t)
    <2>1. /\ c.pc = "lock" /\ UNCHANGED mSavedTraces /\ c.op = "end"
          /\ d = [c EXCEPT !.pc = "event", !.mTracingLock = TRUE]
      BY <1>4, <1>x DEF LockEnd, Step, storage
    <2>2. /\ d.mTraceBuffer = c.mTraceBuffer /\ d.out = c.out /\ d.pc = "event"
          /\ SameMemory(c, d)
      <3> HIDE DEF c, d
      <3> QED BY <1>c, <2>1 DEF Context, SameMemory
    <2> QED BY <2>1, <2>2 DEF Learns, WritesNothing, MovesOn
  <1>5. CASE AwaitSequenceId(t)
    <2>1. /\ c.pc = "await" /\ UNCHANGED mSavedTraces
          /\ d = [c EXCEPT !.pc = "category"]
      BY <1>5, <1>x DEF AwaitSequenceId, Step, storage
    <2>2. /\ d.mTraceBuffer = c.mTraceBuffer /\ d.out = c.out /\ d.pc = "category"
          /\ SameMemory(c, d)
      <3> HIDE DEF c, d
      <3> QED BY <1>c, <2>1 DEF Context, SameMemory
    <2> QED BY <2>1, <2>2 DEF Learns, WritesNothing, MovesOn
  <1>6. CASE LockAndCount(t)
    <2> DEFINE npc == IF config.packetsWritten = 0 THEN "first" ELSE "await"
    <2>1. /\ c.pc = "lock" /\ UNCHANGED mSavedTraces /\ c.op # "end"
          /\ d = [c EXCEPT !.pc = npc, !.mTracingLock = TRUE]
      BY <1>6, <1>x DEF LockAndCount, Step, storage
    <2>2. npc \in {"first", "await"}
      OBVIOUS
    <2>3. /\ d.mTraceBuffer = c.mTraceBuffer /\ d.out = c.out /\ d.pc = npc
          /\ SameMemory(c, d)
      <3> HIDE DEF c, d, npc
      <3> QED BY <1>c, <2>1 DEF Context, SameMemory
    <2> HIDE DEF npc
    <2> QED BY <2>1, <2>2, <2>3 DEF Learns, WritesNothing, MovesOn
  <1>7. CASE Check(t)
    <2> DEFINE i == [c EXCEPT !.pc = "idle"]
               e == [c EXCEPT !.pc = "dec", !.seenDepth = c.mStackDepth]
               l == [c EXCEPT !.pc = "lock"]
    <2>1. /\ c.pc = "check" /\ UNCHANGED mSavedTraces
          /\ d = IF Rejected(c) THEN i ELSE IF c.op = "end" THEN e ELSE l
      BY <1>7, <1>x DEF Check, Step, storage
    <2>2. ~Rejected(c) /\ c.op = "end" => c.mStackDepth > 0
      <3>1. c.mStackDepth \in Int /\ c.mStackDepth >= -1
        BY <1>f, ConstantsAssumption DEF Depths
      <3>2. c.mStackDepth # -1
        BY <1>c DEF ContextOK
      <3>3. ~Rejected(c) /\ c.op = "end" => c.mStackDepth # 0
        BY DEF Rejected
      <3> HIDE DEF c
      <3> QED BY <3>1, <3>2, <3>3
    <2>3. d = i \/ (d = e /\ c.op = "end" /\ c.mStackDepth > 0)
            \/ (d = l /\ c.op # "end")
      BY <2>1, <2>2
    <2> HIDE DEF c, d
    <2>4. /\ i.pc = "idle" /\ i.mTraceBuffer = c.mTraceBuffer
          /\ i.out = c.out /\ SameMemory(c, i)
      BY <1>c DEF Context, SameMemory
    <2>5. /\ e.pc = "dec" /\ e.mTraceBuffer = c.mTraceBuffer
          /\ e.out = c.out /\ SameMemory(c, e)
      BY <1>c DEF Context, SameMemory
    <2>6. /\ l.pc = "lock" /\ l.mTraceBuffer = c.mTraceBuffer
          /\ l.out = c.out /\ SameMemory(c, l)
      BY <1>c DEF Context, SameMemory
    <2> HIDE DEF i, e, l
    <2> QED BY <2>1, <2>3, <2>4, <2>5, <2>6
            DEF Learns, WritesNothing, MovesOn, c, d
  <1>8. CASE DecrementDepth(t)
    <2>1. /\ c.pc = "dec" /\ UNCHANGED mSavedTraces
          /\ \E e \in {c.seenDepth, c.mStackDepth} :
                d = [c EXCEPT !.pc = IF e = 0 THEN "oob" ELSE "lock",
                              !.mStackDepth = e - 1]
      BY <1>8, <1>x DEF DecrementDepth, Step, storage
    <2>2. /\ c.seenDepth = c.mStackDepth /\ c.op = "end" /\ c.mStackDepth # 0
          /\ c.mStackDepth \in 1 .. StackMax - 1
      <3>1. c.seenDepth = c.mStackDepth
        BY <2>1 DEF CallsInSession
      <3> HIDE DEF c
      <3> QED BY <1>c, <2>1, <3>1, ConstantsAssumption DEF ContextOK
    <2>3. d = [c EXCEPT !.pc = "lock", !.mStackDepth = c.mStackDepth - 1]
      BY <2>1, <2>2
    <2> HIDE DEF c, d
    <2>4. /\ d.mTraceBuffer = c.mTraceBuffer /\ d.out = c.out /\ d.pc = "lock"
          /\ SameMemory([c EXCEPT !.mStackDepth = @ - 1], d)
      BY <1>c, <2>3 DEF Context, SameMemory
    <2>5. Pops(c, d)
      BY <2>1, <2>2, <2>4 DEF Pops
    <2> QED BY <2>1, <2>4, <2>5 DEF Learns, WritesNothing, c, d
  <1>9. CASE Unlock(t)
    <2> DEFINE e == IF c.op = "begin" THEN c.mStackDepth + 1 ELSE c.mStackDepth
    <2>1. /\ c.pc = "unlock" /\ UNCHANGED mSavedTraces
          /\ d = [c EXCEPT !.pc = "idle", !.mTracingLock = FALSE,
                           !.mStackDepth = e]
      BY <1>9, <1>x DEF Unlock, Step, storage
    <2>2. /\ c.op = "begin" => e = c.mStackDepth + 1
          /\ c.op # "begin" => e = c.mStackDepth
      OBVIOUS
    <2> HIDE DEF c, d, e
    <2>3. /\ d.mTraceBuffer = c.mTraceBuffer /\ d.out = c.out /\ d.pc = "idle"
          /\ SameMemory([c EXCEPT !.mStackDepth = e], d)
      BY <1>c, <2>1 DEF Context, SameMemory
    <2>4. c.op # "begin" => SameMemory(c, d)
      BY <1>c, <2>1, <2>2 DEF Context, SameMemory
    <2>5. Pushes(c, d)
      BY <2>1, <2>2, <2>3, <2>4 DEF Pushes
    <2> QED BY <2>1, <2>3, <2>5 DEF Learns, WritesNothing, c, d
  <1>10. CASE InternCategory(t)
    <2> DEFINE known == c.mEventCategoryIid # 0
               iid == IF known THEN c.mEventCategoryIid
                      ELSE config.currentInterningId
               npc == IF known THEN "threadInfo" ELSE "categoryAdd"
               iids == [c.mIids EXCEPT ![CatSlot(c.mStackDepth)] = iid]
    <2>1. /\ c.pc = "category" /\ UNCHANGED mSavedTraces
          /\ d = [c EXCEPT !.pc = npc, !.mEventCategoryIid = iid,
                           !.mIids = iids]
      BY <1>10, <1>x DEF InternCategory, Step, storage
    <2>2. /\ iid \in Pos
          /\ \/ npc = "threadInfo" /\ iid = c.mEventCategoryIid
             \/ npc = "categoryAdd" /\ c.mEventCategoryIid = 0
      BY <1>f DEF Pos
    <2> HIDE DEF c, d, iid, npc, known
    <2>3. /\ d.mTraceBuffer = c.mTraceBuffer /\ d.out = c.out /\ d.pc = npc
          /\ SameMemory([c EXCEPT !.mEventCategoryIid = iid,
                                  !.mIids[CatSlot(c.mStackDepth)] = iid], d)
      <3> HIDE DEF iids
      <3>1. /\ d.mTraceBuffer = c.mTraceBuffer /\ d.out = c.out /\ d.pc = npc
            /\ SameMemory([c EXCEPT !.mEventCategoryIid = iid,
                                    !.mIids = iids], d)
        BY <1>c, <2>1 DEF Context, SameMemory
      <3> QED BY <3>1 DEF iids
    <2>4. LooksUpCategory(c, d)
      BY <2>1, <2>2, <2>3 DEF LooksUpCategory
    <2> QED BY <2>1, <2>3, <2>4 DEF Learns, WritesNothing, c, d
  <1>11. CASE InternEvent(t)
    <2> DEFINE known == c.mEventNameIids[c.arg] # 0
               iid == IF known THEN c.mEventNameIids[c.arg]
                      ELSE config.currentInterningId
               npc == IF known THEN "event" ELSE "nameAdd"
               iids == [c.mIids EXCEPT ![NameSlot(c.mStackDepth)] = iid]
               nids == [c.mEventNameIids EXCEPT ![c.arg] = iid]
    <2>1. /\ c.pc = "name" /\ UNCHANGED mSavedTraces
          /\ d = [c EXCEPT !.pc = npc, !.mEventNameIids = nids, !.mIids = iids]
      BY <1>11, <1>x DEF InternEvent, Step, storage
    <2>0. c.arg \in Names
      <3> HIDE DEF c
      <3> QED BY <1>c, <2>1 DEF ContextOK
    <2>2. /\ iid \in Pos
          /\ \/ npc = "event" /\ iid = c.mEventNameIids[c.arg]
             \/ npc = "nameAdd" /\ c.mEventNameIids[c.arg] = 0
      BY <1>f, <2>0 DEF Pos
    <2> HIDE DEF c, d, iid, npc, known
    <2>3. /\ d.mTraceBuffer = c.mTraceBuffer /\ d.out = c.out /\ d.pc = npc
          /\ SameMemory([c EXCEPT !.mEventNameIids[c.arg] = iid,
                                  !.mIids[NameSlot(c.mStackDepth)] = iid], d)
      <3> HIDE DEF iids, nids
      <3>1. /\ d.mTraceBuffer = c.mTraceBuffer /\ d.out = c.out /\ d.pc = npc
            /\ SameMemory([c EXCEPT !.mEventNameIids = nids, !.mIids = iids], d)
        BY <1>c, <2>1 DEF Context, SameMemory
      <3> QED BY <3>1 DEF iids, nids
    <2>4. LooksUpName(c, d)
      BY <2>1, <2>2, <2>3 DEF LooksUpName
    <2> QED BY <2>1, <2>3, <2>4 DEF Learns, WritesNothing, c, d
  <1>w. ASSUME NEW b \in Context, NEW p, d = Written(b, p), c.out = <<>>,
               b.mTraceBuffer = c.mTraceBuffer, b.out = c.out,
               b.emitted = c.emitted, UNCHANGED mSavedTraces,
               p.by = t, p.n = c.emitted + 1,
               \A e : SameMemory(b, e) /\ e.pc = b.pc => Defines(t, c, e, p)
        PROVE  Learns(t, c, d)
    <2> HIDE DEF c, d
    <2>1. /\ SameMemory(b, d) /\ d.pc = b.pc /\ Added(b, d, p)
          /\ d.mTraceBuffer # <<>>
      BY <1>w, WrittenMemory
    <2>2. Writes(c, d, p)
      BY <1>w, <2>1 DEF Writes, Added
    <2> QED BY <1>w, <2>1, <2>2 DEF Learns
  <1>y. ASSUME NEW npc \in Pcs
        PROVE  LET b == [c EXCEPT !.pc = npc]
               IN  /\ b \in Context /\ b.pc = npc
                   /\ b.mTraceBuffer = c.mTraceBuffer /\ b.out = c.out
                   /\ b.emitted = c.emitted /\ SameMemory(c, b)
    <2> HIDE DEF c
    <2> QED BY <1>c DEF Context, SameMemory
  <1>z. \A b, e : SameMemory(c, b) /\ SameMemory(b, e) => SameMemory(c, e)
    BY DEF SameMemory
  <1>12. CASE FirstPacket(t)
    <2> DEFINE b == [c EXCEPT !.pc = "category", !.mFirst = TRUE]
               p == PacketOf(t, "seq", NoUuid, 0, 0, None)
    <2>1. /\ c.pc = "first" /\ c.out = <<>> /\ UNCHANGED mSavedTraces
          /\ d = Written(b, p)
      BY <1>12, <1>x DEF FirstPacket, Step, storage
    <2>2. p.by = t /\ p.n = c.emitted + 1 /\ p.kind = "seq"
      BY PacketIds
    <2>3. /\ b \in Context /\ b.pc = "category"
          /\ b.mTraceBuffer = c.mTraceBuffer /\ b.out = c.out
          /\ b.emitted = c.emitted /\ SameMemory(c, b)
      <3> HIDE DEF c
      <3> QED BY <1>c DEF Context, Pcs, SameMemory
    <2> HIDE DEF b, p
    <2>4. \A e : SameMemory(b, e) /\ e.pc = b.pc => Defines(t, c, e, p)
      BY <1>z, <2>1, <2>2, <2>3 DEF Defines
    <2> QED BY <1>w, <2>1, <2>2, <2>3, <2>4
  <1>13. CASE EmitCategory(t)
    <2> DEFINE b == [c EXCEPT !.pc = "threadInfo"]
               p == PacketOf(t, "category", NoUuid, 0,
                             c.mIids[CatSlot(c.mStackDepth)], None)
    <2>1. /\ c.pc = "categoryAdd" /\ c.out = <<>> /\ UNCHANGED mSavedTraces
          /\ d = Written(b, p)
      BY <1>13, <1>x DEF EmitCategory, Step, storage
    <2>2. /\ p.by = t /\ p.n = c.emitted + 1 /\ p.kind = "category"
          /\ p.iid = c.mIids[CatSlot(c.mStackDepth)]
      BY PacketIds
    <2>3. /\ b \in Context /\ b.pc = "threadInfo"
          /\ b.mTraceBuffer = c.mTraceBuffer /\ b.out = c.out
          /\ b.emitted = c.emitted /\ SameMemory(c, b)
      BY <1>y DEF Pcs
    <2> HIDE DEF b, p
    <2>4. \A e : SameMemory(b, e) /\ e.pc = b.pc => Defines(t, c, e, p)
      BY <1>z, <2>1, <2>2, <2>3 DEF Defines
    <2> QED BY <1>w, <2>1, <2>2, <2>3, <2>4
  <1>14. CASE EmitEventName(t)
    <2> DEFINE b == [c EXCEPT !.pc = "event"]
               p == PacketOf(t, "name", NoUuid, 0,
                             c.mIids[NameSlot(c.mStackDepth)], c.arg)
    <2>1. /\ c.pc = "nameAdd" /\ c.out = <<>> /\ UNCHANGED mSavedTraces
          /\ d = Written(b, p)
      BY <1>14, <1>x DEF EmitEventName, Step, storage
    <2>2. /\ p.by = t /\ p.n = c.emitted + 1 /\ p.kind = "name"
          /\ p.iid = c.mIids[NameSlot(c.mStackDepth)]
      BY PacketIds
    <2>3. /\ b \in Context /\ b.pc = "event"
          /\ b.mTraceBuffer = c.mTraceBuffer /\ b.out = c.out
          /\ b.emitted = c.emitted /\ SameMemory(c, b)
      BY <1>y DEF Pcs
    <2> HIDE DEF b, p
    <2>4. \A e : SameMemory(b, e) /\ e.pc = b.pc => Defines(t, c, e, p)
      BY <1>z, <2>1, <2>2, <2>3 DEF Defines
    <2> QED BY <1>w, <2>1, <2>2, <2>3, <2>4
  <1>15. CASE SetThreadId(t)
    <2> DEFINE npc == IF c.op = "begin" THEN "name" ELSE "counter"
               b == [c EXCEPT !.pc = npc]
               id == config.currentThreadId + 1
               f == [b EXCEPT !.mThreadId = id]
               p == PacketOf(t, "track", <<0, id>>, 0, 0, None)
    <2>1. c.pc = "threadInfo" /\ c.out = <<>> /\ UNCHANGED mSavedTraces
      BY <1>15 DEF SetThreadId, Step, storage
    <2>2. /\ npc \in Pcs
          /\ \/ npc = "name" /\ c.op = "begin"
             \/ npc = "counter" /\ c.op = "counter"
      <3>1. c.op # "end"
        BY <1>c, <2>1 DEF ContextOK, Guarded
      <3> QED BY <1>f, <3>1 DEF Pcs
    <2> HIDE DEF npc
    <2>3. /\ b \in Context /\ b.pc = npc
          /\ b.mTraceBuffer = c.mTraceBuffer /\ b.out = c.out
          /\ b.emitted = c.emitted /\ SameMemory(c, b)
      BY <1>y, <2>2
    <2>4. CASE c.mThreadId # 0
      <3>1. d = b
        BY <1>15, <1>x, <2>3, <2>4 DEF SetThreadId, Step, SameMemory, npc
      <3> HIDE DEF b
      <3> QED BY <2>1, <2>2, <2>3, <2>4, <3>1 DEF Learns, WritesNothing, MovesOn
    <2>5. CASE c.mThreadId = 0
      <3>1. d = Written(f, p)
        BY <1>15, <1>x, <2>3, <2>5 DEF SetThreadId, Step, SameMemory, npc
      <3>2. /\ p.by = t /\ p.n = c.emitted + 1 /\ p.kind = "track"
            /\ p.uuid = <<0, id>>
        BY PacketIds
      <3>3. id \in Pos
        BY <1>f DEF Pos
      <3>4. /\ f \in Context /\ f.pc = npc
            /\ f.mTraceBuffer = c.mTraceBuffer /\ f.out = c.out
            /\ f.emitted = c.emitted
            /\ SameMemory([c EXCEPT !.mThreadId = id], f)
        <4>1. /\ f \in Context /\ f.pc = b.pc
              /\ f.mTraceBuffer = b.mTraceBuffer /\ f.out = b.out
              /\ f.emitted = b.emitted
              /\ SameMemory([b EXCEPT !.mThreadId = id], f)
          <5> HIDE DEF b, id
          <5> QED BY <2>3, <3>3 DEF Context, SameMemory, Pos
        <4>2. SameMemory([c EXCEPT !.mThreadId = id], [b EXCEPT !.mThreadId = id])
          <5> HIDE DEF b, c, id
          <5> QED BY <1>c, <2>3 DEF Context, SameMemory
        <4> HIDE DEF b, f
        <4> QED BY <2>3, <4>1, <4>2 DEF SameMemory
      <3> HIDE DEF p, f, b, id
      <3>5. ASSUME NEW e, SameMemory(f, e), e.pc = f.pc
            PROVE  Defines(t, c, e, p)
        <4>1. SameMemory([c EXCEPT !.mThreadId = id], e)
          <5> DEFINE g == [c EXCEPT !.mThreadId = id]
          <5> HIDE DEF g
          <5>1. SameMemory(g, f)
            BY <3>4 DEF g
          <5>2. SameMemory(g, e)
            BY <3>5, <5>1 DEF SameMemory
          <5> QED BY <5>2 DEF g
        <4> QED BY <2>1, <2>2, <3>2, <3>3, <3>4, <3>5, <4>1 DEF Defines
      <3> QED BY <1>w, <2>1, <3>1, <3>2, <3>4, <3>5
    <2> QED BY <2>4, <2>5
  <1>16. CASE CounterTrack(t)
    <2> DEFINE b == [c EXCEPT !.pc = "event"]
               uuid == <<c.mCurrentCounterId, c.mThreadId>>
               uuids == [c.mCounterUuids EXCEPT ![c.arg] = uuid]
               next == c.mCurrentCounterId + 1
               f == [b EXCEPT !.mCounterUuids = uuids, !.mCurrentCounterId = next]
               p == PacketOf(t, "counterTrack", uuid, 0, 0, c.arg)
    <2>0. /\ b.mCurrentCounterId = c.mCurrentCounterId
          /\ b.mThreadId = c.mThreadId /\ b.arg = c.arg
          /\ b.mCounterUuids = c.mCounterUuids
      <3> HIDE DEF c
      <3> QED BY <1>c DEF Context
    <2>1. /\ c.pc = "counter" /\ c.out = <<>> /\ UNCHANGED mSavedTraces
          /\ \/ d = b /\ c.mCounterUuids[c.arg] # NoUuid
             \/ d = Written(f, p)
      BY <1>16, <1>x, <2>0 DEF CounterTrack, Step, storage
    <2>2. c.op = "counter" /\ c.arg \in Names
      <3> HIDE DEF c
      <3> QED BY <1>c, <2>1 DEF ContextOK
    <2>3. /\ b \in Context /\ b.pc = "event"
          /\ b.mTraceBuffer = c.mTraceBuffer /\ b.out = c.out
          /\ b.emitted = c.emitted /\ SameMemory(c, b)
      BY <1>y DEF Pcs
    <2>4. CASE d = b /\ c.mCounterUuids[c.arg] # NoUuid
      <3> HIDE DEF b
      <3> QED BY <2>1, <2>2, <2>3, <2>4 DEF Learns, WritesNothing, MovesOn
    <2>5. CASE d = Written(f, p)
      <3>1. /\ p.by = t /\ p.n = c.emitted + 1 /\ p.kind = "counterTrack"
            /\ p.uuid = uuid
        BY PacketIds
      <3>2. /\ uuid \in Uuid /\ uuid # NoUuid /\ next \in Pos
            /\ uuids \in [Names -> Uuid]
        <4>1. uuid \in Uuid /\ uuid # NoUuid /\ next \in Pos
          BY <1>f DEF Uuid, Pos, NoUuid
        <4> HIDE DEF uuid, c
        <4> QED BY <1>f, <4>1
      <3>3. /\ f \in Context /\ f.pc = "event"
            /\ f.mTraceBuffer = c.mTraceBuffer /\ f.out = c.out
            /\ f.emitted = c.emitted
            /\ SameMemory([c EXCEPT !.mCounterUuids = uuids], f)
        <4>1. /\ f \in Context /\ f.pc = b.pc
              /\ f.mTraceBuffer = b.mTraceBuffer /\ f.out = b.out
              /\ f.emitted = b.emitted
              /\ SameMemory([b EXCEPT !.mCounterUuids = uuids], f)
          <5> HIDE DEF b, uuids, next
          <5> QED BY <2>3, <3>2 DEF Context, SameMemory
        <4>2. SameMemory([c EXCEPT !.mCounterUuids = uuids],
                         [b EXCEPT !.mCounterUuids = uuids])
          <5> HIDE DEF b, c, uuids
          <5> QED BY <1>c, <2>3 DEF Context, SameMemory
        <4> HIDE DEF b, f, uuids
        <4> QED BY <2>3, <4>1, <4>2 DEF SameMemory
      <3> HIDE DEF f, b, next
      <3>4. ASSUME NEW e, SameMemory(f, e), e.pc = f.pc
            PROVE  Defines(t, c, e, p)
        <4> DEFINE g == [c EXCEPT !.mCounterUuids = uuids]
        <4>1. SameMemory(g, f)
          BY <3>3
        <4>2. SameMemory(g, e)
          <5> HIDE DEF g
          <5> QED BY <3>4, <4>1 DEF SameMemory
        <4>3. SameMemory([c EXCEPT !.mCounterUuids[c.arg] = p.uuid], e)
          <5> HIDE DEF p
          <5> QED BY <3>1, <4>2
        <4> HIDE DEF p, g, uuids
        <4> QED BY <2>1, <2>2, <3>1, <3>2, <3>3, <3>4, <4>3 DEF Defines
      <3> HIDE DEF p
      <3> QED BY <1>w, <2>1, <2>5, <3>1, <3>3, <3>4
    <2> QED BY <2>1, <2>4, <2>5
  <1>17. CASE EmitEvent(t)
    <2> DEFINE b == [c EXCEPT !.pc = "unlock"]
               q == PacketOf(t, "counter", c.mCounterUuids[c.arg], 0, 0, None)
               r == PacketOf(t, c.op, <<0, c.mThreadId>>,
                             c.mIids[CatSlot(c.mStackDepth)],
                             c.mIids[NameSlot(c.mStackDepth)], None)
    <2>1. /\ c.pc = "event" /\ c.out = <<>> /\ UNCHANGED mSavedTraces
          /\ d = Written(b, IF c.op = "counter" THEN q ELSE r)
      BY <1>17, <1>x DEF EmitEvent, Step, storage
    <2>2. /\ b \in Context /\ b.pc = "unlock"
          /\ b.mTraceBuffer = c.mTraceBuffer /\ b.out = c.out
          /\ b.emitted = c.emitted /\ SameMemory(c, b)
      BY <1>y DEF Pcs
    <2>3. CASE c.op = "counter"
      <3>1. /\ q.by = t /\ q.n = c.emitted + 1 /\ q.kind = "counter"
            /\ q.uuid = c.mCounterUuids[c.arg]
        BY PacketIds
      <3> HIDE DEF b, q
      <3>2. \A e : SameMemory(b, e) /\ e.pc = b.pc => Defines(t, c, e, q)
        BY <1>z, <2>1, <2>2, <2>3, <3>1 DEF Defines
      <3> QED BY <1>w, <2>1, <2>2, <2>3, <3>1, <3>2
    <2>4. CASE c.op # "counter"
      <3>1. /\ r.by = t /\ r.n = c.emitted + 1 /\ r.kind = c.op
            /\ r.uuid = <<0, c.mThreadId>>
            /\ r.cat = c.mIids[CatSlot(c.mStackDepth)]
            /\ r.iid = c.mIids[NameSlot(c.mStackDepth)]
        BY PacketIds
      <3> HIDE DEF b, r
      <3>2. c.op \in {"begin", "end"}
        BY <1>f, <2>4
      <3>3. \A e : SameMemory(b, e) /\ e.pc = b.pc => Defines(t, c, e, r)
        BY <1>z, <2>1, <2>2, <3>1, <3>2 DEF Defines
      <3> QED BY <1>w, <2>1, <2>2, <2>4, <3>1, <3>3
    <2> QED BY <2>3, <2>4
  <1> QED BY <1>1, <1>2, <1>3, <1>4, <1>5, <1>6, <1>7, <1>8, <1>9, <1>10,
             <1>11, <1>12, <1>13, <1>14, <1>15, <1>16, <1>17 DEF InCall

\* More packets, more definitions.
LEMMA MoreDefined ==
    ASSUME NEW S, NEW K, S \subseteq K, NEW t, NEW c
    PROVE  /\ \A kind, uuid : Describes(S, t, kind, uuid) => Describes(K, t, kind, uuid)
           /\ \A kind, iid : Interns(S, t, kind, iid) => Interns(K, t, kind, iid)
           /\ Remembers(S, t, c) => Remembers(K, t, c)
           /\ OnStack(S, t, c) => OnStack(K, t, c)
  <1>1. /\ \A kind, uuid : Describes(S, t, kind, uuid) => Describes(K, t, kind, uuid)
        /\ \A kind, iid : Interns(S, t, kind, iid) => Interns(K, t, kind, iid)
    BY DEF Describes, Interns
  <1>2. Remembers(S, t, c) => Remembers(K, t, c)
    BY <1>1 DEF Remembers
  <1>3. OnStack(S, t, c) => OnStack(K, t, c)
    BY <1>1 DEF OnStack, Category, EventName
  <1> QED BY <1>1, <1>2, <1>3

\* A thread knows only what it has written: K is what is held after a step
\* of a call.
LEMMA KnowsWritten ==
    ASSUME NEW t, NEW K, NEW c \in Context, NEW d \in Context, ContextOK(c),
           c.pc # "oob", Remembers(K, t, c), OnStack(K, t, c), CallKnows(c),
           Learns(t, c, d), \A p : Writes(c, d, p) => p \in K
    PROVE  Remembers(K, t, d) /\ OnStack(K, t, d) /\ CallKnows(d)
  <1> DEFINE Goal == Remembers(K, t, d) /\ OnStack(K, t, d) /\ CallKnows(d)
  <1>0. /\ c.mStackDepth \in 0 .. StackMax /\ c.mIids \in [Slots -> Nat]
        /\ c.mEventNameIids \in [Names -> Nat]
        /\ c.mCounterUuids \in [Names -> Uuid]
        /\ StackMax \in Nat /\ StackMax > 0 /\ c.mStackDepth \in Int
    <2>1. /\ c.mStackDepth \in Depths /\ c.mIids \in [Slots -> Nat]
          /\ c.mEventNameIids \in [Names -> Nat]
          /\ c.mCounterUuids \in [Names -> Uuid]
      BY DEF Context
    <2>2. c.mStackDepth # -1
      BY DEF ContextOK
    <2> QED BY <2>1, <2>2, ConstantsAssumption DEF Depths
  <1>m. /\ c.mThreadId # 0 => Describes(K, t, "track", <<0, c.mThreadId>>)
        /\ c.mEventCategoryIid # 0 /\ c.pc # "categoryAdd" =>
              Interns(K, t, "category", c.mEventCategoryIid)
        /\ \A n \in Names :
              c.mEventNameIids[n] # 0 /\ ~(c.pc = "nameAdd" /\ n = c.arg) =>
                 Interns(K, t, "name", c.mEventNameIids[n])
        /\ \A n \in Names :
              c.mCounterUuids[n] # NoUuid =>
                 Describes(K, t, "counterTrack", c.mCounterUuids[n])
    BY DEF Remembers
  <1>1. ASSUME SameMemory(c, d), d.pc = c.pc, d.mTraceBuffer # <<>>
        PROVE  Goal
    BY <1>1
    DEF Remembers, SameMemory, OnStack, Category, EventName, Ending, CallKnows
  <1>2. ASSUME Blank(d), d.pc = "dead"
        PROVE  Goal
    <2>1. Remembers(K, t, d)
      BY <1>2 DEF Remembers, Blank
    <2>2. OnStack(K, t, d)
      BY <1>2 DEF Blank, OnStack, Ending
    <2>3. CallKnows(d)
      BY <1>2 DEF CallKnows, Blank
    <2> QED BY <2>1, <2>2, <2>3
  <1>3. ASSUME WritesNothing(c, d), SameMemory(c, d), MovesOn(c, d)
        PROVE  Goal
    BY <1>3
    DEF Remembers, SameMemory, MovesOn, OnStack, Category, EventName, Ending,
        CallKnows, WritesNothing, Blank
  <1>4. ASSUME WritesNothing(c, d), Pops(c, d)
        PROVE  Goal
    <2> DEFINE s == c.mStackDepth - 1
               g == [c EXCEPT !.mStackDepth = s]
    <2>1. /\ c.pc = "dec" /\ d.pc = "lock" /\ c.op = "end"
          /\ c.mStackDepth \in 1 .. StackMax - 1 /\ SameMemory(g, d)
          /\ d.mTraceBuffer = c.mTraceBuffer
      BY <1>4 DEF Pops, WritesNothing
    <2>2. /\ d.mThreadId = c.mThreadId
          /\ d.mEventCategoryIid = c.mEventCategoryIid
          /\ d.mEventNameIids = c.mEventNameIids
          /\ d.mCounterUuids = c.mCounterUuids
          /\ d.mIids = c.mIids /\ d.mStackDepth = s
          /\ d.op = c.op /\ d.arg = c.arg
      <3> HIDE DEF s
      <3> QED BY <2>1 DEF SameMemory, Context
    <2>3. Remembers(K, t, d)
      BY <2>1, <2>2 DEF Remembers
    <2>4. /\ c.mStackDepth < StackMax /\ s \in 0 .. c.mStackDepth - 1
          /\ \A l \in 0 .. s - 1 : l \in 0 .. c.mStackDepth - 1
      BY <1>0, <2>1
    <2>5. \A l \in 0 .. c.mStackDepth - 1 :
             Category(K, t, c, l) /\ EventName(K, t, c, l)
      BY <2>4 DEF OnStack
    <2>6. OnStack(K, t, d)
      <3> HIDE DEF s
      <3> QED BY <2>1, <2>2, <2>4, <2>5 DEF OnStack, Category, EventName, Ending
    <2>7. CallKnows(d)
      BY <2>1, <2>2 DEF CallKnows, Blank
    <2> QED BY <2>3, <2>6, <2>7
  <1>5. ASSUME WritesNothing(c, d), Pushes(c, d)
        PROVE  Goal
    <2>1. CASE c.op # "begin"
      <3>1. /\ c.pc = "unlock" /\ d.pc = "idle" /\ SameMemory(c, d)
            /\ d.mTraceBuffer = c.mTraceBuffer
        BY <1>5, <2>1 DEF Pushes, WritesNothing
      <3>2. Remembers(K, t, d)
        BY <3>1 DEF Remembers, SameMemory
      <3>3. OnStack(K, t, d)
        BY <3>1 DEF OnStack, Category, EventName, Ending, SameMemory
      <3>4. CallKnows(d)
        BY <3>1 DEF CallKnows, SameMemory, Blank
      <3> QED BY <3>2, <3>3, <3>4
    <2>2. CASE c.op = "begin"
      <3> DEFINE s == c.mStackDepth + 1
                 g == [c EXCEPT !.mStackDepth = s]
      <3>1. /\ c.pc = "unlock" /\ d.pc = "idle" /\ SameMemory(g, d)
            /\ d.mTraceBuffer = c.mTraceBuffer
        BY <1>5, <2>2 DEF Pushes, WritesNothing
      <3>2. /\ d.mThreadId = c.mThreadId
            /\ d.mEventCategoryIid = c.mEventCategoryIid
            /\ d.mEventNameIids = c.mEventNameIids
            /\ d.mCounterUuids = c.mCounterUuids
            /\ d.mIids = c.mIids /\ d.mStackDepth = s
            /\ d.op = c.op /\ d.arg = c.arg
        <4> HIDE DEF s
        <4> QED BY <3>1 DEF SameMemory, Context
      <3>3. Remembers(K, t, d)
        BY <3>1, <3>2 DEF Remembers
      <3>4. /\ Category(K, t, c, c.mStackDepth)
            /\ EventName(K, t, c, c.mStackDepth)
            /\ c.mStackDepth < StackMax => \A l \in 0 .. c.mStackDepth - 1 :
                  Category(K, t, c, l) /\ EventName(K, t, c, l)
        BY <2>2, <3>1 DEF OnStack
      <3>5. /\ s < StackMax => c.mStackDepth < StackMax
            /\ \A l \in 0 .. s - 1 :
                  l \in 0 .. c.mStackDepth - 1 \/ l = c.mStackDepth
        BY <1>0
      <3>6. OnStack(K, t, d)
        <4> HIDE DEF s
        <4> QED BY <3>1, <3>2, <3>4, <3>5
                DEF OnStack, Category, EventName, Ending
      <3>7. CallKnows(d)
        BY <3>1, <3>2 DEF CallKnows, Blank
      <3> QED BY <3>3, <3>6, <3>7
    <2> QED BY <2>1, <2>2
  <1>6. ASSUME WritesNothing(c, d), LooksUpCategory(c, d)
        PROVE  Goal
    <2>1. PICK iid \in Pos :
             /\ c.pc = "category"
             /\ \/ d.pc = "threadInfo" /\ iid = c.mEventCategoryIid
                \/ d.pc = "categoryAdd" /\ c.mEventCategoryIid = 0
             /\ SameMemory([c EXCEPT !.mEventCategoryIid = iid,
                                     !.mIids[CatSlot(c.mStackDepth)] = iid], d)
      BY <1>6 DEF LooksUpCategory
    <2> DEFINE iids == [c.mIids EXCEPT ![c.mStackDepth] = iid]
    <2>2. /\ d.mThreadId = c.mThreadId
          /\ d.mEventCategoryIid = iid
          /\ d.mEventNameIids = c.mEventNameIids
          /\ d.mCounterUuids = c.mCounterUuids
          /\ d.mIids = iids /\ d.mStackDepth = c.mStackDepth
          /\ d.op = c.op /\ d.arg = c.arg
      <3>1. SameMemory([c EXCEPT !.mEventCategoryIid = iid, !.mIids = iids], d)
        BY <2>1
      <3> HIDE DEF iids
      <3> QED BY <3>1 DEF SameMemory, Context
    <2>3. /\ c.mStackDepth \in Slots
          /\ \A l \in 0 .. c.mStackDepth - 1 :
                /\ l # c.mStackDepth /\ l \in Slots
                /\ c.mStackDepth < StackMax =>
                      /\ StackMax + l # c.mStackDepth
                      /\ StackMax + l \in Slots
      BY <1>0 DEF Slots
    <2>4. /\ d.mIids[c.mStackDepth] = iid
          /\ c.mStackDepth < StackMax => \A l \in 0 .. c.mStackDepth - 1 :
                /\ d.mIids[l] = c.mIids[l]
                /\ d.mIids[StackMax + l] = c.mIids[StackMax + l]
      BY <1>0, <2>2, <2>3
    <2>5. iid # 0
      BY DEF Pos
    <2>6. Remembers(K, t, d)
      <3> HIDE DEF iids
      <3> QED BY <1>m, <2>1, <2>2, <2>5 DEF Remembers
    <2>7. OnStack(K, t, d)
      <3>1. d.mStackDepth < StackMax => \A l \in 0 .. d.mStackDepth - 1 :
                Category(K, t, d, l) /\ EventName(K, t, d, l)
        <4> HIDE DEF iids
        <4> QED BY <2>2, <2>4 DEF OnStack, Category, EventName
      <3>2. d.pc = "threadInfo" => Category(K, t, d, d.mStackDepth)
        <4> HIDE DEF iids
        <4> QED BY <1>m, <2>1, <2>2, <2>4, <2>5 DEF Category
      <3> QED BY <2>1, <3>1, <3>2 DEF OnStack, Ending
    <2>8. CallKnows(d)
      <3>1. /\ d.mTraceBuffer = c.mTraceBuffer
            /\ c.mTraceBuffer # <<>> \/ Blank(c)
        BY <1>6, <2>1 DEF WritesNothing, CallKnows
      <3>2. d.pc = "threadInfo" => c.mTraceBuffer # <<>>
        BY <2>1, <2>5, <3>1 DEF Blank
      <3>3. c.mStackDepth > 0 => c.mThreadId # 0
        BY DEF CallKnows
      <3> HIDE DEF iids
      <3> QED BY <2>1, <2>2, <2>4, <3>1, <3>2, <3>3 DEF CallKnows
    <2> QED BY <2>6, <2>7, <2>8
  <1>7. ASSUME WritesNothing(c, d), LooksUpName(c, d)
        PROVE  Goal
    <2>1. PICK iid \in Pos :
             /\ c.pc = "name"
             /\ \/ d.pc = "event" /\ iid = c.mEventNameIids[c.arg]
                \/ d.pc = "nameAdd" /\ c.mEventNameIids[c.arg] = 0
             /\ SameMemory([c EXCEPT !.mEventNameIids[c.arg] = iid,
                                     !.mIids[NameSlot(c.mStackDepth)] = iid], d)
      BY <1>7 DEF LooksUpName
    <2>0. c.op = "begin" /\ c.arg \in Names /\ c.mStackDepth < StackMax
      BY <2>1 DEF ContextOK, Guarded
    <2> DEFINE i == StackMax + c.mStackDepth
               iids == [c.mIids EXCEPT ![i] = iid]
               nids == [c.mEventNameIids EXCEPT ![c.arg] = iid]
    <2>2. /\ d.mThreadId = c.mThreadId
          /\ d.mEventCategoryIid = c.mEventCategoryIid
          /\ d.mEventNameIids = nids
          /\ d.mCounterUuids = c.mCounterUuids
          /\ d.mIids = iids /\ d.mStackDepth = c.mStackDepth
          /\ d.op = c.op /\ d.arg = c.arg
      <3>1. SameMemory([c EXCEPT !.mEventNameIids = nids, !.mIids = iids], d)
        BY <2>1
      <3> HIDE DEF iids, nids
      <3> QED BY <3>1 DEF SameMemory, Context
    <2>3. /\ i \in Slots /\ c.mStackDepth \in Slots /\ c.mStackDepth # i
          /\ \A l \in 0 .. c.mStackDepth - 1 :
                /\ l # i /\ l \in Slots
                /\ StackMax + l # i /\ StackMax + l \in Slots
      BY <1>0, <2>0 DEF Slots
    <2>4. /\ d.mIids[i] = iid /\ d.mIids[c.mStackDepth] = c.mIids[c.mStackDepth]
          /\ \A l \in 0 .. c.mStackDepth - 1 :
                /\ d.mIids[l] = c.mIids[l]
                /\ d.mIids[StackMax + l] = c.mIids[StackMax + l]
      <3> HIDE DEF i
      <3> QED BY <1>0, <2>2, <2>3
    <2>5. /\ iid # 0 /\ d.mEventNameIids[c.arg] = iid
          /\ \A n \in Names : n # c.arg =>
                d.mEventNameIids[n] = c.mEventNameIids[n]
      BY <1>0, <2>0, <2>2 DEF Pos
    <2> HIDE DEF iids, nids
    <2>6. Remembers(K, t, d)
      BY <1>m, <2>0, <2>1, <2>2, <2>5 DEF Remembers
    <2>7. OnStack(K, t, d)
      BY <2>0, <2>2, <2>4, <2>1, <1>m, <2>5
      DEF OnStack, Category, EventName, Ending
    <2>8. CallKnows(d)
      BY <2>1, <1>7, <2>0, <2>2, <2>4, <2>5 DEF CallKnows, WritesNothing, Blank
    <2> QED BY <2>6, <2>7, <2>8
  <1>8. ASSUME NEW p \in K, d.mTraceBuffer # <<>>, p.by = t,
               Defines(t, c, d, p)
        PROVE  Goal
    <2>1. CASE c.pc = "first" \/ c.pc = "event"
      <3>1. /\ SameMemory(c, d)
            /\ \/ c.pc = "first" /\ d.pc = "category"
               \/ c.pc = "event" /\ d.pc = "unlock"
        BY <1>8, <2>1 DEF Defines
      <3>2. Remembers(K, t, d)
        BY <3>1 DEF Remembers, SameMemory
      <3>3. OnStack(K, t, d)
        BY <3>1 DEF OnStack, Category, EventName, Ending, SameMemory
      <3>4. CallKnows(d)
        BY <1>8, <3>1 DEF CallKnows, SameMemory
      <3> QED BY <3>2, <3>3, <3>4
    <2>2. CASE c.pc = "categoryAdd"
      <3>1. /\ SameMemory(c, d) /\ d.pc = "threadInfo" /\ p.kind = "category"
            /\ p.iid = c.mIids[CatSlot(c.mStackDepth)]
        BY <1>8, <2>2 DEF Defines
      <3>2. /\ Interns(K, t, "category", c.mIids[CatSlot(c.mStackDepth)])
            /\ c.mIids[CatSlot(c.mStackDepth)] = c.mEventCategoryIid
        BY <1>8, <2>2, <3>1 DEF Interns, CallKnows
      <3>3. Remembers(K, t, d)
        BY <1>m, <2>2, <3>1, <3>2 DEF Remembers, SameMemory
      <3>4. OnStack(K, t, d)
        BY <3>1, <3>2 DEF OnStack, Category, EventName, Ending, SameMemory
      <3>5. CallKnows(d)
        BY <1>8, <3>1 DEF CallKnows, SameMemory
      <3> QED BY <3>3, <3>4, <3>5
    <2>3. CASE c.pc = "nameAdd"
      <3>1. /\ SameMemory(c, d) /\ d.pc = "event" /\ p.kind = "name"
            /\ p.iid = c.mIids[NameSlot(c.mStackDepth)]
        BY <1>8, <2>3 DEF Defines
      <3>2. /\ Interns(K, t, "name", c.mIids[NameSlot(c.mStackDepth)])
            /\ c.mIids[NameSlot(c.mStackDepth)] = c.mEventNameIids[c.arg]
        BY <1>8, <2>3, <3>1 DEF Interns, CallKnows
      <3>3. Remembers(K, t, d)
        BY <1>m, <2>3, <3>1, <3>2 DEF Remembers, SameMemory
      <3>4. c.op = "begin"
        BY <2>3 DEF ContextOK
      <3>5. OnStack(K, t, d)
        BY <2>3, <3>1, <3>2, <3>4
        DEF OnStack, Category, EventName, Ending, SameMemory
      <3>6. CallKnows(d)
        BY <1>8, <2>3, <3>1, <3>4 DEF CallKnows, SameMemory
      <3> QED BY <3>3, <3>5, <3>6
    <2>4. CASE c.pc = "threadInfo"
      <3>1. PICK id \in Pos :
               /\ p.uuid = <<0, id>>
               /\ SameMemory([c EXCEPT !.mThreadId = id], d)
        BY <1>8, <2>4 DEF Defines
      <3>2. /\ p.kind = "track"
            /\ \/ d.pc = "name" /\ c.op = "begin"
               \/ d.pc = "counter" /\ c.op = "counter"
        BY <1>8, <2>4 DEF Defines
      <3>3. /\ d.mThreadId = id
            /\ d.mEventCategoryIid = c.mEventCategoryIid
            /\ d.mEventNameIids = c.mEventNameIids
            /\ d.mCounterUuids = c.mCounterUuids
            /\ d.mIids = c.mIids /\ d.mStackDepth = c.mStackDepth
            /\ d.op = c.op /\ d.arg = c.arg
        BY <3>1 DEF SameMemory, Context
      <3>4. Describes(K, t, "track", <<0, id>>) /\ id # 0
        BY <1>8, <3>1, <3>2 DEF Describes, Pos
      <3>5. Remembers(K, t, d)
        BY <1>m, <2>4, <3>2, <3>3, <3>4 DEF Remembers
      <3>6. OnStack(K, t, d)
        BY <2>4, <3>2, <3>3 DEF OnStack, Category, EventName, Ending
      <3>7. CallKnows(d)
        BY <1>8, <3>2, <3>3, <3>4 DEF CallKnows
      <3> QED BY <3>5, <3>6, <3>7
    <2>5. CASE c.pc = "counter"
      <3> DEFINE uuids == [c.mCounterUuids EXCEPT ![c.arg] = p.uuid]
      <3>1. /\ d.pc = "event" /\ p.kind = "counterTrack"
            /\ c.op = "counter" /\ p.uuid # NoUuid
            /\ SameMemory([c EXCEPT !.mCounterUuids = uuids], d)
        BY <1>8, <2>5 DEF Defines
      <3>2. c.arg \in Names
        BY <2>5, <3>1 DEF ContextOK
      <3>3. /\ d.mCounterUuids[c.arg] = p.uuid
            /\ \A n \in Names : n # c.arg =>
                  d.mCounterUuids[n] = c.mCounterUuids[n]
            /\ d.mThreadId = c.mThreadId
            /\ d.mEventCategoryIid = c.mEventCategoryIid
            /\ d.mEventNameIids = c.mEventNameIids
            /\ d.mIids = c.mIids /\ d.mStackDepth = c.mStackDepth
            /\ d.op = c.op /\ d.arg = c.arg
        <4>1. /\ d.mCounterUuids = uuids
              /\ d.mThreadId = c.mThreadId
              /\ d.mEventCategoryIid = c.mEventCategoryIid
              /\ d.mEventNameIids = c.mEventNameIids
              /\ d.mIids = c.mIids /\ d.mStackDepth = c.mStackDepth
              /\ d.op = c.op /\ d.arg = c.arg
          <5> HIDE DEF uuids
          <5> QED BY <3>1 DEF SameMemory, Context
        <4> QED BY <1>0, <3>2, <4>1
      <3>4. Describes(K, t, "counterTrack", p.uuid)
        BY <1>8, <3>1 DEF Describes
      <3>5. Remembers(K, t, d)
        BY <1>m, <2>5, <3>1, <3>3, <3>4 DEF Remembers
      <3>6. OnStack(K, t, d)
        BY <2>5, <3>1, <3>3 DEF OnStack, Category, EventName, Ending
      <3>7. CallKnows(d)
        BY <1>8, <2>5, <3>1, <3>3 DEF CallKnows
      <3> QED BY <3>5, <3>6, <3>7
    <2> QED BY <1>8, <2>1, <2>2, <2>3, <2>4, <2>5 DEF Defines
  <1> QED BY <1>1, <1>2, <1>3, <1>4, <1>5, <1>6, <1>7, <1>8 DEF Learns

\* A context that is reset has nothing to remember.
LEMMA BlankKnows ==
    ASSUME NEW K, NEW t, NEW d, Blank(d), d.pc \in {"idle", "dead"}
    PROVE  Remembers(K, t, d) /\ OnStack(K, t, d) /\ CallKnows(d)
  <1>1. Remembers(K, t, d)
    BY DEF Remembers, Blank
  <1>2. OnStack(K, t, d)
    BY DEF Blank, OnStack, Ending
  <1>3. CallKnows(d)
    BY DEF CallKnows, Blank
  <1> QED BY <1>1, <1>2, <1>3

\* More packets, more events that are backed.
LEMMA MoreBacked ==
    ASSUME NEW S, NEW K, S \subseteq K, NEW e, Backed(S, e)
    PROVE  Backed(K, e)
  <1>1. Prior(S, e) \subseteq Prior(K, e)
    BY DEF Prior
  <1>2. /\ \A kind, uuid : Describes(Prior(S, e), e.by, kind, uuid) =>
              Describes(Prior(K, e), e.by, kind, uuid)
        /\ \A kind, iid : Interns(Prior(S, e), e.by, kind, iid) =>
              Interns(Prior(K, e), e.by, kind, iid)
    BY <1>1 DEF Describes, Interns
  <1> QED BY <1>2 DEF Backed

\* The packets of a thread that are held it has counted.
LEMMA HeldCounted ==
    ASSUME TypeOK, OrderInv, NEW t \in Threads, NEW p \in Held, p.by = t
    PROVE  p.n \in Nat /\ p.n <= ctx[t].emitted
  <1>1. p.n \in Nat
    BY HeldType DEF Packet
  <1>2. \A u \in Threads :
           \A q \in Elems(ctx[u].mTraceBuffer) \union Elems(ctx[u].out) :
              q.by = u /\ q.n <= ctx[u].emitted
    BY DEF OrderInv, BuffersOrdered, BufferOrdered
  <1>3. \A j \in 1 .. Len(mSavedTraces) : \A q \in Elems(mSavedTraces[j].pkts) :
           q.by = t => q.n <= ctx[t].emitted
    BY DEF OrderInv, BuffersOrdered, Follows
  <1> QED BY <1>1, <1>2, <1>3, HeldBy

\* A step of a call keeps what is held, and adds what it writes.
LEMMA HeldGrows ==
    ASSUME TypeOK, NEW t \in Threads, Learns(t, ctx[t], ctx'[t]),
           \A u \in Threads \ {t} : ctx'[u] = ctx[u]
    PROVE  /\ Held \subseteq Held'
           /\ \A p : Writes(ctx[t], ctx'[t], p) => p \in Held'
           /\ \A p \in Held' : \/ p \in Held
                               \/ /\ p.by = t /\ p.n = ctx[t].emitted + 1
                                  /\ Defines(t, ctx[t], ctx'[t], p)
  <1> DEFINE c == ctx[t]
             d == ctx'[t]
  <1>1. ASSUME NEW p, Writes(c, d, p)
        PROVE  Held' = Held \union {p}
    BY <1>1, WritesAdd
  <1>2. \/ Saves(c, d) \/ WritesNothing(c, d)
        \/ \E p : /\ Writes(c, d, p) /\ p.by = t /\ p.n = c.emitted + 1
                  /\ Defines(t, c, d, p)
    <2> HIDE DEF c, d
    <2> QED BY DEF Learns, c, d
  <1>3. CASE Saves(c, d)
    BY <1>1, <1>3, SavesKeep
  <1>4. CASE WritesNothing(c, d)
    BY <1>4, <1>1, NothingAdds DEF WritesNothing
  <1>5. ASSUME NEW p, Writes(c, d, p), p.by = t, p.n = c.emitted + 1,
               Defines(t, c, d, p)
        PROVE  /\ Held \subseteq Held'
               /\ \A q : Writes(c, d, q) => q \in Held'
               /\ \A q \in Held' : \/ q \in Held
                                   \/ /\ q.by = t /\ q.n = c.emitted + 1
                                      /\ Defines(t, c, d, q)
    <2>1. Held' = Held \union {p}
      BY <1>1, <1>5
    <2>2. \A q : Writes(c, d, q) => Held' = Held \union {q}
      BY <1>1
    <2> HIDE DEF c, d
    <2> QED BY <1>5, <2>1, <2>2
  <1> QED BY <1>2, <1>3, <1>4, <1>5

\* A step of a call: the event it writes refers to what its thread knows.
LEMMA DefCall ==
    ASSUME SafeInv, TypeOK', OrderInv, DefInv, NEW t \in Threads, ~Crashed,
           InCall(t)
    PROVE  /\ \A u \in Threads : /\ Remembers(Held', u, ctx'[u])
                                 /\ OnStack(Held', u, ctx'[u])
                                 /\ CallKnows(ctx'[u])
           /\ \A e \in Held' : Backed(Held', e)
  <1> DEFINE c == ctx[t]
             d == ctx'[t]
  <1>0. /\ TypeOK /\ ContextInv /\ CallsInSession
        /\ c \in Context /\ d \in Context /\ ContextOK(c) /\ c.pc # "oob"
        /\ c.emitted \in Nat
    BY DEF SafeInv, SessionInv, ContextInv, Crashed, TypeOK, Context
  <1>1. Learns(t, c, d) /\ \A u \in Threads \ {t} : ctx'[u] = ctx[u]
    BY <1>0, LearnsFrame, InCallFrame
  <1>2. /\ Held \subseteq Held'
        /\ \A p : Writes(c, d, p) => p \in Held'
        /\ \A p \in Held' : \/ p \in Held
                            \/ /\ p.by = t /\ p.n = c.emitted + 1
                               /\ Defines(t, c, d, p)
    BY <1>0, <1>1, HeldGrows
  <1>3. \A u \in Threads : /\ Remembers(Held, u, ctx[u])
                           /\ OnStack(Held, u, ctx[u])
                           /\ CallKnows(ctx[u])
    BY DEF DefInv
  <1>4. \A u \in Threads : /\ Remembers(Held', u, ctx[u])
                           /\ OnStack(Held', u, ctx[u])
    BY <1>2, <1>3, MoreDefined
  <1>5. Remembers(Held', t, d) /\ OnStack(Held', t, d) /\ CallKnows(d)
    <2>1. /\ Remembers(Held', t, c) /\ OnStack(Held', t, c) /\ CallKnows(c)
      BY <1>3, <1>4
    <2> HIDE DEF c, d
    <2> QED BY <1>0, <1>1, <1>2, <2>1, KnowsWritten
  <1>6. \A e \in Held : Backed(Held', e)
    BY <1>2, MoreBacked DEF DefInv
  <1>7. ASSUME NEW e \in Held', e.by = t, e.n = c.emitted + 1,
               Defines(t, c, d, e)
        PROVE  Backed(Held', e)
    <2>1. \A p \in Held : p.by = t => p \in Prior(Held', e)
      BY <1>0, HeldCounted, <1>7, <1>2 DEF Prior
    <2>2. /\ \A kind, uuid : Describes(Held, t, kind, uuid) =>
                Describes(Prior(Held', e), t, kind, uuid)
          /\ \A kind, iid : Interns(Held, t, kind, iid) =>
                Interns(Prior(Held', e), t, kind, iid)
      BY <2>1 DEF Describes, Interns
    <2>3. Remembers(Held, t, c) /\ OnStack(Held, t, c) /\ CallKnows(c)
      BY <1>3
    <2> HIDE DEF c, d
    <2>4. CASE e.kind \notin {"begin", "end", "counter"}
      BY <2>4 DEF Backed
    <2>5. CASE e.kind = "counter"
      BY <1>7, <2>5, <1>0, <2>3, <2>2
      DEF Defines, ContextOK, CallKnows, Remembers, Backed
    <2>6. CASE e.kind \in {"begin", "end"}
      <3>1. /\ c.pc = "event" /\ c.op \in {"begin", "end"}
            /\ e.uuid = <<0, c.mThreadId>>
            /\ e.cat = c.mIids[CatSlot(c.mStackDepth)]
            /\ e.iid = c.mIids[NameSlot(c.mStackDepth)]
        BY <1>7, <2>6 DEF Defines
      <3>2. Describes(Held, t, "track", e.uuid)
        BY <2>3, <3>1 DEF CallKnows, Remembers
      <3>3. Category(Held, t, c, c.mStackDepth) /\ EventName(Held, t, c, c.mStackDepth)
        BY <2>3, <3>1 DEF OnStack, Ending
      <3>4. Interns(Held, t, "category", e.cat) /\ Interns(Held, t, "name", e.iid)
        BY <3>1, <3>3 DEF Category, EventName
      <3> QED BY <1>7, <2>2, <2>6, <3>2, <3>4 DEF Backed
    <2> QED BY <2>4, <2>5, <2>6
  <1>8. \A u \in Threads : /\ Remembers(Held', u, ctx'[u])
                           /\ OnStack(Held', u, ctx'[u])
                           /\ CallKnows(ctx'[u])
    BY <1>1, <1>3, <1>4, <1>5
  <1> QED BY <1>2, <1>6, <1>7, <1>8

\* What a thread that starts a call, or exits, keeps of its memory.
Starts(c, d) ==
    /\ c.pc = "idle" /\ d.pc \in {"construct", "check", "dead", "exit"}
    /\ d.mThreadId = c.mThreadId
    /\ d.mEventCategoryIid = c.mEventCategoryIid
    /\ d.mEventNameIids = c.mEventNameIids
    /\ d.mCounterUuids = c.mCounterUuids
    /\ d.mIids = c.mIids /\ d.mStackDepth = c.mStackDepth
    /\ d.mTraceBuffer = c.mTraceBuffer

\* Every start of a call or of an exit is such a step.
LEMMA StartMemory ==
    ASSUME TypeOK, NEW t \in Threads, StartCall(t)
    PROVE  Starts(ctx[t], ctx'[t])
  <1> DEFINE c == ctx[t]
             d == ctx'[t]
  <1>1. c \in Context /\ ctx \in [Threads -> Context]
    BY DEF TypeOK
  <1>2. ASSUME NEW o, NEW a, Call(t, o, a)
        PROVE  Starts(c, d)
    <2> DEFINE npc == IF t \in mContexts THEN "check" ELSE "construct"
    <2>1. /\ c.pc = "idle"
          /\ d = [c EXCEPT !.pc = npc, !.op = o, !.arg = a,
                           !.calls = @ + 1, !.sess = ctl.session]
      BY <1>1, <1>2 DEF Call, Step
    <2>2. npc \in {"construct", "check"}
      OBVIOUS
    <2> HIDE DEF npc, c, d
    <2> QED BY <1>1, <2>1, <2>2 DEF Context, Starts
  <1>3. CASE Remove(t)
    <2> DEFINE npc == IF c.mTraceBuffer = <<>> THEN "dead" ELSE "exit"
    <2>1. c.pc = "idle" /\ d = [c EXCEPT !.pc = npc]
      BY <1>1, <1>3 DEF Remove, Step
    <2>2. npc \in {"dead", "exit"}
      OBVIOUS
    <2> HIDE DEF npc, c, d
    <2>3. Starts(c, d)
      BY <1>1, <2>1, <2>2 DEF Context, Starts
    <2> QED BY <2>3 DEF c, d
  <1> QED BY <1>2, <1>3 DEF StartCall

\* A thread that starts a call, or exits, has learnt nothing yet.
LEMMA DefStart ==
    ASSUME TypeOK, DefInv, NEW t \in Threads, StartCall(t)
    PROVE  /\ \A u \in Threads : /\ Remembers(Held', u, ctx'[u])
                                 /\ OnStack(Held', u, ctx'[u])
                                 /\ CallKnows(ctx'[u])
           /\ Held' = Held
  <1> DEFINE c == ctx[t]
             d == ctx'[t]
  <1>1. Remembers(Held, t, c) /\ OnStack(Held, t, c) /\ CallKnows(c)
    BY DEF DefInv
  <1>2. /\ \A u \in Threads \ {t} : ctx'[u] = ctx[u]
        /\ UNCHANGED mSavedTraces
        /\ \A u \in Threads : Untouched(ctx[u], ctx'[u])
    BY StartCallFrame, StartFrame
  <1>3. Held' = Held
    BY <1>2, NothingAdds DEF Untouched
  <1>4. Starts(c, d)
    BY StartMemory
  <1>5. Remembers(Held, t, d) /\ OnStack(Held, t, d) /\ CallKnows(d)
    <2> HIDE DEF c, d
    <2>1. Remembers(Held, t, d)
      BY <1>1, <1>4 DEF Remembers, Starts
    <2>2. OnStack(Held, t, d)
      BY <1>1, <1>4 DEF OnStack, Category, EventName, Ending, Starts
    <2>3. CallKnows(d)
      BY <1>1, <1>4 DEF CallKnows, Blank, Starts
    <2> QED BY <2>1, <2>2, <2>3
  <1>6. \A u \in Threads : /\ Remembers(Held, u, ctx'[u])
                           /\ OnStack(Held, u, ctx'[u])
                           /\ CallKnows(ctx'[u])
    BY <1>2, <1>5 DEF DefInv
  <1> QED BY <1>3, <1>6

\* The control thread resets what the threads remember, and forgets what is
\* held only when all of them are reset.
LEMMA DefControl ==
    ASSUME SafeInv, DefInv, InControl \/ StartControl \/ UNCHANGED vars
    PROVE  /\ \A u \in Threads : /\ Remembers(Held', u, ctx'[u])
                                 /\ OnStack(Held', u, ctx'[u])
                                 /\ CallKnows(ctx'[u])
           /\ Held' = Held \/ Held' = {}
  <1> DEFINE Goal == /\ \A u \in Threads : /\ Remembers(Held', u, ctx'[u])
                                           /\ OnStack(Held', u, ctx'[u])
                                           /\ CallKnows(ctx'[u])
                     /\ Held' = Held \/ Held' = {}
  <1>0. /\ TypeOK /\ ContextInv
        /\ \A u \in Threads : /\ Remembers(Held, u, ctx[u])
                              /\ OnStack(Held, u, ctx[u])
                              /\ CallKnows(ctx[u])
    BY DEF SafeInv, DefInv
  <1>1. ASSUME NEW t \in Threads, SaveContext(t)
        PROVE  Goal
    <2>1. /\ WipedOut(ctx[t], ctx'[t]) /\ ctl.step = "save"
          /\ \A u \in Threads \ {t} : ctx'[u] = ctx[u]
      BY <1>0, <1>1, SaveFrame
    <2>2. ctx[t].pc \in {"idle", "dead"}
      BY <2>1, QuietInControl
    <2>3. Saves(ctx[t], ctx'[t])
      BY <2>1 DEF WipedOut, Saves
    <2>4. Held' = Held
      BY <1>0, <2>1, <2>3, SavesKeep
    <2>5. Blank(ctx'[t]) /\ ctx'[t].pc \in {"idle", "dead"}
      BY <1>0, <1>1, <2>1, <2>2
      DEF SaveContext, TypeOK, Reset, Context, Blank, WipedOut
    <2>6. /\ Remembers(Held, t, ctx'[t]) /\ OnStack(Held, t, ctx'[t])
          /\ CallKnows(ctx'[t])
      BY <2>5, BlankKnows
    <2> QED BY <1>0, <2>1, <2>4, <2>6
  <1>2. CASE CloseHostFile
    <2>1. /\ ctx' = ctx /\ mSavedTraces' = <<>> /\ ctl.step = "restPass"
      BY <1>2 DEF CloseHostFile
    <2>2. \A u \in Threads : /\ ctx[u].pc \in {"idle", "dead"}
                             /\ ctx[u].out = <<>>
                             /\ ctx[u].mTraceBuffer = <<>>
      BY <2>1, QuietInControl DEF SafeInv, SessionInv, NothingLeft
    <2>3. \A u \in Threads : Blank(ctx[u])
      BY <1>0, <2>2 DEF CallKnows
    <2>4. \A u \in Threads : /\ Remembers(Held', u, ctx[u])
                             /\ OnStack(Held', u, ctx[u])
                             /\ CallKnows(ctx[u])
      BY <2>2, <2>3, BlankKnows
    <2>5. \A p : p \notin Held'
      <3> SUFFICES ASSUME NEW p \in Held' PROVE FALSE
        OBVIOUS
      <3>1. \E u \in Threads : \/ p \in Elems(ctx[u].mTraceBuffer)
                               \/ p \in Elems(ctx[u].out)
        BY <2>1 DEF Held, Elems
      <3> QED BY <2>2, <3>1, ElemsFacts
    <2> QED BY <2>1, <2>4, <2>5
  <1>3. CASE UNCHANGED <<ctx, mSavedTraces>>
    <2>1. Held' = Held
      BY <1>3 DEF Held, Elems
    <2> QED BY <1>0, <1>3, <2>1
  <1> QED BY <1>1, <1>2, <1>3
          DEF InControl, StartControl, LockContexts, OpenHostFile,
              WriteSavedTrace, SecondPass, ResetCounters, FinishEnable,
              FinishDisable, SetGuestTime, EnableTracing, DisableTracing,
              vars, storage

\* A trace is written to the file after those that define what it refers to.
LEMMA DefWrite ==
    ASSUME SafeInv, OrderInv, DefInv, WriteSavedTrace
    PROVE  /\ \A e \in InFile' : Backed(InFile', e)
           /\ FileCopied'
  <1> DEFINE trace == mSavedTraces[ctl.idx]
             n == Len(hostFile)
             copy == trace.first <=> ctl.step = "firstPass"
  <1>0. /\ hostFile \in Seq(SavedTraceInfo) /\ n \in Nat
        /\ mSavedTraces \in Seq(SavedTraceInfo) /\ ctl \in Control /\ TypeOK
    BY DEF SafeInv, TypeOK
  <1>1. /\ ctl.step \in {"firstPass", "restPass"}
        /\ ctl.idx \in 1 .. Len(mSavedTraces)
        /\ hostFile' = IF copy THEN Append(hostFile, trace) ELSE hostFile
        /\ ctl' = [ctl EXCEPT !.idx = @ + 1]
        /\ UNCHANGED <<ctx, mSavedTraces>>
    BY DEF WriteSavedTrace
  <1>2. /\ ctl'.step = ctl.step /\ ctl'.idx = ctl.idx + 1
        /\ ctl.idx \in Nat /\ trace \in SavedTraceInfo
        /\ \A j \in 1 .. Len(mSavedTraces) : j \in Nat
    BY <1>0, <1>1 DEF Control
  <1>3. Held' = Held /\ Elems(trace.pkts) \subseteq Held
    <2>1. Held' = Held
      BY <1>1 DEF Held, Elems
    <2> QED BY <1>1, <2>1, HeldBy
  <1>4. /\ InFile \subseteq InFile'
        /\ copy => Elems(trace.pkts) \subseteq InFile'
        /\ \A e \in InFile' : e \in InFile \/ (copy /\ e \in Elems(trace.pkts))
    <2>p. \A e : e \in InFile' <=>
             \E k \in 1 .. Len(hostFile') : e \in Elems(hostFile'[k].pkts)
      BY DEF InFile, Elems
    <2>u. \A e : e \in InFile <=>
             \E k \in 1 .. Len(hostFile) : e \in Elems(hostFile[k].pkts)
      BY DEF InFile
    <2>1. CASE copy
      <3>1. /\ Len(hostFile') = n + 1
            /\ \A k \in 1 .. n : hostFile'[k] = hostFile[k]
            /\ hostFile'[n + 1] = trace
        BY <1>0, <1>1, <1>2, <2>1
      <3>2. /\ n + 1 \in 1 .. Len(hostFile')
            /\ \A k \in 1 .. n : k \in 1 .. Len(hostFile')
            /\ \A k \in 1 .. Len(hostFile') : k \in 1 .. n \/ k = n + 1
        BY <1>0, <3>1
      <3> HIDE DEF trace, copy
      <3> QED BY <2>1, <2>p, <2>u, <3>1, <3>2
    <2>2. CASE ~copy
      <3>1. hostFile' = hostFile
        BY <1>1, <2>2
      <3> HIDE DEF trace, copy
      <3> QED BY <2>2, <2>p, <2>u, <3>1
    <2> QED BY <2>1, <2>2
  <1>5. \A e \in InFile : Backed(InFile', e)
    BY <1>4, MoreBacked DEF DefInv
  <1>6. ASSUME NEW e \in Elems(trace.pkts), copy
        PROVE  Backed(InFile', e)
    <2>1. ASSUME NEW p \in Held, p.by = e.by, p.n < e.n
          PROVE  p \in InFile'
      <3>1. PICK j \in 1 .. Len(mSavedTraces) : p \in Elems(mSavedTraces[j].pkts)
        BY <1>1, QuietInControl, <2>1, HeldBy, ElemsFacts
        DEF SafeInv, SessionInv, NothingLeft
      <3>2. CASE j = ctl.idx
        BY <1>4, <1>6, <3>1, <3>2
      <3>3. CASE Copied(j)
        BY <1>4, <3>1, <3>3 DEF DefInv, FileCopied
      <3>4. CASE j # ctl.idx /\ ~Copied(j)
        <4>1. Earlier(Elems(trace.pkts), Elems(mSavedTraces[j].pkts))
          <5>1. CASE ctl.step = "firstPass"
            BY <1>6, <5>1, <1>1, <3>4 DEF OrderInv, SavedOrdered
          <5>2. CASE ctl.step = "restPass"
            <6>1. ctl.idx < j
              BY <1>1, <1>2, <3>4, <5>2 DEF Copied
            <6> QED BY <1>1, <6>1 DEF OrderInv, SavedOrdered, Ordered
          <5> QED BY <1>1, <5>1, <5>2
        <4>2. e.n < p.n
          BY <1>6, <2>1, <3>1, <4>1 DEF Earlier
        <4>3. p.n \in Nat /\ e.n \in Nat
          BY <1>0, <1>3, <1>6, <2>1, HeldType DEF Packet
        <4> QED BY <2>1, <4>2, <4>3
      <3> QED BY <3>2, <3>3, <3>4
    <2>2. Backed(Held, e)
      BY <1>3, <1>6 DEF DefInv
    <2>3. /\ \A kind, uuid : Describes(Prior(Held, e), e.by, kind, uuid) =>
                Describes(Prior(InFile', e), e.by, kind, uuid)
          /\ \A kind, iid : Interns(Prior(Held, e), e.by, kind, iid) =>
                Interns(Prior(InFile', e), e.by, kind, iid)
      BY <2>1 DEF Describes, Interns, Prior
    <2> QED BY <2>2, <2>3 DEF Backed
  <1>7. FileCopied'
    <2>1. \A j \in 1 .. Len(mSavedTraces') : Copied(j)' =>
             Elems(mSavedTraces[j].pkts) \subseteq InFile'
      <3> SUFFICES ASSUME NEW j \in 1 .. Len(mSavedTraces), Copied(j)'
                   PROVE  Elems(mSavedTraces[j].pkts) \subseteq InFile'
        BY <1>1
      <3>1. \/ ctl.step = "restPass" /\ (mSavedTraces[j].first \/ j < ctl.idx + 1)
            \/ ctl.step = "firstPass" /\ mSavedTraces[j].first /\ j < ctl.idx + 1
        BY <1>1, <1>2 DEF Copied
      <3>2. j < ctl.idx + 1 => j < ctl.idx \/ j = ctl.idx
        BY <1>2
      <3>3. Copied(j) \/ (j = ctl.idx /\ copy)
        BY <1>1, <3>1, <3>2 DEF Copied
      <3> HIDE DEF copy
      <3> QED BY <1>4, <3>3 DEF DefInv, FileCopied
    <2>2. InFile' \subseteq Held'
      <3>1. InFile \subseteq Held
        BY <1>1 DEF DefInv, FileCopied, Writing
      <3> HIDE DEF trace, copy
      <3> QED BY <1>3, <1>4, <3>1
    <2>3. \A j \in 1 .. Len(mSavedTraces') :
             Elems(mSavedTraces[j].pkts)' = Elems(mSavedTraces[j].pkts)
      BY <1>1 DEF Elems
    <2> QED BY <2>1, <2>2, <2>3 DEF FileCopied
  <1> HIDE DEF trace, copy
  <1> QED BY <1>4, <1>5, <1>6, <1>7

\* Every step keeps what refers behind its definition.
LEMMA DefStep ==
    ASSUME Quiesced, SafeInv, MarkInv, OrderInv, DefInv, [Next]_vars
    PROVE  DefInv'
  <1> DEFINE Known == /\ \A u \in Threads : /\ Remembers(Held', u, ctx'[u])
                                            /\ OnStack(Held', u, ctx'[u])
                                            /\ CallKnows(ctx'[u])
                      /\ \A e \in Held' : Backed(Held', e)
             Filed == /\ \A e \in InFile' : Backed(InFile', e)
                      /\ FileCopied'
  <1>0. /\ TypeOK /\ ContextInv /\ ControlInv /\ SessionInv /\ TypeOK'
        /\ ctl \in Control
    BY SafeStep DEF SafeInv, TypeOK
  <1>1. ASSUME Held' = Held \/ Held' = {}
        PROVE  \A e \in Held' : Backed(Held', e)
    BY <1>1 DEF DefInv
  <1>2. Known
    <2>1. ASSUME NEW t \in Threads, InCall(t), ~Crashed
          PROVE  Known
      BY <1>0, <2>1, DefCall
    <2>2. ASSUME NEW t \in Threads, StartCall(t)
          PROVE  Known
      BY <1>0, <1>1, <2>2, DefStart
    <2>3. CASE InControl \/ StartControl \/ UNCHANGED vars
      BY <1>1, <2>3, DefControl
    <2> QED BY <2>1, <2>2, <2>3 DEF Next
  <1>3. ASSUME UNCHANGED hostFile, ctl'.step \notin Writing
        PROVE  Filed
    <2>1. InFile' = InFile
      BY <1>3 DEF InFile, Elems
    <2>2. \A e \in InFile : Backed(InFile, e)
      BY DEF DefInv
    <2>3. \A e \in InFile' : Backed(InFile', e)
      BY <2>1, <2>2
    <2>4. FileCopied'
      BY <1>3 DEF FileCopied, Copied, Writing
    <2> QED BY <2>3, <2>4
  <1>w. ctl.step \in Writing => ctl.call = "disable"
    BY <1>0 DEF ControlInv, Saving, Writing
  <1>4. Filed
    <2>1. CASE WriteSavedTrace
      BY <2>1, DefWrite
    <2>2. CASE OpenHostFile
      <3>1. hostFile' = <<>> /\ ctl'.idx = 1 /\ ctl'.step = "firstPass"
            /\ mSavedTraces' = mSavedTraces /\ mSavedTraces \in Seq(SavedTraceInfo)
        BY <1>0, <2>2 DEF OpenHostFile, Control, TypeOK
      <3>2. InFile' = {}
        BY <3>1 DEF InFile
      <3>3. \A j \in 1 .. Len(mSavedTraces') : ~(j < 1)
        BY <3>1
      <3>4. \A j \in 1 .. Len(mSavedTraces') : ~Copied(j)'
        BY <3>1, <3>3 DEF Copied
      <3> QED BY <3>2, <3>4 DEF FileCopied
    <2>3. CASE SecondPass
      <3>1. /\ UNCHANGED <<ctx, mSavedTraces, hostFile>>
            /\ ctl.step = "firstPass" /\ ctl'.step = "restPass"
            /\ ctl'.idx = 1 /\ ctl.idx > Len(mSavedTraces) /\ ctl.idx \in Nat
            /\ mSavedTraces \in Seq(SavedTraceInfo)
        BY <1>0, <2>3 DEF SecondPass, Control, storage, TypeOK
      <3>2. InFile' = InFile /\ Held' = Held
        BY <3>1 DEF InFile, Held, Elems
      <3>3. /\ \A j \in 1 .. Len(mSavedTraces) : ~(j < 1) /\ j < ctl.idx
        BY <3>1
      <3>4. \A j \in 1 .. Len(mSavedTraces) : Copied(j)' => Copied(j)
        BY <3>1, <3>3 DEF Copied
      <3>5. /\ \A j \in 1 .. Len(mSavedTraces) :
                  Copied(j)' => Elems(mSavedTraces[j].pkts) \subseteq InFile
            /\ InFile \subseteq Held
        BY <3>1, <3>4 DEF DefInv, FileCopied, Writing
      <3>6. \A j \in 1 .. Len(mSavedTraces) :
               Elems(mSavedTraces[j].pkts)' = Elems(mSavedTraces[j].pkts)
        BY <3>1 DEF Elems
      <3>7. FileCopied'
        BY <3>1, <3>2, <3>5, <3>6 DEF FileCopied
      <3>8. \A e \in InFile : Backed(InFile, e)
        BY DEF DefInv
      <3>9. \A e \in InFile' : Backed(InFile', e)
        BY <3>2, <3>8
      <3> QED BY <3>7, <3>9
    <2>4. ASSUME NEW t \in Threads, SaveContext(t)
          PROVE  UNCHANGED hostFile /\ ctl'.step \notin Writing
      BY <1>0, <2>4, SaveFrame DEF Writing
    <2>5. CASE LockContexts \/ CloseHostFile \/ ResetCounters \/ FinishEnable
               \/ FinishDisable
      BY <1>0, <2>5, <1>3
      DEF LockContexts, CloseHostFile, ResetCounters, FinishEnable,
          FinishDisable, Control, Writing, storage
    <2>6. CASE StartControl
      BY <1>w, <2>6, <1>0, <1>3
      DEF StartControl, SetGuestTime, EnableTracing, DisableTracing, Control,
          Writing, storage
    <2>7. CASE UNCHANGED vars
      <3>1. UNCHANGED <<ctx, mSavedTraces, hostFile, ctl>>
        BY <2>7 DEF vars, storage
      <3>2. InFile' = InFile /\ Held' = Held
        BY <3>1 DEF InFile, Held, Elems
      <3>3. FileCopied'
        BY <3>1, <3>2 DEF DefInv, FileCopied, Copied, Elems
      <3>4. \A e \in InFile : Backed(InFile, e)
        BY DEF DefInv
      <3>5. \A e \in InFile' : Backed(InFile', e)
        BY <3>2, <3>4
      <3> QED BY <3>3, <3>5
    <2>8. ASSUME NEW t \in Threads, ~Crashed, InCall(t)
          PROVE  UNCHANGED hostFile /\ ctl'.step \notin Writing
      BY <1>0, <2>8, InCallFrame, <1>w DEF PcStep, SessionInv, CallsInSession
    <2>9. ASSUME NEW t \in Threads, StartCall(t)
          PROVE  UNCHANGED hostFile /\ ctl'.step \notin Writing
      BY <1>0, <1>w, <2>9, StartCallFrame
    <2> QED BY <1>3, <2>1, <2>2, <2>3, <2>4, <2>5, <2>6, <2>7, <2>8, <2>9
            DEF Next, InControl
  <1>5. /\ \A u \in Threads : /\ Remembers(Held, u, ctx[u])'
                              /\ OnStack(Held, u, ctx[u])'
                              /\ CallKnows(ctx[u])'
        /\ \A e \in Held' : Backed(Held, e)'
        /\ \A e \in InFile' : Backed(InFile, e)'
    BY <1>2, <1>4
    DEF Remembers, Describes, Interns, CallKnows, Blank, OnStack, Category,
        EventName, Ending, Backed, Prior
  <1> QED BY <1>4, <1>5 DEF DefInv

\* No buffer holds more than its capacity, so every packet of the file has a
\* place there.
FitInv ==
    /\ \A t \in Threads : /\ Len(ctx[t].mTraceBuffer) <= BufCapacity
                          /\ Len(ctx[t].out) <= 1
    /\ \A j \in 1 .. Len(mSavedTraces) : Len(mSavedTraces[j].pkts) <= BufCapacity
    /\ \A k \in 1 .. Len(hostFile) : Len(hostFile[k].pkts) <= BufCapacity

\* Every step keeps the capacity.
LEMMA FitStep ==
    ASSUME TypeOK, ContextInv, FitInv, [Next]_vars
    PROVE  FitInv'
  <1> DEFINE Buffers == \A t \in Threads :
                           /\ Len(ctx'[t].mTraceBuffer) <= BufCapacity
                           /\ Len(ctx'[t].out) <= 1
             Saved == \A j \in 1 .. Len(mSavedTraces') :
                         Len(mSavedTraces'[j].pkts) <= BufCapacity
             File == \A k \in 1 .. Len(hostFile') :
                         Len(hostFile'[k].pkts) <= BufCapacity
  <1>0. /\ TypeOK /\ ContextInv /\ hostFile \in Seq(SavedTraceInfo)
        /\ mSavedTraces \in Seq(SavedTraceInfo)
        /\ BufCapacity \in Nat /\ BufCapacity >= 1 /\ Len(<<>>) = 0
        /\ \A t \in Threads : ctx[t] \in Context
    BY ConstantsAssumption DEF TypeOK
  <1>1. ASSUME NEW t \in Threads, SaveBuffer(ctx[t])
        PROVE  Saved
    BY <1>0, <1>1, SaveFacts DEF FitInv
  <1>2. ASSUME NEW t \in Threads, InCall(t), ~Crashed
        PROVE  Buffers /\ Saved
    <2> DEFINE c == ctx[t]
               d == ctx'[t]
    <2>1. /\ \A u \in Threads \ {t} : ctx'[u] = ctx[u]
          /\ c.mTraceBuffer \in Seq(Packet)
          /\ Len(c.mTraceBuffer) <= BufCapacity /\ Len(c.out) <= 1
      BY <1>0, <1>2, InCallFrame DEF Context, FitInv
    <2>2. /\ Len(d.mTraceBuffer) <= BufCapacity /\ Len(d.out) <= 1
          /\ UNCHANGED mSavedTraces \/ SaveBuffer(c)
      <3>1. CASE \E p : Emits(t, c, d, p)
        <4>1. PICK p : Added(c, d, p) /\ UNCHANGED mSavedTraces
          BY <3>1 DEF Emits
        <4>2. Len(Append(c.mTraceBuffer, p)) = Len(c.mTraceBuffer) + 1
          BY <2>1, AppendFacts
        <4>3. /\ Len(c.mTraceBuffer) < BufCapacity =>
                    Len(Append(c.mTraceBuffer, p)) <= BufCapacity
              /\ Len(<<p>>) <= 1 /\ Len(<<>>) <= 1
          BY <1>0, <2>1, <4>2
        <4> QED BY <2>1, <4>1, <4>3 DEF Added
      <3>2. CASE Silent(c, d)
        BY <2>1, <3>2 DEF Silent
      <3>3. CASE HandsOver(c, d)
        BY <1>0, <3>3, <2>1 DEF HandsOver, Context
      <3>4. CASE GivesUp(c, d)
        BY <1>0, <2>1, <3>4 DEF GivesUp
      <3> QED BY <1>0, <1>2, <3>1, <3>2, <3>3, <3>4, CallFrame
    <2>3. Buffers
      BY <2>1, <2>2 DEF FitInv
    <2>4. Saved
      BY <1>1, <2>2 DEF FitInv
    <2> QED BY <2>3, <2>4
  <1>3. ASSUME NEW t \in Threads, StartCall(t)
        PROVE  Buffers /\ Saved
    BY <1>0, <1>3, StartCallFrame, StartFrame DEF FitInv, Untouched
  <1>4. ASSUME NEW t \in Threads, SaveContext(t)
        PROVE  Buffers /\ Saved
    <2>1. /\ WipedOut(ctx[t], ctx'[t])
          /\ \A u \in Threads \ {t} : ctx'[u] = ctx[u]
      BY <1>0, <1>4, SaveFrame
    <2>2. Len(ctx'[t].mTraceBuffer) <= BufCapacity /\ Len(ctx'[t].out) <= 1
      BY <1>0, <2>1 DEF WipedOut, FitInv
    <2> QED BY <1>1, <2>1, <2>2 DEF WipedOut, FitInv
  <1>5. ASSUME UNCHANGED ctx, UNCHANGED mSavedTraces \/ mSavedTraces' = <<>>
        PROVE  Buffers /\ Saved
    BY <1>5 DEF FitInv
  <1>6. Buffers /\ Saved
    BY <1>2, <1>3, <1>4, <1>5
    DEF Next, InControl, StartControl, LockContexts, OpenHostFile,
        WriteSavedTrace, SecondPass, CloseHostFile, ResetCounters,
        FinishEnable, FinishDisable, SetGuestTime, EnableTracing,
        DisableTracing, vars, storage
  <1>7. File
    <2>1. CASE UNCHANGED hostFile \/ hostFile' = <<>>
      BY <2>1 DEF FitInv
    <2>2. CASE WriteSavedTrace /\ hostFile' # hostFile
      <3> DEFINE trace == mSavedTraces[ctl.idx]
                 n == Len(hostFile)
      <3>1. /\ ctl.idx \in 1 .. Len(mSavedTraces)
            /\ hostFile' = Append(hostFile, trace)
            /\ trace \in SavedTraceInfo /\ n \in Nat
        BY <1>0, <2>2 DEF WriteSavedTrace
      <3>2. /\ Len(hostFile') = n + 1
            /\ \A k \in 1 .. n : hostFile'[k] = hostFile[k]
            /\ hostFile'[n + 1] = trace
        BY <1>0, <3>1
      <3>3. \A k \in 1 .. Len(hostFile') : k \in 1 .. n \/ k = n + 1
        BY <3>1, <3>2
      <3>4. Len(trace.pkts) <= BufCapacity
        BY <3>1 DEF FitInv
      <3> HIDE DEF trace
      <3> QED BY <3>2, <3>3, <3>4 DEF FitInv
    <2>3. \/ UNCHANGED hostFile \/ hostFile' = <<>>
          \/ WriteSavedTrace
      <3>1. ASSUME NEW t \in Threads, InCall(t), ~Crashed
            PROVE  UNCHANGED hostFile
        BY <1>0, <3>1, InCallFrame
      <3>2. ASSUME NEW t \in Threads, StartCall(t)
            PROVE  UNCHANGED hostFile
        BY <1>0, <3>2, StartCallFrame
      <3> QED BY <3>1, <3>2
              DEF Next, InControl, StartControl, LockContexts, SaveContext,
                  OpenHostFile, SecondPass, CloseHostFile, ResetCounters,
                  FinishEnable, FinishDisable, SetGuestTime, EnableTracing,
                  DisableTracing, vars, storage
    <2> QED BY <2>1, <2>2, <2>3
  <1> QED BY <1>6, <1>7 DEF FitInv

\* Initially nothing is written, and nothing remembered.
LEMMA DefInit == Init => DefInv /\ FitInv
  <1> SUFFICES ASSUME Init PROVE DefInv /\ FitInv
    OBVIOUS
  <1>1. /\ \A t \in Threads : /\ ctx[t].mTraceBuffer = <<>>
                              /\ ctx[t].out = <<>> /\ ctx[t].pc = "idle"
                              /\ Blank(ctx[t])
        /\ mSavedTraces = <<>> /\ hostFile = <<>> /\ ctl.step = "none"
    BY DEF Init, NewContext, Blank
  <1>2. Held = {} /\ InFile = {}
    BY <1>1, HeldBy, ElemsFacts DEF InFile
  <1>3. \A t \in Threads : /\ Remembers(Held, t, ctx[t])
                           /\ OnStack(Held, t, ctx[t])
                           /\ CallKnows(ctx[t])
    BY <1>1, BlankKnows
  <1>4. FileCopied
    BY <1>1 DEF FileCopied, Writing
  <1>5. DefInv
    BY <1>2, <1>3, <1>4 DEF DefInv
  <1>6. FitInv
    BY <1>1, ConstantsAssumption DEF FitInv
  <1> QED BY <1>5, <1>6

\* A track event follows the descriptor of its track and the interned
\* category and name it refers to, all written by its own thread in this
\* file: a thread forgets what it has written whenever its buffers leave the
\* storage, and a buffer that is moved to the front takes no definition away
\* from an event before it.
THEOREM DefinedBeforeUseKept == Quiesced => (Spec => []DefinedBeforeUse)
  <1> SUFFICES ASSUME Quiesced PROVE Spec => []DefinedBeforeUse
    OBVIOUS
  <1>1. Init => OrderInv
    BY OrderInit
  <1>2. Init => DefInv /\ FitInv
    BY DefInit
  <1>3. SafeInv /\ OrderInv /\ DefInv /\ FitInv => DefinedBeforeUse
    <2> SUFFICES ASSUME SafeInv, OrderInv, DefInv, FitInv,
                        NEW q \in Places(hostFile)
                 PROVE  LET e == At(hostFile, q)
                            Defined(kind, field, value) ==
                                \E p \in Places(hostFile) :
                                    LET d == At(hostFile, p)
                                    IN  /\ Before(p, q)
                                        /\ d.kind = kind
                                        /\ d.by = e.by
                                        /\ d[field] = value
                        IN  /\ e.kind \in {"begin", "end"} =>
                                /\ Defined("track", "uuid", e.uuid)
                                /\ Defined("category", "iid", e.cat)
                                /\ Defined("name", "iid", e.iid)
                            /\ e.kind = "counter" =>
                                  Defined("counterTrack", "uuid", e.uuid)
      BY DEF DefinedBeforeUse
    <2> DEFINE e == At(hostFile, q)
    <2>1. /\ hostFile \in Seq(SavedTraceInfo) /\ Len(hostFile) \in Nat
          /\ \A k \in 1 .. Len(hostFile) : hostFile[k].pkts \in Seq(Packet)
      <3>1. hostFile \in Seq(SavedTraceInfo)
        BY DEF SafeInv, TypeOK
      <3>2. \A k \in 1 .. Len(hostFile) : hostFile[k] \in SavedTraceInfo
        BY <3>1
      <3> QED BY <3>1, <3>2 DEF SavedTraceInfo
    <2>2. /\ q[1] \in 1 .. Len(hostFile)
          /\ q[2] \in 1 .. Len(hostFile[q[1]].pkts)
          /\ e = hostFile[q[1]].pkts[q[2]] /\ e \in InFile
      BY <2>1, PlacesInFile
    <2>3. e \in Elems(hostFile[q[1]].pkts) /\ e \in Packet
      BY <2>1, <2>2 DEF Elems
    <2>4. ASSUME NEW d \in InFile, d.by = e.by, d.n < e.n
          PROVE  \E p \in Places(hostFile) : Before(p, q) /\ At(hostFile, p) = d
      <3>1. PICK k \in 1 .. Len(hostFile) : d \in Elems(hostFile[k].pkts)
        BY <2>4 DEF InFile
      <3>2. PICK i \in 1 .. Len(hostFile[k].pkts) : d = hostFile[k].pkts[i]
        BY <3>1 DEF Elems
      <3>3. hostFile[k].pkts \in Seq(Packet) /\ Len(hostFile[k].pkts) \in Nat
        BY <2>1, <3>1
      <3>4. d \in Packet
        BY <3>2, <3>3
      <3>5. d.n \in Nat /\ e.n \in Nat
        BY <2>3, <3>4 DEF Packet
      <3>6. i \in 1 .. BufCapacity /\ i <= Len(hostFile[k].pkts)
        BY <3>1, <3>2, <3>3, ConstantsAssumption DEF FitInv
      <3>7. <<k, i>> \in Places(hostFile) /\ At(hostFile, <<k, i>>) = d
        BY <3>1, <3>2, <3>6 DEF Places, At
      <3>8. ~(q[1] < k)
        <4> SUFFICES ASSUME q[1] < k PROVE FALSE
          OBVIOUS
        <4>1. Earlier(Elems(hostFile[q[1]].pkts), Elems(hostFile[k].pkts))
          BY <2>2, <3>1 DEF OrderInv, FileOrdered, Ordered
        <4>2. e.n < d.n
          BY <2>3, <2>4, <3>1, <4>1 DEF Earlier
        <4> QED BY <2>4, <3>5, <4>2
      <3>9. q[1] = k => i < q[2]
        <4> SUFFICES ASSUME q[1] = k, ~(i < q[2]) PROVE FALSE
          OBVIOUS
        <4>1. q[2] < i \/ q[2] = i
          BY <2>2, <3>2, <3>3
        <4>2. CASE q[2] = i
          BY <2>2, <2>4, <3>2, <3>5, <4>2
        <4>3. CASE q[2] < i
          <5>1. Increasing(hostFile[k].pkts)
            BY <3>1 DEF OrderInv, FileOrdered, Ordered
          <5>2. e.n < d.n
            BY <2>2, <2>4, <3>2, <4>3, <5>1 DEF Increasing
          <5> QED BY <2>4, <3>5, <5>2
        <4> QED BY <4>1, <4>2, <4>3
      <3>10. Before(<<k, i>>, q)
        BY <2>1, <2>2, <3>1, <3>8, <3>9 DEF Before
      <3> QED BY <3>7, <3>10
    <2>5. Backed(InFile, e)
      BY <2>2 DEF DefInv
    <2> HIDE DEF e
    <2>6. /\ \A kind, uuid : Describes(Prior(InFile, e), e.by, kind, uuid) =>
                \E p \in Places(hostFile) :
                   /\ Before(p, q) /\ At(hostFile, p).kind = kind
                   /\ At(hostFile, p).by = e.by /\ At(hostFile, p).uuid = uuid
          /\ \A kind, iid : Interns(Prior(InFile, e), e.by, kind, iid) =>
                \E p \in Places(hostFile) :
                   /\ Before(p, q) /\ At(hostFile, p).kind = kind
                   /\ At(hostFile, p).by = e.by /\ At(hostFile, p).iid = iid
      BY <2>4 DEF Describes, Interns, Prior
    <2>7. /\ e.kind \in {"begin", "end"} =>
                /\ \E p \in Places(hostFile) :
                      /\ Before(p, q) /\ At(hostFile, p).kind = "track"
                      /\ At(hostFile, p).by = e.by
                      /\ At(hostFile, p).uuid = e.uuid
                /\ \E p \in Places(hostFile) :
                      /\ Before(p, q) /\ At(hostFile, p).kind = "category"
                      /\ At(hostFile, p).by = e.by
                      /\ At(hostFile, p).iid = e.cat
                /\ \E p \in Places(hostFile) :
                      /\ Before(p, q) /\ At(hostFile, p).kind = "name"
                      /\ At(hostFile, p).by = e.by
                      /\ At(hostFile, p).iid = e.iid
          /\ e.kind = "counter" =>
                \E p \in Places(hostFile) :
                   /\ Before(p, q) /\ At(hostFile, p).kind = "counterTrack"
                   /\ At(hostFile, p).by = e.by
                   /\ At(hostFile, p).uuid = e.uuid
      BY <2>5, <2>6 DEF Backed
    <2> QED BY <2>7 DEF e
  <1>4. SafeInv /\ MarkInv /\ OrderInv /\ DefInv /\ FitInv /\ [Next]_vars
           => SafeInv' /\ MarkInv' /\ OrderInv' /\ DefInv' /\ FitInv'
    BY SafeStep, MarkStep, OrderStep, DefStep, FitStep DEF SafeInv
  <1> QED BY <1>1, <1>2, <1>3, <1>4, SafeStep, MarkInit, PTL DEF Spec

-----------------------------------------------------------------------------
(***************************************************************************)
(* No packet is lost or duplicated, whatever the client does               *)
(***************************************************************************)

\* The packets of a sequence of traces.
InTraces(traces) == UNION {Elems(traces[k].pkts) : k \in 1 .. Len(traces)}

\* The packets of thread t in S are those it numbered lo + 1 to hi.
Span(S, t, lo, hi) ==
    \A n \in Nat : (\E p \in S : p.by = t /\ p.n = n) <=> lo < n /\ n <= hi

\* No number occurs twice in a buffer, none of thread t's in a sequence of
\* traces.
Apart(s) == \A a, b \in 1 .. Len(s) : s[a].n = s[b].n => a = b
Once(traces, t) ==
    \A i, j \in 1 .. Len(traces) :
        \A a \in 1 .. Len(traces[i].pkts), b \in 1 .. Len(traces[j].pkts) :
            /\ traces[i].pkts[a].by = t
            /\ traces[j].pkts[b].by = t
            /\ traces[i].pkts[a].n = traces[j].pkts[b].n
            => i = j /\ a = b

\* A thread buffers its own packets, each once.
Mine(t, c) ==
    /\ \A p \in Elems(c.mTraceBuffer) \union Elems(c.out) : p.by = t
    /\ Apart(c.mTraceBuffer)
    /\ Apart(c.out)

\* The packets of thread t after number mid: up to hi they are in the saved
\* traces S, up to top in its buffer, and the rest is waiting.
Reach(t, c, S, mid, hi, top) ==
    /\ mid <= hi /\ hi <= top /\ top <= c.emitted
    /\ Span(InTraces(S), t, mid, hi)
    /\ Span(Elems(c.mTraceBuffer), t, hi, top)
    /\ Span(Elems(c.out), t, top, c.emitted)

\* Those after number lo and up to mid are in the file; there is nothing
\* before them until a second session overwrites the file, and the first
\* session has no file before it is saved.
FileReach(t, lo, mid) ==
    /\ lo <= mid
    /\ ctl.step \notin Writing => Span(InTraces(hostFile), t, lo, mid)
    /\ ctl.session <= 1 => lo = 0
    /\ ctl.session = 0 \/ (ctl.session = 1 /\ Active) => mid = 0

\* While the file is written it has the traces the loops have passed.
CopyInv ==
    ctl.step \in Writing =>
        \A p : p \in InTraces(hostFile) <=>
                 \E j \in 1 .. Len(mSavedTraces) :
                    Copied(j) /\ p \in Elems(mSavedTraces[j].pkts)

\* Nobody else saves a buffer while the file is written, and nothing is
\* saved before the first session.
LockInv ==
    /\ ctl.step \in {"save", "firstPass", "restPass"} => mContextsLock
    /\ ctl.session = 0 => config.tracingDisabled /\ ctl.step \notin Saving

BufferedOnce ==
    \A t \in Threads : Mine(t, ctx[t]) /\ Once(mSavedTraces, t)
WrittenOnce == \A t \in Threads : Once(hostFile, t)
Unbroken ==
    \A t \in Threads : \E lo, mid, hi, top \in Nat :
        FileReach(t, lo, mid) /\ Reach(t, ctx[t], mSavedTraces, mid, hi, top)

TrailInv == LockInv /\ CopyInv /\ BufferedOnce /\ WrittenOnce /\ Unbroken

\* An empty stretch of numbers.
LEMMA SpanEmpty ==
    ASSUME NEW t, NEW a \in Nat, NEW b \in Nat
    PROVE  /\ Span({}, t, a, a)
           /\ Span({}, t, a, b) /\ a <= b => a = b
  <1>1. Span({}, t, a, a)
    BY DEF Span
  <1>2. Span({}, t, a, b) /\ a <= b => a = b
    <2> SUFFICES ASSUME Span({}, t, a, b), a <= b, a # b PROVE FALSE
      OBVIOUS
    <2>1. a < a + 1 /\ a + 1 <= b /\ a + 1 \in Nat
      OBVIOUS
    <2> QED BY <2>1 DEF Span
  <1> QED BY <1>1, <1>2

\* The next packet.
LEMMA SpanNext ==
    ASSUME NEW t, NEW a \in Nat, NEW p, p.by = t, p.n = a + 1
    PROVE  Span({p}, t, a, a + 1)
  <1>1. \A n \in Nat : (a < n /\ n <= a + 1) <=> n = a + 1
    OBVIOUS
  <1> QED BY <1>1 DEF Span

\* Two stretches that meet.
LEMMA SpanJoin ==
    ASSUME NEW t, NEW P, NEW Q, NEW a \in Nat, NEW b \in Nat, NEW c \in Nat,
           a <= b, b <= c, Span(P, t, a, b), Span(Q, t, b, c)
    PROVE  Span(P \union Q, t, a, c)
  <1>1. \A n \in Nat : (a < n /\ n <= c) <=>
                          (a < n /\ n <= b) \/ (b < n /\ n <= c)
    OBVIOUS
  <1> QED BY <1>1 DEF Span

\* The packets of others.
LEMMA SpanOther ==
    ASSUME NEW t, NEW P, NEW Q, NEW a, NEW b, Span(P, t, a, b),
           \A p \in Q : p.by # t
    PROVE  Span(P \union Q, t, a, b)
  BY DEF Span

\* Two stretches that meet have no number in common.
LEMMA SpanApart ==
    ASSUME NEW t, NEW a \in Nat, NEW b \in Nat, NEW c \in Nat,
           NEW P, NEW Q \in SUBSET Packet,
           Span(P, t, a, b), Span(Q, t, b, c),
           NEW p \in P, NEW q \in Q, p.by = t, q.by = t
    PROVE  p.n # q.n
  <1> SUFFICES ASSUME p.n = q.n PROVE FALSE
    OBVIOUS
  <1>1. q.n \in Nat
    BY DEF Packet
  <1>2. q.n <= b /\ b < q.n
    BY <1>1 DEF Span
  <1> QED BY <1>1, <1>2

\* A trace is appended.
LEMMA InTracesAppend ==
    ASSUME NEW s \in Seq(SavedTraceInfo), NEW z, NEW r,
           Len(z) = Len(s) + 1, \A i \in 1 .. Len(s) : z[i] = s[i],
           z[Len(s) + 1].pkts = r
    PROVE  InTraces(z) = InTraces(s) \union Elems(r)
  <1>1. Len(s) \in Nat
    OBVIOUS
  <1>2. \A i : i \in 1 .. Len(z) <=> i \in 1 .. Len(s) \/ i = Len(s) + 1
    BY <1>1
  <1> QED BY <1>1, <1>2 DEF InTraces

\* A trace of new packets is appended.
LEMMA OnceAppend ==
    ASSUME NEW s \in Seq(SavedTraceInfo), NEW z, NEW r, NEW t,
           Len(z) = Len(s) + 1, \A i \in 1 .. Len(s) : z[i] = s[i],
           z[Len(s) + 1].pkts = r, Once(s, t),
           \A a, b \in 1 .. Len(r) :
              r[a].by = t /\ r[b].by = t /\ r[a].n = r[b].n => a = b,
           \A p \in InTraces(s), q \in Elems(r) :
              p.by = t /\ q.by = t => p.n # q.n
    PROVE  Once(z, t)
  <1> SUFFICES ASSUME NEW i \in 1 .. Len(z), NEW j \in 1 .. Len(z),
                      NEW a \in 1 .. Len(z[i].pkts),
                      NEW b \in 1 .. Len(z[j].pkts),
                      z[i].pkts[a].by = t, z[j].pkts[b].by = t,
                      z[i].pkts[a].n = z[j].pkts[b].n
               PROVE  i = j /\ a = b
    BY DEF Once
  <1>1. Len(s) \in Nat
    OBVIOUS
  <1>2. /\ i \in 1 .. Len(s) \/ i = Len(s) + 1
        /\ j \in 1 .. Len(s) \/ j = Len(s) + 1
    BY <1>1
  <1>3. \A k \in 1 .. Len(s) : \A x \in 1 .. Len(s[k].pkts) :
           s[k].pkts[x] \in InTraces(s)
    <2>1. \A k \in 1 .. Len(s) : \A x \in 1 .. Len(s[k].pkts) :
             s[k].pkts[x] \in Elems(s[k].pkts)
      BY DEF Elems
    <2> QED BY <2>1 DEF InTraces
  <1>4. \A x \in 1 .. Len(r) : r[x] \in Elems(r)
    BY DEF Elems
  <1>5. CASE i \in 1 .. Len(s) /\ j \in 1 .. Len(s)
    <2>1. z[i] = s[i] /\ z[j] = s[j]
      BY <1>5
    <2>2. /\ a \in 1 .. Len(s[i].pkts) /\ b \in 1 .. Len(s[j].pkts)
          /\ s[i].pkts[a].by = t /\ s[j].pkts[b].by = t
          /\ s[i].pkts[a].n = s[j].pkts[b].n
      BY <2>1
    <2> QED BY <1>5, <2>2 DEF Once
  <1>6. CASE i \in 1 .. Len(s) /\ j = Len(s) + 1
    <2>1. z[i] = s[i] /\ z[j].pkts = r
      BY <1>6
    <2> QED BY <1>3, <1>4, <1>6, <2>1
  <1>7. CASE i = Len(s) + 1 /\ j \in 1 .. Len(s)
    BY <1>7, <1>3, <1>4
  <1>8. CASE i = Len(s) + 1 /\ j = Len(s) + 1
    BY <1>8
  <1> QED BY <1>2, <1>5, <1>6, <1>7, <1>8

\* A thread saves its buffer: the saved traces have its packets too.
LEMMA SavedTraces ==
    ASSUME TypeOK, BufferedOnce, NEW t \in Threads, SaveBuffer(ctx[t])
    PROVE  /\ InTraces(mSavedTraces') =
                 InTraces(mSavedTraces) \union Elems(ctx[t].mTraceBuffer)
           /\ \A u \in Threads \ {t} : Once(mSavedTraces', u)
           /\ (\A p \in InTraces(mSavedTraces), q \in Elems(ctx[t].mTraceBuffer) :
                  p.by = t /\ q.by = t => p.n # q.n)
                 => Once(mSavedTraces', t)
  <1> DEFINE s == mSavedTraces
             r == ctx[t].mTraceBuffer
  <1>1. /\ s \in Seq(SavedTraceInfo) /\ ctx[t] \in Context
        /\ \A u \in Threads : Once(s, u)
        /\ \A p \in Elems(r) : p.by = t
        /\ Apart(r)
    BY DEF TypeOK, BufferedOnce, Mine
  <1>2. CASE r = <<>> /\ s' = s
    BY <1>1, <1>2, ElemsFacts
  <1>3. CASE /\ Len(s') = Len(s) + 1 /\ \A i \in 1 .. Len(s) : s'[i] = s[i]
             /\ s'[Len(s) + 1].pkts = r
    <2>1. InTraces(s') = InTraces(s) \union Elems(r)
      <3> HIDE DEF r
      <3> QED BY <1>1, <1>3, InTracesAppend
    <2>2. \A a \in 1 .. Len(r) : r[a] \in Elems(r)
      BY DEF Elems
    <2>3. ASSUME NEW u \in Threads,
                 \A p \in InTraces(s), q \in Elems(r) :
                    p.by = u /\ q.by = u => p.n # q.n
          PROVE  Once(s', u)
      <3>1. \A a, b \in 1 .. Len(r) :
               r[a].by = u /\ r[b].by = u /\ r[a].n = r[b].n => a = b
        BY <1>1 DEF Apart
      <3> HIDE DEF r
      <3> QED BY <1>1, <1>3, <2>3, <3>1, OnceAppend, SMTT(30)
    <2>4. \A u \in Threads \ {t} : Once(s', u)
      BY <1>1, <2>3
    <2> QED BY <2>1, <2>3, <2>4
  <1> QED BY <1>1, <1>2, <1>3, SaveFacts

\* One packet waits, or none: it occurs once.
LEMMA ApartFacts ==
    /\ Apart(<<>>)
    /\ \A p : Apart(<<p>>)
    /\ \A s \in Seq(Packet) : \A p :
          Apart(s) /\ (\A q \in Elems(s) : q.n # p.n) => Apart(Append(s, p))
  <1>1. Apart(<<>>) /\ \A p : Apart(<<p>>)
    BY DEF Apart
  <1>2. ASSUME NEW s \in Seq(Packet), NEW p, Apart(s), \A q \in Elems(s) : q.n # p.n
        PROVE  Apart(Append(s, p))
    BY AppendFacts, <1>2 DEF Elems, Apart
  <1> QED BY <1>1, <1>2

\* A thread writes packet p: its buffered packets reach one number further.
LEMMA ReachEmit ==
    ASSUME NEW t, NEW c \in Context, NEW d, NEW p, NEW S,
           Mine(t, c), Added(c, d, p), p.by = t, p.n = c.emitted + 1,
           NEW mid \in Nat, NEW hi \in Nat, NEW top \in Nat,
           Reach(t, c, S, mid, hi, top)
    PROVE  /\ Mine(t, d)
           /\ \E x \in Nat : Reach(t, d, S, mid, hi, x)
  <1>1. /\ c.mTraceBuffer \in Seq(Packet) /\ c.emitted \in Nat
        /\ c.out = <<>> /\ d.emitted = c.emitted + 1
        /\ Elems(<<>>) = {} /\ Elems(<<p>>) = {p}
        /\ Elems(Append(c.mTraceBuffer, p)) = Elems(c.mTraceBuffer) \union {p}
    BY ElemsFacts DEF Context, Added
  <1>2. /\ mid <= hi /\ hi <= top /\ top <= c.emitted
        /\ Span(InTraces(S), t, mid, hi)
        /\ Span(Elems(c.mTraceBuffer), t, hi, top)
        /\ Span({}, t, top, c.emitted)
    BY <1>1 DEF Reach
  <1>3. top = c.emitted
    BY <1>1, <1>2, SpanEmpty
  <1>4. Span({p}, t, top, top + 1) /\ top + 1 \in Nat
    BY <1>1, <1>3, SpanNext
  <1>5. \A q \in Elems(c.mTraceBuffer) : q.n # p.n
    <2> SUFFICES ASSUME NEW q \in Elems(c.mTraceBuffer), q.n = p.n PROVE FALSE
      OBVIOUS
    <2>1. q.by = t
      BY DEF Mine
    <2>2. q.n = top + 1 /\ top + 1 \in Nat
      BY <1>3, <1>4
    <2>3. top + 1 <= top
      BY <1>2, <2>1, <2>2 DEF Span
    <2> QED BY <2>3
  <1>6. CASE d.mTraceBuffer = Append(c.mTraceBuffer, p) /\ d.out = <<>>
    <2>1. Mine(t, d)
      BY <1>1, <1>6, <1>5, ApartFacts DEF Mine
    <2>2. Span(Elems(c.mTraceBuffer) \union {p}, t, hi, top + 1)
      <3>1. top <= top + 1
        OBVIOUS
      <3> QED BY <1>2, <1>4, <3>1, SpanJoin
    <2>3. Span({}, t, top + 1, top + 1)
      BY <1>4, SpanEmpty
    <2>4. hi <= top + 1 /\ top + 1 <= d.emitted /\ d.emitted = top + 1
      BY <1>1, <1>2, <1>3
    <2>5. Reach(t, d, S, mid, hi, top + 1)
      BY <1>1, <1>2, <1>6, <2>2, <2>3, <2>4 DEF Reach
    <2> QED BY <1>4, <2>1, <2>5
  <1>7. CASE d.mTraceBuffer = c.mTraceBuffer /\ d.out = <<p>>
    <2>1. Mine(t, d)
      BY <1>1, <1>7, ApartFacts DEF Mine
    <2>2. top <= d.emitted /\ d.emitted = top + 1
      BY <1>1, <1>2, <1>3
    <2>3. Reach(t, d, S, mid, hi, top)
      BY <1>1, <1>2, <1>4, <1>7, <2>2 DEF Reach
    <2> QED BY <2>1, <2>3
  <1> QED BY <1>6, <1>7 DEF Added

\* A thread's buffer joins the saved traces, and the waiting packet may take
\* its place.
LEMMA ReachSave ==
    ASSUME NEW t, NEW c \in Context, NEW d, NEW S, NEW Z, Mine(t, c),
           InTraces(Z) = InTraces(S) \union Elems(c.mTraceBuffer),
           d.emitted = c.emitted,
           \/ d.mTraceBuffer = <<>> /\ d.out = c.out
           \/ d.mTraceBuffer = c.out /\ d.out = <<>>,
           NEW mid \in Nat, NEW hi \in Nat, NEW top \in Nat,
           Reach(t, c, S, mid, hi, top)
    PROVE  /\ Mine(t, d)
           /\ \E x \in Nat : Reach(t, d, Z, mid, top, x)
           /\ \A p \in InTraces(S), q \in Elems(c.mTraceBuffer) :
                 p.by = t /\ q.by = t => p.n # q.n
  <1>1. /\ c.mTraceBuffer \in Seq(Packet) /\ c.emitted \in Nat
        /\ Elems(<<>>) = {} /\ Elems(c.mTraceBuffer) \in SUBSET Packet
    BY ElemsFacts DEF Context, Elems
  <1>2. /\ mid <= hi /\ hi <= top /\ top <= c.emitted /\ mid <= top
        /\ Span(InTraces(S), t, mid, hi)
        /\ Span(Elems(c.mTraceBuffer), t, hi, top)
        /\ Span(Elems(c.out), t, top, c.emitted)
    BY DEF Reach
  <1>3. Mine(t, d)
    BY <1>1, ApartFacts DEF Mine
  <1>4. Span(InTraces(Z), t, mid, top)
    BY <1>2, SpanJoin
  <1>5. \E x \in Nat : Reach(t, d, Z, mid, top, x)
    <2>1. Span({}, t, top, top) /\ Span({}, t, c.emitted, c.emitted)
      BY <1>1, SpanEmpty
    <2>2. CASE d.mTraceBuffer = <<>> /\ d.out = c.out
      <3>1. Reach(t, d, Z, mid, top, top)
        <4>1. top <= top /\ top <= d.emitted
          BY <1>2
        <4> QED BY <1>1, <1>2, <1>4, <2>1, <2>2, <4>1 DEF Reach
      <3> QED BY <3>1
    <2>3. CASE d.mTraceBuffer = c.out /\ d.out = <<>>
      <3>1. Reach(t, d, Z, mid, top, c.emitted)
        <4>1. top <= c.emitted /\ c.emitted <= d.emitted
          BY <1>1, <1>2
        <4> QED BY <1>1, <1>2, <1>4, <2>1, <2>3, <4>1 DEF Reach
      <3> QED BY <1>1, <3>1
    <2> QED BY <2>2, <2>3
  <1>6. ASSUME NEW p \in InTraces(S), NEW q \in Elems(c.mTraceBuffer),
               p.by = t, q.by = t
        PROVE  p.n # q.n
    BY <1>1, <1>2, <1>6, SpanApart
  <1> QED BY <1>3, <1>5, <1>6

\* What a step leaves for the file: every thread's packets after number mid
\* are still in the storage, its buffer or waiting, in unbroken order.
Continues ==
    /\ \A u \in Threads : Mine(u, ctx'[u]) /\ Once(mSavedTraces', u)
    /\ \A u \in Threads : \A mid, hi, top \in Nat :
          Reach(u, ctx[u], mSavedTraces, mid, hi, top) =>
             \E x, y \in Nat : Reach(u, ctx'[u], mSavedTraces', mid, x, y)

\* A step that saves a buffer.
LEMMA ContinuesSave ==
    ASSUME TypeOK, BufferedOnce, Unbroken, NEW t \in Threads,
           Saves(ctx[t], ctx'[t]), ctx'[t].emitted = ctx[t].emitted,
           \A u \in Threads \ {t} : ctx'[u] = ctx[u]
    PROVE  Continues
  <1>1. /\ ctx[t] \in Context /\ Mine(t, ctx[t]) /\ SaveBuffer(ctx[t])
        /\ \A u \in Threads : Mine(u, ctx[u])
    BY DEF TypeOK, BufferedOnce, Saves
  <1>2. /\ InTraces(mSavedTraces') =
              InTraces(mSavedTraces) \union Elems(ctx[t].mTraceBuffer)
        /\ \A u \in Threads \ {t} : Once(mSavedTraces', u)
        /\ (\A p \in InTraces(mSavedTraces), q \in Elems(ctx[t].mTraceBuffer) :
               p.by = t /\ q.by = t => p.n # q.n) => Once(mSavedTraces', t)
    BY <1>1, SavedTraces
  <1>3. ASSUME NEW mid \in Nat, NEW hi \in Nat, NEW top \in Nat,
               Reach(t, ctx[t], mSavedTraces, mid, hi, top)
        PROVE  /\ Mine(t, ctx'[t])
               /\ \E x \in Nat : Reach(t, ctx'[t], mSavedTraces', mid, top, x)
               /\ \A p \in InTraces(mSavedTraces),
                     q \in Elems(ctx[t].mTraceBuffer) :
                     p.by = t /\ q.by = t => p.n # q.n
    BY <1>1, <1>2, <1>3, ReachSave DEF Saves
  <1>4. Mine(t, ctx'[t]) /\ Once(mSavedTraces', t)
    BY <1>2, <1>3 DEF Unbroken
  <1>5. ASSUME NEW u \in Threads \ {t}, NEW mid \in Nat, NEW hi \in Nat,
               NEW top \in Nat, Reach(u, ctx[u], mSavedTraces, mid, hi, top)
        PROVE  Reach(u, ctx'[u], mSavedTraces', mid, hi, top)
    <2>1. \A p \in Elems(ctx[t].mTraceBuffer) : p.by # u
      BY <1>1 DEF Mine
    <2>2. Span(InTraces(mSavedTraces), u, mid, hi)
      BY <1>5 DEF Reach
    <2>3. Span(InTraces(mSavedTraces'), u, mid, hi)
      <3>1. Span(InTraces(mSavedTraces) \union Elems(ctx[t].mTraceBuffer),
                 u, mid, hi)
        BY <2>1, <2>2, SpanOther
      <3> QED BY <1>2, <3>1
    <2> QED BY <1>5, <2>3 DEF Reach
  <1>6. \A u \in Threads : Mine(u, ctx'[u]) /\ Once(mSavedTraces', u)
    BY <1>1, <1>2, <1>4
  <1>7. ASSUME NEW u \in Threads, NEW mid \in Nat, NEW hi \in Nat,
               NEW top \in Nat, Reach(u, ctx[u], mSavedTraces, mid, hi, top)
        PROVE  \E x, y \in Nat : Reach(u, ctx'[u], mSavedTraces', mid, x, y)
    <2>1. CASE u = t
      BY <1>3, <1>7, <2>1
    <2>2. CASE u # t
      BY <1>5, <1>7, <2>2
    <2> QED BY <2>1, <2>2
  <1> QED BY <1>6, <1>7 DEF Continues

\* A step that leaves the storage alone and the context of every thread but
\* t too, which may write a packet.
LEMMA ContinuesWrite ==
    ASSUME TypeOK, BufferedOnce, Unbroken, NEW t \in Threads,
           UNCHANGED mSavedTraces, \A u \in Threads \ {t} : ctx'[u] = ctx[u],
           \/ \E p : /\ Added(ctx[t], ctx'[t], p)
                     /\ p.by = t /\ p.n = ctx[t].emitted + 1
           \/ /\ ctx'[t].mTraceBuffer = ctx[t].mTraceBuffer
              /\ ctx'[t].out = ctx[t].out
              /\ ctx'[t].emitted = ctx[t].emitted
    PROVE  Continues
  <1>1. ctx[t] \in Context /\ \A u \in Threads : Mine(u, ctx[u]) /\ Once(mSavedTraces, u)
    BY DEF TypeOK, BufferedOnce
  <1>2. ASSUME NEW mid \in Nat, NEW hi \in Nat, NEW top \in Nat,
               Reach(t, ctx[t], mSavedTraces, mid, hi, top)
        PROVE  /\ Mine(t, ctx'[t])
               /\ \E x \in Nat : Reach(t, ctx'[t], mSavedTraces, mid, hi, x)
    <2>1. ASSUME NEW p, Added(ctx[t], ctx'[t], p), p.by = t,
                 p.n = ctx[t].emitted + 1
          PROVE  /\ Mine(t, ctx'[t])
                 /\ \E x \in Nat : Reach(t, ctx'[t], mSavedTraces, mid, hi, x)
      BY <1>1, <1>2, <2>1, ReachEmit
    <2>2. CASE /\ ctx'[t].mTraceBuffer = ctx[t].mTraceBuffer
               /\ ctx'[t].out = ctx[t].out
               /\ ctx'[t].emitted = ctx[t].emitted
      BY <1>1, <2>2, <1>2 DEF Mine, Reach
    <2> QED BY <2>1, <2>2
  <1>3. Mine(t, ctx'[t])
    BY <1>2 DEF Unbroken
  <1>4. \A u \in Threads : Mine(u, ctx'[u]) /\ Once(mSavedTraces', u)
    BY <1>1, <1>3
  <1>5. ASSUME NEW u \in Threads, NEW mid \in Nat, NEW hi \in Nat,
               NEW top \in Nat, Reach(u, ctx[u], mSavedTraces, mid, hi, top)
        PROVE  \E x, y \in Nat : Reach(u, ctx'[u], mSavedTraces', mid, x, y)
    <2>1. CASE u = t
      BY <1>2, <1>5, <2>1
    <2>2. CASE u # t
      BY <1>5, <2>2
    <2> QED BY <2>1, <2>2
  <1> QED BY <1>4, <1>5 DEF Continues

\* A step of a call neither takes nor releases the lock of the storage, and
\* saves nothing while the saver holds it.
LEMMA LockedCall ==
    ASSUME NEW t \in Threads, InCall(t)
    PROVE  /\ UNCHANGED mContextsLock
           /\ mContextsLock => UNCHANGED mSavedTraces
  BY DEF InCall, FinishAndRefresh, Construct, Check, DecrementDepth, LockEnd,
         LockAndCount, FirstPacket, AwaitSequenceId, InternCategory,
         EmitCategory, SetThreadId, InternEvent, EmitEventName, CounterTrack,
         EmitEvent, Unlock, SaveAtExit, storage

\* Every step of a call continues what each thread wrote.
LEMMA ContinuesCall ==
    ASSUME TypeOK, ContextInv, BufferedOnce, Unbroken, NEW t \in Threads,
           ~Crashed, InCall(t)
    PROVE  Continues
  <1>1. \A u \in Threads \ {t} : ctx'[u] = ctx[u]
    BY InCallFrame
  <1>2. CASE \E p : Emits(t, ctx[t], ctx'[t], p)
    <2>1. PICK p : Emits(t, ctx[t], ctx'[t], p)
      BY <1>2
    <2>2. /\ Added(ctx[t], ctx'[t], p) /\ p.by = t /\ p.n = ctx[t].emitted + 1
          /\ UNCHANGED mSavedTraces
      BY <2>1 DEF Emits
    <2> QED BY <1>1, <2>2, ContinuesWrite
  <1>3. CASE Silent(ctx[t], ctx'[t])
    BY <1>1, <1>3, ContinuesWrite DEF Silent
  <1>4. CASE HandsOver(ctx[t], ctx'[t])
    BY <1>1, <1>4, ContinuesSave DEF HandsOver, Saves
  <1>5. CASE GivesUp(ctx[t], ctx'[t])
    BY <1>1, <1>5, ContinuesSave DEF GivesUp, Saves
  <1> QED BY <1>2, <1>3, <1>4, <1>5, CallFrame

\* So does a step that leaves the contexts' buffers and the storage alone.
LEMMA ContinuesStays ==
    ASSUME TypeOK, BufferedOnce, UNCHANGED mSavedTraces,
           \A u \in Threads : /\ ctx'[u].mTraceBuffer = ctx[u].mTraceBuffer
                              /\ ctx'[u].out = ctx[u].out
                              /\ ctx'[u].emitted = ctx[u].emitted
    PROVE  Continues
  <1>1. \A u \in Threads : Mine(u, ctx[u]) /\ Once(mSavedTraces, u)
    BY DEF BufferedOnce
  <1>2. \A u \in Threads : Mine(u, ctx'[u])
    BY <1>1 DEF Mine
  <1>3. \A u \in Threads : \A mid, hi, top \in Nat :
           Reach(u, ctx[u], mSavedTraces, mid, hi, top) =>
              Reach(u, ctx'[u], mSavedTraces', mid, hi, top)
    BY DEF Reach
  <1> QED BY <1>1, <1>2, <1>3 DEF Continues

\* What a step continues stays unbroken if the file keeps its share.
LEMMA UnbrokenStays ==
    ASSUME Unbroken, Continues,
           \A t \in Threads : \A lo, mid \in Nat :
              FileReach(t, lo, mid) => FileReach(t, lo, mid)'
    PROVE  BufferedOnce' /\ Unbroken'
  <1>1. \A u \in Threads : Mine(u, ctx[u])' /\ Once(mSavedTraces, u)'
    BY DEF Mine, Once, Apart, Elems, Continues
  <1>2. ASSUME NEW u \in Threads
        PROVE  (\E lo, mid, hi, top \in Nat :
                  /\ FileReach(u, lo, mid)
                  /\ Reach(u, ctx[u], mSavedTraces, mid, hi, top))'
    <2>1. PICK lo \in Nat, mid \in Nat, hi \in Nat, top \in Nat :
             /\ FileReach(u, lo, mid)
             /\ Reach(u, ctx[u], mSavedTraces, mid, hi, top)
      BY DEF Unbroken
    <2>2. PICK x \in Nat, y \in Nat : Reach(u, ctx'[u], mSavedTraces', mid, x, y)
      BY <2>1 DEF Continues
    <2>3. Reach(u, ctx[u], mSavedTraces, mid, x, y)'
      BY <2>2 DEF Reach, Span, InTraces, Elems
    <2>4. FileReach(u, lo, mid)'
      BY <2>1
    <2> QED BY <2>3, <2>4
  <1> QED BY <1>1, <1>2 DEF BufferedOnce, Unbroken

\* The file keeps its share while it is not touched and the session goes on.
LEMMA FileReachStays ==
    ASSUME UNCHANGED hostFile, ctl'.session = ctl.session,
           ctl.step \in Writing => ctl'.step \in Writing, Active' => Active
    PROVE  \A t \in Threads : \A lo, mid \in Nat :
              FileReach(t, lo, mid) => FileReach(t, lo, mid)'
  <1> SUFFICES ASSUME NEW t \in Threads, NEW lo \in Nat, NEW mid \in Nat,
                      FileReach(t, lo, mid)
               PROVE  FileReach(t, lo, mid)'
    OBVIOUS
  <1>1. ctl'.step \notin Writing => Span(InTraces(hostFile), t, lo, mid)
    BY DEF FileReach
  <1>2. Span(InTraces(hostFile), t, lo, mid)' <=> Span(InTraces(hostFile), t, lo, mid)
    BY DEF Span, InTraces, Elems
  <1> QED BY <1>1, <1>2 DEF FileReach

\* Every step keeps the lock's discipline.
LEMMA LockStep ==
    ASSUME TypeOK, ContextInv, ControlInv, LockInv, [Next]_vars
    PROVE  LockInv'
  <1>0. ctl \in Control /\ config \in Config
    BY DEF TypeOK
  <1>1. ASSUME NEW t \in Threads, InCall(t), ~Crashed
        PROVE  LockInv'
    BY <1>1, LockedCall, InCallFrame DEF LockInv
  <1>2. ASSUME NEW t \in Threads, StartCall(t)
        PROVE  LockInv'
    BY <1>2 DEF StartCall, Call, Remove, storage, LockInv
  <1>3. ASSUME NEW t \in Threads, SaveContext(t)
        PROVE  LockInv'
    BY <1>0, <1>3 DEF LockInv, SaveContext, Control
  <1>4. CASE LockContexts \/ OpenHostFile \/ WriteSavedTrace \/ SecondPass
             \/ CloseHostFile
    BY <1>0, <1>4
    DEF LockInv, LockContexts, OpenHostFile, WriteSavedTrace, SecondPass,
        CloseHostFile, Control, Saving, storage
  <1>5. CASE ResetCounters
    BY <1>0, <1>5 DEF LockInv, ResetCounters, Control, Config, Saving, storage
  <1>6. CASE FinishEnable \/ FinishDisable
    <2>1. /\ ctl'.step = "none"
          /\ ctl'.session = 0 => FinishDisable /\ ctl.session = 0
      <3>1. CASE FinishEnable
        BY <1>0, <3>1 DEF FinishEnable, Control
      <3>2. CASE FinishDisable
        BY <1>0, <3>2 DEF FinishDisable, Control
      <3> QED BY <1>6, <3>1, <3>2
    <2>2. FinishDisable => config'.tracingDisabled = config.tracingDisabled
      BY <1>0 DEF FinishDisable, Config
    <2> QED BY <2>1, <2>2 DEF LockInv, Saving
  <1>7. CASE StartControl
    <2>1. ctl.step = "none" /\ ctl'.session = ctl.session
      BY <1>0, <1>7
      DEF StartControl, SetGuestTime, EnableTracing, DisableTracing, Control,
          ControlInv
    <2>2. CASE DisableTracing
      BY <1>0, <2>2, <2>1 DEF DisableTracing, Config, Control, LockInv, Saving
    <2>3. CASE EnableTracing
      BY <1>0, <2>1, <2>3 DEF LockInv, EnableTracing, Control, Saving
    <2>4. ASSUME NEW d \in GuestDiffs, SetGuestTime(d)
          PROVE  LockInv'
      BY <1>0, <2>1, <2>4 DEF LockInv, SetGuestTime, Config, Saving
    <2> QED BY <1>7, <2>2, <2>3, <2>4 DEF StartControl
  <1>8. CASE UNCHANGED vars
    BY <1>8 DEF LockInv, vars, storage
  <1> QED BY <1>1, <1>2, <1>3, <1>4, <1>5, <1>6, <1>7, <1>8
          DEF Next, InControl

\* What is written again to the file was not there before.
LEMMA WriteOnce ==
    ASSUME TypeOK, CopyInv, BufferedOnce, WrittenOnce, WriteSavedTrace
    PROVE  CopyInv' /\ WrittenOnce'
  <1> DEFINE trace == mSavedTraces[ctl.idx]
             n == Len(hostFile)
             copy == trace.first <=> ctl.step = "firstPass"
             S == mSavedTraces
  <1>0. /\ hostFile \in Seq(SavedTraceInfo) /\ n \in Nat
        /\ S \in Seq(SavedTraceInfo) /\ ctl \in Control
    BY DEF TypeOK
  <1>1. /\ ctl.step \in {"firstPass", "restPass"}
        /\ ctl.idx \in 1 .. Len(S)
        /\ hostFile' = IF copy THEN Append(hostFile, trace) ELSE hostFile
        /\ ctl' = [ctl EXCEPT !.idx = @ + 1]
        /\ UNCHANGED <<ctx, mSavedTraces>>
    BY DEF WriteSavedTrace
  <1>2. /\ ctl'.step = ctl.step /\ ctl'.idx = ctl.idx + 1
        /\ ctl.idx \in Nat /\ trace \in SavedTraceInfo
        /\ \A j \in 1 .. Len(S) : j \in Nat
    BY <1>0, <1>1 DEF Control
  <1>3. ctl.step \in Writing /\ ctl'.step \in Writing
    BY <1>1, <1>2 DEF Writing
  <1>4. \A p : p \in InTraces(hostFile) <=>
                 \E j \in 1 .. Len(S) : Copied(j) /\ p \in Elems(S[j].pkts)
    BY <1>3 DEF CopyInv
  <1>5. \A j \in 1 .. Len(S) : Copied(j)' <=> Copied(j) \/ (j = ctl.idx /\ copy)
    <2> SUFFICES ASSUME NEW j \in 1 .. Len(S)
                 PROVE  Copied(j)' <=> Copied(j) \/ (j = ctl.idx /\ copy)
      OBVIOUS
    <2>1. j < ctl.idx + 1 <=> j < ctl.idx \/ j = ctl.idx
      BY <1>2
    <2>2. Copied(j)' <=>
             \/ ctl.step = "restPass" /\ (S[j].first \/ j < ctl.idx + 1)
             \/ ctl.step = "firstPass" /\ S[j].first /\ j < ctl.idx + 1
      BY <1>1, <1>2 DEF Copied
    <2>3. ctl.step = "firstPass" <=> ctl.step # "restPass"
      BY <1>1
    <2> QED BY <2>1, <2>2, <2>3 DEF Copied
  <1>6. copy => ~Copied(ctl.idx)
    BY <1>1, <1>2 DEF Copied
  <1>7. copy => /\ Len(hostFile') = n + 1
                /\ \A k \in 1 .. n : hostFile'[k] = hostFile[k]
                /\ hostFile'[n + 1].pkts = trace.pkts
    BY <1>0, <1>1, <1>2
  <1>8. /\ copy => InTraces(hostFile') = InTraces(hostFile) \union Elems(trace.pkts)
        /\ ~copy => InTraces(hostFile') = InTraces(hostFile)
    <2> HIDE DEF trace, copy
    <2>1. CASE copy
      BY <1>7, <2>1, <1>0, InTracesAppend
    <2>2. CASE ~copy
      BY <1>1, <2>2
    <2> QED BY <2>1, <2>2
  <1>9. CopyInv'
    <2>1. \A p : p \in InTraces(hostFile') <=>
             \E j \in 1 .. Len(S) : Copied(j)' /\ p \in Elems(S[j].pkts)
      <3>1. \A p : p \in InTraces(hostFile') <=>
               \/ p \in InTraces(hostFile)
               \/ copy /\ p \in Elems(S[ctl.idx].pkts)
        BY <1>8
      <3> HIDE DEF copy
      <3> QED BY <1>1, <1>4, <1>5, <3>1
    <2>2. \A p : (p \in InTraces(hostFile))' <=> p \in InTraces(hostFile')
      BY DEF InTraces, Elems
    <2>3. \A j \in 1 .. Len(S) : Elems(S[j].pkts)' = Elems(S[j].pkts)
      BY <1>1 DEF Elems
    <2> QED BY <1>1, <2>1, <2>2, <2>3 DEF CopyInv
  <1>10. ASSUME NEW t \in Threads, copy
         PROVE  Once(hostFile', t)
    <2>1. Once(S, t) /\ Once(hostFile, t)
      BY DEF BufferedOnce, WrittenOnce
    <2>2. \A a, b \in 1 .. Len(trace.pkts) :
             /\ trace.pkts[a].by = t /\ trace.pkts[b].by = t
             /\ trace.pkts[a].n = trace.pkts[b].n
             => a = b
      BY <1>1, <2>1 DEF Once
    <2>3. ASSUME NEW p \in InTraces(hostFile), NEW q \in Elems(trace.pkts),
                 p.by = t, q.by = t, p.n = q.n
          PROVE  FALSE
      <3>1. PICK j \in 1 .. Len(S) : Copied(j) /\ p \in Elems(S[j].pkts)
        BY <1>4, <2>3
      <3>2. PICK a \in 1 .. Len(S[j].pkts) : p = S[j].pkts[a]
        BY <3>1 DEF Elems
      <3>3. PICK b \in 1 .. Len(S[ctl.idx].pkts) : q = S[ctl.idx].pkts[b]
        BY <2>3 DEF Elems
      <3>4. j = ctl.idx
        BY <1>1, <2>1, <2>3, <3>1, <3>2, <3>3 DEF Once
      <3> QED BY <1>6, <1>10, <3>1, <3>4
    <2> HIDE DEF trace
    <2> QED BY <1>0, <1>7, <1>10, <2>1, <2>2, <2>3, OnceAppend
  <1>11. WrittenOnce'
    <2>1. \A t \in Threads : Once(hostFile', t)
      <3>1. ~copy => hostFile' = hostFile
        BY <1>1
      <3> HIDE DEF copy
      <3> QED BY <1>10, <3>1 DEF WrittenOnce
    <2>2. \A t \in Threads : Once(hostFile, t)' <=> Once(hostFile', t)
      BY DEF Once
    <2> QED BY <2>1, <2>2 DEF WrittenOnce
  <1> QED BY <1>9, <1>11

\* The file is complete when both loops are through: what was saved is in
\* the file, and the storage is empty.
LEMMA CloseUnbroken ==
    ASSUME TypeOK, ControlInv, TrailInv, CloseHostFile
    PROVE  CopyInv' /\ BufferedOnce' /\ WrittenOnce' /\ Unbroken'
  <1> DEFINE S == mSavedTraces
  <1>0. ctl \in Control /\ S \in Seq(SavedTraceInfo)
    BY DEF TypeOK
  <1>1. /\ ctl.step = "restPass" /\ ctl.idx > Len(S)
        /\ ctl' = [ctl EXCEPT !.step = "packets", !.idx = 0]
        /\ UNCHANGED <<config, ctx, hostFile>> /\ S' = <<>>
    BY DEF CloseHostFile
  <1>2. /\ ctl'.step = "packets" /\ ctl'.session = ctl.session
        /\ ctl.idx \in Nat /\ Len(S) \in Nat
        /\ ctl'.step \notin Writing
    BY <1>0, <1>1 DEF Control, Writing
  <1>3. InTraces(hostFile) = InTraces(S)
    <2>1. \A j \in 1 .. Len(S) : Copied(j)
      BY <1>1, <1>2 DEF Copied
    <2>2. \A p : p \in InTraces(hostFile) <=>
                   \E j \in 1 .. Len(S) : p \in Elems(S[j].pkts)
      BY <1>1, <2>1 DEF TrailInv, CopyInv, Writing
    <2>3. \A p : p \in InTraces(S) <=> \E j \in 1 .. Len(S) : p \in Elems(S[j].pkts)
      BY DEF InTraces
    <2> QED BY <2>2, <2>3
  <1>4. CopyInv'
    BY <1>2 DEF CopyInv
  <1>5. WrittenOnce'
    BY <1>1 DEF TrailInv, WrittenOnce
  <1>6. InTraces(S') = {} /\ \A t : Once(S', t)
    <2>1. 1 .. Len(S') = {}
      BY <1>1
    <2> QED BY <2>1 DEF InTraces, Once
  <1>7. BufferedOnce'
    BY <1>1, <1>6 DEF TrailInv, BufferedOnce, Mine, Once
  <1>8. ASSUME NEW t \in Threads
        PROVE  (\E lo, mid, hi, top \in Nat :
                  FileReach(t, lo, mid) /\ Reach(t, ctx[t], S, mid, hi, top))'
    <2>1. PICK lo \in Nat, mid \in Nat, hi \in Nat, top \in Nat :
             FileReach(t, lo, mid) /\ Reach(t, ctx[t], S, mid, hi, top)
      BY DEF TrailInv, Unbroken
    <2>2. /\ mid <= hi /\ hi <= top /\ top <= ctx[t].emitted
          /\ Span(InTraces(hostFile), t, mid, hi)
          /\ Span(Elems(ctx[t].mTraceBuffer), t, hi, top)
          /\ Span(Elems(ctx[t].out), t, top, ctx[t].emitted)
      BY <1>3, <2>1 DEF Reach
    <2>3. FileReach(t, mid, hi)'
      <3>1. ctl.session <= 1 => mid = 0
        BY <1>1, <1>0, <2>1 DEF Active, Saving, Control, FileReach
      <3>2. ~(ctl'.session = 0 \/ (ctl'.session = 1 /\ Active'))
        BY <1>1, <1>2 DEF TrailInv, LockInv, Saving, ControlInv, Active
      <3>3. Span(InTraces(hostFile), t, mid, hi)'
        BY <1>1, <2>2 DEF Span, InTraces, Elems
      <3> QED BY <1>2, <2>2, <3>1, <3>2, <3>3 DEF FileReach
    <2>4. Reach(t, ctx[t], S, hi, hi, top)'
      BY <1>6, SpanEmpty, <1>1, <2>2 DEF Reach, Span, InTraces, Elems
    <2> QED BY <2>3, <2>4
  <1>9. Unbroken'
    BY <1>8 DEF Unbroken
  <1> QED BY <1>4, <1>5, <1>7, <1>9

\* Every step keeps each thread's packets unbroken, whether or not the
\* client is quiet when it starts and stops tracing.
LEMMA TrailStep ==
    ASSUME TypeOK, ContextInv, ControlInv, TrailInv, [Next]_vars
    PROVE  TrailInv'
  <1>0. /\ ctl \in Control /\ config \in Config
        /\ LockInv /\ CopyInv /\ BufferedOnce /\ WrittenOnce /\ Unbroken
    BY DEF TypeOK, TrailInv
  <1>1. LockInv'
    BY <1>0, LockStep
  <1>2. ASSUME UNCHANGED hostFile
        PROVE  WrittenOnce'
    BY <1>0, <1>2 DEF WrittenOnce
  <1>3. ASSUME ctl'.step \notin Writing
        PROVE  CopyInv'
    BY <1>3 DEF CopyInv
  <1>4. ASSUME UNCHANGED <<hostFile, mSavedTraces, ctl>>
        PROVE  CopyInv'
    <2>1. CopyInv' <=> CopyInv
      BY <1>4 DEF CopyInv, Copied, InTraces, Elems
    <2> QED BY <1>0, <2>1
  <1>5. ASSUME UNCHANGED hostFile, ctl'.session = ctl.session,
               ctl.step \in Writing => ctl'.step \in Writing,
               Active' => Active, CopyInv', Continues
        PROVE  TrailInv'
    BY <1>0, <1>5, FileReachStays, UnbrokenStays, <1>1, <1>2 DEF TrailInv
  <1>6. ASSUME UNCHANGED ctx
        PROVE  \A u \in Threads : /\ ctx'[u].mTraceBuffer = ctx[u].mTraceBuffer
                                  /\ ctx'[u].out = ctx[u].out
                                  /\ ctx'[u].emitted = ctx[u].emitted
    BY <1>6
  <1>7. ASSUME NEW t \in Threads, InCall(t), ~Crashed
        PROVE  TrailInv'
    <2>1. /\ UNCHANGED <<hostFile, ctl>>
          /\ config'.tracingDisabled = config.tracingDisabled
      BY <1>7, InCallFrame
    <2>2. Active' => Active
      BY <2>1 DEF Active
    <2>3. CopyInv'
      <3>1. CASE ctl.step \in Writing
        <4>1. mContextsLock
          BY <1>0, <3>1 DEF LockInv, Writing
        <4> QED BY <1>4, <1>7, <2>1, <4>1, LockedCall
      <3>2. CASE ctl.step \notin Writing
        BY <1>3, <2>1, <3>2
      <3> QED BY <3>1, <3>2
    <2>4. Continues
      BY <1>0, <1>7, ContinuesCall
    <2> QED BY <1>5, <2>1, <2>2, <2>3, <2>4
  <1>8. ASSUME NEW t \in Threads, StartCall(t)
        PROVE  TrailInv'
    BY <1>8, StartCallFrame, StartFrame, <1>0, ContinuesStays, <1>4, <1>5
    DEF Untouched, Active
  <1>9. ASSUME NEW t \in Threads, SaveContext(t)
        PROVE  TrailInv'
    <2>1. /\ WipedOut(ctx[t], ctx'[t])
          /\ \A u \in Threads \ {t} : ctx'[u] = ctx[u]
          /\ ctl.step = "save" /\ ctl'.step = "save"
          /\ UNCHANGED <<config, hostFile>>
      BY <1>9, SaveFrame
    <2>2. ctl'.session = ctl.session
      BY <1>0, <1>9 DEF SaveContext, Control
    <2>3. Continues
      BY <1>0, <2>1, ContinuesSave DEF WipedOut, Saves
    <2>4. /\ ctl.step \notin Writing /\ ctl'.step \notin Writing
          /\ Active' => Active
      BY <2>1 DEF Writing, Active, Saving
    <2> QED BY <1>3, <1>5, <2>1, <2>2, <2>3, <2>4
  <1>10. CASE OpenHostFile
    <2>1. /\ ctl.step = "save" /\ hostFile' = <<>>
          /\ ctl' = [ctl EXCEPT !.step = "firstPass", !.idx = 1]
          /\ UNCHANGED <<config, ctx, mSavedTraces>>
      BY <1>10 DEF OpenHostFile
    <2>2. /\ ctl'.step = "firstPass" /\ ctl'.idx = 1
          /\ ctl'.session = ctl.session
      BY <1>0, <2>1 DEF Control
    <2>3. CopyInv'
      <3>1. 1 .. Len(hostFile') = {}
        BY <2>1
      <3>2. \A p : ~(p \in InTraces(hostFile))'
        BY <3>1 DEF InTraces
      <3>3. \A j \in 1 .. Len(mSavedTraces') : ~Copied(j)'
        BY <2>1, <1>0, <2>2 DEF TypeOK, Copied
      <3> QED BY <3>2, <3>3 DEF CopyInv
    <2>4. WrittenOnce'
      BY <2>1 DEF WrittenOnce, Once
    <2>5. \A t \in Threads : \A lo, mid \in Nat :
             FileReach(t, lo, mid) => FileReach(t, lo, mid)'
      BY <2>1, <2>2 DEF Active, Saving, Writing, FileReach
    <2>6. Continues
      BY <1>0, <1>6, <2>1, ContinuesStays
    <2>7. BufferedOnce' /\ Unbroken'
      BY <1>0, <2>5, <2>6, UnbrokenStays
    <2> QED BY <1>1, <2>3, <2>4, <2>7 DEF TrailInv
  <1>11. CASE WriteSavedTrace
    <2>1. /\ ctl.step \in Writing /\ ctl' = [ctl EXCEPT !.idx = @ + 1]
          /\ UNCHANGED <<config, ctx, mSavedTraces>>
      BY <1>11 DEF WriteSavedTrace, Writing
    <2>2. ctl'.step = ctl.step /\ ctl'.session = ctl.session
      BY <1>0, <2>1 DEF Control
    <2>3. CopyInv' /\ WrittenOnce'
      BY <1>0, <1>11, WriteOnce
    <2>4. \A t \in Threads : \A lo, mid \in Nat :
             FileReach(t, lo, mid) => FileReach(t, lo, mid)'
      BY <2>1, <2>2 DEF Active, FileReach
    <2>5. Continues
      BY <1>0, <1>6, <2>1, ContinuesStays
    <2>6. BufferedOnce' /\ Unbroken'
      BY <1>0, <2>4, <2>5, UnbrokenStays
    <2> QED BY <1>1, <2>3, <2>6 DEF TrailInv
  <1>12. CASE SecondPass
    <2>1. /\ ctl.step = "firstPass" /\ ctl.idx > Len(mSavedTraces)
          /\ ctl' = [ctl EXCEPT !.step = "restPass", !.idx = 1]
          /\ UNCHANGED <<config, ctx, mSavedTraces, hostFile>>
      BY <1>12 DEF SecondPass, storage
    <2>2. /\ ctl'.step = "restPass" /\ ctl'.idx = 1 /\ ctl.idx \in Nat
          /\ ctl'.session = ctl.session /\ Len(mSavedTraces) \in Nat
      BY <1>0, <2>1 DEF Control, TypeOK
    <2>3. CopyInv'
      <3>1. \A j \in 1 .. Len(mSavedTraces) : j < ctl.idx /\ ~(j < 1)
        BY <2>1, <2>2
      <3>2. \A j \in 1 .. Len(mSavedTraces) : Copied(j)' <=> Copied(j)
        BY <2>1, <2>2, <3>1 DEF Copied
      <3>3. \A p : p \in InTraces(hostFile) <=>
               \E j \in 1 .. Len(mSavedTraces) :
                  Copied(j) /\ p \in Elems(mSavedTraces[j].pkts)
        BY <1>0, <2>1 DEF CopyInv, Writing
      <3>4. \A p : (p \in InTraces(hostFile))' <=> p \in InTraces(hostFile)
        BY <2>1 DEF InTraces, Elems
      <3>5. \A j \in 1 .. Len(mSavedTraces) :
               Elems(mSavedTraces[j].pkts)' = Elems(mSavedTraces[j].pkts)
        BY <2>1 DEF Elems
      <3> QED BY <2>1, <3>2, <3>3, <3>4, <3>5 DEF CopyInv
    <2>4. ctl'.step \in Writing /\ (Active' => Active)
      BY <2>1, <2>2 DEF Active, Saving, Writing
    <2>5. Continues
      BY <1>0, <1>6, <2>1, ContinuesStays
    <2> QED BY <1>5, <2>1, <2>2, <2>3, <2>4, <2>5
  <1>13. CASE CloseHostFile
    BY <1>1, <1>13, CloseUnbroken DEF TrailInv
  <1>14. CASE LockContexts \/ ResetCounters \/ FinishDisable \/ StartControl
              \/ UNCHANGED vars
    <2>1. UNCHANGED <<ctx, mSavedTraces, hostFile>>
      BY <1>14
      DEF LockContexts, ResetCounters, FinishDisable, StartControl,
          SetGuestTime, EnableTracing, DisableTracing, vars, storage
    <2>2. Continues
      BY <1>0, <1>6, <2>1, ContinuesStays
    <2>3. CASE UNCHANGED vars
      BY <2>3, <1>4, <1>5, <2>1, <2>2 DEF vars, Active
    <2>4. ASSUME ctl.step \notin Writing, ctl'.step \notin Writing,
                 ctl'.session = ctl.session, Active' => Active
          PROVE  TrailInv'
      BY <1>3, <1>5, <2>1, <2>2, <2>4
    <2>5. CASE LockContexts
      BY <1>0, <2>5, <2>4 DEF LockContexts, Control, Active, Saving, Writing
    <2>6. CASE ResetCounters
      BY <1>0, <2>6, <2>4
      DEF ResetCounters, Control, Config, Saving, Active, Writing
    <2>7. CASE FinishDisable
      BY <1>0, <2>7, <2>4
      DEF FinishDisable, Control, Config, Active, Saving, Writing
    <2>8. CASE StartControl
      <3>1. ctl.step = "none" /\ ctl'.session = ctl.session
        BY <1>0, <2>8
        DEF StartControl, SetGuestTime, EnableTracing, DisableTracing,
            Control, ControlInv
      <3>2. CASE DisableTracing
        BY <1>0, <3>2, <2>4, <3>1
        DEF DisableTracing, Config, Control, Active, Saving, Writing
      <3>3. CASE EnableTracing
        BY <1>0, <3>3, <2>4, <3>1
        DEF EnableTracing, Control, Active, Saving, Writing
      <3>4. ASSUME NEW d \in GuestDiffs, SetGuestTime(d)
            PROVE  TrailInv'
        BY <1>0, <3>4, <2>4, <3>1
        DEF SetGuestTime, Config, Active, Saving, Writing
      <3> QED BY <2>8, <3>2, <3>3, <3>4 DEF StartControl
    <2> QED BY <1>14, <2>3, <2>5, <2>6, <2>7, <2>8
  <1>15. CASE FinishEnable
    <2>1. /\ ctl.step = "last" /\ ctl'.step = "none"
          /\ ctl'.session = ctl.session + 1 /\ ctl.session \in Nat
          /\ UNCHANGED <<ctx, mSavedTraces, hostFile>>
      BY <1>0, <1>15 DEF FinishEnable, Control, storage
    <2>2. \A t \in Threads : \A lo, mid \in Nat :
             FileReach(t, lo, mid) => FileReach(t, lo, mid)'
      <3> SUFFICES ASSUME NEW t \in Threads, NEW lo \in Nat, NEW mid \in Nat,
                          FileReach(t, lo, mid)
                   PROVE  FileReach(t, lo, mid)'
        OBVIOUS
      <3>1. /\ ctl'.session <= 1 => ctl.session = 0 /\ ctl.session <= 1
            /\ ctl'.session # 0 /\ (ctl'.session = 1 => ctl.session = 0)
        BY <2>1
      <3>2. Span(InTraces(hostFile), t, lo, mid)
        BY <2>1 DEF FileReach, Writing
      <3>3. Span(InTraces(hostFile), t, lo, mid)'
        <4>1. Span(InTraces(hostFile), t, lo, mid)' <=>
                 Span(InTraces(hostFile), t, lo, mid)
          BY <2>1 DEF Span, InTraces, Elems
        <4> QED BY <3>2, <4>1
      <3>4. /\ ctl.session = 0 => lo = 0 /\ mid = 0
            /\ lo <= mid
        BY <3>1 DEF FileReach
      <3> QED BY <3>1, <3>3, <3>4 DEF FileReach
    <2>3. Continues
      BY <1>0, <1>6, <2>1, ContinuesStays
    <2>4. BufferedOnce' /\ Unbroken'
      BY <1>0, <2>2, <2>3, UnbrokenStays
    <2>5. CopyInv' /\ WrittenOnce'
      BY <1>2, <1>3, <2>1 DEF Writing
    <2> QED BY <1>1, <2>4, <2>5 DEF TrailInv
  <1> QED BY <1>7, <1>8, <1>9, <1>10, <1>11, <1>12, <1>13, <1>14, <1>15
          DEF Next, InControl

\* Nothing is written yet.
LEMMA TrailInit == Init => TrailInv /\ FitInv
  <1> SUFFICES ASSUME Init PROVE TrailInv /\ FitInv
    OBVIOUS
  <1>1. /\ \A t \in Threads : /\ ctx[t].mTraceBuffer = <<>>
                              /\ ctx[t].out = <<>> /\ ctx[t].emitted = 0
        /\ mSavedTraces = <<>> /\ hostFile = <<>> /\ ctl.step = "none"
        /\ config.tracingDisabled
    BY DEF Init, NewContext
  <1>2. LockInv /\ CopyInv
    BY <1>1 DEF LockInv, CopyInv, Writing, Saving
  <1>3. 1 .. Len(mSavedTraces) = {} /\ 1 .. Len(hostFile) = {}
    BY <1>1
  <1>4. \A t : Once(mSavedTraces, t) /\ Once(hostFile, t)
    BY <1>3 DEF Once
  <1>5. InTraces(mSavedTraces) = {} /\ InTraces(hostFile) = {}
    BY <1>3 DEF InTraces
  <1>6. \A t \in Threads : Mine(t, ctx[t])
    BY <1>1, ElemsFacts, ApartFacts DEF Mine
  <1>7. ASSUME NEW t \in Threads
        PROVE  FileReach(t, 0, 0) /\ Reach(t, ctx[t], mSavedTraces, 0, 0, 0)
    <2>1. Span({}, t, 0, 0) /\ 0 <= 0
      BY SpanEmpty
    <2>2. Elems(ctx[t].mTraceBuffer) = {} /\ Elems(ctx[t].out) = {}
      BY <1>1, ElemsFacts
    <2> QED BY <1>1, <1>5, <2>1, <2>2 DEF FileReach, Reach
  <1>8. Unbroken
    <2>1. 0 \in Nat
      OBVIOUS
    <2> QED BY <1>7, <2>1 DEF Unbroken
  <1>9. FitInv
    BY <1>1, ConstantsAssumption DEF FitInv
  <1> QED BY <1>2, <1>4, <1>6, <1>8, <1>9
          DEF TrailInv, BufferedOnce, WrittenOnce

\* Traces one after the other.
LEMMA InTracesConcat ==
    ASSUME NEW A \in Seq(SavedTraceInfo), NEW B \in Seq(SavedTraceInfo), NEW t
    PROVE  /\ A \o B \in Seq(SavedTraceInfo)
           /\ InTraces(A \o B) = InTraces(A) \union InTraces(B)
           /\ /\ Once(A, t) /\ Once(B, t)
              /\ \A p \in InTraces(A), q \in InTraces(B) :
                    p.by = t /\ q.by = t => p.n # q.n
              => Once(A \o B, t)
           /\ /\ \A k \in 1 .. Len(A) : Len(A[k].pkts) <= BufCapacity
              /\ \A k \in 1 .. Len(B) : Len(B[k].pkts) <= BufCapacity
              => \A k \in 1 .. Len(A \o B) : Len((A \o B)[k].pkts) <= BufCapacity
  <1> DEFINE Z == A \o B
             m == Len(A)
             n == Len(B)
  <1>1. /\ Z \in Seq(SavedTraceInfo) /\ m \in Nat /\ n \in Nat
        /\ Len(Z) = m + n
        /\ \A i \in 1 .. m : Z[i] = A[i]
        /\ \A i \in 1 .. m + n : i > m => Z[i] = B[i - m]
    OBVIOUS
  <1> HIDE DEF Z
  <1>2. /\ \A i \in 1 .. m : i \in 1 .. m + n
        /\ \A i \in 1 .. n : m + i \in 1 .. m + n /\ m + i > m /\ (m + i) - m = i
        /\ \A i \in 1 .. m + n : i \in 1 .. m \/ (i > m /\ i - m \in 1 .. n)
    BY <1>1
  <1> HIDE DEF m, n
  <1>3. \A i \in 1 .. m + n : \/ i \in 1 .. m /\ Z[i] = A[i]
                              \/ i > m /\ i - m \in 1 .. n /\ Z[i] = B[i - m]
    BY <1>1, <1>2
  <1>4. InTraces(Z) = InTraces(A) \union InTraces(B)
    <2>1. ASSUME NEW p \in InTraces(Z) PROVE p \in InTraces(A) \union InTraces(B)
      <3>1. PICK i \in 1 .. m + n : p \in Elems(Z[i].pkts)
        BY <1>1, <2>1 DEF InTraces
      <3> QED BY <1>3, <3>1 DEF InTraces, m, n
    <2>2. ASSUME NEW p \in InTraces(A) PROVE p \in InTraces(Z)
      <3>1. PICK i \in 1 .. m : p \in Elems(A[i].pkts)
        BY <2>2 DEF InTraces, m
      <3>2. i \in 1 .. Len(Z) /\ Z[i] = A[i]
        BY <1>1, <1>2
      <3> QED BY <3>1, <3>2 DEF InTraces
    <2>3. ASSUME NEW p \in InTraces(B) PROVE p \in InTraces(Z)
      <3>1. PICK i \in 1 .. n : p \in Elems(B[i].pkts)
        BY <2>3 DEF InTraces, n
      <3>2. m + i \in 1 .. Len(Z) /\ Z[m + i] = B[i]
        BY <1>1, <1>2
      <3> QED BY <3>1, <3>2 DEF InTraces
    <2> QED BY <2>1, <2>2, <2>3
  <1>5. ASSUME Once(A, t), Once(B, t),
               \A p \in InTraces(A), q \in InTraces(B) :
                  p.by = t /\ q.by = t => p.n # q.n
        PROVE  Once(Z, t)
    <2> SUFFICES ASSUME NEW i \in 1 .. Len(Z), NEW j \in 1 .. Len(Z),
                        NEW a \in 1 .. Len(Z[i].pkts),
                        NEW b \in 1 .. Len(Z[j].pkts),
                        Z[i].pkts[a].by = t, Z[j].pkts[b].by = t,
                        Z[i].pkts[a].n = Z[j].pkts[b].n
                 PROVE  i = j /\ a = b
      BY DEF Once
    <2>0. i \in 1 .. m + n /\ j \in 1 .. m + n
      BY <1>1
    <2>1. /\ Z[i].pkts[a] \in Elems(Z[i].pkts)
          /\ Z[j].pkts[b] \in Elems(Z[j].pkts)
      BY DEF Elems
    <2>2. CASE i \in 1 .. m /\ j \in 1 .. m
      <3>1. Z[i] = A[i] /\ Z[j] = A[j]
        BY <1>1, <2>2
      <3>2. /\ a \in 1 .. Len(A[i].pkts) /\ b \in 1 .. Len(A[j].pkts)
            /\ A[i].pkts[a].by = t /\ A[j].pkts[b].by = t
            /\ A[i].pkts[a].n = A[j].pkts[b].n
        BY <3>1
      <3> QED BY <1>5, <2>2, <3>2 DEF Once, m
    <2>3. CASE /\ i > m /\ i - m \in 1 .. n /\ Z[i] = B[i - m]
               /\ j > m /\ j - m \in 1 .. n /\ Z[j] = B[j - m]
      <3>1. /\ a \in 1 .. Len(B[i - m].pkts) /\ b \in 1 .. Len(B[j - m].pkts)
            /\ B[i - m].pkts[a].by = t /\ B[j - m].pkts[b].by = t
            /\ B[i - m].pkts[a].n = B[j - m].pkts[b].n
        BY <2>3
      <3>2. i - m = j - m /\ a = b
        BY <1>5, <2>3, <3>1, SMTT(30) DEF Once, n
      <3> QED BY <1>1, <3>2
    <2>4. CASE i \in 1 .. m /\ j - m \in 1 .. n /\ Z[j] = B[j - m]
      BY <1>1, <2>1, <2>4, <1>5 DEF InTraces, m, n
    <2>5. CASE j \in 1 .. m /\ i - m \in 1 .. n /\ Z[i] = B[i - m]
      BY <1>1, <2>1, <2>5, <1>5 DEF InTraces, m, n
    <2> QED BY <1>3, <2>0, <2>2, <2>3, <2>4, <2>5
  <1>6. ASSUME \A k \in 1 .. m : Len(A[k].pkts) <= BufCapacity,
               \A k \in 1 .. n : Len(B[k].pkts) <= BufCapacity
        PROVE  \A k \in 1 .. Len(Z) : Len(Z[k].pkts) <= BufCapacity
    BY <1>1, <1>3, <1>6
  <1> QED BY <1>1, <1>4, <1>5, <1>6 DEF Z, m, n

\* The packets of a thread whose numbers are lo + 1 to hi, each once, are
\* hi - lo many.
LEMMA Counting ==
    ASSUME NEW file \in Seq(SavedTraceInfo), NEW t, Once(file, t),
           NEW lo \in Nat, NEW hi \in Nat, lo <= hi,
           Span(InTraces(file), t, lo, hi),
           \A k \in 1 .. Len(file) : Len(file[k].pkts) <= BufCapacity
    PROVE  LET P == {p \in Places(file) : At(file, p).by = t}
           IN  /\ {At(file, p).n : p \in P} = (lo + 1) .. hi
               /\ Cardinality(P) = hi - lo
  <1> DEFINE P == {p \in Places(file) : At(file, p).by = t}
             T == (lo + 1) .. hi
             f == [p \in P |-> At(file, p).n]
  <1>0. \A k \in 1 .. Len(file) : /\ file[k].pkts \in Seq(Packet)
                                  /\ Len(file[k].pkts) \in Nat
    <2>1. \A k \in 1 .. Len(file) : file[k] \in SavedTraceInfo
      OBVIOUS
    <2> QED BY <2>1 DEF SavedTraceInfo
  <1>1. ASSUME NEW p \in P
        PROVE  /\ p[1] \in 1 .. Len(file) /\ p[2] \in 1 .. Len(file[p[1]].pkts)
               /\ p = <<p[1], p[2]>> /\ At(file, p).by = t
               /\ At(file, p) = file[p[1]].pkts[p[2]]
               /\ At(file, p) \in InTraces(file)
               /\ At(file, p).n \in Nat
    <2>1. /\ p \in (1 .. Len(file)) \X (1 .. BufCapacity)
          /\ p[2] <= Len(file[p[1]].pkts) /\ At(file, p).by = t
      BY <1>1 DEF Places
    <2>2. p[1] \in 1 .. Len(file) /\ p[2] \in 1 .. BufCapacity
          /\ p = <<p[1], p[2]>>
      BY <2>1
    <2>3. p[2] \in 1 .. Len(file[p[1]].pkts)
      BY <1>0, <2>1, <2>2, ConstantsAssumption
    <2>4. /\ At(file, p) = file[p[1]].pkts[p[2]]
          /\ At(file, p) \in Elems(file[p[1]].pkts)
          /\ At(file, p) \in Packet
      BY <1>0, <2>2, <2>3 DEF At, Elems
    <2>5. At(file, p) \in InTraces(file)
      BY <2>2, <2>4 DEF InTraces
    <2>6. At(file, p).n \in Nat
      BY <2>4 DEF Packet
    <2> QED BY <2>1, <2>2, <2>3, <2>4, <2>5, <2>6
  <1>2. \A p \in P : At(file, p).n \in T
    <2> SUFFICES ASSUME NEW p \in P PROVE At(file, p).n \in T
      OBVIOUS
    <2>1. lo < At(file, p).n /\ At(file, p).n <= hi /\ At(file, p).n \in Nat
      BY <1>1 DEF Span
    <2> QED BY <2>1
  <1>3. \A n \in T : \E p \in P : At(file, p).n = n
    <2> SUFFICES ASSUME NEW n \in T PROVE \E p \in P : At(file, p).n = n
      OBVIOUS
    <2>1. n \in Nat /\ lo < n /\ n <= hi
      OBVIOUS
    <2>2. PICK e \in InTraces(file) : e.by = t /\ e.n = n
      BY <2>1 DEF Span
    <2>3. PICK k \in 1 .. Len(file) : e \in Elems(file[k].pkts)
      BY DEF InTraces
    <2>4. PICK i \in 1 .. Len(file[k].pkts) : e = file[k].pkts[i]
      BY <2>3 DEF Elems
    <2>5. i \in 1 .. BufCapacity /\ i <= Len(file[k].pkts)
      BY <1>0, <2>4, ConstantsAssumption
    <2>6. <<k, i>> \in Places(file) /\ At(file, <<k, i>>) = e
      BY <2>4, <2>5 DEF Places, At
    <2> QED BY <2>2, <2>6
  <1>4. \A p, q \in P : At(file, p).n = At(file, q).n => p = q
    <2> SUFFICES ASSUME NEW p \in P, NEW q \in P,
                        At(file, p).n = At(file, q).n
                 PROVE  p = q
      OBVIOUS
    <2>1. p[1] = q[1] /\ p[2] = q[2]
      BY <1>1 DEF Once
    <2> QED BY <1>1, <2>1
  <1>5. {At(file, p).n : p \in P} = T
    BY <1>2, <1>3
  <1>6. Cardinality(P) = hi - lo
    <2> HIDE DEF P
    <2>1. f \in [P -> T]
      BY <1>2
    <2>2. f \in Injection(P, T)
      <3>1. \A p \in P : f[p] = At(file, p).n
        OBVIOUS
      <3> HIDE DEF f
      <3>2. \A p, q \in P : f[p] = f[q] => p = q
        BY <1>4, <3>1
      <3> QED BY <2>1, <3>2 DEF Injection, IsInjective
    <2>3. f \in Surjection(P, T)
      BY <1>3, <2>1 DEF Surjection
    <2>4. IsFiniteSet(T) /\ Cardinality(T) = hi - lo
      <3>1. /\ IsFiniteSet(T)
            /\ Cardinality(T) = IF lo + 1 > hi THEN 0 ELSE hi - (lo + 1) + 1
        BY FS_Interval
      <3> QED BY <3>1
    <2> HIDE DEF f, T
    <2>5. Cardinality(P) = Cardinality(T)
      BY <2>2, <2>3, <2>4, FS_Injection
    <2> QED BY <2>4, <2>5
  <1> QED BY <1>5, <1>6

\* The packets of thread t in the file, in the storage, in its buffer and
\* waiting are one stretch of numbers up to the last it emitted, each once.
LEMMA TrailCounted ==
    ASSUME TypeOK, FitInv, TrailInv, ctl.step \notin Writing,
           NEW t \in Threads
    PROVE  LET tr == Trail(t)
               ns == {At(tr.file, p).n : p \in tr.places}
               k  == Cardinality(tr.places)
           IN  /\ ns = (ctx[t].emitted - k + 1) .. ctx[t].emitted
               /\ ctl.session <= 1 => k = ctx[t].emitted
  <1> DEFINE F == hostFile
             S == mSavedTraces
             b == ctx[t].mTraceBuffer
             o == ctx[t].out
             e == ctx[t].emitted
             B == [first |-> FALSE, pkts |-> b]
             O == [first |-> FALSE, pkts |-> o]
             R == <<B, O>>
             All == F \o S \o R
  <1>1. /\ F \in Seq(SavedTraceInfo) /\ S \in Seq(SavedTraceInfo)
        /\ b \in Seq(Packet) /\ o \in Seq(Packet) /\ e \in Nat
    BY DEF TypeOK, Context
  <1>2. PICK lo \in Nat, mid \in Nat, hi \in Nat, top \in Nat :
           FileReach(t, lo, mid) /\ Reach(t, ctx[t], S, mid, hi, top)
    BY DEF TrailInv, Unbroken
  <1>3. /\ lo <= mid /\ mid <= hi /\ hi <= top /\ top <= e
        /\ Span(InTraces(F), t, lo, mid) /\ Span(InTraces(S), t, mid, hi)
        /\ Span(Elems(b), t, hi, top) /\ Span(Elems(o), t, top, e)
        /\ ctl.session <= 1 => lo = 0
    BY <1>2 DEF FileReach, Reach
  <1>4. Once(F, t) /\ Once(S, t) /\ Apart(b) /\ Apart(o)
    BY DEF TrailInv, BufferedOnce, WrittenOnce, Mine
  <1>5. /\ \A k \in 1 .. Len(F) : Len(F[k].pkts) <= BufCapacity
        /\ \A k \in 1 .. Len(S) : Len(S[k].pkts) <= BufCapacity
        /\ Len(b) <= BufCapacity /\ Len(o) <= BufCapacity
    BY <1>1, ConstantsAssumption DEF FitInv
  <1>6. /\ Elems(b) \in SUBSET Packet /\ Elems(o) \in SUBSET Packet
        /\ InTraces(S) \in SUBSET Packet
    <2>1. \A j \in 1 .. Len(S) : S[j] \in SavedTraceInfo
      BY <1>1
    <2>2. \A j \in 1 .. Len(S) : S[j].pkts \in Seq(Packet)
      BY <2>1 DEF SavedTraceInfo
    <2>3. \A s \in Seq(Packet) : Elems(s) \in SUBSET Packet
      BY DEF Elems
    <2> QED BY <1>1, <2>2, <2>3 DEF InTraces
  <1>7. /\ R \in Seq(SavedTraceInfo)
        /\ InTraces(R) = Elems(b) \union Elems(o)
        /\ Once(R, t)
        /\ \A k \in 1 .. Len(R) : Len(R[k].pkts) <= BufCapacity
    <2>1. B \in SavedTraceInfo /\ O \in SavedTraceInfo /\ B.pkts = b /\ O.pkts = o
      BY <1>1 DEF SavedTraceInfo
    <2> HIDE DEF B, O, b, o
    <2>2. /\ R \in Seq(SavedTraceInfo) /\ Len(R) = 2 /\ R[1] = B /\ R[2] = O
      BY <2>1
    <2> HIDE DEF R
    <2>3. 1 .. Len(R) = {1, 2}
      BY <2>2
    <2>4. InTraces(R) = Elems(b) \union Elems(o)
      BY <2>1, <2>2, <2>3 DEF InTraces
    <2>5. ASSUME NEW p \in Elems(b), NEW q \in Elems(o), p.by = t, q.by = t
          PROVE  p.n # q.n
      BY <1>1, <1>3, <1>6, <2>5, SpanApart
    <2>6. Once(R, t)
      <3>1. \A x \in 1 .. Len(b), y \in 1 .. Len(o) :
               b[x].by = t /\ o[y].by = t => b[x].n # o[y].n
        BY <2>5 DEF Elems
      <3>2. ASSUME NEW i \in 1 .. Len(R), NEW j \in 1 .. Len(R),
                   NEW x \in 1 .. Len(R[i].pkts), NEW y \in 1 .. Len(R[j].pkts),
                   R[i].pkts[x].by = t, R[j].pkts[y].by = t,
                   R[i].pkts[x].n = R[j].pkts[y].n
            PROVE  i = j /\ x = y
        <4>0. i \in {1, 2} /\ j \in {1, 2}
          BY <2>3
        <4>1. CASE i = 1 /\ j = 1
          BY <1>4, <2>1, <2>2, <3>2, <4>1 DEF Apart
        <4>2. CASE i = 2 /\ j = 2
          BY <1>4, <2>1, <2>2, <3>2, <4>2 DEF Apart
        <4>3. CASE i = 1 /\ j = 2
          BY <2>1, <2>2, <3>1, <3>2, <4>3
        <4>4. CASE i = 2 /\ j = 1
          BY <2>1, <2>2, <3>1, <3>2, <4>4
        <4> QED BY <4>0, <4>1, <4>2, <4>3, <4>4
      <3> QED BY <3>2 DEF Once
    <2> QED BY <1>5, <2>1, <2>2, <2>3, <2>4, <2>6
  <1> HIDE DEF R, B, O
  <1>8. Span(InTraces(R), t, hi, e)
    <2>1. Span(Elems(b) \union Elems(o), t, hi, e)
      <3> HIDE DEF b, o, e
      <3> QED BY <1>1, <1>3, SpanJoin
    <2> QED BY <1>7, <2>1
  <1>9. hi <= e /\ mid <= e /\ lo <= e /\ lo <= hi
    BY <1>1, <1>3
  <1>10. InTraces(R) \in SUBSET Packet
    BY <1>6, <1>7
  <1>11. /\ F \o S \in Seq(SavedTraceInfo)
         /\ Span(InTraces(F \o S), t, lo, hi) /\ Once(F \o S, t)
         /\ \A k \in 1 .. Len(F \o S) : Len((F \o S)[k].pkts) <= BufCapacity
    <2>1. \A p \in InTraces(F), q \in InTraces(S) :
             p.by = t /\ q.by = t => p.n # q.n
      BY <1>3, <1>6, SpanApart
    <2>2. /\ F \o S \in Seq(SavedTraceInfo)
          /\ InTraces(F \o S) = InTraces(F) \union InTraces(S)
          /\ Once(F \o S, t)
          /\ \A k \in 1 .. Len(F \o S) : Len((F \o S)[k].pkts) <= BufCapacity
      BY <1>1, <1>4, <1>5, <2>1, InTracesConcat
    <2>3. Span(InTraces(F) \union InTraces(S), t, lo, hi)
      BY <1>3, SpanJoin
    <2> QED BY <2>2, <2>3
  <1>12. /\ All \in Seq(SavedTraceInfo)
         /\ Span(InTraces(All), t, lo, e) /\ Once(All, t)
         /\ \A k \in 1 .. Len(All) : Len(All[k].pkts) <= BufCapacity
    <2> DEFINE G == F \o S
    <2>0. /\ G \in Seq(SavedTraceInfo) /\ Span(InTraces(G), t, lo, hi)
          /\ Once(G, t) /\ \A k \in 1 .. Len(G) : Len(G[k].pkts) <= BufCapacity
          /\ All = G \o R
      BY <1>11
    <2> HIDE DEF G, All
    <2>1. \A p \in InTraces(G), q \in InTraces(R) :
             p.by = t /\ q.by = t => p.n # q.n
      BY <1>1, <1>8, <1>10, <2>0, SpanApart
    <2>2. /\ G \o R \in Seq(SavedTraceInfo)
          /\ InTraces(G \o R) = InTraces(G) \union InTraces(R)
          /\ Once(G \o R, t)
          /\ \A k \in 1 .. Len(G \o R) : Len((G \o R)[k].pkts) <= BufCapacity
      BY <1>7, <2>0, <2>1, InTracesConcat
    <2>3. Span(InTraces(G) \union InTraces(R), t, lo, e)
      BY <1>1, <1>8, <1>9, <2>0, SpanJoin
    <2> QED BY <2>0, <2>2, <2>3
  <1> DEFINE P == {p \in Places(All) : At(All, p).by = t}
  <1>13. Trail(t).file = All /\ Trail(t).places = P
    BY DEF Trail, Writing, R, B, O
  <1> HIDE DEF All
  <1>14. {At(All, p).n : p \in P} = (lo + 1) .. e /\ Cardinality(P) = e - lo
    BY <1>1, <1>9, <1>12, Counting
  <1> HIDE DEF P, e
  <1>15. e - (e - lo) + 1 = lo + 1 /\ (lo = 0 => e - lo = e)
    BY <1>1
  <1>16. /\ {At(Trail(t).file, p).n : p \in Trail(t).places}
               = (e - Cardinality(Trail(t).places) + 1) .. e
         /\ ctl.session <= 1 => Cardinality(Trail(t).places) = e
    BY <1>3, <1>13, <1>14, <1>15
  <1> QED BY <1>16 DEF e

\* Whatever calls, exits, refreshes and saves interleave, the packets of a
\* thread that are still present are consecutive up to the last one emitted,
\* none twice, and they are all there until a second session overwrites the
\* file.  Nothing is assumed of when the client starts and stops tracing.
THEOREM LosslessKept == Spec => []Lossless
  <1>1. TypeOK /\ FitInv /\ TrailInv => Lossless
    BY TrailCounted DEF Lossless, Writing
  <1>2. Init => TypeOK /\ ContextInv /\ ControlInv /\ TrailInv /\ FitInv
    BY InitOK, InitSession, TrailInit
  <1>3. TypeOK /\ ContextInv /\ ControlInv /\ TrailInv /\ FitInv /\ [Next]_vars
           => ControlInv' /\ TrailInv' /\ FitInv'
    BY ControlStep, TrailStep, FitStep
  <1>4. Spec => [](TypeOK /\ ContextInv)
    BY TypesAndContexts
  <1> QED BY <1>1, <1>2, <1>3, <1>4, PTL DEF Spec

-----------------------------------------------------------------------------
(***************************************************************************)
(* Slices nest                                                             *)
(***************************************************************************)

\* The numbers between a and b of the packets of a kind that thread t has
\* among S, and how many there are.
Between(S, t, kind, a, b) ==
    {n \in (a + 1) .. (b - 1) :
        \E p \in S : p.by = t /\ p.kind = kind /\ p.n = n}
Count(S, t, kind, a, b) == Cardinality(Between(S, t, kind, a, b))

\* Before number m the begin p of thread t is still open, with gap slices
\* open inside it: no end since has closed it.
Opened(S, t, p, m, gap) ==
    /\ p.by = t /\ p.kind = "begin" /\ p.n < m
    /\ Count(S, t, "begin", p.n, m) = Count(S, t, "end", p.n, m) + gap
    /\ \A r \in S : r.by = t /\ r.kind = "end" /\ p.n < r.n /\ r.n < m =>
          Count(S, t, "begin", p.n, r.n) > Count(S, t, "end", p.n, r.n)

\* The slices a thread has open: endTrace pops the depth before it writes,
\* beginTrace pushes after.
Levels(c) ==
    IF Ending(c) \/ (c.op = "begin" /\ c.pc = "unlock")
    THEN c.mStackDepth + 1 ELSE c.mStackDepth

\* The ids on the stack are those of the begins that are open, innermost
\* last.  A full stack may be spoilt by a counter, but is never popped.
Stacked(S, t, c) ==
    c.mStackDepth < StackMax =>
        \A l \in 0 .. Levels(c) - 1 :
            \E p \in S :
                /\ Opened(S, t, p, c.emitted + 1, Levels(c) - 1 - l)
                /\ p.iid = c.mIids[NameSlot(l)]
                /\ p.cat = c.mIids[CatSlot(l)]

\* An end closes the innermost open begin and repeats its ids.
Matched(S, e) ==
    e.kind = "end" =>
        \E p \in S : /\ Opened(S, e.by, p, e.n, 0)
                     /\ p.iid = e.iid
                     /\ p.cat = e.cat

\* Every end closes a slice, of what is held and of what is in the file.
HeldMatched == \A e \in Held : Matched(Held, e)
FileMatched == \A e \in InFile : Matched(InFile, e)
SliceInv ==
    /\ \A t \in Threads : Stacked(Held, t, ctx[t])
    /\ HeldMatched
    /\ FileMatched

\* There are finitely many packets between two.
LEMMA CountFinite ==
    ASSUME NEW S, NEW t, NEW kind, NEW a \in Nat, NEW b \in Nat
    PROVE  /\ IsFiniteSet(Between(S, t, kind, a, b))
           /\ Count(S, t, kind, a, b) \in Nat
  <1>1. IsFiniteSet((a + 1) .. (b - 1))
    BY FS_Interval
  <1>2. Between(S, t, kind, a, b) \subseteq (a + 1) .. (b - 1)
    BY DEF Between
  <1>3. IsFiniteSet(Between(S, t, kind, a, b))
    BY <1>1, <1>2, FS_Subset
  <1> QED BY <1>3, FS_CardinalityType DEF Count

\* Only what thread t wrote before b counts.
LEMMA CountSame ==
    ASSUME NEW S \in SUBSET Packet, NEW K \in SUBSET Packet, NEW t,
           NEW m \in Nat,
           \A r \in Packet : r.by = t /\ r.n < m => (r \in S <=> r \in K),
           NEW kind, NEW a \in Nat, NEW b \in Nat, b <= m
    PROVE  /\ Between(S, t, kind, a, b) = Between(K, t, kind, a, b)
           /\ Count(S, t, kind, a, b) = Count(K, t, kind, a, b)
  <1>1. \A n \in (a + 1) .. (b - 1) : n < m
    OBVIOUS
  <1>2. ASSUME NEW n \in (a + 1) .. (b - 1)
        PROVE  (\E p \in S : p.by = t /\ p.kind = kind /\ p.n = n) <=>
               (\E p \in K : p.by = t /\ p.kind = kind /\ p.n = n)
    <2>1. n < m
      BY <1>1
    <2> QED BY <2>1
  <1>3. Between(S, t, kind, a, b) = Between(K, t, kind, a, b)
    BY <1>2 DEF Between
  <1> QED BY <1>3 DEF Count

\* A begin that is open stays so if the earlier packets stay.
LEMMA OpenedSame ==
    ASSUME NEW S \in SUBSET Packet, NEW K \in SUBSET Packet, NEW t,
           NEW m \in Nat,
           \A r \in Packet : r.by = t /\ r.n < m => (r \in S <=> r \in K),
           NEW p \in Packet, NEW gap, Opened(S, t, p, m, gap)
    PROVE  Opened(K, t, p, m, gap)
  <1>0. p.n \in Nat /\ \A r \in Packet : r.n \in Nat
    BY DEF Packet
  <1>1. \A kind : \A b \in Nat : b <= m =>
           Count(S, t, kind, p.n, b) = Count(K, t, kind, p.n, b)
    BY <1>0, CountSame
  <1>2. \A kind : Count(S, t, kind, p.n, m) = Count(K, t, kind, p.n, m)
    BY <1>1
  <1>3. ASSUME NEW r \in K, r.by = t, r.kind = "end", p.n < r.n, r.n < m
        PROVE  Count(K, t, "begin", p.n, r.n) > Count(K, t, "end", p.n, r.n)
    BY <1>0, <1>3, <1>1 DEF Opened
  <1>4. Count(S, t, "begin", p.n, m) = Count(S, t, "end", p.n, m) + gap
        /\ p.by = t /\ p.kind = "begin" /\ p.n < m
    BY DEF Opened
  <1> QED BY <1>2, <1>3, <1>4 DEF Opened

\* The next packet of the thread counts, if it is of that kind.
LEMMA CountNext ==
    ASSUME NEW S \in SUBSET Packet, NEW x \in Packet, NEW t, NEW m \in Nat,
           x.by = t, x.n = m, \A r \in S : r.by = t => r.n < m,
           NEW kind, NEW a \in Nat, a < m
    PROVE  Count(S \union {x}, t, kind, a, m + 1) =
             IF x.kind = kind THEN Count(S, t, kind, a, m) + 1
             ELSE Count(S, t, kind, a, m)
  <1> DEFINE K == S \union {x}
             A == Between(S, t, kind, a, m)
             B == Between(K, t, kind, a, m + 1)
  <1>0. \A r \in Packet : r.n \in Nat
    BY DEF Packet
  <1>1. \A n : n \in (a + 1) .. (m + 1 - 1) <=> n \in (a + 1) .. (m - 1) \/ n = m
    OBVIOUS
  <1>2. \A n : n \in B <=> n \in A \/ (n = m /\ x.kind = kind)
    <2>1. ASSUME NEW n \in (a + 1) .. (m - 1)
          PROVE  (\E p \in S : p.by = t /\ p.kind = kind /\ p.n = n) <=>
                 (\E p \in K : p.by = t /\ p.kind = kind /\ p.n = n)
      <3>1. n # m
        OBVIOUS
      <3> QED BY <3>1
    <2>2. (\E p \in K : p.by = t /\ p.kind = kind /\ p.n = m) <=> x.kind = kind
      <3>1. ASSUME NEW p \in S, p.by = t PROVE p.n # m
        BY <1>0, <3>1
      <3> QED BY <3>1
    <2>3. m \notin (a + 1) .. (m - 1)
      OBVIOUS
    <2> HIDE DEF K
    <2>4. \A n : n \in A <=> /\ n \in (a + 1) .. (m - 1)
                             /\ \E p \in S : p.by = t /\ p.kind = kind /\ p.n = n
      BY DEF Between
    <2>5. \A n : n \in B <=> /\ n \in (a + 1) .. (m + 1 - 1)
                             /\ \E p \in K : p.by = t /\ p.kind = kind /\ p.n = n
      BY DEF Between
    <2> HIDE DEF A, B
    <2> QED BY <1>1, <2>1, <2>2, <2>3, <2>4, <2>5
  <1>3. IsFiniteSet(A) /\ m \notin A
    <2>1. m \notin A
      BY DEF Between
    <2> QED BY <2>1, CountFinite
  <1>4. CASE x.kind = kind
    <2>1. B = A \union {m}
      <3> HIDE DEF A, B
      <3> QED BY <1>2, <1>4
    <2>2. Cardinality(A \union {m}) = Cardinality(A) + 1
      <3> HIDE DEF A
      <3> QED BY <1>3, FS_AddElement
    <2> QED BY <1>4, <2>1, <2>2 DEF Count
  <1>5. CASE x.kind # kind
    <2>1. B = A
      <3> HIDE DEF A, B
      <3> QED BY <1>2, <1>5
    <2> QED BY <1>5, <2>1 DEF Count
  <1> QED BY <1>4, <1>5

\* The next packet of the thread opens a slice inside, closes one, or does
\* neither.
LEMMA OpenedNext ==
    ASSUME NEW S \in SUBSET Packet, NEW x \in Packet, NEW t, NEW m \in Nat,
           x.by = t, x.n = m, \A r \in S : r.by = t => r.n < m,
           NEW p \in Packet, NEW gap \in Nat, Opened(S, t, p, m, gap)
    PROVE  /\ x.kind = "begin" => Opened(S \union {x}, t, p, m + 1, gap + 1)
           /\ x.kind = "end" /\ gap > 0 =>
                 Opened(S \union {x}, t, p, m + 1, gap - 1)
           /\ x.kind \notin {"begin", "end"} =>
                 Opened(S \union {x}, t, p, m + 1, gap)
  <1> DEFINE K == S \union {x}
             b == Count(S, t, "begin", p.n, m)
             e == Count(S, t, "end", p.n, m)
  <1>0. p.n \in Nat /\ \A r \in Packet : r.n \in Nat
    BY DEF Packet
  <1>1. /\ p.by = t /\ p.kind = "begin" /\ p.n < m
        /\ b = e + gap
        /\ \A r \in S : r.by = t /\ r.kind = "end" /\ p.n < r.n /\ r.n < m =>
              Count(S, t, "begin", p.n, r.n) > Count(S, t, "end", p.n, r.n)
    BY DEF Opened
  <1>2. b \in Nat /\ e \in Nat
    BY <1>0, CountFinite
  <1>3. /\ Count(K, t, "begin", p.n, m + 1) =
             IF x.kind = "begin" THEN b + 1 ELSE b
        /\ Count(K, t, "end", p.n, m + 1) =
             IF x.kind = "end" THEN e + 1 ELSE e
    <2>1. \A kind : Count(S \union {x}, t, kind, p.n, m + 1) =
             IF x.kind = kind THEN Count(S, t, kind, p.n, m) + 1
             ELSE Count(S, t, kind, p.n, m)
      <3> SUFFICES ASSUME NEW kind
                   PROVE  Count(S \union {x}, t, kind, p.n, m + 1) =
                            IF x.kind = kind THEN Count(S, t, kind, p.n, m) + 1
                            ELSE Count(S, t, kind, p.n, m)
        OBVIOUS
      <3> DEFINE a == p.n
      <3>1. a \in Nat /\ a < m
        BY <1>0, <1>1
      <3> HIDE DEF a
      <3>2. Count(S \union {x}, t, kind, a, m + 1) =
              IF x.kind = kind THEN Count(S, t, kind, a, m) + 1
              ELSE Count(S, t, kind, a, m)
        BY <3>1, CountNext
      <3> QED BY <3>2 DEF a
    <2> QED BY <2>1
  <1>4. \A kind : \A c \in Nat : c <= m =>
           Count(S, t, kind, p.n, c) = Count(K, t, kind, p.n, c)
    <2>1. K \in SUBSET Packet
      OBVIOUS
    <2>2. \A r \in Packet : r.by = t /\ r.n < m => (r \in S <=> r \in K)
      BY <1>0
    <2> HIDE DEF K
    <2> QED BY <1>0, <2>1, <2>2, CountSame
  <1>5. ASSUME NEW r \in K, r.by = t, r.kind = "end", p.n < r.n, r.n < m + 1,
               x.kind = "end" => gap > 0
        PROVE  Count(K, t, "begin", p.n, r.n) > Count(K, t, "end", p.n, r.n)
    <2>1. CASE r \in S
      <3>1. r.n \in Nat /\ r.n < m /\ r.n <= m
        BY <1>0, <1>5, <2>1
      <3> QED BY <1>1, <1>4, <1>5, <2>1, <3>1
    <2>2. CASE r = x
      <3>1. b > e
        BY <1>1, <1>2, <1>5, <2>2
      <3> QED BY <1>4, <2>2, <3>1
    <2> QED BY <2>1, <2>2
  <1>6. p.n < m + 1
    BY <1>0, <1>1
  <1> HIDE DEF K, b, e
  <1>7. x.kind = "begin" => Opened(K, t, p, m + 1, gap + 1)
    BY <1>1, <1>2, <1>3, <1>5, <1>6 DEF Opened
  <1>8. x.kind = "end" /\ gap > 0 => Opened(K, t, p, m + 1, gap - 1)
    BY <1>1, <1>2, <1>3, <1>5, <1>6 DEF Opened
  <1>9. x.kind \notin {"begin", "end"} => Opened(K, t, p, m + 1, gap)
    BY <1>1, <1>2, <1>3, <1>5, <1>6 DEF Opened
  <1> QED BY <1>7, <1>8, <1>9 DEF K

\* A begin that has just been written is open, with nothing inside.
LEMMA OpenedNew ==
    ASSUME NEW K \in SUBSET Packet, NEW x \in K, NEW t, NEW m \in Nat,
           x.by = t, x.n = m, x.kind = "begin"
    PROVE  Opened(K, t, x, m + 1, 0)
  <1>1. \A kind : Between(K, t, kind, m, m + 1) = {}
    BY DEF Between
  <1>2. \A kind : Count(K, t, kind, m, m + 1) = 0
    BY <1>1, FS_EmptySet DEF Count
  <1>3. \A r \in K : ~(m < r.n /\ r.n < m + 1)
    BY DEF Packet
  <1> QED BY <1>2, <1>3 DEF Opened


\* A step that writes nothing changes neither the open slices nor their ids.
LEMMA StackedSilent ==
    ASSUME NEW S, NEW t, NEW c \in Context, NEW d \in Context, ContextOK(c),
           c.pc # "oob", d.emitted = c.emitted, Stacked(S, t, c),
           \/ SameMemory(c, d) /\ (MovesOn(c, d) \/ d.pc = c.pc)
           \/ Pops(c, d) \/ Pushes(c, d)
           \/ LooksUpCategory(c, d) \/ LooksUpName(c, d)
    PROVE  Stacked(S, t, d)
  <1>0. /\ c.mStackDepth \in Int /\ StackMax \in Nat \ {0}
        /\ c.mStackDepth \in Depths /\ c.mStackDepth # -1
        /\ c.mIids \in [Slots -> Nat]
    BY ConstantsAssumption DEF Context, Depths, ContextOK
  <1>1. ASSUME Levels(d) = Levels(c), d.mIids = c.mIids,
               d.mStackDepth < StackMax => c.mStackDepth < StackMax
        PROVE  Stacked(S, t, d)
    BY <1>1 DEF Stacked
  <1>2. CASE SameMemory(c, d) /\ (MovesOn(c, d) \/ d.pc = c.pc)
    BY <1>2, <1>1 DEF SameMemory, MovesOn, Levels, Ending
  <1>3. CASE Pops(c, d)
    BY <1>3, <1>0, <1>1 DEF Pops, SameMemory, Context, Levels, Ending
  <1>4. CASE Pushes(c, d)
    BY <1>4, <1>0, <1>1 DEF Pushes, SameMemory, Context, Levels, Ending
  <1>5. ASSUME c.mStackDepth < StackMax, NEW s,
               s \in {CatSlot(c.mStackDepth), NameSlot(c.mStackDepth)},
               NEW iid, d.mIids = [c.mIids EXCEPT ![s] = iid],
               Levels(c) = c.mStackDepth, Levels(d) = c.mStackDepth,
               d.mStackDepth = c.mStackDepth
        PROVE  Stacked(S, t, d)
    <2> SUFFICES ASSUME NEW l \in 0 .. c.mStackDepth - 1
                 PROVE  /\ d.mIids[NameSlot(l)] = c.mIids[NameSlot(l)]
                        /\ d.mIids[CatSlot(l)] = c.mIids[CatSlot(l)]
      BY <1>5 DEF Stacked
    <2>1. /\ NameSlot(l) \in Slots /\ CatSlot(l) \in Slots
          /\ NameSlot(l) # s /\ CatSlot(l) # s
      BY <1>0, <1>5 DEF NameSlot, CatSlot, Slots
    <2> QED BY <1>0, <1>5, <2>1
  <1>6. CASE LooksUpCategory(c, d)
    <2>1. PICK iid \in Pos :
             /\ c.pc = "category" /\ d.pc \in {"threadInfo", "categoryAdd"}
             /\ SameMemory([c EXCEPT !.mEventCategoryIid = iid,
                                     !.mIids[CatSlot(c.mStackDepth)] = iid], d)
      BY <1>6 DEF LooksUpCategory
    <2>2. /\ d.mIids = [c.mIids EXCEPT ![CatSlot(c.mStackDepth)] = iid]
          /\ d.mStackDepth = c.mStackDepth /\ d.op = c.op
      BY <2>1 DEF SameMemory, Context
    <2>3. c.op # "end"
      BY <2>1 DEF ContextOK, Guarded
    <2>4. Levels(c) = c.mStackDepth /\ Levels(d) = c.mStackDepth
      BY <2>1, <2>2, <2>3 DEF Levels, Ending
    <2>5. CASE c.mStackDepth < StackMax
      BY <1>5, <2>2, <2>4, <2>5
    <2>6. CASE ~(c.mStackDepth < StackMax)
      BY <2>2, <2>6 DEF Stacked
    <2> QED BY <2>5, <2>6
  <1>7. CASE LooksUpName(c, d)
    <2>1. PICK iid \in Pos :
             /\ c.pc = "name" /\ d.pc \in {"event", "nameAdd"}
             /\ SameMemory([c EXCEPT !.mEventNameIids[c.arg] = iid,
                                     !.mIids[NameSlot(c.mStackDepth)] = iid], d)
      BY <1>7 DEF LooksUpName
    <2>2. /\ d.mIids = [c.mIids EXCEPT ![NameSlot(c.mStackDepth)] = iid]
          /\ d.mStackDepth = c.mStackDepth /\ d.op = c.op
      BY <2>1 DEF SameMemory, Context
    <2>3. c.op = "begin" /\ c.mStackDepth < StackMax
      BY <2>1 DEF ContextOK, Guarded
    <2>4. Levels(c) = c.mStackDepth /\ Levels(d) = c.mStackDepth
      BY <2>1, <2>2, <2>3 DEF Levels, Ending
    <2> QED BY <1>5, <2>2, <2>3, <2>4
  <1> QED BY <1>2, <1>3, <1>4, <1>6, <1>7

\* A packet that is no begin and no end leaves the open slices alone.
LEMMA StackedDefines ==
    ASSUME NEW S \in SUBSET Packet, NEW x \in Packet, NEW t,
           NEW c \in Context, NEW d \in Context,
           x.by = t, x.n = c.emitted + 1,
           \A r \in S : r.by = t => r.n <= c.emitted,
           d.emitted = c.emitted + 1, Stacked(S, t, c),
           x.kind \notin {"begin", "end"},
           Levels(d) = Levels(c), d.mIids = c.mIids,
           d.mStackDepth = c.mStackDepth
    PROVE  Stacked(S \union {x}, t, d)
  <1> DEFINE m == c.emitted + 1
             K == S \union {x}
  <1> HIDE DEF CatSlot, NameSlot
  <1>0. m \in Nat /\ c.emitted \in Nat /\ \A r \in Packet : r.n \in Nat
    BY DEF Context, Packet
  <1>1. \A r \in S : r.by = t => r.n < m
    BY <1>0
  <1>l. Levels(c) \in Int
    <2>1. c.mStackDepth \in Int
      BY DEF Context, Depths
    <2> QED BY <2>1 DEF Levels
  <1> SUFFICES ASSUME c.mStackDepth < StackMax, NEW l \in 0 .. Levels(c) - 1
               PROVE  \E p \in K : /\ Opened(K, t, p, m + 1, Levels(c) - 1 - l)
                                   /\ p.iid = c.mIids[NameSlot(l)]
                                   /\ p.cat = c.mIids[CatSlot(l)]
    BY DEF Stacked
  <1> DEFINE gap == Levels(c) - 1 - l
  <1>2. gap \in Nat
    BY <1>l
  <1>3. PICK p \in S : /\ Opened(S, t, p, m, gap)
                       /\ p.iid = c.mIids[NameSlot(l)]
                       /\ p.cat = c.mIids[CatSlot(l)]
    BY DEF Stacked
  <1> HIDE DEF m, gap
  <1>4. Opened(K, t, p, m + 1, gap)
    <2>1. x.n = m
      BY DEF m
    <2> QED BY <1>0, <1>1, <1>2, <1>3, <2>1, OpenedNext
  <1> QED BY <1>3, <1>4 DEF gap

\* A begin is the new innermost open slice.
LEMMA StackedBegin ==
    ASSUME NEW S \in SUBSET Packet, NEW x \in Packet, NEW t,
           NEW c \in Context, NEW d \in Context,
           x.by = t, x.n = c.emitted + 1,
           \A r \in S : r.by = t => r.n <= c.emitted,
           d.emitted = c.emitted + 1, Stacked(S, t, c),
           x.kind = "begin", c.mStackDepth < StackMax, c.mStackDepth \in Nat,
           Levels(c) = c.mStackDepth, Levels(d) = c.mStackDepth + 1,
           d.mIids = c.mIids,
           x.cat = c.mIids[CatSlot(c.mStackDepth)],
           x.iid = c.mIids[NameSlot(c.mStackDepth)]
    PROVE  Stacked(S \union {x}, t, d)
  <1> DEFINE m == c.emitted + 1
             K == S \union {x}
             h == c.mStackDepth
  <1> HIDE DEF CatSlot, NameSlot
  <1>0. m \in Nat /\ c.emitted \in Nat /\ \A r \in Packet : r.n \in Nat
    BY DEF Context, Packet
  <1>1. \A r \in S : r.by = t => r.n < m
    BY <1>0
  <1> SUFFICES ASSUME NEW l \in 0 .. h
               PROVE  \E p \in K : /\ Opened(K, t, p, m + 1, h - l)
                                   /\ p.iid = c.mIids[NameSlot(l)]
                                   /\ p.cat = c.mIids[CatSlot(l)]
    <2>1. /\ 0 .. Levels(d) - 1 = 0 .. h
          /\ \A l \in 0 .. h : Levels(d) - 1 - l = h - l
          /\ d.emitted + 1 = m + 1
      OBVIOUS
    <2> HIDE DEF m, h
    <2> QED BY <2>1 DEF Stacked
  <1>2. CASE l = h
    <2>1. Opened(K, t, x, m + 1, 0)
      <3>1. x.n = m /\ K \in SUBSET Packet /\ x \in K
        OBVIOUS
      <3> HIDE DEF m, K
      <3> QED BY <1>0, <3>1, OpenedNew
    <2>2. h - l = 0
      BY <1>2
    <2> HIDE DEF m
    <2> QED BY <1>2, <2>1, <2>2
  <1>3. CASE l # h
    <2> DEFINE gap == h - 1 - l
    <2>1. gap \in Nat /\ l \in 0 .. h - 1 /\ gap + 1 = h - l
      BY <1>3
    <2>2. PICK p \in S : /\ Opened(S, t, p, m, gap)
                         /\ p.iid = c.mIids[NameSlot(l)]
                         /\ p.cat = c.mIids[CatSlot(l)]
      BY <2>1 DEF Stacked
    <2> HIDE DEF m, gap
    <2>3. Opened(K, t, p, m + 1, gap + 1)
      <3>1. x.n = m
        BY DEF m
      <3> QED BY <1>0, <1>1, <2>1, <2>2, <3>1, OpenedNext
    <2> QED BY <2>1, <2>2, <2>3
  <1> QED BY <1>2, <1>3

\* An end closes the innermost open slice.
LEMMA StackedEnd ==
    ASSUME NEW S \in SUBSET Packet, NEW x \in Packet, NEW t,
           NEW c \in Context, NEW d \in Context,
           x.by = t, x.n = c.emitted + 1,
           \A r \in S : r.by = t => r.n <= c.emitted,
           d.emitted = c.emitted + 1, Stacked(S, t, c),
           x.kind = "end", c.mStackDepth < StackMax, c.mStackDepth \in Nat,
           Levels(c) = c.mStackDepth + 1, Levels(d) = c.mStackDepth,
           d.mIids = c.mIids,
           x.cat = c.mIids[CatSlot(c.mStackDepth)],
           x.iid = c.mIids[NameSlot(c.mStackDepth)]
    PROVE  Stacked(S \union {x}, t, d) /\ Matched(S \union {x}, x)
  <1> DEFINE m == c.emitted + 1
             K == S \union {x}
             h == c.mStackDepth
  <1> HIDE DEF CatSlot, NameSlot
  <1>0. m \in Nat /\ c.emitted \in Nat /\ \A r \in Packet : r.n \in Nat
    BY DEF Context, Packet
  <1>1. \A r \in S : r.by = t => r.n < m
    BY <1>0
  <1>2. \A l \in 0 .. h : \E p \in S : /\ Opened(S, t, p, m, h - l)
                                       /\ p.iid = c.mIids[NameSlot(l)]
                                       /\ p.cat = c.mIids[CatSlot(l)]
    BY DEF Stacked
  <1>3. ASSUME NEW l \in 0 .. h - 1
        PROVE  \E p \in K : /\ Opened(K, t, p, m + 1, h - 1 - l)
                            /\ p.iid = c.mIids[NameSlot(l)]
                            /\ p.cat = c.mIids[CatSlot(l)]
    <2> DEFINE gap == h - l
    <2>1. gap \in Nat /\ gap > 0 /\ l \in 0 .. h /\ gap - 1 = h - 1 - l
      OBVIOUS
    <2>2. PICK p \in S : /\ Opened(S, t, p, m, gap)
                         /\ p.iid = c.mIids[NameSlot(l)]
                         /\ p.cat = c.mIids[CatSlot(l)]
      BY <1>2, <2>1
    <2> HIDE DEF m, gap
    <2>3. Opened(K, t, p, m + 1, gap - 1)
      <3>1. x.n = m
        BY DEF m
      <3> QED BY <1>0, <1>1, <2>1, <2>2, <3>1, OpenedNext
    <2> QED BY <2>1, <2>2, <2>3
  <1>4. Stacked(K, t, d)
    BY <1>3 DEF Stacked
  <1>5. Matched(K, x)
    <2>1. PICK p \in S : /\ Opened(S, t, p, m, 0)
                         /\ p.iid = x.iid /\ p.cat = x.cat
      BY <1>2
    <2>2. Opened(K, t, p, m, 0)
      <3>1. \A r \in Packet : r.by = t /\ r.n < m => (r \in S <=> r \in K)
        BY <1>0
      <3>2. K \in SUBSET Packet
        OBVIOUS
      <3> HIDE DEF K, m
      <3> QED BY <1>0, <2>1, <3>1, <3>2, OpenedSame
    <2> QED BY <2>1, <2>2 DEF Matched
  <1> QED BY <1>4, <1>5

\* What an end closes stays the same if the earlier packets stay.
LEMMA MatchedSame ==
    ASSUME NEW S \in SUBSET Packet, NEW K \in SUBSET Packet, NEW e \in Packet,
           \A r \in Packet : r.by = e.by /\ r.n < e.n => (r \in S <=> r \in K),
           Matched(S, e)
    PROVE  Matched(K, e)
  <1> SUFFICES ASSUME e.kind = "end"
               PROVE  \E p \in K : /\ Opened(K, e.by, p, e.n, 0)
                                   /\ p.iid = e.iid /\ p.cat = e.cat
    BY DEF Matched
  <1>1. PICK p \in S : /\ Opened(S, e.by, p, e.n, 0)
                       /\ p.iid = e.iid /\ p.cat = e.cat
    BY DEF Matched
  <1>2. p \in K
    BY <1>1 DEF Opened
  <1>3. e.n \in Nat
    BY DEF Packet
  <1>4. Opened(K, e.by, p, e.n, 0)
    BY <1>1, <1>3, OpenedSame
  <1> QED BY <1>1, <1>2, <1>4

\* A thread's open slices depend on its own packets only.
LEMMA StackedSame ==
    ASSUME NEW S \in SUBSET Packet, NEW K \in SUBSET Packet, NEW t,
           \A r \in Packet : r.by = t => (r \in S <=> r \in K),
           NEW c \in Context, Stacked(S, t, c)
    PROVE  Stacked(K, t, c)
  <1> DEFINE m == c.emitted + 1
  <1> HIDE DEF CatSlot, NameSlot
  <1>1. m \in Nat
    BY DEF Context
  <1> SUFFICES ASSUME c.mStackDepth < StackMax, NEW l \in 0 .. Levels(c) - 1
               PROVE  \E p \in K : /\ Opened(K, t, p, m, Levels(c) - 1 - l)
                                   /\ p.iid = c.mIids[NameSlot(l)]
                                   /\ p.cat = c.mIids[CatSlot(l)]
    BY DEF Stacked
  <1> DEFINE gap == Levels(c) - 1 - l
  <1>2. PICK p \in S : /\ Opened(S, t, p, m, gap)
                       /\ p.iid = c.mIids[NameSlot(l)]
                       /\ p.cat = c.mIids[CatSlot(l)]
    BY DEF Stacked
  <1> HIDE DEF m, gap
  <1>3. p \in K
    BY <1>2 DEF Opened
  <1>4. Opened(K, t, p, m, gap)
    BY <1>1, <1>2, OpenedSame
  <1> QED BY <1>2, <1>3, <1>4 DEF m, gap

\* A context that is reset has no open slices.
LEMMA StackedBlank ==
    ASSUME NEW K, NEW t, NEW d, Blank(d), d.pc \in {"idle", "dead"}
    PROVE  Stacked(K, t, d)
  <1>1. Levels(d) = 0
    BY DEF Levels, Ending, Blank
  <1>2. 0 .. Levels(d) - 1 = {}
    BY <1>1
  <1> QED BY <1>2 DEF Stacked

\* The packet a step of a call writes opens a slice, closes the innermost
\* one, or does neither.
LEMMA StackedWrites ==
    ASSUME NEW S \in SUBSET Packet, NEW x \in Packet, NEW t,
           NEW c \in Context, NEW d \in Context, ContextOK(c), c.pc # "oob",
           x.by = t, x.n = c.emitted + 1,
           \A r \in S : r.by = t => r.n <= c.emitted,
           d.emitted = c.emitted + 1, Stacked(S, t, c), Defines(t, c, d, x)
    PROVE  Stacked(S \union {x}, t, d) /\ Matched(S \union {x}, x)
  <1>0. c.mStackDepth \in Nat
    <2>1. c.mStackDepth \in Depths /\ c.mStackDepth # -1
      BY DEF Context, ContextOK
    <2> QED BY <2>1, ConstantsAssumption DEF Depths
  <1>1. d.mIids = c.mIids /\ d.mStackDepth = c.mStackDepth /\ d.op = c.op
    BY DEF Defines, SameMemory, Context
  <1>2. CASE x.kind \notin {"begin", "end"}
    <2>1. Levels(d) = Levels(c)
      <3>1. \/ c.pc = "first" /\ d.pc = "category"
            \/ c.pc = "categoryAdd" /\ d.pc = "threadInfo"
            \/ c.pc = "nameAdd" /\ d.pc = "event"
            \/ c.pc = "threadInfo" /\ d.pc \in {"name", "counter"}
            \/ c.pc = "counter" /\ d.pc = "event"
            \/ c.pc = "event" /\ d.pc = "unlock" /\ c.op = "counter"
        BY <1>2 DEF Defines
      <3>2. c.op # "end"
        BY <3>1 DEF ContextOK, Guarded
      <3>3. ~Ending(c) /\ ~Ending(d)
        BY <1>1, <3>2 DEF Ending
      <3>4. /\ ~(c.op = "begin" /\ c.pc = "unlock")
            /\ ~(d.op = "begin" /\ d.pc = "unlock")
        BY <1>1, <3>1
      <3> QED BY <1>1, <3>3, <3>4 DEF Levels
    <2>2. Stacked(S \union {x}, t, d)
      BY <1>1, <1>2, <2>1, StackedDefines
    <2> QED BY <1>2, <2>2 DEF Matched
  <1>3. ASSUME x.kind \in {"begin", "end"}
        PROVE  /\ c.pc = "event" /\ d.pc = "unlock" /\ x.kind = c.op
               /\ x.cat = c.mIids[CatSlot(c.mStackDepth)]
               /\ x.iid = c.mIids[NameSlot(c.mStackDepth)]
               /\ c.mStackDepth < StackMax
    BY <1>3 DEF Defines, ContextOK, Guarded
  <1>4. CASE x.kind = "begin"
    BY <1>1, <1>3, <1>4, <1>0, StackedBegin DEF Levels, Ending, Matched
  <1>5. CASE x.kind = "end"
    BY <1>1, <1>3, <1>5, <1>0, StackedEnd DEF Levels, Ending
  <1> QED BY <1>2, <1>4, <1>5

\* A step of a call: the end it writes closes the slice on top of the stack.
LEMMA SliceCall ==
    ASSUME SafeInv, TypeOK', OrderInv, SliceInv, NEW t \in Threads, ~Crashed,
           InCall(t)
    PROVE  /\ \A u \in Threads : Stacked(Held', u, ctx'[u])
           /\ \A e \in Held' : Matched(Held', e)
  <1> DEFINE c == ctx[t]
             d == ctx'[t]
  <1>0. /\ TypeOK /\ ContextInv /\ CallsInSession
        /\ c \in Context /\ d \in Context /\ ContextOK(c) /\ c.pc # "oob"
        /\ c.emitted \in Nat /\ Held \in SUBSET Packet
    BY HeldType DEF SafeInv, SessionInv, TypeOK, ContextInv, Crashed, Context
  <1>1. Learns(t, c, d) /\ \A u \in Threads \ {t} : ctx'[u] = ctx[u]
    BY <1>0, LearnsFrame, InCallFrame
  <1>2. /\ \A u \in Threads : Stacked(Held, u, ctx[u])
        /\ \A e \in Held : Matched(Held, e)
    BY DEF SliceInv, HeldMatched
  <1>3. \A p \in Held : p.by = t => p.n <= c.emitted
    BY <1>0, HeldCounted
  <1>4. \/ \E p : Emits(t, c, d, p)
        \/ d.emitted = c.emitted
    BY <1>0, CallFrame DEF Silent, HandsOver, GivesUp
  <1>5. ASSUME Saves(c, d) \/ WritesNothing(c, d)
        PROVE  d.emitted = c.emitted /\ Held' = Held
    <2>1. Held' = Held
      <3>1. CASE Saves(c, d)
        BY <1>0, <1>1, <3>1, SavesKeep
      <3>2. CASE WritesNothing(c, d)
        BY <1>1, <3>2, NothingAdds DEF WritesNothing
      <3> QED BY <1>5, <3>1, <3>2
    <2>2. ASSUME NEW p, Emits(t, c, d, p) PROVE FALSE
      <3> HIDE DEF c, d
      <3>1. Added(c, d, p)
        BY <2>2 DEF Emits
      <3>2. d.mTraceBuffer # <<>>
        BY <1>0, <3>1, AddedBuffer
      <3>3. ~Saves(c, d)
        BY <3>1, <3>2 DEF Saves, Added
      <3>4. c.mTraceBuffer \in Seq(Packet)
        BY <1>0 DEF Context
      <3>5. Append(c.mTraceBuffer, p) # c.mTraceBuffer
        BY <3>4, AppendFacts
      <3>6. <<p>> # <<>>
        OBVIOUS
      <3>7. ~WritesNothing(c, d)
        BY <3>1, <3>5, <3>6 DEF WritesNothing, Added
      <3> QED BY <1>5, <3>3, <3>7
    <2> QED BY <1>4, <2>1, <2>2
  <1>6. ASSUME Saves(c, d) \/ WritesNothing(c, d), Stacked(Held, t, d)
        PROVE  /\ \A u \in Threads : Stacked(Held', u, ctx'[u])
               /\ \A e \in Held' : Matched(Held', e)
    BY <1>5, <1>6, <1>1, <1>2
  <1>7. ASSUME NEW x, Writes(c, d, x), x.by = t, x.n = c.emitted + 1,
               Defines(t, c, d, x)
        PROVE  /\ \A u \in Threads : Stacked(Held', u, ctx'[u])
               /\ \A e \in Held' : Matched(Held', e)
    <2> DEFINE K == Held \union {x}
    <2>1. Held' = K
      BY <1>0, <1>1, <1>7, WritesAdd
    <2>2. Held' \in SUBSET Packet
      <3>1. (Held \subseteq Packet)'
        BY HeldType, PTL
      <3> QED BY <3>1
    <2>3. x \in Packet /\ K \in SUBSET Packet
      BY <2>1, <2>2
    <2>4. Stacked(K, t, d) /\ Matched(K, x)
      <3>1. d.emitted = c.emitted + 1
        BY <1>7 DEF Writes, Added
      <3>2. Stacked(Held, t, c)
        BY <1>2
      <3> HIDE DEF c, d
      <3> QED BY <1>0, <1>3, <1>7, <2>3, <3>1, <3>2, StackedWrites
    <2>5. ASSUME NEW u \in Threads \ {t}
          PROVE  Stacked(K, u, ctx'[u])
      <3>1. ctx'[u] = ctx[u] /\ ctx[u] \in Context /\ Stacked(Held, u, ctx[u])
        BY <1>0, <1>1, <1>2, <2>5 DEF TypeOK
      <3>2. \A r \in Packet : r.by = u => (r \in Held <=> r \in K)
        BY <1>7, <2>5
      <3> HIDE DEF K
      <3> QED BY <1>0, <2>3, <3>1, <3>2, StackedSame
    <2>6. ASSUME NEW e \in Held
          PROVE  Matched(K, e)
      <3>1. \A r \in Packet : r.by = e.by /\ r.n < e.n => (r \in Held <=> r \in K)
        <4>1. e.by = t => ~(x.n < e.n)
          BY <1>0, <2>6, HeldCounted, <1>7
        <4> QED BY <1>7, <4>1
      <3>2. Matched(Held, e) /\ e \in Packet
        BY <1>0, <1>2, <2>6
      <3> HIDE DEF K
      <3> QED BY <1>0, <2>3, <3>1, <3>2, MatchedSame
    <2>7. \A u \in Threads : Stacked(K, u, ctx'[u])
      BY <2>4, <2>5
    <2>8. \A e \in K : Matched(K, e)
      BY <2>4, <2>6
    <2> QED BY <2>1, <2>7, <2>8
  <1>8. ASSUME Saves(c, d), Blank(d), d.pc = "dead"
        PROVE  Stacked(Held, t, d)
    BY <1>8, StackedBlank
  <1>9. ASSUME Saves(c, d) \/ WritesNothing(c, d),
               \/ SameMemory(c, d) /\ (MovesOn(c, d) \/ d.pc = c.pc)
               \/ Pops(c, d) \/ Pushes(c, d)
               \/ LooksUpCategory(c, d) \/ LooksUpName(c, d)
        PROVE  Stacked(Held, t, d)
    <2>1. d.emitted = c.emitted /\ Stacked(Held, t, c)
      BY <1>2, <1>5, <1>9
    <2> HIDE DEF c, d
    <2> QED BY <1>0, <1>9, <2>1, StackedSilent
  <1> HIDE DEF c, d
  <1>10. CASE \E p : /\ Writes(c, d, p) /\ p.by = t /\ p.n = c.emitted + 1
                     /\ Defines(t, c, d, p)
    BY <1>7, <1>10
  <1>11. CASE Saves(c, d) /\ SameMemory(c, d) /\ d.pc = c.pc
    BY <1>6, <1>9, <1>11
  <1>12. CASE Saves(c, d) /\ Blank(d) /\ d.pc = "dead"
    BY <1>6, <1>8, <1>12
  <1>13. CASE WritesNothing(c, d) /\ SameMemory(c, d) /\ MovesOn(c, d)
    BY <1>6, <1>9, <1>13
  <1>14. CASE WritesNothing(c, d) /\ \/ Pops(c, d) \/ Pushes(c, d)
                                     \/ LooksUpCategory(c, d)
                                     \/ LooksUpName(c, d)
    BY <1>6, <1>9, <1>14
  <1> QED BY <1>1, <1>10, <1>11, <1>12, <1>13, <1>14 DEF Learns

\* A thread that starts a call, or exits, keeps its open slices.
LEMMA SliceStart ==
    ASSUME TypeOK, SliceInv, NEW t \in Threads, StartCall(t)
    PROVE  /\ \A u \in Threads : Stacked(Held', u, ctx'[u])
           /\ Held' = Held
  <1> DEFINE c == ctx[t]
             d == ctx'[t]
  <1>1. /\ \A u \in Threads \ {t} : ctx'[u] = ctx[u]
        /\ UNCHANGED mSavedTraces
        /\ \A u \in Threads : Untouched(ctx[u], ctx'[u])
    BY StartCallFrame, StartFrame
  <1>2. Held' = Held
    BY <1>1, NothingAdds DEF Untouched
  <1>3. Starts(c, d) /\ d.emitted = c.emitted /\ Stacked(Held, t, c)
    BY <1>1, StartMemory DEF Untouched, SliceInv
  <1>4. Stacked(Held, t, d)
    <2> HIDE DEF c, d
    <2>1. Levels(d) = Levels(c)
      BY <1>3 DEF Levels, Ending, Starts
    <2> QED BY <1>3, <2>1 DEF Stacked, Starts
  <1>5. \A u \in Threads : Stacked(Held, u, ctx'[u])
    BY <1>1, <1>4 DEF SliceInv
  <1> QED BY <1>2, <1>5

\* The control thread closes the slices of a thread it resets, and forgets
\* what is held only when all threads are reset.
LEMMA SliceControl ==
    ASSUME SafeInv, DefInv, SliceInv, InControl \/ StartControl \/ UNCHANGED vars
    PROVE  /\ \A u \in Threads : Stacked(Held', u, ctx'[u])
           /\ Held' = Held \/ Held' = {}
  <1>0. /\ TypeOK /\ ContextInv
        /\ \A u \in Threads : Stacked(Held, u, ctx[u]) /\ CallKnows(ctx[u])
    BY DEF SafeInv, DefInv, SliceInv
  <1>h. Held' = Held \/ Held' = {}
    BY DefControl
  <1>1. ASSUME NEW t \in Threads, SaveContext(t)
        PROVE  \A u \in Threads : Stacked(Held', u, ctx'[u])
    <2>1. /\ WipedOut(ctx[t], ctx'[t]) /\ ctl.step = "save"
          /\ \A u \in Threads \ {t} : ctx'[u] = ctx[u]
      BY <1>0, <1>1, SaveFrame
    <2>2. ctx[t].pc \in {"idle", "dead"}
      BY <2>1, QuietInControl
    <2>3. Saves(ctx[t], ctx'[t])
      BY <2>1 DEF WipedOut, Saves
    <2>4. Held' = Held
      BY <1>0, <2>1, <2>3, SavesKeep
    <2>5. Blank(ctx'[t]) /\ ctx'[t].pc \in {"idle", "dead"}
      BY <1>0, <1>1, <2>1, <2>2
      DEF SaveContext, TypeOK, Reset, Context, Blank, WipedOut
    <2>6. Stacked(Held, t, ctx'[t])
      BY <2>5, StackedBlank
    <2> QED BY <1>0, <2>1, <2>4, <2>6
  <1>2. CASE CloseHostFile
    <2>1. /\ ctx' = ctx /\ ctl.step = "restPass"
      BY <1>2 DEF CloseHostFile
    <2>2. \A u \in Threads : /\ ctx[u].pc \in {"idle", "dead"}
                             /\ ctx[u].mTraceBuffer = <<>>
      BY <2>1, QuietInControl DEF SafeInv, SessionInv, NothingLeft
    <2>3. \A u \in Threads : Blank(ctx[u])
      BY <1>0, <2>2 DEF CallKnows
    <2>4. \A u \in Threads : Stacked(Held', u, ctx[u])
      BY <2>2, <2>3, StackedBlank
    <2>5. \A u \in Threads : ctx'[u] = ctx[u]
      BY <2>1
    <2> QED BY <1>h, <2>4, <2>5
  <1>3. CASE UNCHANGED <<ctx, mSavedTraces>>
    <2>1. Held' = Held
      BY <1>3 DEF Held, Elems
    <2> QED BY <1>0, <1>3, <2>1
  <1>4. \A u \in Threads : Stacked(Held', u, ctx'[u])
    BY <1>1, <1>2, <1>3
       DEF InControl, StartControl, LockContexts, OpenHostFile,
           WriteSavedTrace, SecondPass, ResetCounters, FinishEnable,
           FinishDisable, SetGuestTime, EnableTracing, DisableTracing,
           vars, storage
  <1> QED BY <1>h, <1>4

\* While the file is written it has, with a packet, all earlier packets of
\* the same thread: the loops never overtake a trace.
LEMMA FileDown ==
    ASSUME SafeInv, OrderInv, CopyInv, ctl.step \in Writing,
           NEW e \in InFile, NEW p \in Packet, p.by = e.by, p.n < e.n
    PROVE  p \in Held <=> p \in InFile
  <1> DEFINE S == mSavedTraces
  <1>0. TypeOK /\ S \in Seq(SavedTraceInfo) /\ Len(S) \in Nat
        /\ ctl \in Control /\ ctl.idx \in Nat
    BY DEF SafeInv, TypeOK, Control
  <1>1. \A q : q \in InFile <=>
           \E j \in 1 .. Len(S) : Copied(j) /\ q \in Elems(S[j].pkts)
    BY DEF CopyInv, InTraces, InFile
  <1>2. \A q : q \in Held <=> \E j \in 1 .. Len(S) : q \in Elems(S[j].pkts)
    BY QuietInControl, HeldBy, ElemsFacts
    DEF SafeInv, SessionInv, NothingLeft, Writing, Saving
  <1>3. PICK j \in 1 .. Len(S) : Copied(j) /\ e \in Elems(S[j].pkts)
    BY <1>1
  <1>4. ASSUME NEW i \in 1 .. Len(S), p \in Elems(S[i].pkts), ~Copied(i)
        PROVE  FALSE
    <2>1. i # j
      BY <1>3, <1>4
    <2>2. Earlier(Elems(S[j].pkts), Elems(S[i].pkts))
      <3>1. CASE S[j].first
        BY <2>1, <3>1 DEF OrderInv, SavedOrdered
      <3>2. CASE ~S[j].first
        BY <1>3, <1>4, <3>2, <1>0 DEF Copied, OrderInv, SavedOrdered, Ordered
      <3> QED BY <3>1, <3>2
    <2>3. e.n < p.n
      BY <1>3, <1>4, <2>2 DEF Earlier
    <2>4. e \in Packet
      BY <1>0, <1>2, <1>3, HeldType
    <2>5. e.n \in Nat /\ p.n \in Nat
      BY <2>4 DEF Packet
    <2> QED BY <2>3, <2>5
  <1> QED BY <1>1, <1>2, <1>4

\* While the file is written, an end in it closes the slice it closed among
\* what is held.
LEMMA FileSlices ==
    SafeInv /\ OrderInv /\ CopyInv /\ ctl.step \in Writing /\ HeldMatched
       => FileMatched
  <1> SUFFICES ASSUME SafeInv, OrderInv, CopyInv, ctl.step \in Writing,
                      HeldMatched, NEW e \in InFile
               PROVE  Matched(InFile, e)
    BY DEF FileMatched
  <1>1. TypeOK /\ Held \in SUBSET Packet
    BY HeldType DEF SafeInv
  <1>2. InFile \subseteq Held
    BY HeldBy DEF CopyInv, InTraces, InFile
  <1>3. \A r \in Packet : r.by = e.by /\ r.n < e.n =>
           (r \in Held <=> r \in InFile)
    BY FileDown
  <1>4. Matched(Held, e) /\ e \in Packet /\ InFile \in SUBSET Packet
    BY <1>1, <1>2 DEF HeldMatched
  <1> QED BY <1>1, <1>3, <1>4, MatchedSame

\* Every step keeps the slices nested.
LEMMA SliceStep ==
    ASSUME Quiesced, SafeInv, MarkInv, OrderInv, DefInv, TrailInv, SliceInv,
           [Next]_vars
    PROVE  SliceInv'
  <1>0. /\ TypeOK /\ ContextInv /\ ControlInv /\ SessionInv /\ TypeOK'
        /\ SafeInv' /\ OrderInv'
    BY SafeStep, MarkStep, OrderStep DEF SafeInv
  <1>1. /\ \A u \in Threads : Stacked(Held', u, ctx'[u])
        /\ \A e \in Held' : Matched(Held', e)
    <2>1. ASSUME NEW t \in Threads, InCall(t), ~Crashed
          PROVE  /\ \A u \in Threads : Stacked(Held', u, ctx'[u])
                 /\ \A e \in Held' : Matched(Held', e)
      BY <1>0, <2>1, SliceCall
    <2>2. ASSUME Held' = Held \/ Held' = {}
          PROVE  \A e \in Held' : Matched(Held', e)
      BY <2>2 DEF SliceInv, HeldMatched
    <2>3. ASSUME NEW t \in Threads, StartCall(t)
          PROVE  /\ \A u \in Threads : Stacked(Held', u, ctx'[u])
                 /\ \A e \in Held' : Matched(Held', e)
      BY <1>0, <2>2, <2>3, SliceStart
    <2>4. CASE InControl \/ StartControl \/ UNCHANGED vars
      BY <2>2, <2>4, SliceControl
    <2> QED BY <2>1, <2>3, <2>4 DEF Next
  <1>2. \A u \in Threads : Stacked(Held, u, ctx[u])'
    BY <1>1 DEF Stacked, Levels, Ending, Opened, Count, Between
  <1>3. HeldMatched'
    BY <1>1 DEF Matched, Opened, Count, Between, HeldMatched
  <1>4. FileMatched'
    <2>1. CASE ctl'.step \in Writing
      <3>1. TrailInv'
        BY <1>0, TrailStep
      <3>2. CopyInv'
        BY <3>1 DEF TrailInv
      <3>3. (ctl.step \in Writing)'
        BY <2>1 DEF Writing
      <3> QED BY <1>0, <1>3, <3>2, <3>3, FileSlices, PTL
    <2>2. CASE ctl'.step \notin Writing
      <3>1. InFile' = {} \/ InFile' = InFile
        BY <1>0, <2>2, FileStep
      <3>2. \A e \in InFile' : Matched(InFile', e)
        BY <3>1 DEF SliceInv, FileMatched
      <3>3. \A e : Matched(InFile, e)' <=> Matched(InFile', e)
        BY DEF Matched, Opened, Count, Between
      <3> QED BY <3>2, <3>3 DEF FileMatched
    <2> QED BY <2>1, <2>2
  <1> QED BY <1>2, <1>3, <1>4 DEF SliceInv

\* Initially there are no packets, and no slices.
LEMMA SliceInit == Init => SliceInv
  <1> SUFFICES ASSUME Init PROVE SliceInv
    OBVIOUS
  <1>1. /\ \A t \in Threads : /\ ctx[t].mTraceBuffer = <<>>
                              /\ ctx[t].out = <<>> /\ ctx[t].pc = "idle"
                              /\ Blank(ctx[t])
        /\ mSavedTraces = <<>> /\ hostFile = <<>>
    BY DEF Init, NewContext, Blank
  <1>2. Held = {} /\ InFile = {}
    BY <1>1, HeldBy, ElemsFacts DEF InFile
  <1>3. \A t \in Threads : Stacked(Held, t, ctx[t])
    BY <1>1, StackedBlank
  <1> QED BY <1>2, <1>3 DEF SliceInv, HeldMatched, FileMatched

\* The places of a thread's packets are ordered as their numbers.
LEMMA PlaceOrder ==
    ASSUME SafeInv, OrderInv, NEW p \in Places(hostFile),
           NEW q \in Places(hostFile), At(hostFile, p).by = At(hostFile, q).by
    PROVE  /\ Before(p, q) <=> At(hostFile, p).n < At(hostFile, q).n
           /\ At(hostFile, p).n = At(hostFile, q).n => p = q
           /\ At(hostFile, p).n \in Nat /\ At(hostFile, p) \in InFile
  <1> DEFINE a == At(hostFile, p)
             b == At(hostFile, q)
  <1>1. hostFile \in Seq(SavedTraceInfo) /\ Len(hostFile) \in Nat
    BY DEF SafeInv, TypeOK
  <1>2. /\ \A r \in Places(hostFile) :
              /\ r[1] \in 1 .. Len(hostFile) /\ hostFile[r[1]] \in SavedTraceInfo
              /\ r[2] \in 1 .. Len(hostFile[r[1]].pkts)
              /\ r = <<r[1], r[2]>>
              /\ At(hostFile, r) = hostFile[r[1]].pkts[r[2]]
              /\ At(hostFile, r) \in InFile
    BY <1>1, PlacesInFile
  <1>3. \A r \in Places(hostFile) : /\ r[1] \in Nat /\ r[2] \in Nat
                                    /\ At(hostFile, r) \in Packet
    <2> SUFFICES ASSUME NEW r \in Places(hostFile)
                 PROVE  /\ r[1] \in Nat /\ r[2] \in Nat
                        /\ At(hostFile, r) \in Packet
      OBVIOUS
    <2>1. hostFile[r[1]].pkts \in Seq(Packet)
      BY <1>2 DEF SavedTraceInfo
    <2>2. At(hostFile, r) \in Packet
      BY <1>2, <2>1
    <2>3. r[1] \in Nat /\ r[2] \in Nat
      BY <1>1, <1>2, <2>1
    <2> QED BY <2>2, <2>3
  <1>4. a.n \in Nat /\ b.n \in Nat
    BY <1>3 DEF Packet
  <1>5. (Before(p, q) => a.n < b.n) /\ (Before(q, p) => b.n < a.n)
    BY FileInOrder DEF ThreadOrder
  <1>6. Before(p, q) \/ Before(q, p) \/ p = q
    BY <1>2, <1>3 DEF Before
  <1>7. p = q => a.n = b.n
    OBVIOUS
  <1>8. a \in InFile
    BY <1>2
  <1> HIDE DEF a, b
  <1>9. /\ Before(p, q) <=> a.n < b.n
        /\ a.n = b.n => p = q
    BY <1>4, <1>5, <1>6, <1>7
  <1> QED BY <1>4, <1>8, <1>9 DEF a, b

\* Every packet of the file has a place.
LEMMA PlaceOf ==
    ASSUME SafeInv, FitInv, NEW e \in InFile
    PROVE  \E p \in Places(hostFile) : At(hostFile, p) = e
  <1>1. PICK k \in 1 .. Len(hostFile) : e \in Elems(hostFile[k].pkts)
    BY DEF InFile
  <1>2. PICK i \in 1 .. Len(hostFile[k].pkts) : e = hostFile[k].pkts[i]
    BY <1>1 DEF Elems
  <1>3. hostFile[k].pkts \in Seq(Packet) /\ Len(hostFile[k].pkts) \in Nat
    <2>1. hostFile \in Seq(SavedTraceInfo)
      BY DEF SafeInv, TypeOK
    <2>2. hostFile[k] \in SavedTraceInfo
      BY <2>1
    <2> QED BY <2>2 DEF SavedTraceInfo
  <1>4. i \in 1 .. BufCapacity /\ i <= Len(hostFile[k].pkts)
    BY <1>1, <1>2, <1>3, ConstantsAssumption DEF FitInv
  <1>5. <<k, i>> \in Places(hostFile) /\ At(hostFile, <<k, i>>) = e
    BY <1>1, <1>2, <1>4 DEF Places, At
  <1> QED BY <1>5

\* Between two places a reader counts as many packets of the thread as it
\* numbered in between.
LEMMA PlaceCount ==
    ASSUME SafeInv, OrderInv, FitInv, NEW t, NEW kind,
           NEW p \in Places(hostFile), NEW q \in Places(hostFile),
           At(hostFile, p).by = t, At(hostFile, q).by = t
    PROVE  Cardinality({r \in Places(hostFile) :
                           /\ At(hostFile, r).kind = kind
                           /\ At(hostFile, r).by = t
                           /\ Before(p, r)
                           /\ Before(r, q)})
             = Count(InFile, t, kind, At(hostFile, p).n, At(hostFile, q).n)
  <1> DEFINE A(r) == At(hostFile, r)
             R == {r \in Places(hostFile) : /\ A(r).kind = kind /\ A(r).by = t
                                            /\ Before(p, r) /\ Before(r, q)}
             a == A(p).n
             b == A(q).n
             N == Between(InFile, t, kind, a, b)
             f == [r \in R |-> A(r).n]
  <1>1. a \in Nat /\ b \in Nat
    BY PlaceOrder
  <1>2. \A r \in Places(hostFile) : A(r).by = t =>
           /\ A(r).n \in Nat /\ A(r) \in InFile
           /\ Before(p, r) <=> a < A(r).n
           /\ Before(r, q) <=> A(r).n < b
    BY PlaceOrder
  <1>3. \A r, s \in Places(hostFile) :
           A(r).by = t /\ A(s).by = t /\ A(r).n = A(s).n => r = s
    BY PlaceOrder
  <1>4. \A e \in InFile : \E r \in Places(hostFile) : A(r) = e
    BY PlaceOf
  <1> HIDE DEF A, a, b
  <1>5. \A n \in Nat : n \in (a + 1) .. (b - 1) <=> a < n /\ n < b
    BY <1>1
  <1>6. \A r \in R : A(r).n \in N
    <2> SUFFICES ASSUME NEW r \in R PROVE A(r).n \in N
      OBVIOUS
    <2>1. A(r).n \in (a + 1) .. (b - 1) /\ A(r) \in InFile
      BY <1>2, <1>5
    <2> QED BY <2>1 DEF Between
  <1>7. \A n \in N : \E r \in R : A(r).n = n
    <2> SUFFICES ASSUME NEW n \in N PROVE \E r \in R : A(r).n = n
      OBVIOUS
    <2>1. /\ n \in (a + 1) .. (b - 1)
          /\ \E e \in InFile : e.by = t /\ e.kind = kind /\ e.n = n
      BY DEF Between
    <2>2. n \in Nat /\ a < n /\ n < b
      BY <1>1, <2>1
    <2>3. PICK e \in InFile : e.by = t /\ e.kind = kind /\ e.n = n
      BY <2>1
    <2>4. PICK r \in Places(hostFile) : A(r) = e
      BY <1>4
    <2>5. r \in R
      BY <1>2, <2>2, <2>3, <2>4
    <2> QED BY <2>3, <2>4, <2>5
  <1>8. f \in Injection(R, N) /\ f \in Surjection(R, N)
    <2>1. \A r, s \in R : A(r).n = A(s).n => r = s
      BY <1>3
    <2> HIDE DEF R, N
    <2>2. f \in [R -> N] /\ \A r \in R : f[r] = A(r).n
      BY <1>6
    <2> HIDE DEF f
    <2>3. \A r, s \in R : f[r] = f[s] => r = s
      BY <2>1, <2>2
    <2>4. \A n \in N : \E r \in R : f[r] = n
      BY <1>7, <2>2
    <2> QED BY <2>2, <2>3, <2>4 DEF Injection, IsInjective, Surjection
  <1>9. IsFiniteSet(N)
    BY <1>1, CountFinite
  <1>10. Cardinality(R) = Cardinality(N)
    <2> HIDE DEF R, N, f
    <2> QED BY <1>8, <1>9, FS_Injection
  <1> QED BY <1>10 DEF Count, A, a, b

\* A reader finds the slices nested.
LEMMA FileNested ==
    SafeInv /\ OrderInv /\ FitInv /\ SliceInv => NestedSlices
  <1> SUFFICES ASSUME SafeInv, OrderInv, FitInv, SliceInv,
                      NEW q \in Places(hostFile),
                      At(hostFile, q).kind = "end"
               PROVE  LET e == At(hostFile, q)
                          In(kind, p) == {r \in Places(hostFile) :
                                            /\ At(hostFile, r).kind = kind
                                            /\ At(hostFile, r).by = e.by
                                            /\ Before(p, r)
                                            /\ Before(r, q)}
                      IN  \E p \in In("begin", <<0, 0>>) :
                             /\ At(hostFile, p).iid = e.iid
                             /\ At(hostFile, p).cat = e.cat
                             /\ Cardinality(In("begin", p)) =
                                   Cardinality(In("end", p))
                             /\ \A r \in In("end", p) :
                                   Cardinality({b \in In("begin", p) : Before(b, r)})
                                     > Cardinality({b \in In("end", p) : Before(b, r)})
    BY DEF NestedSlices
  <1> DEFINE A(r) == At(hostFile, r)
             e == A(q)
             t == e.by
             In(kind, p) == {r \in Places(hostFile) : /\ A(r).kind = kind
                                                      /\ A(r).by = t
                                                      /\ Before(p, r)
                                                      /\ Before(r, q)}
  <1>1. e \in InFile /\ e.n \in Nat
    BY PlaceOrder
  <1>2. PICK x \in InFile : Opened(InFile, t, x, e.n, 0)
                            /\ x.iid = e.iid /\ x.cat = e.cat
    BY <1>1 DEF SliceInv, FileMatched, Matched
  <1>3. PICK p \in Places(hostFile) : A(p) = x
    BY PlaceOf
  <1>4. /\ x.by = t /\ x.kind = "begin" /\ x.n < e.n
        /\ Count(InFile, t, "begin", x.n, e.n) = Count(InFile, t, "end", x.n, e.n) + 0
        /\ \A r \in InFile : r.by = t /\ r.kind = "end" /\ x.n < r.n /\ r.n < e.n =>
              Count(InFile, t, "begin", x.n, r.n) > Count(InFile, t, "end", x.n, r.n)
    BY <1>2 DEF Opened
  <1>5. A(p).by = t /\ A(q).by = t /\ x.n \in Nat /\ A(p).n = x.n
    BY <1>3, <1>4, PlaceOrder
  <1>6. \A r, s \in Places(hostFile) : A(r).by = t /\ A(s).by = t =>
           (Before(r, s) <=> A(r).n < A(s).n) /\ A(r).n \in Nat /\ A(r) \in InFile
    BY PlaceOrder
  <1>7. p \in In("begin", <<0, 0>>)
    <2>1. Before(p, q)
      BY <1>3, <1>4, <1>5, <1>6
    <2>2. Before(<<0, 0>>, p)
      BY PlacesInFile DEF SafeInv, TypeOK, Before
    <2> QED BY <1>3, <1>4, <1>5, <2>1, <2>2
  <1>8. \A kind : Cardinality(In(kind, p)) = Count(InFile, t, kind, x.n, e.n)
    BY <1>3, <1>5, PlaceCount
  <1>9. Cardinality(In("begin", p)) = Cardinality(In("end", p))
    <2>1. Count(InFile, t, "begin", x.n, e.n) \in Nat
          /\ Count(InFile, t, "end", x.n, e.n) \in Nat
      BY <1>1, <1>5, CountFinite
    <2> HIDE DEF In
    <2> QED BY <1>4, <1>8, <2>1
  <1>10. ASSUME NEW r \in In("end", p)
         PROVE  Cardinality({b \in In("begin", p) : Before(b, r)})
                  > Cardinality({b \in In("end", p) : Before(b, r)})
    <2> DEFINE Upto(kind) == {b \in Places(hostFile) : /\ A(b).kind = kind
                                                       /\ A(b).by = t
                                                       /\ Before(p, b)
                                                       /\ Before(b, r)}
    <2>1. /\ r \in Places(hostFile) /\ A(r).kind = "end" /\ A(r).by = t
          /\ Before(p, r) /\ Before(r, q)
      OBVIOUS
    <2>2. ASSUME NEW kind
          PROVE  {b \in In(kind, p) : Before(b, r)} = Upto(kind)
      <3>1. ASSUME NEW b \in Places(hostFile), A(b).by = t, Before(b, r)
            PROVE  Before(b, q)
        BY <1>5, <1>6, <2>1, <3>1
      <3> HIDE DEF A, t
      <3> QED BY <3>1
    <2>3. \A kind : Cardinality(Upto(kind)) = Count(InFile, t, kind, x.n, A(r).n)
      BY <1>3, <1>5, <2>1, PlaceCount
    <2>4. A(r) \in InFile /\ x.n < A(r).n /\ A(r).n < e.n
      BY <1>5, <1>6, <2>1
    <2>5. Count(InFile, t, "begin", x.n, A(r).n) > Count(InFile, t, "end", x.n, A(r).n)
      BY <1>4, <2>1, <2>4
    <2> HIDE DEF In, Upto
    <2> QED BY <2>2, <2>3, <2>5
  <1> HIDE DEF In
  <1>11. \E z \in In("begin", <<0, 0>>) :
            /\ A(z).iid = e.iid /\ A(z).cat = e.cat
            /\ Cardinality(In("begin", z)) = Cardinality(In("end", z))
            /\ \A r \in In("end", z) :
                  Cardinality({b \in In("begin", z) : Before(b, r)})
                    > Cardinality({b \in In("end", z) : Before(b, r)})
    BY <1>2, <1>3, <1>7, <1>9, <1>10
  <1> QED BY <1>11 DEF In

\* Slices nest: of the events of a thread up to an end, the end closes the
\* latest begin that is still open and repeats its name and category.  The
\* iid arrays are a stack although endTrace pops before it takes the lock,
\* a counter writes above the top, buffers are handed over inside a slice
\* and the file is written from the saved traces in another order.
THEOREM NestedSlicesKept == Quiesced => (Spec => []NestedSlices)
  <1> SUFFICES ASSUME Quiesced PROVE Spec => []NestedSlices
    OBVIOUS
  <1>1. SafeInv /\ OrderInv /\ FitInv /\ SliceInv => NestedSlices
    BY FileNested
  <1>2. Init => /\ SafeInv /\ MarkInv /\ OrderInv /\ DefInv /\ TrailInv
                /\ FitInv /\ SliceInv
    BY SafeStep, MarkInit, OrderInit, DefInit, TrailInit,
       SliceInit
  <1>3. /\ SafeInv /\ MarkInv /\ OrderInv /\ DefInv /\ TrailInv /\ FitInv
        /\ SliceInv /\ [Next]_vars
        => /\ SafeInv' /\ MarkInv' /\ OrderInv' /\ DefInv' /\ TrailInv'
           /\ FitInv' /\ SliceInv'
    BY SafeStep, MarkStep, OrderStep, DefStep, TrailStep, FitStep, SliceStep
    DEF SafeInv
  <1> QED BY <1>1, <1>2, <1>3, PTL DEF Spec
=============================================================================
