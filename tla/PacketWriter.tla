----------------------------- MODULE PacketWriter -----------------------------
(***************************************************************************)
(* How one TraceContext (vperfetto.cpp) writes packets into its buffer,    *)
(* byte by byte in number if not in content: the space that beginPacket    *)
(* keeps free, the size fields that protozero fills in when a message      *)
(* ends, and GetNewBuffer, which protozero calls when the buffer is full.  *)
(* TraceContext takes packets as whole; this module shows when they are.   *)
(*                                                                         *)
(* A packet is a tag, a size field and a body.  The body consists of       *)
(* fields and of nested messages, which have a tag and a size field        *)
(* themselves.  A message that is still open when its parent is written to *)
(* is ended first (EndNestedMessage).  All of this runs with the tracing   *)
(* lock of the context held, and so does the save of the buffer.           *)
(***************************************************************************)
EXTENDS Integers, Sequences

CONSTANTS
    mTraceBufferSize,     \* bytes of a buffer
    kTrackEventPadding,   \* bytes that a packet is expected to need
    FieldSizes,           \* bytes of the fields that are written
    MaxDepth,             \* bound: open messages, the packet included
    MaxBody,              \* bound: bytes of a packet, but for its last field
    MaxPackets            \* bound: packets

kPacketHeaderSize == 4         \* the size field of a packet
kMessageLengthFieldSize == 4   \* the size field of a nested message
TagSize == 1                   \* the tag of a packet
NestedTagSizes == {1, 2}       \* of a nested message; a field above 15 takes 2
Header == TagSize + kPacketHeaderSize
neededSpace == kPacketHeaderSize + 4 + kTrackEventPadding

\* perThreadStorageMb is at least 1.
ASSUME WriterAssumption ==
    /\ mTraceBufferSize \in Nat
    /\ kTrackEventPadding \in Nat
    /\ FieldSizes \subseteq Nat \ {0}
    /\ mTraceBufferSize >= neededSpace
    /\ MaxDepth \in Nat /\ MaxBody \in Nat /\ MaxPackets \in Nat

VARIABLES
    mTraceBuffer,    \* the number of the buffer; 0 is nullptr
    mWriter,         \* the buffer that is written to, and write_ptr
    mWritingPacket,
    mPacket,         \* the packet, and the open messages nested in it
    depth,           \* the message the caller writes to
    call,            \* the write that is under way
    packets,         \* packets in the current buffer
    saved,           \* buffers that were handed over to TraceStorage
    begun            \* packets begun so far (history)

vars == <<mTraceBuffer, mWriter, mWritingPacket, mPacket, depth, call, packets,
          saved, begun>>

-----------------------------------------------------------------------------
\* A message begins at offset at of the buffer; size is its size_.
Message == [at : Nat, size : Nat]

\* What a packet's header is given, and (history) the bytes its caller wants
\* it to have, whether it was broken off or is the rest of one that was, and
\* whether the size fields of the messages in it are right.
PacketInfo == [at : Nat, declared : Nat, want : Nat, torn : BOOLEAN,
               nested : BOOLEAN]

\* WriteToStream of n bytes, left of which are to be written, or ReserveBytes;
\* open if a message is to be nested.
Calls == [step : {"none", "write", "reserve"}, n : Nat, left : Nat,
          open : BOOLEAN]
NoCall == [step |-> "none", n |-> 0, left |-> 0, open |-> FALSE]

TypeOK ==
    /\ mTraceBuffer \in Nat
    /\ mWriter \in [buf : Nat, ptr : 0 .. mTraceBufferSize]
    /\ mWritingPacket \in BOOLEAN
    /\ mPacket \in Seq(Message)
    /\ depth \in Nat
    /\ call \in Calls
    /\ packets \in Seq(PacketInfo)
    /\ saved \in Seq([buf : Nat, written : Nat, packets : Seq(PacketInfo)])
    /\ begun \in Nat

Init ==
    /\ mTraceBuffer = 0
    /\ mWriter = [buf |-> 0, ptr |-> 0]
    /\ mWritingPacket = FALSE
    /\ mPacket = <<>>
    /\ depth = 0
    /\ call = NoCall
    /\ packets = <<>>
    /\ saved = <<>>
    /\ begun = 0

bytes_available == mTraceBufferSize - mWriter.ptr
Top == mPacket[Len(mPacket)]

\* The message that is written to is still nested in the packet.
Linked == depth = Len(mPacket)

Buffers == {saved[j].buf : j \in 1 .. Len(saved)}

-----------------------------------------------------------------------------
(***************************************************************************)
(* Buffers                                                                 *)
(***************************************************************************)

\* saveLocked, with the packets as their headers are now.
Saved(pkts) ==
    Append(saved, [buf |-> mTraceBuffer, written |-> mWriter.ptr,
                   packets |-> pkts])

\* allocTraceBuffer and what beginPacket writes into the new buffer: the tag
\* and the size field.
NewBuffer == Len(saved') + 1
Begun(at, want, torn) == [at |-> at, declared |-> 0, want |-> want,
                          torn |-> torn, nested |-> TRUE]

\* Mutant: the packet's header is forgotten.
BeginPacketTight ==
    /\ ~mWritingPacket
    /\ begun < MaxPackets
    /\ \/ /\ mTraceBuffer # 0
          /\ bytes_available >= kTrackEventPadding
          /\ packets' = Append(packets, Begun(mWriter.ptr, 0, FALSE))
          /\ mWriter' = [mWriter EXCEPT !.ptr = @ + Header]
          /\ UNCHANGED <<saved, mTraceBuffer>>
       \/ /\ mTraceBuffer = 0 \/ bytes_available < kTrackEventPadding
          /\ saved' = IF mTraceBuffer = 0 THEN saved ELSE Saved(packets)
          /\ mTraceBuffer' = NewBuffer
          /\ mWriter' = [buf |-> NewBuffer, ptr |-> Header]
          /\ packets' = <<Begun(0, 0, FALSE)>>
    /\ mPacket' = <<[at |-> mWriter'.ptr, size |-> 0]>>
    /\ depth' = 1
    /\ mWritingPacket' = TRUE
    /\ begun' = begun + 1
    /\ UNCHANGED call

\* beginPacket: the buffer is handed over if it may be too small for a packet.
BeginPacket ==
    /\ ~mWritingPacket
    /\ begun < MaxPackets
    /\ \/ /\ mTraceBuffer # 0
          /\ bytes_available >= neededSpace
          /\ packets' = Append(packets, Begun(mWriter.ptr, 0, FALSE))
          /\ mWriter' = [mWriter EXCEPT !.ptr = @ + Header]
          /\ UNCHANGED <<saved, mTraceBuffer>>
       \/ /\ mTraceBuffer = 0 \/ bytes_available < neededSpace
          /\ saved' = IF mTraceBuffer = 0 THEN saved ELSE Saved(packets)
          /\ mTraceBuffer' = NewBuffer
          /\ mWriter' = [buf |-> NewBuffer, ptr |-> Header]
          /\ packets' = <<Begun(0, 0, FALSE)>>
    /\ mPacket' = <<[at |-> mWriter'.ptr, size |-> 0]>>
    /\ depth' = 1
    /\ mWritingPacket' = TRUE
    /\ begun' = begun + 1
    /\ UNCHANGED call

\* Mutant: the context keeps the buffer it has handed over.
SaveKeepsBuffer ==
    /\ ~mWritingPacket
    /\ mTraceBuffer # 0
    /\ saved' = Saved(packets)
    /\ UNCHANGED <<mTraceBuffer, packets, mPacket, depth, mWriter,
                   mWritingPacket, call, begun>>

\* save, when tracing ends or the thread exits.  mWriter is not reset and still
\* points into the buffer, which is freed once it is on disk.
Save ==
    /\ ~mWritingPacket
    /\ mTraceBuffer # 0
    /\ saved' = Saved(packets)
    /\ mTraceBuffer' = 0
    /\ packets' = <<>>
    /\ mPacket' = <<>>
    /\ depth' = 0
    /\ UNCHANGED <<mWriter, mWritingPacket, call, begun>>

-----------------------------------------------------------------------------
(***************************************************************************)
(* Messages                                                                *)
(***************************************************************************)

Idle == mWritingPacket /\ call.step = "none"

\* The caller wants n more bytes in the packet.
Want(n) ==
    packets' = [packets EXCEPT ![Len(packets)].want = @ + n]

\* AppendVarInt, AppendFixed, or one of the two writes of AppendBytes.
AppendField(n) ==
    /\ Idle
    /\ packets[Len(packets)].want < MaxBody
    /\ call' = [step |-> "write", n |-> n, left |-> n, open |-> FALSE]
    /\ Want(n)
    /\ UNCHANGED <<mTraceBuffer, mWriter, mWritingPacket, mPacket, depth, saved,
                   begun>>

\* BeginNestedMessageInternal
BeginNestedMessage ==
    /\ Idle
    /\ depth < MaxDepth
    /\ packets[Len(packets)].want < MaxBody
    /\ \E tag \in NestedTagSizes :
          /\ call' = [step |-> "write", n |-> tag, left |-> tag, open |-> TRUE]
          /\ Want(tag + kMessageLengthFieldSize)
    /\ UNCHANGED <<mTraceBuffer, mWriter, mWritingPacket, mPacket, depth, saved,
                   begun>>

\* A message that is no longer part of the packet has its size_ for itself.
Grown(n) == IF Linked THEN [mPacket EXCEPT ![Len(mPacket)].size = @ + n]
            ELSE mPacket

\* The innermost message ends: its size_ goes into its size field and to its
\* parent.
PopMessage ==
    LET parent == Len(mPacket) - 1
    IN  /\ mPacket' = [SubSeq(mPacket, 1, parent) EXCEPT
                          ![parent].size = @ + Top.size]
        /\ packets' = [packets EXCEPT ![Len(packets)].nested =
                          @ /\ Top.size = mWriter.ptr - Top.at]

\* Mutant: the end of the buffer is not looked at.
WriteUnchecked ==
    /\ call.step = "write"
    /\ mWriter' = [mWriter EXCEPT !.ptr = @ + call.left]
    /\ mPacket' = Grown(call.n)
    /\ call' = IF call.open THEN [call EXCEPT !.step = "reserve"] ELSE NoCall
    /\ UNCHANGED <<mTraceBuffer, mWritingPacket, depth, packets, saved, begun>>

\* WriteBytes, the last or the only burst; then size_ grows by all n bytes.
WriteRest ==
    /\ call.step = "write"
    /\ call.left <= bytes_available
    /\ mWriter' = [mWriter EXCEPT !.ptr = @ + call.left]
    /\ mPacket' = Grown(call.n)
    /\ call' = IF call.open THEN [call EXCEPT !.step = "reserve"] ELSE NoCall
    /\ UNCHANGED <<mTraceBuffer, mWritingPacket, depth, packets, saved, begun>>

\* WriteBytesSlowPath: a burst that fills the buffer.
WriteBurst ==
    /\ call.step = "write"
    /\ bytes_available \in 1 .. call.left - 1
    /\ mWriter' = [mWriter EXCEPT !.ptr = mTraceBufferSize]
    /\ call' = [call EXCEPT !.left = @ - bytes_available]
    /\ UNCHANGED <<mTraceBuffer, mWritingPacket, mPacket, depth, packets, saved,
                   begun>>

MustExtend ==
    \/ call.step = "write" /\ bytes_available = 0 /\ call.left > 0
    \/ call.step = "reserve" /\ bytes_available < kMessageLengthFieldSize

\* Finalize, called by GetNewBuffer, ends the messages nested in the packet,
\* the innermost first.  Their caller does not know; an assertion of
\* WriteToStream, if it is compiled in, tells it at its next write.
FinalizeNested ==
    /\ MustExtend
    /\ Len(mPacket) > 1
    /\ PopMessage
    /\ UNCHANGED <<mTraceBuffer, mWriter, mWritingPacket, depth, call, saved,
                   begun>>

\* Extend and GetNewBuffer, in the middle of a packet: the packet is finalized,
\* its buffer handed over, and the packet begun anew in the next buffer.
Extend ==
    /\ MustExtend
    /\ Len(mPacket) = 1
    /\ saved' = Saved([packets EXCEPT ![Len(packets)].declared = mPacket[1].size,
                                      ![Len(packets)].torn = TRUE])
    /\ mTraceBuffer' = NewBuffer
    /\ mWriter' = [buf |-> NewBuffer, ptr |-> Header]
    /\ packets' = <<Begun(0, packets[Len(packets)].want, TRUE)>>
    /\ mPacket' = <<[at |-> Header, size |-> 0]>>
    /\ UNCHANGED <<mWritingPacket, depth, call, begun>>

\* ReserveBytes, for the size field of a nested message.
Reserve ==
    /\ call.step = "reserve"
    /\ bytes_available >= kMessageLengthFieldSize
    /\ mWriter' = [mWriter EXCEPT !.ptr = @ + kMessageLengthFieldSize]
    /\ mPacket' = IF Linked
                  THEN Append(Grown(kMessageLengthFieldSize),
                              [at |-> mWriter'.ptr, size |-> 0])
                  ELSE mPacket
    /\ depth' = depth + 1
    /\ call' = NoCall
    /\ UNCHANGED <<mTraceBuffer, mWritingPacket, packets, saved, begun>>

\* EndNestedMessage, by the next write to the parent or by endPacket.
EndNestedMessage ==
    /\ Idle
    /\ depth > 1
    /\ depth' = depth - 1
    /\ \/ Linked /\ PopMessage
       \/ ~Linked /\ UNCHANGED <<mPacket, packets>>
    /\ UNCHANGED <<mTraceBuffer, mWriter, mWritingPacket, call, saved, begun>>

\* endPacket
EndPacket ==
    /\ Idle
    /\ depth = 1
    /\ mWritingPacket' = FALSE
    /\ packets' = [packets EXCEPT ![Len(packets)].declared = mPacket[1].size]
    /\ UNCHANGED <<mTraceBuffer, mWriter, mPacket, depth, call, saved, begun>>

Next ==
    \/ BeginPacket \/ Save
    \/ \E n \in FieldSizes : AppendField(n)
    \/ BeginNestedMessage \/ WriteRest \/ WriteBurst
    \/ FinalizeNested \/ Extend \/ Reserve \/ EndNestedMessage
    \/ EndPacket

Spec == Init /\ [][Next]_vars

-----------------------------------------------------------------------------
\* The bytes of a body that beginPacket makes sure of.
Room == neededSpace - Header

\* Packet j of a buffer that is filled up to written has been written as its
\* caller wanted it: a reader finds all of its body, the next packet where its
\* size field says, and its messages in it.
Whole(pkts, written, j) ==
    LET next == IF j < Len(pkts) THEN pkts[j + 1].at ELSE written
    IN  /\ ~pkts[j].torn
        /\ pkts[j].nested
        /\ pkts[j].declared = pkts[j].want
        /\ next = pkts[j].at + Header + pkts[j].declared

Fits(p) == p.want <= Room

\* "Make sure there's enough space for the preamble and size field, and to hold
\* a track event": a packet for which beginPacket makes sure of the space is
\* in its buffer as a whole, with the right sizes, whatever was written before.
WholePackets ==
    /\ \A b \in 1 .. Len(saved) : \A j \in 1 .. Len(saved[b].packets) :
          Fits(saved[b].packets[j]) =>
              Whole(saved[b].packets, saved[b].written, j)
    /\ \A j \in 1 .. Len(packets) :
          Fits(packets[j]) /\ (j < Len(packets) \/ ~mWritingPacket) =>
              Whole(packets, mWriter.ptr, j)

\* "Invalidates mTraceBuffer, transfers ownership of it": mWriter points into
\* a buffer that was handed over only as long as no packet is written, and no
\* buffer is handed over twice.
OwnBuffer ==
    /\ mWritingPacket => mWriter.buf = mTraceBuffer
    /\ mTraceBuffer \notin Buffers
    /\ \A j, k \in 1 .. Len(saved) : saved[j].buf = saved[k].buf => j = k
=============================================================================
