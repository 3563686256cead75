-------------------------- MODULE PacketWriterProofs --------------------------
(***************************************************************************)
(* What the buffers of a context hold, for every size of the buffers, of   *)
(* the space that is kept free and of the fields that are written.         *)
(***************************************************************************)
EXTENDS PacketWriter, TLAPS

Last == packets[Len(packets)]

\* A packet that is being written has a place in the buffer and a message, and
\* only then something is written.
ShapeInv ==
    /\ mWritingPacket => Len(packets) > 0 /\ Len(mPacket) > 0 /\ depth > 0
    /\ call.step # "none" => mWritingPacket
    /\ call.step = "write" => call.left > 0

\* Buffers are numbered in the order they are handed over.
BufferInv ==
    /\ mTraceBuffer \in {0, Len(saved) + 1}
    /\ mTraceBuffer # 0 => mWriter.buf = mTraceBuffer
    /\ mWritingPacket => mTraceBuffer # 0
    /\ mTraceBuffer = 0 => packets = <<>>
    /\ \A j \in 1 .. Len(saved) : saved[j].buf = j

\* Bytes of the call under way that are still to be written.
Pending == CASE call.step = "none" -> 0
             [] call.step = "write" ->
                   call.left + (IF call.open THEN kMessageLengthFieldSize ELSE 0)
             [] call.step = "reserve" -> kMessageLengthFieldSize

\* Bytes that are written but not yet counted.
Uncounted == IF call.step = "write" THEN call.n - call.left ELSE 0

\* A packet that fits, while it is written: it has the space it needs, every
\* nested message begins where the bytes its parent has counted end, and the
\* innermost one has counted all that was written since.
OpenInv ==
    mWritingPacket /\ Fits(Last) =>
        /\ ~Last.torn /\ Last.nested
        /\ Last.at + neededSpace <= mTraceBufferSize
        /\ mWriter.ptr + Pending = Last.at + Header + Last.want
        /\ depth = Len(mPacket)
        /\ mPacket[1].at = Last.at + Header
        /\ \A j \in 1 .. Len(mPacket) - 1 :
              mPacket[j + 1].at = mPacket[j].at + mPacket[j].size
        /\ mWriter.ptr = Top.at + Top.size + Uncounted

Inv == TypeOK /\ ShapeInv /\ BufferInv /\ OpenInv /\ WholePackets

-----------------------------------------------------------------------------
\* One element of a sequence is replaced.
LEMMA SeqExcept ==
    ASSUME NEW S, NEW s \in Seq(S), NEW k \in 1 .. Len(s), NEW e \in S
    PROVE  /\ [s EXCEPT ![k] = e] \in Seq(S)
           /\ Len([s EXCEPT ![k] = e]) = Len(s)
           /\ [s EXCEPT ![k] = e][k] = e
           /\ \A j \in 1 .. Len(s) : j # k => [s EXCEPT ![k] = e][j] = s[j]
  OBVIOUS

\* An element is appended to a sequence.
LEMMA SeqAppend ==
    ASSUME NEW S, NEW s \in Seq(S), NEW e \in S
    PROVE  /\ Append(s, e) \in Seq(S)
           /\ Len(Append(s, e)) = Len(s) + 1
           /\ Append(s, e)[Len(s) + 1] = e
           /\ \A j \in 1 .. Len(s) : Append(s, e)[j] = s[j]
  OBVIOUS

\* A sequence of one element.
LEMMA SeqOne ==
    ASSUME NEW S, NEW e \in S
    PROVE  <<e>> \in Seq(S) /\ Len(<<e>>) = 1 /\ <<e>>[1] = e
  OBVIOUS

\* Changing the last packet of a buffer, but not its place, leaves the others
\* as whole as they were.
LEMMA OthersKept ==
    ASSUME NEW s \in Seq(PacketInfo), Len(s) > 0, NEW q \in PacketInfo,
           q.at = s[Len(s)].at, NEW t, t = [s EXCEPT ![Len(s)] = q],
           NEW w, NEW v, NEW j \in 1 .. Len(s) - 1, Fits(s[j]) => Whole(s, w, j)
    PROVE  Fits(t[j]) => Whole(t, v, j)
  <1>1. Len(s) \in Nat
    OBVIOUS
  <1>2. Len(s) \in 1 .. Len(s)
    BY <1>1
  <1>3. /\ Len(t) = Len(s) /\ t[Len(s)] = q
        /\ \A k \in 1 .. Len(s) : k # Len(s) => t[k] = s[k]
    BY <1>2, SeqExcept
  <1>4. j \in Nat /\ j < Len(s) /\ j \in 1 .. Len(s) /\ j # Len(s)
    BY <1>1
  <1>6. t[j] = s[j] /\ j < Len(t)
    BY <1>3, <1>4
  <1>5. t[j + 1].at = s[j + 1].at
    <2>1. CASE j + 1 = Len(s)
      BY <2>1, <1>3
    <2>2. CASE j + 1 # Len(s)
      <3>1. j + 1 \in 1 .. Len(s)
        BY <1>1, <1>4
      <3> QED BY <2>2, <3>1, <1>3
    <2> QED BY <2>1, <2>2
  <1> QED BY <1>4, <1>5, <1>6 DEF Whole, Fits

\* A step inside a packet that changes nothing of the buffer's packets but the
\* last one's marks.
InsidePacket(q) ==
    /\ mWritingPacket
    /\ q \in PacketInfo /\ q.at = Last.at
    /\ packets' = [packets EXCEPT ![Len(packets)] = q]
    /\ mWriter' \in [buf : {mWriter.buf}, ptr : 0 .. mTraceBufferSize]
    /\ UNCHANGED <<mTraceBuffer, mWritingPacket, saved>>

\* A step inside a packet keeps the buffers and the packets before it.
LEMMA InsideKept ==
    ASSUME Inv, NEW q, InsidePacket(q)
    PROVE  /\ packets' \in Seq(PacketInfo) /\ Len(packets') = Len(packets)
           /\ Len(packets) > 0
           /\ Last' = q /\ Last \in PacketInfo
           /\ BufferInv' /\ WholePackets'
  <1>1. /\ packets \in Seq(PacketInfo) /\ Len(packets) > 0 /\ Len(packets) \in Nat
        /\ q \in PacketInfo /\ q.at = packets[Len(packets)].at
    BY DEF Inv, TypeOK, ShapeInv, InsidePacket, Last
  <1>2. Len(packets) \in 1 .. Len(packets)
    BY <1>1
  <1>3. /\ packets' = [packets EXCEPT ![Len(packets)] = q]
        /\ mWriter'.buf = mWriter.buf
        /\ UNCHANGED <<mTraceBuffer, mWritingPacket, saved>>
        /\ mWritingPacket
    BY DEF InsidePacket
  <1>4. /\ packets' \in Seq(PacketInfo) /\ Len(packets') = Len(packets)
        /\ packets'[Len(packets)] = q
    BY <1>1, <1>2, <1>3, SeqExcept
  <1>5. Last' = q /\ Last \in PacketInfo
    BY <1>1, <1>2, <1>4 DEF Last
  <1>6. BufferInv'
    BY <1>3 DEF Inv, BufferInv
  <1>7. WholePackets'
    <2>1. ASSUME NEW j \in 1 .. Len(packets'), Fits(packets'[j]), j < Len(packets')
          PROVE  Whole(packets', mWriter'.ptr, j)
      <3>1. j \in 1 .. Len(packets) - 1 /\ j \in 1 .. Len(packets)
        BY <1>1, <1>4, <2>1
      <3>2. Fits(packets[j]) => Whole(packets, mWriter.ptr, j)
        BY <1>1, <1>4, <2>1, <3>1 DEF Inv, WholePackets
      <3> QED BY <1>1, <1>3, <2>1, <3>1, <3>2, OthersKept
    <2> QED BY <1>3, <2>1 DEF Inv, WholePackets
  <1> QED BY <1>1, <1>4, <1>5, <1>6, <1>7

\* A packet with other marks or sizes is a packet.
LEMMA PacketChange ==
    ASSUME NEW p \in PacketInfo, NEW w \in Nat, NEW b \in BOOLEAN
    PROVE  /\ [p EXCEPT !.want = w] \in PacketInfo
           /\ [p EXCEPT !.nested = b] \in PacketInfo
           /\ [p EXCEPT !.declared = w] \in PacketInfo
           /\ [p EXCEPT !.declared = w, !.torn = TRUE] \in PacketInfo
  BY DEF PacketInfo

\* A message with another size_ is a message at the same place.
LEMMA MessageChange ==
    ASSUME NEW m \in Message, NEW k \in Nat
    PROVE  /\ [m EXCEPT !.size = k] \in Message
           /\ [m EXCEPT !.size = k].at = m.at
           /\ [m EXCEPT !.size = k].size = k
  BY DEF Message

\* The writer moves within its buffer.
LEMMA WriterChange ==
    ASSUME NEW w \in [buf : Nat, ptr : 0 .. mTraceBufferSize],
           NEW p \in 0 .. mTraceBufferSize
    PROVE  /\ [w EXCEPT !.ptr = p] \in [buf : Nat, ptr : 0 .. mTraceBufferSize]
           /\ [w EXCEPT !.ptr = p] \in [buf : {w.buf}, ptr : 0 .. mTraceBufferSize]
           /\ [w EXCEPT !.ptr = p].ptr = p
  OBVIOUS

-----------------------------------------------------------------------------
\* A new context satisfies the invariant.
LEMMA InitInv == Init => Inv
  <1> SUFFICES ASSUME Init PROVE Inv
    OBVIOUS
  <1>5. call \in Calls
    BY DEF Init, Calls, NoCall
  <1>6. mWriter \in [buf : Nat, ptr : 0 .. mTraceBufferSize]
    BY WriterAssumption DEF Init
  <1>7. mPacket \in Seq(Message) /\ packets \in Seq(PacketInfo)
    BY DEF Init
  <1>8. saved \in Seq([buf : Nat, written : Nat, packets : Seq(PacketInfo)])
    BY DEF Init
  <1>1. TypeOK
    BY <1>5, <1>6, <1>7, <1>8 DEF Init, TypeOK
  <1>2. ShapeInv /\ OpenInv
    BY DEF Init, ShapeInv, OpenInv, NoCall
  <1>3. BufferInv
    BY DEF Init, BufferInv
  <1>4. WholePackets
    BY DEF Init, WholePackets
  <1> QED BY <1>1, <1>2, <1>3, <1>4 DEF Inv

\* AppendField and BeginNestedMessage: only want and call change.
LEMMA CallInv ==
    ASSUME Inv, NEW n \in Nat, NEW m \in Nat, n > 0,
           NEW open \in BOOLEAN,
           m = n + (IF open THEN kMessageLengthFieldSize ELSE 0),
           Idle,
           call' = [step |-> "write", n |-> n, left |-> n, open |-> open],
           Want(m),
           UNCHANGED <<mTraceBuffer, mWriter, mWritingPacket, mPacket, depth,
                       saved, begun>>
    PROVE  Inv'
  <1> DEFINE q == [Last EXCEPT !.want = Last.want + m]
  <1>1. /\ packets \in Seq(PacketInfo) /\ Len(packets) > 0 /\ Len(packets) \in Nat
        /\ mWritingPacket /\ call.step = "none"
        /\ mWriter \in [buf : Nat, ptr : 0 .. mTraceBufferSize]
    BY DEF Inv, TypeOK, ShapeInv, Idle
  <1>2. Last \in PacketInfo
    BY <1>1 DEF Last
  <1>3. Last.want \in Nat /\ Last.want + m \in Nat /\ Last.at \in Nat
    BY <1>2 DEF PacketInfo
  <1>4. /\ q \in PacketInfo /\ q.at = Last.at /\ q.want = Last.want + m
        /\ q.torn = Last.torn /\ q.nested = Last.nested
    BY <1>2, <1>3, PacketChange DEF PacketInfo
  <1>5. packets' = [packets EXCEPT ![Len(packets)] = q]
    BY DEF Want, Last
  <1> HIDE DEF q
  <1>6. InsidePacket(q)
    BY <1>1, <1>4, <1>5 DEF InsidePacket
  <1>7. /\ packets' \in Seq(PacketInfo) /\ Len(packets') = Len(packets)
        /\ Last' = q /\ BufferInv' /\ WholePackets'
    BY <1>6, InsideKept
  <1>8. call' \in Calls
    BY DEF Calls
  <1>9. TypeOK'
    BY <1>7, <1>8 DEF Inv, TypeOK
  <1>10. ShapeInv'
    BY <1>1, <1>7 DEF Inv, ShapeInv
  <1>11. OpenInv'
    <2> SUFFICES ASSUME Fits(Last')
                 PROVE  OpenInv'
      BY <1>7 DEF OpenInv, Fits
    <2>1. Fits(Last)
      BY <1>3, <1>4, <1>7, WriterAssumption
      DEF Fits, Room, neededSpace, Header, kPacketHeaderSize, TagSize
    <2>2. Pending = 0 /\ Uncounted = 0 /\ Pending' = m /\ Uncounted' = 0
      BY <1>1 DEF Pending, Uncounted
    <2>3. mWriter.ptr \in Nat /\ Header \in Nat
      BY <1>1 DEF Header, kPacketHeaderSize, TagSize
    <2>6. mWriter.ptr + Pending = Last.at + Header + Last.want
      BY <1>1, <2>1 DEF Inv, OpenInv
    <2>4. mWriter.ptr + m = Last.at + Header + (Last.want + m)
      BY <1>3, <2>2, <2>3, <2>6
    <2>5. Top' = Top
      BY DEF Top
    <2> QED BY <1>1, <1>4, <1>7, <2>1, <2>2, <2>4, <2>5 DEF Inv, OpenInv
  <1> QED BY <1>7, <1>9, <1>10, <1>11 DEF Inv

\* The types of what a step inside a packet looks at.
LEMMA InsideTypes ==
    ASSUME Inv, mWritingPacket
    PROVE  /\ packets \in Seq(PacketInfo) /\ Len(packets) > 0 /\ Len(packets) \in Nat
           /\ Last \in PacketInfo
           /\ Last.at \in Nat /\ Last.want \in Nat
           /\ packets = [packets EXCEPT ![Len(packets)] = Last]
           /\ mPacket \in Seq(Message) /\ Len(mPacket) > 0 /\ Len(mPacket) \in Nat
           /\ Top \in Message /\ Top.at \in Nat /\ Top.size \in Nat
           /\ mWriter \in [buf : Nat, ptr : 0 .. mTraceBufferSize]
           /\ mWriter.ptr \in Nat /\ mWriter.ptr <= mTraceBufferSize
           /\ call.n \in Nat /\ call.left \in Nat /\ call.open \in BOOLEAN
  <1>1. /\ packets \in Seq(PacketInfo) /\ Len(packets) > 0 /\ Len(packets) \in Nat
        /\ mPacket \in Seq(Message) /\ Len(mPacket) > 0 /\ Len(mPacket) \in Nat
    BY DEF Inv, TypeOK, ShapeInv
  <1>2. Last \in PacketInfo /\ Top \in Message
    BY <1>1 DEF Last, Top
  <1>3. Last.at \in Nat /\ Last.want \in Nat /\ Top.at \in Nat /\ Top.size \in Nat
    BY <1>2 DEF PacketInfo, Message
  <1>4. packets = [packets EXCEPT ![Len(packets)] = Last]
    BY <1>1 DEF Last
  <1>5. /\ mWriter \in [buf : Nat, ptr : 0 .. mTraceBufferSize]
        /\ mWriter.ptr \in Nat /\ mWriter.ptr <= mTraceBufferSize
    BY WriterAssumption DEF Inv, TypeOK
  <1>6. call.n \in Nat /\ call.left \in Nat /\ call.open \in BOOLEAN
    BY DEF Inv, TypeOK, Calls
  <1> QED BY <1>1, <1>2, <1>3, <1>4, <1>5, <1>6

\* A packet that fits has the space for what is still to be written.
LEMMA OpenRoom ==
    ASSUME Inv, mWritingPacket, Fits(Last)
    PROVE  mWriter.ptr + Pending <= mTraceBufferSize
  <1>1. /\ Last.at \in Nat /\ Last.want \in Nat
        /\ mTraceBufferSize \in Nat /\ kTrackEventPadding \in Nat
    BY InsideTypes, WriterAssumption
  <1>2. /\ Last.at + neededSpace <= mTraceBufferSize
        /\ mWriter.ptr + Pending = Last.at + Header + Last.want
    BY DEF Inv, OpenInv
  <1>3. Last.want <= neededSpace - Header
    BY DEF Fits, Room
  <1> QED BY <1>1, <1>2, <1>3
      DEF neededSpace, Header, kPacketHeaderSize, TagSize

\* What the open messages are after size_ has grown.
LEMMA GrownFacts ==
    ASSUME Inv, mWritingPacket, NEW n \in Nat
    PROVE  /\ Grown(n) \in Seq(Message) /\ Len(Grown(n)) = Len(mPacket)
           /\ \A j \in 1 .. Len(mPacket) : Grown(n)[j].at = mPacket[j].at
           /\ \A j \in 1 .. Len(mPacket) - 1 : Grown(n)[j].size = mPacket[j].size
           /\ Linked => Grown(n)[Len(mPacket)].size = Top.size + n
  <1> DEFINE L == Len(mPacket)
             m == [Top EXCEPT !.size = Top.size + n]
  <1>1. /\ mPacket \in Seq(Message) /\ L > 0 /\ L \in Nat /\ L \in 1 .. L
        /\ Top \in Message /\ Top.size \in Nat
    BY InsideTypes
  <1>2. m \in Message /\ m.at = Top.at /\ m.size = Top.size + n
    <2>1. Top.size + n \in Nat
      BY <1>1
    <2> QED BY <1>1, <2>1, MessageChange
  <1>3. CASE Linked
    <2>1. Grown(n) = [mPacket EXCEPT ![L] = m]
      BY <1>3 DEF Grown, Top
    <2> HIDE DEF m
    <2>2. /\ Grown(n) \in Seq(Message) /\ Len(Grown(n)) = L /\ Grown(n)[L] = m
          /\ \A j \in 1 .. L : j # L => Grown(n)[j] = mPacket[j]
      BY <1>1, <1>2, <2>1, SeqExcept
    <2>3. \A j \in 1 .. L : Grown(n)[j].at = mPacket[j].at
      BY <1>2, <2>2 DEF Top
    <2> QED BY <1>1, <1>2, <2>2, <2>3
  <1>4. CASE ~Linked
    BY <1>1, <1>4 DEF Grown
  <1> QED BY <1>3, <1>4

\* WriteToStream, its last burst: the bytes that were pending are written and counted.
LEMMA WriteRestInv ==
    ASSUME Inv, WriteRest
    PROVE  Inv'
  <1>1. mWritingPacket /\ call.step = "write" /\ call.left > 0
    BY DEF WriteRest, Inv, ShapeInv
  <1>2. /\ mWriter' = [mWriter EXCEPT !.ptr = mWriter.ptr + call.left]
        /\ mPacket' = Grown(call.n)
        /\ call' = IF call.open THEN [call EXCEPT !.step = "reserve"] ELSE NoCall
        /\ call.left <= mTraceBufferSize - mWriter.ptr
        /\ UNCHANGED <<mTraceBuffer, mWritingPacket, depth, packets, saved, begun>>
    BY DEF WriteRest, bytes_available
  <1>3. /\ mWriter'.ptr = mWriter.ptr + call.left
        /\ mWriter' \in [buf : {mWriter.buf}, ptr : 0 .. mTraceBufferSize]
        /\ mWriter' \in [buf : Nat, ptr : 0 .. mTraceBufferSize]
    <2>2. /\ mWriter.ptr \in Nat /\ call.left \in Nat
          /\ mTraceBufferSize \in Nat
      BY <1>1, InsideTypes, WriterAssumption
    <2>1. mWriter.ptr + call.left \in 0 .. mTraceBufferSize
      BY <1>2, <2>2
    <2> QED BY <1>1, <1>2, <2>1, InsideTypes, WriterChange
  <1>4. InsidePacket(Last)
    BY <1>1, <1>2, <1>3, InsideTypes DEF InsidePacket
  <1>5. Last' = Last /\ BufferInv' /\ WholePackets'
    BY <1>4, InsideKept
  <1>6. /\ call' \in Calls /\ call'.step \in {"none", "reserve"}
        /\ call'.step = (IF call.open THEN "reserve" ELSE "none")
    BY <1>2 DEF Inv, TypeOK, Calls, NoCall
  <1>7. mPacket' \in Seq(Message) /\ Len(mPacket') = Len(mPacket)
    BY <1>1, <1>2, InsideTypes, GrownFacts
  <1>8. TypeOK'
    BY <1>2, <1>3, <1>6, <1>7 DEF Inv, TypeOK
  <1>9. ShapeInv'
    BY <1>1, <1>2, <1>6, <1>7 DEF Inv, ShapeInv
  <1>10. OpenInv'
    <2> SUFFICES ASSUME Fits(Last)
                 PROVE  OpenInv'
      BY <1>5 DEF OpenInv, Fits
    <2>1. Linked
      BY <1>1 DEF Inv, OpenInv, Linked
    <2>2. /\ \A j \in 1 .. Len(mPacket) : mPacket'[j].at = mPacket[j].at
          /\ \A j \in 1 .. Len(mPacket) - 1 : mPacket'[j].size = mPacket[j].size
          /\ Top'.size = Top.size + call.n /\ Top'.at = Top.at
      <3>1. /\ call.n \in Nat /\ Len(mPacket) \in 1 .. Len(mPacket)
        BY <1>1, InsideTypes
      <3>2. /\ \A j \in 1 .. Len(mPacket) : mPacket'[j].at = mPacket[j].at
            /\ \A j \in 1 .. Len(mPacket) - 1 : mPacket'[j].size = mPacket[j].size
            /\ mPacket'[Len(mPacket)].size = Top.size + call.n
        BY <1>1, <1>2, <2>1, <3>1, GrownFacts
      <3>3. Top' = mPacket'[Len(mPacket)]
        BY <1>7 DEF Top
      <3> QED BY <3>1, <3>2, <3>3 DEF Top
    <2>3. Pending = call.left + Pending' /\ Uncounted' = 0
      BY <1>1, <1>6, InsideTypes
      DEF Pending, Uncounted, kMessageLengthFieldSize
    <2>4. Uncounted = call.n - call.left
      BY <1>1 DEF Uncounted
    <2>5. Pending' \in Nat
      BY <1>6 DEF Pending, kMessageLengthFieldSize
    <2>6. /\ mWriter.ptr + Pending = Last.at + Header + Last.want
          /\ mWriter.ptr = Top.at + Top.size + Uncounted
          /\ ~Last.torn /\ Last.nested
          /\ Last.at + neededSpace <= mTraceBufferSize
          /\ depth = Len(mPacket)
          /\ mPacket[1].at = Last.at + Header
          /\ \A j \in 1 .. Len(mPacket) - 1 :
                mPacket[j + 1].at = mPacket[j].at + mPacket[j].size
      BY <1>1 DEF Inv, OpenInv
    <2>7. mWriter'.ptr + Pending' = Last.at + Header + Last.want
      BY <1>1, <1>3, <2>3, <2>5, <2>6, InsideTypes
    <2>8. mWriter'.ptr = Top'.at + Top'.size + Uncounted'
      <3>1. /\ Top.at \in Nat /\ Top.size \in Nat /\ mWriter.ptr \in Nat
            /\ call.n \in Nat /\ call.left \in Nat
        BY <1>1, InsideTypes
      <3>2. mWriter.ptr = Top.at + Top.size + (call.n - call.left)
        BY <2>4, <2>6
      <3>3. mWriter.ptr + call.left = Top.at + (Top.size + call.n) + 0
        BY <3>1, <3>2
      <3> QED BY <1>3, <2>2, <2>3, <3>3
    <2>9. /\ mPacket'[1].at = Last.at + Header
          /\ \A j \in 1 .. Len(mPacket') - 1 :
                mPacket'[j + 1].at = mPacket'[j].at + mPacket'[j].size
      <3>1. Len(mPacket) \in Nat /\ Len(mPacket) > 0
        BY <1>1, InsideTypes
      <3>2. /\ 1 \in 1 .. Len(mPacket)
            /\ \A j \in 1 .. Len(mPacket) - 1 :
                  j \in 1 .. Len(mPacket) /\ j + 1 \in 1 .. Len(mPacket)
        BY <3>1
      <3> QED BY <1>7, <2>2, <2>6, <3>2
    <2> QED BY <1>2, <1>5, <1>7, <2>6, <2>7, <2>8, <2>9 DEF OpenInv
  <1> QED BY <1>5, <1>8, <1>9, <1>10 DEF Inv

\* WriteBytesSlowPath, a burst that fills the buffer: never in a packet that fits.
LEMMA WriteBurstInv ==
    ASSUME Inv, WriteBurst
    PROVE  Inv'
  <1>1. mWritingPacket /\ call.step = "write"
    BY DEF WriteBurst, Inv, ShapeInv
  <1>2. /\ mWriter' = [mWriter EXCEPT !.ptr = mTraceBufferSize]
        /\ call' = [call EXCEPT !.left = call.left - bytes_available]
        /\ bytes_available \in 1 .. call.left - 1
        /\ UNCHANGED <<mTraceBuffer, mWritingPacket, mPacket, depth, packets,
                       saved, begun>>
    BY DEF WriteBurst
  <1>3. /\ mWriter' \in [buf : {mWriter.buf}, ptr : 0 .. mTraceBufferSize]
        /\ mWriter' \in [buf : Nat, ptr : 0 .. mTraceBufferSize]
    <2>1. mTraceBufferSize \in 0 .. mTraceBufferSize
      BY WriterAssumption
    <2> QED BY <1>1, <1>2, <2>1, InsideTypes, WriterChange
  <1>4. InsidePacket(Last)
    BY <1>1, <1>2, <1>3, InsideTypes DEF InsidePacket
  <1>5. Last' = Last /\ BufferInv' /\ WholePackets'
    BY <1>4, InsideKept
  <1>6. call' \in Calls /\ call'.step = "write" /\ call'.left > 0
    <2> DEFINE left == call.left - bytes_available
    <2>1. left \in Nat /\ left > 0
      BY <1>1, <1>2, InsideTypes
    <2>2. call' = [call EXCEPT !.left = left]
      BY <1>2
    <2> HIDE DEF left
    <2> QED BY <1>1, <2>1, <2>2 DEF Inv, TypeOK, Calls
  <1>7. TypeOK'
    BY <1>2, <1>3, <1>6 DEF Inv, TypeOK
  <1>8. ShapeInv'
    BY <1>1, <1>2, <1>6 DEF Inv, ShapeInv
  <1>9. ~Fits(Last)
    <2> SUFFICES ASSUME Fits(Last) PROVE FALSE
      OBVIOUS
    <2>1. mWriter.ptr + Pending <= mTraceBufferSize
      BY <1>1, OpenRoom
    <2>2. Pending >= call.left /\ Pending \in Nat
      BY <1>1, InsideTypes DEF Pending, kMessageLengthFieldSize
    <2>3. mWriter.ptr \in Nat /\ call.left \in Nat /\ mTraceBufferSize \in Nat
      BY <1>1, InsideTypes, WriterAssumption
    <2>4. mTraceBufferSize - mWriter.ptr < call.left
      BY <1>2, <2>3 DEF bytes_available
    <2> QED BY <2>1, <2>2, <2>3, <2>4
  <1>10. OpenInv'
    BY <1>5, <1>9 DEF OpenInv, Fits
  <1> QED BY <1>5, <1>7, <1>8, <1>10 DEF Inv

\* ReserveBytes for a size field, and the nested message behind it.
LEMMA ReserveInv ==
    ASSUME Inv, Reserve
    PROVE  Inv'
  <1> DEFINE new == [at |-> mWriter'.ptr, size |-> 0]
             G == Grown(kMessageLengthFieldSize)
             L == Len(mPacket)
  <1>1. mWritingPacket /\ call.step = "reserve"
    BY DEF Reserve, Inv, ShapeInv
  <1>2. /\ mWriter' = [mWriter EXCEPT !.ptr = mWriter.ptr + kMessageLengthFieldSize]
        /\ mPacket' = IF Linked THEN Append(G, new) ELSE mPacket
        /\ depth' = depth + 1
        /\ call' = NoCall
        /\ kMessageLengthFieldSize <= mTraceBufferSize - mWriter.ptr
        /\ UNCHANGED <<mTraceBuffer, mWritingPacket, packets, saved, begun>>
    BY DEF Reserve, bytes_available
  <1>3. /\ mWriter'.ptr = mWriter.ptr + 4
        /\ mWriter' \in [buf : {mWriter.buf}, ptr : 0 .. mTraceBufferSize]
        /\ mWriter' \in [buf : Nat, ptr : 0 .. mTraceBufferSize]
    <2>2. mWriter.ptr \in Nat /\ mTraceBufferSize \in Nat
      BY <1>1, InsideTypes, WriterAssumption
    <2>1. mWriter.ptr + 4 \in 0 .. mTraceBufferSize
      BY <1>2, <2>2 DEF kMessageLengthFieldSize
    <2>3. mWriter' = [mWriter EXCEPT !.ptr = mWriter.ptr + 4]
      BY <1>2 DEF kMessageLengthFieldSize
    <2> QED BY <1>1, <2>1, <2>3, InsideTypes, WriterChange
  <1>4. InsidePacket(Last)
    BY <1>1, <1>2, <1>3, InsideTypes DEF InsidePacket
  <1>5. Last' = Last /\ BufferInv' /\ WholePackets'
    BY <1>4, InsideKept
  <1>6. call' \in Calls /\ call'.step = "none"
    BY <1>2 DEF Calls, NoCall
  <1>7. /\ G \in Seq(Message) /\ Len(G) = L /\ L \in Nat /\ L > 0
        /\ \A j \in 1 .. L : G[j].at = mPacket[j].at
        /\ \A j \in 1 .. L - 1 : G[j].size = mPacket[j].size
        /\ Linked => G[L].size = Top.size + 4
    BY <1>1, InsideTypes, GrownFacts DEF kMessageLengthFieldSize
  <1>8. new \in Message /\ new.at = mWriter'.ptr /\ new.size = 0
    BY <1>1, <1>3, InsideTypes DEF Message
  <1> HIDE DEF new, G
  <1>9. /\ mPacket' \in Seq(Message) /\ Len(mPacket') > 0
        /\ Linked => /\ Len(mPacket') = L + 1
                     /\ mPacket'[L + 1] = new
                     /\ \A j \in 1 .. L : mPacket'[j] = G[j]
    BY <1>1, <1>2, <1>7, <1>8, InsideTypes, SeqAppend
  <1>10. TypeOK'
    BY <1>2, <1>3, <1>6, <1>9 DEF Inv, TypeOK
  <1>11. ShapeInv'
    BY <1>1, <1>2, <1>6, <1>9 DEF Inv, ShapeInv, TypeOK
  <1>12. OpenInv'
    <2> SUFFICES ASSUME Fits(Last)
                 PROVE  OpenInv'
      BY <1>5 DEF OpenInv, Fits
    <2>1. Linked /\ depth = L
      BY <1>1 DEF Inv, OpenInv, Linked
    <2>2. Pending = 4 /\ Uncounted = 0 /\ Pending' = 0 /\ Uncounted' = 0
      BY <1>1, <1>6 DEF Pending, Uncounted, kMessageLengthFieldSize
    <2>3. /\ mWriter.ptr + Pending = Last.at + Header + Last.want
          /\ mWriter.ptr = Top.at + Top.size + Uncounted
          /\ ~Last.torn /\ Last.nested
          /\ Last.at + neededSpace <= mTraceBufferSize
          /\ mPacket[1].at = Last.at + Header
          /\ \A j \in 1 .. L - 1 :
                mPacket[j + 1].at = mPacket[j].at + mPacket[j].size
      BY <1>1 DEF Inv, OpenInv
    <2>4. mWriter'.ptr + Pending' = Last.at + Header + Last.want
      <3>1. mWriter.ptr \in Nat
        BY <1>1, InsideTypes
      <3> QED BY <1>3, <2>2, <2>3, <3>1
    <2>5. Top' = new
      BY <1>9, <2>1 DEF Top
    <2>6. mWriter'.ptr = Top'.at + Top'.size + Uncounted'
      <3>1. mWriter'.ptr \in Nat
        BY <1>1, <1>3, InsideTypes
      <3> QED BY <1>8, <2>2, <2>5, <3>1
    <2>7. mPacket'[1].at = Last.at + Header
      BY <1>7, <1>9, <2>1, <2>3
    <2>8. ASSUME NEW j \in 1 .. Len(mPacket') - 1
          PROVE  mPacket'[j + 1].at = mPacket'[j].at + mPacket'[j].size
      <3>1. j \in 1 .. L
        BY <1>7, <1>9, <2>1
      <3>2. CASE j < L
        <4>1. j \in 1 .. L - 1 /\ j + 1 \in 1 .. L
          BY <1>7, <3>1, <3>2
        <4> QED BY <1>7, <1>9, <2>1, <2>3, <3>1, <4>1
      <3>3. CASE j = L
        <4>1. /\ Top.at \in Nat /\ Top.size \in Nat
          BY <1>1, InsideTypes
        <4>2. G[L].at = Top.at /\ G[L].size = Top.size + 4
          BY <1>7, <2>1, <3>1, <3>3 DEF Top
        <4>3. mWriter.ptr + 4 = Top.at + (Top.size + 4)
          BY <2>2, <2>3, <4>1
        <4> QED BY <1>3, <1>8, <1>9, <2>1, <3>1, <3>3, <4>2, <4>3
      <3> QED BY <1>7, <3>1, <3>2, <3>3
    <2>9. depth' = Len(mPacket')
      BY <1>2, <1>9, <2>1
    <2> QED BY <1>2, <1>5, <2>3, <2>4, <2>6, <2>7, <2>8, <2>9 DEF OpenInv
  <1> QED BY <1>5, <1>10, <1>11, <1>12 DEF Inv

\* The end of the innermost message.
LEMMA PopFacts ==
    ASSUME Inv, mWritingPacket, Len(mPacket) > 1, PopMessage,
           NEW L, L = Len(mPacket) - 1
    PROVE  /\ mPacket' \in Seq(Message) /\ Len(mPacket') = L /\ L \in Nat /\ L > 0
           /\ \A j \in 1 .. L : mPacket'[j].at = mPacket[j].at
           /\ \A j \in 1 .. L - 1 : mPacket'[j].size = mPacket[j].size
           /\ mPacket'[L].size = mPacket[L].size + Top.size
           /\ mPacket[L].at \in Nat /\ mPacket[L].size \in Nat
           /\ packets' = [packets EXCEPT ![Len(packets)] =
                 [Last EXCEPT !.nested =
                     (Last.nested /\ Top.size = mWriter.ptr - Top.at)]]
  <1> DEFINE S == SubSeq(mPacket, 1, L)
             m == [S[L] EXCEPT !.size = S[L].size + Top.size]
  <1>1. /\ mPacket \in Seq(Message) /\ Len(mPacket) \in Nat /\ Top.size \in Nat
        /\ L \in Nat /\ L > 0 /\ L < Len(mPacket)
    BY InsideTypes
  <1>2. /\ S \in Seq(Message) /\ Len(S) = L
        /\ \A j \in 1 .. L : S[j] = mPacket[j]
    BY <1>1
  <1>3. L \in 1 .. L /\ L \in 1 .. Len(S)
    BY <1>1, <1>2
  <1>4. S[L] = mPacket[L] /\ S[L] \in Message
    BY <1>2, <1>3
  <1>5. mPacket' = [S EXCEPT ![L] = m]
    BY DEF PopMessage
  <1> HIDE DEF S
  <1>12. S[L].size \in Nat /\ S[L].at \in Nat
    BY <1>4 DEF Message
  <1>6. S[L].size + Top.size \in Nat /\ S[L].size \in Nat /\ S[L].at \in Nat
    BY <1>1, <1>12
  <1>7. m \in Message /\ m.at = S[L].at /\ m.size = S[L].size + Top.size
    BY <1>4, <1>6, MessageChange
  <1> HIDE DEF m
  <1>8. /\ mPacket' \in Seq(Message) /\ Len(mPacket') = L /\ mPacket'[L] = m
        /\ \A j \in 1 .. L : j # L => mPacket'[j] = S[j]
    BY <1>2, <1>3, <1>5, <1>7, SeqExcept
  <1>9. \A j \in 1 .. L : mPacket'[j].at = mPacket[j].at
    BY <1>2, <1>4, <1>7, <1>8
  <1>10. \A j \in 1 .. L - 1 : mPacket'[j].size = mPacket[j].size
    <2>1. \A j \in 1 .. L - 1 : j \in 1 .. L /\ j # L
      BY <1>1
    <2> QED BY <1>2, <1>8, <2>1
  <1>11. packets' = [packets EXCEPT ![Len(packets)] =
              [Last EXCEPT !.nested =
                  (Last.nested /\ Top.size = mWriter.ptr - Top.at)]]
    BY DEF PopMessage, Last
  <1> QED BY <1>1, <1>4, <1>6, <1>7, <1>8, <1>9, <1>10, <1>11

\* The end of a nested message keeps the buffers and the packets.
LEMMA PopKept ==
    ASSUME Inv, mWritingPacket, Len(mPacket) > 1, PopMessage,
           UNCHANGED <<mTraceBuffer, mWriter, mWritingPacket, call, saved>>
    PROVE  /\ packets' \in Seq(PacketInfo) /\ Len(packets') > 0
           /\ Last'.at = Last.at /\ Last'.want = Last.want /\ Last'.torn = Last.torn
           /\ Last'.nested = (Last.nested /\ Top.size = mWriter.ptr - Top.at)
           /\ BufferInv' /\ WholePackets'
  <1> DEFINE b == (Last.nested /\ Top.size = mWriter.ptr - Top.at)
             q == [Last EXCEPT !.nested = b]
  <1>1. Last \in PacketInfo /\ b \in BOOLEAN
    BY InsideTypes
  <1>2. packets' = [packets EXCEPT ![Len(packets)] = q]
    BY PopFacts
  <1> HIDE DEF b
  <1>3. /\ q \in PacketInfo /\ q.at = Last.at /\ q.want = Last.want
        /\ q.torn = Last.torn /\ q.nested = b
    BY <1>1, PacketChange DEF PacketInfo
  <1> HIDE DEF q
  <1>4. InsidePacket(q)
    BY <1>2, <1>3, InsideTypes DEF InsidePacket
  <1>5. /\ packets' \in Seq(PacketInfo) /\ Len(packets') > 0 /\ Last' = q
        /\ BufferInv' /\ WholePackets'
    BY <1>4, InsideKept
  <1> QED BY <1>3, <1>5 DEF b

\* A packet that is broken off did not fit.
LEMMA OnlyOversized ==
    ASSUME Inv, MustExtend
    PROVE  mWritingPacket /\ ~Fits(Last)
  <1>1. mWritingPacket /\ call.step \in {"write", "reserve"}
    BY DEF MustExtend, Inv, ShapeInv
  <1>2. /\ mWriter.ptr \in Nat /\ call.left \in Nat /\ mTraceBufferSize \in Nat
        /\ call.open \in BOOLEAN
    BY <1>1, InsideTypes, WriterAssumption
  <1> SUFFICES ASSUME Fits(Last) PROVE FALSE
    BY <1>1
  <1>3. mWriter.ptr + Pending <= mTraceBufferSize
    BY <1>1, OpenRoom
  <1>4. CASE call.step = "write"
    <2>1. Pending >= call.left /\ Pending \in Nat
      BY <1>2, <1>4 DEF Pending, kMessageLengthFieldSize
    <2>2. mTraceBufferSize - mWriter.ptr < call.left
      BY <1>2, <1>4 DEF MustExtend, bytes_available
    <2> QED BY <1>2, <1>3, <2>1, <2>2
  <1>5. CASE call.step = "reserve"
    <2>1. Pending = 4
      BY <1>5 DEF Pending, kMessageLengthFieldSize
    <2>2. mTraceBufferSize - mWriter.ptr < 4
      BY <1>2, <1>5 DEF MustExtend, bytes_available, kMessageLengthFieldSize
    <2> QED BY <1>2, <1>3, <2>1, <2>2
  <1> QED BY <1>1, <1>4, <1>5

\* Finalize under GetNewBuffer: never in a packet that fits.
LEMMA FinalizeNestedInv ==
    ASSUME Inv, FinalizeNested
    PROVE  Inv'
  <1>1. mWritingPacket /\ ~Fits(Last) /\ Len(mPacket) > 1 /\ PopMessage
    BY OnlyOversized DEF FinalizeNested
  <1>2. UNCHANGED <<mTraceBuffer, mWriter, mWritingPacket, depth, call, saved, begun>>
    BY DEF FinalizeNested
  <1>3. /\ packets' \in Seq(PacketInfo) /\ Len(packets') > 0
        /\ Last'.want = Last.want /\ BufferInv' /\ WholePackets'
    BY <1>1, <1>2, PopKept
  <1>4. mPacket' \in Seq(Message) /\ Len(mPacket') > 0
    BY <1>1, PopFacts
  <1>5. TypeOK' /\ ShapeInv'
    BY <1>1, <1>2, <1>3, <1>4 DEF Inv, TypeOK, ShapeInv
  <1>6. OpenInv'
    BY <1>1, <1>3 DEF OpenInv, Fits, Room
  <1> QED BY <1>3, <1>5, <1>6 DEF Inv

\* EndNestedMessage
LEMMA EndNestedInv ==
    ASSUME Inv, EndNestedMessage
    PROVE  Inv'
  <1>1. /\ mWritingPacket /\ call.step = "none" /\ depth > 1 /\ depth' = depth - 1
        /\ depth \in Nat
        /\ UNCHANGED <<mTraceBuffer, mWriter, mWritingPacket, call, saved, begun>>
    BY DEF EndNestedMessage, Idle, Inv, TypeOK
  <1>2. CASE ~Linked /\ UNCHANGED <<mPacket, packets>>
    <2>1. Last' = Last
      BY <1>2 DEF Last
    <2>2. ~Fits(Last)
      BY <1>1, <1>2 DEF Inv, OpenInv, Linked
    <2>3. OpenInv'
      BY <2>1, <2>2 DEF OpenInv, Fits
    <2>4. TypeOK' /\ ShapeInv' /\ BufferInv'
      BY <1>1, <1>2 DEF Inv, TypeOK, ShapeInv, BufferInv
    <2>5. WholePackets'
      BY <1>1, <1>2 DEF Inv, WholePackets
    <2> QED BY <2>3, <2>4, <2>5 DEF Inv
  <1>3. CASE Linked /\ PopMessage
    <2> DEFINE L == Len(mPacket) - 1
    <2>1. Len(mPacket) > 1 /\ depth = Len(mPacket)
      BY <1>1, <1>3 DEF Linked
    <2>2. /\ packets' \in Seq(PacketInfo) /\ Len(packets') > 0
          /\ Last'.at = Last.at /\ Last'.want = Last.want
          /\ Last'.torn = Last.torn
          /\ Last'.nested = (Last.nested /\ Top.size = mWriter.ptr - Top.at)
          /\ BufferInv' /\ WholePackets'
      BY <1>1, <1>3, <2>1, PopKept
    <2>3. /\ mPacket' \in Seq(Message) /\ Len(mPacket') = L /\ L \in Nat /\ L > 0
          /\ \A j \in 1 .. L : mPacket'[j].at = mPacket[j].at
          /\ \A j \in 1 .. L - 1 : mPacket'[j].size = mPacket[j].size
          /\ mPacket'[L].size = mPacket[L].size + Top.size
          /\ mPacket[L].at \in Nat /\ mPacket[L].size \in Nat
      BY <1>1, <1>3, <2>1, PopFacts
    <2>4. TypeOK' /\ ShapeInv'
      BY <1>1, <2>1, <2>2, <2>3 DEF Inv, TypeOK, ShapeInv
    <2>5. OpenInv'
      <3> SUFFICES ASSUME Fits(Last)
                   PROVE  OpenInv'
        BY <2>2 DEF OpenInv, Fits, Room
      <3>1. Pending = 0 /\ Uncounted = 0 /\ Pending' = 0 /\ Uncounted' = 0
        BY <1>1 DEF Pending, Uncounted
      <3>2. /\ mWriter.ptr + Pending = Last.at + Header + Last.want
            /\ mWriter.ptr = Top.at + Top.size + Uncounted
            /\ ~Last.torn /\ Last.nested
            /\ Last.at + neededSpace <= mTraceBufferSize
            /\ mPacket[1].at = Last.at + Header
            /\ \A j \in 1 .. Len(mPacket) - 1 :
                  mPacket[j + 1].at = mPacket[j].at + mPacket[j].size
        BY <1>1 DEF Inv, OpenInv
      <3>3. mWriter.ptr \in Nat /\ Top.at \in Nat /\ Top.size \in Nat
        BY <1>1, InsideTypes
      <3>4. Last'.nested
        <4>1. Top.size = mWriter.ptr - Top.at
          BY <3>1, <3>2, <3>3
        <4> QED BY <2>2, <3>2, <4>1, Zenon
      <3>5. Top' = mPacket'[L]
        BY <2>3 DEF Top
      <3>6. L \in 1 .. L /\ L \in 1 .. Len(mPacket) - 1 /\ L + 1 = Len(mPacket)
        BY <2>1, <2>3
      <3>7. Top.at = mPacket[L].at + mPacket[L].size
        BY <3>2, <3>6 DEF Top
      <3>8. mWriter'.ptr = Top'.at + Top'.size + Uncounted'
        <4>1. Top'.at = mPacket[L].at /\ Top'.size = mPacket[L].size + Top.size
          BY <2>3, <3>5, <3>6
        <4> QED BY <1>1, <2>3, <3>1, <3>2, <3>3, <3>7, <4>1
      <3>9. /\ mPacket'[1].at = Last.at + Header
            /\ \A j \in 1 .. Len(mPacket') - 1 :
                  mPacket'[j + 1].at = mPacket'[j].at + mPacket'[j].size
        <4>1. /\ 1 \in 1 .. L
              /\ \A j \in 1 .. L - 1 : /\ j \in 1 .. L /\ j + 1 \in 1 .. L
                                        /\ j \in 1 .. Len(mPacket) - 1
          BY <2>3
        <4> QED BY <2>3, <3>2, <4>1
      <3>10. depth' = Len(mPacket')
        BY <1>1, <2>1, <2>3
      <3> QED BY <1>1, <2>2, <3>1, <3>2, <3>4, <3>8, <3>9, <3>10 DEF OpenInv
    <2> QED BY <2>2, <2>4, <2>5 DEF Inv
  <1> QED BY <1>2, <1>3 DEF EndNestedMessage

\* endPacket: the size_ of the packet is all that was written.
LEMMA EndPacketInv ==
    ASSUME Inv, EndPacket
    PROVE  Inv'
  <1> DEFINE q == [Last EXCEPT !.declared = mPacket[1].size]
  <1>1. /\ mWritingPacket /\ call.step = "none" /\ depth = 1 /\ ~mWritingPacket'
        /\ mWritingPacket' \in BOOLEAN
        /\ UNCHANGED <<mTraceBuffer, mWriter, mPacket, depth, call, saved, begun>>
    BY DEF EndPacket, Idle
  <1>2. /\ packets \in Seq(PacketInfo) /\ Len(packets) > 0 /\ Len(packets) \in Nat
        /\ Len(packets) \in 1 .. Len(packets)
        /\ Last \in PacketInfo /\ Last.at \in Nat /\ Last.want \in Nat
        /\ mWriter.ptr \in Nat
    BY <1>1, InsideTypes
  <1>3. mPacket[1] \in Message /\ mPacket[1].size \in Nat /\ mPacket[1].at \in Nat
    <2>1. mPacket \in Seq(Message) /\ 1 \in 1 .. Len(mPacket)
      BY <1>1, InsideTypes
    <2>2. mPacket[1] \in Message
      BY <2>1
    <2> QED BY <2>2 DEF Message
  <1>4. packets' = [packets EXCEPT ![Len(packets)] = q]
    BY DEF EndPacket, Last
  <1>5. /\ q \in PacketInfo /\ q.at = Last.at /\ q.want = Last.want
        /\ q.torn = Last.torn /\ q.nested = Last.nested
        /\ q.declared = mPacket[1].size
    BY <1>2, <1>3, PacketChange DEF PacketInfo
  <1> HIDE DEF q
  <1>6. /\ packets' \in Seq(PacketInfo) /\ Len(packets') = Len(packets)
        /\ packets'[Len(packets)] = q
    BY <1>2, <1>4, <1>5, SeqExcept
  <1>7. TypeOK' /\ ShapeInv' /\ OpenInv'
    BY <1>1, <1>6 DEF Inv, TypeOK, ShapeInv, OpenInv
  <1>8. BufferInv'
    BY <1>1, <1>2 DEF Inv, BufferInv
  <1>9. ASSUME NEW j \in 1 .. Len(packets'), Fits(packets'[j])
        PROVE  Whole(packets', mWriter'.ptr, j)
    <2>1. CASE j < Len(packets)
      <3>1. j \in 1 .. Len(packets) - 1 /\ j \in 1 .. Len(packets)
        BY <1>2, <1>6, <2>1
      <3>2. Fits(packets[j]) => Whole(packets, mWriter.ptr, j)
        BY <2>1, <3>1 DEF Inv, WholePackets
      <3>3. q.at = packets[Len(packets)].at
        BY <1>5 DEF Last
      <3> QED BY <1>2, <1>4, <1>5, <1>9, <3>1, <3>2, <3>3, OthersKept
    <2>2. CASE j = Len(packets)
      <3>1. packets'[j] = q /\ Fits(Last)
        BY <1>5, <1>6, <1>9, <2>2 DEF Fits
      <3>2. /\ mWriter.ptr + Pending = Last.at + Header + Last.want
            /\ mWriter.ptr = Top.at + Top.size + Uncounted
            /\ ~Last.torn /\ Last.nested
            /\ depth = Len(mPacket)
            /\ mPacket[1].at = Last.at + Header
        BY <1>1, <3>1 DEF Inv, OpenInv
      <3>3. Pending = 0 /\ Uncounted = 0
        BY <1>1 DEF Pending, Uncounted
      <3>4. Top = mPacket[1]
        BY <1>1, <3>2 DEF Top
      <3>5. /\ mPacket[1].size = Last.want
            /\ mWriter.ptr = Last.at + Header + mPacket[1].size
        <4>1. Header \in Nat
          BY DEF Header, TagSize, kPacketHeaderSize
        <4>2. mWriter.ptr + 0 = Last.at + Header + Last.want
          BY <3>2, <3>3
        <4>3. mWriter.ptr = Last.at + Header + mPacket[1].size + 0
          BY <3>2, <3>3, <3>4
        <4> QED BY <1>2, <1>3, <4>1, <4>2, <4>3
      <3>6. ~(j < Len(packets'))
        BY <1>2, <1>6, <2>2
      <3> QED BY <1>1, <1>5, <3>1, <3>2, <3>5, <3>6 DEF Whole
    <2> QED BY <1>2, <1>6, <2>1, <2>2
  <1>10. WholePackets'
    BY <1>1, <1>9 DEF Inv, WholePackets
  <1> QED BY <1>7, <1>8, <1>10 DEF Inv

-----------------------------------------------------------------------------
\* A buffer is handed over: what it holds is what it held.
LEMMA HandedOver ==
    ASSUME Inv, mTraceBuffer # 0, NEW pkts \in Seq(PacketInfo),
           saved' = Saved(pkts),
           \A j \in 1 .. Len(pkts) : Fits(pkts[j]) => Whole(pkts, mWriter.ptr, j)
    PROVE  /\ saved' \in Seq([buf : Nat, written : Nat, packets : Seq(PacketInfo)])
           /\ Len(saved') = Len(saved) + 1
           /\ Len(saved) \in Nat
           /\ Len(saved') \in Nat
           /\ \A j \in 1 .. Len(saved') : saved'[j].buf = j
           /\ \A b \in 1 .. Len(saved') : \A j \in 1 .. Len(saved'[b].packets) :
                 Fits(saved'[b].packets[j]) =>
                     Whole(saved'[b].packets, saved'[b].written, j)
  <1> DEFINE R == [buf : Nat, written : Nat, packets : Seq(PacketInfo)]
             r == [buf |-> mTraceBuffer, written |-> mWriter.ptr, packets |-> pkts]
  <1>1. saved \in Seq(R) /\ Len(saved) \in Nat /\ mWriter.ptr \in Nat
    BY WriterAssumption DEF Inv, TypeOK
  <1>2. mTraceBuffer = Len(saved) + 1 /\ mTraceBuffer \in Nat
    BY <1>1 DEF Inv, BufferInv
  <1>3. r \in R /\ r.buf = Len(saved) + 1 /\ r.written = mWriter.ptr /\ r.packets = pkts
    BY <1>1, <1>2
  <1>4. saved' = Append(saved, r)
    BY DEF Saved
  <1> HIDE DEF r, R
  <1>5. /\ saved' \in Seq(R) /\ Len(saved') = Len(saved) + 1
        /\ saved'[Len(saved) + 1] = r
        /\ \A j \in 1 .. Len(saved) : saved'[j] = saved[j]
    BY <1>1, <1>3, <1>4, SeqAppend
  <1>9. Len(saved') \in Nat
    BY <1>1, <1>5
  <1>6. \A j \in 1 .. Len(saved') : j \in 1 .. Len(saved) \/ j = Len(saved) + 1
    BY <1>1, <1>5
  <1>7. \A j \in 1 .. Len(saved') : saved'[j].buf = j
    BY <1>3, <1>5, <1>6 DEF Inv, BufferInv
  <1>8. ASSUME NEW b \in 1 .. Len(saved'), NEW j \in 1 .. Len(saved'[b].packets),
               Fits(saved'[b].packets[j])
        PROVE  Whole(saved'[b].packets, saved'[b].written, j)
    <2>1. CASE b \in 1 .. Len(saved)
      BY <1>5, <1>8, <2>1 DEF Inv, WholePackets
    <2>2. CASE b = Len(saved) + 1
      BY <1>3, <1>5, <1>8, <2>2
    <2> QED BY <1>6, <2>1, <2>2
  <1> QED BY <1>1, <1>5, <1>7, <1>8, <1>9 DEF R

\* save hands over a buffer of whole packets.
LEMMA SaveInv ==
    ASSUME Inv, Save
    PROVE  Inv'
  <1>1. /\ ~mWritingPacket /\ mTraceBuffer # 0 /\ saved' = Saved(packets)
        /\ mTraceBuffer' = 0 /\ packets' = <<>> /\ mPacket' = <<>> /\ depth' = 0
        /\ UNCHANGED <<mWriter, mWritingPacket, call, begun>>
    BY DEF Save
  <1>2. /\ packets \in Seq(PacketInfo)
        /\ \A j \in 1 .. Len(packets) :
              Fits(packets[j]) => Whole(packets, mWriter.ptr, j)
    BY <1>1 DEF Inv, TypeOK, WholePackets
  <1>3. /\ saved' \in Seq([buf : Nat, written : Nat, packets : Seq(PacketInfo)])
        /\ Len(saved') \in Nat
        /\ \A j \in 1 .. Len(saved') : saved'[j].buf = j
        /\ \A b \in 1 .. Len(saved') : \A j \in 1 .. Len(saved'[b].packets) :
              Fits(saved'[b].packets[j]) =>
                  Whole(saved'[b].packets, saved'[b].written, j)
    BY <1>1, <1>2, HandedOver, Zenon
  <1>4. packets' \in Seq(PacketInfo) /\ Len(packets') = 0 /\ mPacket' \in Seq(Message)
    BY <1>1
  <1>5. TypeOK'
    BY <1>1, <1>3, <1>4 DEF Inv, TypeOK
  <1>6. ShapeInv' /\ OpenInv' /\ BufferInv'
    BY <1>1, <1>3 DEF Inv, ShapeInv, OpenInv, BufferInv
  <1>7. WholePackets'
    BY <1>3, <1>4 DEF WholePackets
  <1> QED BY <1>5, <1>6, <1>7 DEF Inv

\* A packet that begins in the space that beginPacket has made sure of.
LEMMA FreshPacket ==
    ASSUME Inv, ~mWritingPacket, mWritingPacket', depth' = 1, UNCHANGED call,
           NEW at \in Nat, at + neededSpace <= mTraceBufferSize,
           mWriter'.ptr = at + Header,
           Len(packets') > 0, Last' = Begun(at, 0, FALSE),
           mPacket' = <<[at |-> at + Header, size |-> 0]>>
    PROVE  /\ OpenInv' /\ ShapeInv'
           /\ mPacket' \in Seq(Message)
           /\ at + Header \in 0 .. mTraceBufferSize
  <1> DEFINE m == [at |-> at + Header, size |-> 0]
  <1>1. call.step = "none" /\ call'.step = "none"
    BY DEF Inv, ShapeInv
  <1>2. Header \in Nat /\ neededSpace \in Nat /\ Header <= neededSpace
    BY WriterAssumption DEF Header, TagSize, kPacketHeaderSize, neededSpace
  <1>3. at + Header \in Nat
    BY <1>2
  <1>4. m \in Message /\ m.at = at + Header /\ m.size = 0
    BY <1>3 DEF Message
  <1>5. /\ mPacket' \in Seq(Message) /\ Len(mPacket') = 1
        /\ mPacket'[1].at = at + Header /\ mPacket'[1].size = 0
    BY <1>4, SeqOne
  <1>6. Last'.at = at /\ Last'.want = 0 /\ ~Last'.torn /\ Last'.nested
    BY DEF Begun
  <1>7. Pending' = 0 /\ Uncounted' = 0
    BY <1>1 DEF Pending, Uncounted
  <1>8. Top' = mPacket'[1]
    BY <1>5 DEF Top
  <1>9. /\ mWriter'.ptr + Pending' = Last'.at + Header + Last'.want
        /\ mWriter'.ptr = Top'.at + Top'.size + Uncounted'
    <2>1. at + Header + 0 = at + Header /\ at + Header + 0 + 0 = at + Header
      BY <1>2, <1>3
    <2>2. mWriter'.ptr + Pending' = Last'.at + Header + Last'.want
      BY <1>6, <1>7, <2>1
    <2>3. mWriter'.ptr = Top'.at + Top'.size + Uncounted'
      BY <1>5, <1>7, <1>8, <2>1
    <2> QED BY <2>2, <2>3
  <1>13. 1 .. Len(mPacket') - 1 = {}
    BY <1>5
  <1>10. OpenInv'
    <2>1. depth' = Len(mPacket') /\ mPacket'[1].at = Last'.at + Header
      BY <1>5, <1>6
    <2> QED BY <1>6, <1>9, <1>13, <2>1 DEF OpenInv
  <1>11. ShapeInv'
    BY <1>1, <1>5 DEF ShapeInv
  <1>12. at + Header \in 0 .. mTraceBufferSize
    BY <1>2, <1>3, WriterAssumption
  <1> QED BY <1>5, <1>10, <1>11, <1>12

\* What beginPacket begins is a packet.
LEMMA BegunType ==
    ASSUME NEW at \in Nat, NEW want \in Nat, NEW torn \in BOOLEAN
    PROVE  Begun(at, want, torn) \in PacketInfo
  BY DEF Begun, PacketInfo

\* beginPacket, with enough space left in the buffer.
LEMMA BeginHereInv ==
    ASSUME Inv, BeginPacket, mTraceBuffer # 0, bytes_available >= neededSpace
    PROVE  Inv'
  <1> DEFINE at == mWriter.ptr
             B == Begun(at, 0, FALSE)
  <1>1. /\ ~mWritingPacket /\ mWritingPacket' /\ mWritingPacket' \in BOOLEAN
        /\ depth' = 1 /\ begun' = begun + 1 /\ UNCHANGED call
    BY DEF BeginPacket
  <1>2. ~(mTraceBuffer = 0 \/ bytes_available < neededSpace)
    <2>1. bytes_available \in Int /\ neededSpace \in Nat
      BY WriterAssumption
      DEF Inv, TypeOK, bytes_available, neededSpace, kPacketHeaderSize
    <2> QED BY <2>1
  <1>3. /\ packets' = Append(packets, B)
        /\ mWriter' = [mWriter EXCEPT !.ptr = at + Header]
        /\ UNCHANGED <<saved, mTraceBuffer>>
        /\ mPacket' = <<[at |-> mWriter'.ptr, size |-> 0]>>
    BY <1>2 DEF BeginPacket
  <1>4. /\ mWriter \in [buf : Nat, ptr : 0 .. mTraceBufferSize]
        /\ at \in Nat /\ at + neededSpace <= mTraceBufferSize
        /\ packets \in Seq(PacketInfo) /\ Len(packets) \in Nat
        /\ begun \in Nat
    BY WriterAssumption
    DEF Inv, TypeOK, bytes_available, neededSpace, kPacketHeaderSize
  <1>5. B \in PacketInfo /\ B.at = at
    BY <1>4, BegunType DEF Begun
  <1> HIDE DEF B
  <1>6. /\ packets' \in Seq(PacketInfo) /\ Len(packets') = Len(packets) + 1
        /\ packets'[Len(packets) + 1] = B
        /\ \A j \in 1 .. Len(packets) : packets'[j] = packets[j]
    BY <1>3, <1>4, <1>5, SeqAppend
  <1>7. Last' = B /\ Len(packets') > 0
    BY <1>4, <1>6 DEF Last
  <1>8. mWriter'.ptr = at + Header /\ mWriter'.buf = mWriter.buf
    BY <1>3, <1>4
  <1>9. /\ OpenInv' /\ ShapeInv' /\ mPacket' \in Seq(Message)
        /\ at + Header \in 0 .. mTraceBufferSize
    BY <1>1, <1>3, <1>4, <1>7, <1>8, FreshPacket DEF B
  <1>10. mWriter' \in [buf : Nat, ptr : 0 .. mTraceBufferSize]
    BY <1>3, <1>4, <1>9, WriterChange
  <1>11. TypeOK'
    BY <1>1, <1>3, <1>4, <1>6, <1>9, <1>10 DEF Inv, TypeOK
  <1>12. BufferInv'
    BY <1>3, <1>8 DEF Inv, BufferInv
  <1>13. ASSUME NEW j \in 1 .. Len(packets'), Fits(packets'[j]), j < Len(packets')
         PROVE  Whole(packets', mWriter'.ptr, j)
    <2>1. j \in 1 .. Len(packets) /\ j \in Nat /\ j <= Len(packets)
      BY <1>4, <1>6, <1>13
    <2>2. packets'[j] = packets[j]
      BY <1>6, <2>1
    <2>3. Whole(packets, at, j)
      BY <1>1, <1>13, <2>1, <2>2 DEF Inv, WholePackets
    <2>4. CASE j = Len(packets)
      <3>1. packets'[j + 1].at = at /\ ~(j < Len(packets))
        BY <1>4, <1>5, <1>6, <2>4
      <3> QED BY <1>13, <2>2, <2>3, <3>1 DEF Whole
    <2>5. CASE j # Len(packets)
      <3>1. j < Len(packets) /\ j + 1 \in 1 .. Len(packets)
        BY <1>4, <2>1, <2>5
      <3>2. packets'[j + 1] = packets[j + 1]
        BY <1>6, <3>1
      <3> QED BY <1>13, <2>2, <2>3, <3>1, <3>2 DEF Whole
    <2> QED BY <2>4, <2>5
  <1>14. WholePackets'
    BY <1>1, <1>3, <1>13 DEF Inv, WholePackets
  <1> QED BY <1>9, <1>11, <1>12, <1>14 DEF Inv

\* What holds of the buffers after a new one was taken and the packets of the
\* old one, if there was one, handed over.
LEMMA NextBuffer ==
    ASSUME Inv, NEW B \in PacketInfo,
           saved' \in Seq([buf : Nat, written : Nat, packets : Seq(PacketInfo)]),
           Len(saved') \in Nat,
           \A j \in 1 .. Len(saved') : saved'[j].buf = j,
           \A b \in 1 .. Len(saved') : \A j \in 1 .. Len(saved'[b].packets) :
              Fits(saved'[b].packets[j]) =>
                  Whole(saved'[b].packets, saved'[b].written, j),
           mTraceBuffer' = NewBuffer, mWriter' = [buf |-> NewBuffer, ptr |-> Header],
           packets' = <<B>>, mWritingPacket'
    PROVE  /\ packets' \in Seq(PacketInfo) /\ Len(packets') = 1 /\ Last' = B
           /\ mTraceBuffer' \in Nat
           /\ mWriter' \in [buf : Nat, ptr : 0 .. mTraceBufferSize]
           /\ mWriter'.ptr = Header
           /\ BufferInv' /\ WholePackets'
  <1>1. NewBuffer \in Nat /\ NewBuffer = Len(saved') + 1 /\ NewBuffer # 0
    BY DEF NewBuffer
  <1>2. Header \in 0 .. mTraceBufferSize
    BY WriterAssumption DEF Header, TagSize, kPacketHeaderSize, neededSpace
  <1>3. packets' \in Seq(PacketInfo) /\ Len(packets') = 1 /\ packets'[1] = B
    BY SeqOne
  <1>4. Last' = B
    BY <1>3 DEF Last
  <1>5. BufferInv'
    BY <1>1 DEF BufferInv
  <1>6. WholePackets'
    BY <1>3 DEF WholePackets
  <1> QED BY <1>1, <1>2, <1>3, <1>4, <1>5, <1>6

\* beginPacket, in a new buffer.
LEMMA BeginNextInv ==
    ASSUME Inv, BeginPacket, mTraceBuffer = 0 \/ bytes_available < neededSpace
    PROVE  Inv'
  <1> DEFINE B == Begun(0, 0, FALSE)
  <1>1. /\ ~mWritingPacket /\ mWritingPacket' /\ mWritingPacket' \in BOOLEAN
        /\ depth' = 1 /\ begun' = begun + 1 /\ UNCHANGED call
    BY DEF BeginPacket
  <1>2. ~(mTraceBuffer # 0 /\ bytes_available >= neededSpace)
    <2>1. bytes_available \in Int /\ neededSpace \in Nat
      BY WriterAssumption
      DEF Inv, TypeOK, bytes_available, neededSpace, kPacketHeaderSize
    <2> QED BY <2>1
  <1>3. /\ saved' = IF mTraceBuffer = 0 THEN saved ELSE Saved(packets)
        /\ mTraceBuffer' = NewBuffer
        /\ mWriter' = [buf |-> NewBuffer, ptr |-> Header]
        /\ packets' = <<B>>
        /\ mPacket' = <<[at |-> mWriter'.ptr, size |-> 0]>>
    BY <1>2 DEF BeginPacket
  <1>4. B \in PacketInfo
    BY BegunType
  <1>5. /\ packets \in Seq(PacketInfo)
        /\ \A j \in 1 .. Len(packets) :
              Fits(packets[j]) => Whole(packets, mWriter.ptr, j)
    BY <1>1 DEF Inv, TypeOK, WholePackets
  <1>6. /\ saved' \in Seq([buf : Nat, written : Nat, packets : Seq(PacketInfo)])
        /\ Len(saved') \in Nat
        /\ \A j \in 1 .. Len(saved') : saved'[j].buf = j
        /\ \A b \in 1 .. Len(saved') : \A j \in 1 .. Len(saved'[b].packets) :
              Fits(saved'[b].packets[j]) =>
                  Whole(saved'[b].packets, saved'[b].written, j)
    <2>1. CASE mTraceBuffer = 0
      <3>1. saved' = saved
        BY <1>3, <2>1
      <3>2. /\ saved \in Seq([buf : Nat, written : Nat, packets : Seq(PacketInfo)])
            /\ Len(saved) \in Nat
        BY DEF Inv, TypeOK
      <3> QED BY <3>1, <3>2 DEF Inv, BufferInv, WholePackets
    <2>2. CASE mTraceBuffer # 0
      <3>1. saved' = Saved(packets)
        BY <1>3, <2>2
      <3> QED BY <1>5, <2>2, <3>1, HandedOver, Zenon
    <2> QED BY <2>1, <2>2
  <1> HIDE DEF B
  <1>7. /\ packets' \in Seq(PacketInfo) /\ Len(packets') = 1 /\ Last' = B
        /\ mTraceBuffer' \in Nat
        /\ mWriter' \in [buf : Nat, ptr : 0 .. mTraceBufferSize]
        /\ mWriter'.ptr = Header
        /\ BufferInv' /\ WholePackets'
    BY <1>1, <1>3, <1>4, <1>6, NextBuffer
  <1>8. /\ 0 + Header = Header
        /\ 0 + neededSpace <= mTraceBufferSize
    BY WriterAssumption DEF Header, TagSize, kPacketHeaderSize, neededSpace
  <1>9. /\ mWriter'.ptr = 0 + Header
        /\ mPacket' = <<[at |-> 0 + Header, size |-> 0]>>
        /\ Last' = Begun(0, 0, FALSE) /\ Len(packets') > 0
    BY <1>3, <1>7, <1>8 DEF B
  <1>10. OpenInv' /\ ShapeInv' /\ mPacket' \in Seq(Message)
    BY <1>1, <1>8, <1>9, FreshPacket
  <1>11. TypeOK'
    BY <1>1, <1>6, <1>7, <1>10 DEF Inv, TypeOK
  <1> QED BY <1>7, <1>10, <1>11 DEF Inv

\* A packet is broken off: it did not fit, nor does what begins in its place.
LEMMA ExtendInv ==
    ASSUME Inv, Extend
    PROVE  Inv'
  <1> DEFINE q == [Last EXCEPT !.declared = mPacket[1].size, !.torn = TRUE]
             pkts == [packets EXCEPT ![Len(packets)] = q]
             B == Begun(0, Last.want, TRUE)
             m == [at |-> Header, size |-> 0]
  <1>1. mWritingPacket /\ ~Fits(Last) /\ Len(mPacket) = 1 /\ call.step # "none"
    BY OnlyOversized DEF Extend, MustExtend
  <1>2. /\ packets \in Seq(PacketInfo) /\ Len(packets) > 0 /\ Len(packets) \in Nat
        /\ Len(packets) \in 1 .. Len(packets)
        /\ Last \in PacketInfo /\ Last.at \in Nat /\ Last.want \in Nat
        /\ mPacket \in Seq(Message)
    BY <1>1, InsideTypes
  <1>3. mPacket[1] \in Message /\ mPacket[1].size \in Nat
    <2>2. mPacket \in Seq(Message) /\ 1 \in 1 .. Len(mPacket)
      BY <1>1, <1>2
    <2>1. mPacket[1] \in Message
      BY <2>2
    <2> QED BY <2>1 DEF Message
  <1>4. /\ saved' = Saved(pkts)
        /\ mTraceBuffer' = NewBuffer
        /\ mWriter' = [buf |-> NewBuffer, ptr |-> Header]
        /\ packets' = <<B>>
        /\ mPacket' = <<m>>
        /\ UNCHANGED <<mWritingPacket, depth, call, begun>>
    BY DEF Extend, Last
  <1>5. q \in PacketInfo /\ q.at = Last.at /\ q.want = Last.want
    BY <1>2, <1>3, PacketChange DEF PacketInfo
  <1>6. B \in PacketInfo /\ B.want = Last.want
    BY <1>2, BegunType DEF Begun
  <1> HIDE DEF q, B
  <1>7. /\ pkts \in Seq(PacketInfo) /\ Len(pkts) = Len(packets)
        /\ pkts[Len(packets)] = q
    BY <1>2, <1>5, SeqExcept
  <1>8. ASSUME NEW j \in 1 .. Len(pkts), Fits(pkts[j])
        PROVE  Whole(pkts, mWriter.ptr, j)
    <2>5. j \in 1 .. Len(packets)
      BY <1>7, <1>8, Zenon
    <2>1. j # Len(packets)
      BY <1>1, <1>5, <1>7, <1>8 DEF Fits
    <2>2. j \in 1 .. Len(packets) - 1 /\ j \in 1 .. Len(packets) /\ j < Len(packets)
      BY <1>2, <2>1, <2>5
    <2>3. Fits(packets[j]) => Whole(packets, mWriter.ptr, j)
      BY <2>2 DEF Inv, WholePackets
    <2>4. q.at = packets[Len(packets)].at
      BY <1>5 DEF Last
    <2> QED BY <1>2, <1>5, <1>8, <2>2, <2>3, <2>4, OthersKept
  <1> HIDE DEF pkts
  <1>9. mTraceBuffer # 0
    BY <1>1 DEF Inv, BufferInv
  <1>10. /\ saved' \in Seq([buf : Nat, written : Nat, packets : Seq(PacketInfo)])
         /\ Len(saved') \in Nat
         /\ \A j \in 1 .. Len(saved') : saved'[j].buf = j
         /\ \A b \in 1 .. Len(saved') : \A j \in 1 .. Len(saved'[b].packets) :
               Fits(saved'[b].packets[j]) =>
                   Whole(saved'[b].packets, saved'[b].written, j)
    <2>1. \A j \in 1 .. Len(pkts) : Fits(pkts[j]) => Whole(pkts, mWriter.ptr, j)
      BY <1>8
    <2> QED BY <1>4, <1>7, <1>9, <2>1, HandedOver, Zenon
  <1>11. /\ packets' \in Seq(PacketInfo) /\ Len(packets') = 1 /\ Last' = B
         /\ mTraceBuffer' \in Nat
         /\ mWriter' \in [buf : Nat, ptr : 0 .. mTraceBufferSize]
         /\ BufferInv' /\ WholePackets'
    BY <1>1, <1>4, <1>6, <1>10, NextBuffer
  <1>12. mPacket' \in Seq(Message) /\ Len(mPacket') = 1
    <2>1. m \in Message
      BY DEF Message, Header, TagSize, kPacketHeaderSize
    <2> QED BY <1>4, <2>1, SeqOne
  <1>13. TypeOK'
    BY <1>4, <1>10, <1>11, <1>12 DEF Inv, TypeOK
  <1>14. ShapeInv'
    BY <1>1, <1>4, <1>11, <1>12 DEF Inv, ShapeInv
  <1>15. OpenInv'
    BY <1>1, <1>6, <1>11 DEF OpenInv, Fits, Room
  <1> QED BY <1>11, <1>13, <1>14, <1>15 DEF Inv

-----------------------------------------------------------------------------
\* Every step keeps the invariant.
LEMMA StepInv == Inv /\ [Next]_vars => Inv'
  <1> SUFFICES ASSUME Inv, [Next]_vars PROVE Inv'
    OBVIOUS
  <1>1. CASE BeginPacket
    <2>1. bytes_available \in Int /\ neededSpace \in Nat
      BY WriterAssumption
      DEF Inv, TypeOK, bytes_available, neededSpace, kPacketHeaderSize
    <2>2. \/ mTraceBuffer # 0 /\ bytes_available >= neededSpace
          \/ mTraceBuffer = 0 \/ bytes_available < neededSpace
      BY <2>1
    <2> QED BY <1>1, <2>2, BeginHereInv, BeginNextInv
  <1>2. CASE Save
    BY <1>2, SaveInv
  <1>3. CASE \E n \in FieldSizes : AppendField(n)
    <2> PICK n \in FieldSizes : AppendField(n)
      BY <1>3
    <2>1. /\ n \in Nat /\ n > 0 /\ FALSE \in BOOLEAN
          /\ n = n + (IF FALSE THEN kMessageLengthFieldSize ELSE 0)
      BY WriterAssumption
    <2>2. /\ Idle /\ Want(n)
          /\ call' = [step |-> "write", n |-> n, left |-> n, open |-> FALSE]
          /\ UNCHANGED <<mTraceBuffer, mWriter, mWritingPacket, mPacket, depth,
                         saved, begun>>
      BY DEF AppendField
    <2> QED BY <2>1, <2>2, CallInv
  <1>4. CASE BeginNestedMessage
    <2> PICK n \in NestedTagSizes :
              /\ call' = [step |-> "write", n |-> n, left |-> n, open |-> TRUE]
              /\ Want(n + kMessageLengthFieldSize)
      BY <1>4 DEF BeginNestedMessage
    <2> DEFINE k == n + kMessageLengthFieldSize
    <2>1. /\ n \in Nat /\ k \in Nat /\ n > 0 /\ TRUE \in BOOLEAN
          /\ k = n + (IF TRUE THEN kMessageLengthFieldSize ELSE 0)
      BY DEF NestedTagSizes, kMessageLengthFieldSize
    <2>2. /\ Idle /\ Want(k)
          /\ call' = [step |-> "write", n |-> n, left |-> n, open |-> TRUE]
          /\ UNCHANGED <<mTraceBuffer, mWriter, mWritingPacket, mPacket, depth,
                         saved, begun>>
      BY <1>4 DEF BeginNestedMessage
    <2> HIDE DEF k
    <2> QED BY <2>1, <2>2, CallInv
  <1>5. CASE WriteRest
    BY <1>5, WriteRestInv
  <1>6. CASE WriteBurst
    BY <1>6, WriteBurstInv
  <1>7. CASE FinalizeNested
    BY <1>7, FinalizeNestedInv
  <1>8. CASE Extend
    BY <1>8, ExtendInv
  <1>9. CASE Reserve
    BY <1>9, ReserveInv
  <1>10. CASE EndNestedMessage
    BY <1>10, EndNestedInv
  <1>11. CASE EndPacket
    BY <1>11, EndPacketInv
  <1>12. CASE UNCHANGED vars
    <2>1. TypeOK' /\ ShapeInv' /\ BufferInv'
      BY <1>12 DEF vars, Inv, TypeOK, ShapeInv, BufferInv
    <2>2. OpenInv'
      BY <1>12 DEF vars, Inv, OpenInv, Last, Top, Pending, Uncounted
    <2>3. WholePackets'
      BY <1>12 DEF vars, Inv, WholePackets
    <2> QED BY <2>1, <2>2, <2>3 DEF Inv
  <1> QED BY <1>1, <1>2, <1>3, <1>4, <1>5, <1>6, <1>7, <1>8, <1>9, <1>10, <1>11,
             <1>12 DEF Next

\* The invariant holds in every reachable state.
LEMMA InvHolds == Spec => []Inv
  BY InitInv, StepInv, PTL DEF Spec

\* write_ptr stays within the buffer.
THEOREM TypeCorrect == Spec => []TypeOK
  <1>1. Inv => TypeOK
    BY DEF Inv
  <1> QED BY <1>1, InvHolds, PTL

\* A packet for which beginPacket makes sure of the space, the reserve of
\* neededSpace bytes less the header, is never torn by GetNewBuffer, and all of
\* its size fields are right.
THEOREM PacketsAreWhole == Spec => []WholePackets
  <1>1. Inv => WholePackets
    BY DEF Inv
  <1> QED BY <1>1, InvHolds, PTL

\* A buffer is handed over once, and no packet is written to it afterwards.
THEOREM OwnsItsBuffer == Spec => []OwnBuffer
  <1>1. Inv => OwnBuffer
    <2> SUFFICES ASSUME Inv PROVE OwnBuffer
      OBVIOUS
    <2>1. Len(saved) \in Nat
      BY DEF Inv, TypeOK
    <2>2. mWritingPacket => mWriter.buf = mTraceBuffer
      BY DEF Inv, BufferInv
    <2>3. mTraceBuffer \notin Buffers
      BY <2>1 DEF Inv, BufferInv, Buffers
    <2>4. \A j, k \in 1 .. Len(saved) : saved[j].buf = saved[k].buf => j = k
      BY DEF Inv, BufferInv
    <2> QED BY <2>2, <2>3, <2>4 DEF OwnBuffer
  <1> QED BY <1>1, InvHolds, PTL
=============================================================================
