-------------------------- MODULE OfflineMergeProofs --------------------------
(***************************************************************************)
(* Theorems about OfflineMerge, for every width of the integers, every     *)
(* pair of traces and every command line.                                  *)
(***************************************************************************)
EXTENDS OfflineMerge, WellFoundedInduction, SequenceTheorems, TLAPS

-----------------------------------------------------------------------------
(***************************************************************************)
(* Numbers                                                                 *)
(***************************************************************************)

\* A set of natural numbers has a least element.
LEMMA LeastNatural ==
    ASSUME NEW T, T \subseteq Nat, T # {}
    PROVE  \E x \in T : \A y \in T : x <= y
  <1> DEFINE R == OpToRel(<, Nat)
  <1>1. IsWellFoundedOn(R, Nat)
    BY NatLessThanWellFounded
  <1> HIDE DEF R
  <1>2. PICK x \in T : \A y \in T : ~(<<y, x>> \in R)
    BY <1>1, WFMin
  <1>3. ASSUME NEW y \in T, y < x PROVE FALSE
    BY <1>2, <1>3 DEF R, OpToRel
  <1> QED BY <1>2, <1>3

\* A bounded one has a greatest.
LEMMA GreatestNatural ==
    ASSUME NEW T, NEW n \in Nat, T \subseteq 1 .. n, T # {}
    PROVE  \E x \in T : \A y \in T : x >= y
  <1> DEFINE U == {u \in Nat : \E t \in T : u = n - t}
  <1>1. U \subseteq Nat /\ U # {}
    <2>1. PICK t \in T : TRUE
      OBVIOUS
    <2>2. n - t \in U
      BY <2>1
    <2> QED BY <2>2
  <1>2. PICK u \in U : \A v \in U : u <= v
    BY <1>1, LeastNatural
  <1>3. PICK x \in T : u = n - x
    BY <1>2
  <1>4. ASSUME NEW y \in T PROVE x >= y
    <2>1. n - y \in U
      OBVIOUS
    <2>2. u <= n - y
      BY <1>2, <2>1
    <2> QED BY <1>3, <2>2
  <1> QED BY <1>4

\* The least of a set of positions.
LEMMA FirstIsFirst ==
    ASSUME NEW S, S \subseteq Nat, S # {}
    PROVE  First(S) \in S /\ \A l \in S : First(S) <= l
  BY LeastNatural DEF First

\* The greatest of a bounded set of positions.
LEMMA LastIsLast ==
    ASSUME NEW n \in Nat, NEW S, S \subseteq 1 .. n, S # {}
    PROVE  Last(S) \in S /\ \A l \in S : Last(S) >= l
  BY GreatestNatural DEF Last

\* Residues modulo Word.
LEMMA WordType == Word \in Nat \ {0} /\ Half \in Nat \ {0} /\ Word = 2 * Half
  BY WordAssumption

\* A number is its residue and a multiple of Word.
LEMMA Residue ==
    ASSUME NEW a \in Int
    PROVE  a % Word \in Words /\ \E q \in Int : a = Word * q + (a % Word)
  <1>1. Word \in Nat \ {0}
    BY WordType
  <1>2. a % Word \in Words
    BY <1>1 DEF Words
  <1>3. a \div Word \in Int /\ a = Word * (a \div Word) + (a % Word)
    BY <1>1
  <1> QED BY <1>2, <1>3

\* Multiples of Word do not change a residue.
LEMMA ResidueOf ==
    ASSUME NEW a \in Words, NEW q \in Int
    PROVE  (Word * q + a) % Word = a
  <1>1. Word \in Nat \ {0} /\ a \in 0 .. Word - 1
    BY WordType DEF Words
  <1> QED BY <1>1

\* A number of the range is its own residue.
LEMMA OwnResidue ==
    ASSUME NEW a \in Words
    PROVE  a % Word = a
  BY WordType DEF Words

-----------------------------------------------------------------------------
(***************************************************************************)
(* Types                                                                   *)
(***************************************************************************)

\* Clocks and counters are words, and snapshots hold two or three of them.
LEMMA ClockType ==
    ASSUME NEW w \in World, NEW f \in Files, NEW t \in Nat
    PROVE  /\ Clock(w, f, t) \in Words
           /\ Counter(w, f, t) \in Words
           /\ (Nanos * t) % Word \in Words
  <1>1. Nanos * t \in Int /\ Cycles * t \in Int
    BY WordAssumption
  <1>2. w[f] \in Int /\ w.tsc \in Int /\ w.tscOffset \in Int
    BY WordType DEF World, Files, Words, Signed
  <1>3. w[f] + Nanos * t \in Int
    BY <1>1, <1>2
  <1>4. w.tsc + Cycles * t + (IF f = "guest" THEN w.tscOffset ELSE 0) \in Int
    BY <1>1, <1>2
  <1> QED BY <1>1, <1>3, <1>4, Residue DEF Clock, Counter

\* What a moment records is a packet.
LEMMA RecordedType ==
    ASSUME NEW w \in World, NEW f \in Files, NEW m \in Moment
    PROVE  Recorded(w, f, m) \in Packet
  <1> DEFINE C == [id : Nat, time : Words]
             a == Reading(6, Clock(w, f, m.at))
             b == Reading(CpuClock, Counter(w, f, m.at))
             o == Reading(1, (Nanos * m.at) % Word)
  <1>1. m.at \in Nat
    BY DEF Moment
  <1>2. a \in C /\ b \in C /\ o \in C
    BY <1>1, ClockType DEF Reading, CpuClock
  <1> DEFINE ts == IF m.kind = "event" THEN Clock(w, f, m.at) ELSE Absent
             cs == CASE m.kind = "cpu" -> <<a, b>>
                     [] m.kind = "cpuFirst" -> <<b, a>>
                     [] m.kind = "monotonic" -> <<o, b>>
                     [] m.kind = "clocks" -> <<o, a>>
                     [] m.kind = "many" -> <<o, a, b>>
                     [] OTHER -> <<>>
  <1>3. ts \in Words \cup {Absent}
    BY <1>1, ClockType
  <1>4. cs \in Seq(C)
    <2> HIDE DEF a, b, o, C
    <2> QED BY <1>2
  <1>5. Recorded(w, f, m) = [ts |-> ts, clocks |-> cs]
    BY DEF Recorded
  <1> HIDE DEF ts, cs
  <1> QED BY <1>3, <1>4, <1>5 DEF Packet

\* A packet of the addon trace is a packet once it is moved.
LEMMA MovedType ==
    ASSUME NEW p \in Packet, NEW d \in Int
    PROVE  Moved(p, d) \in Packet
  <1> DEFINE ts == IF p.ts = Absent THEN Absent ELSE (p.ts + d) % Word
  <1>1. ts \in Words \cup {Absent}
    <2>1. CASE p.ts = Absent
      BY <2>1
    <2>2. CASE p.ts # Absent
      <3>1. p.ts \in Int
        BY <2>2, WordType DEF Packet, Words
      <3>2. p.ts + d \in Int
        BY <3>1
      <3>3. (p.ts + d) % Word \in Words
        BY <3>2, Residue
      <3> QED BY <2>2, <3>3
    <2> QED BY <2>1, <2>2
  <1>2. Moved(p, d) = [ts |-> ts, clocks |-> <<>>]
    BY DEF Moved
  <1>3. <<>> \in Seq([id : Nat, time : Words])
    OBVIOUS
  <1> HIDE DEF ts
  <1> QED BY <1>1, <1>2, <1>3 DEF Packet

\* What the merge writes is a sequence of packets.
LEMMA MergeType ==
    ASSUME NEW main \in Trace, NEW addon \in Trace, NEW d \in Int
    PROVE  Merge(main, addon, d) \in Seq(Packet)
  <1> DEFINE t == [k \in 1 .. Len(addon.packets) |-> Moved(addon.packets[k], d)]
  <1>1. main.packets \in Seq(Packet) /\ addon.packets \in Seq(Packet)
    BY DEF Trace
  <1>2. t \in Seq(Packet)
    <2>1. Len(addon.packets) \in Nat
      BY <1>1
    <2>2. \A k \in 1 .. Len(addon.packets) : Moved(addon.packets[k], d) \in Packet
      BY <1>1, MovedType
    <2>3. t \in [1 .. Len(addon.packets) -> Packet]
      BY <2>2
    <2> QED BY <2>1, <2>3
  <1>3. main.packets \o t \in Seq(Packet)
    BY <1>1, <1>2
  <1> QED BY <1>3 DEF Merge

\* Differences of times are numbers.
LEMMA SignedDifferenceType ==
    ASSUME NEW a \in Int, NEW b \in Int
    PROVE  getSignedDifference(a, b) \in Int
  BY WordType DEF getSignedDifference, Clamped

\* A word read as a signed number is a number.
LEMMA ToSignedType ==
    ASSUME NEW a \in Int
    PROVE  ToSigned(a) \in Int
  BY Residue, WordType DEF ToSigned, Words

\* A trace starts at a word: its first timestamp, or 0.
LEMMA StartTimeType ==
    ASSUME NEW t \in Trace
    PROVE  getTraceStartTime(t) \in Words
  <1>1. 0 \in Words
    BY WordType DEF Words
  <1>2. ASSUME Stamped(t) # {}
        PROVE  t.packets[First(Stamped(t))].ts \in Words
    <2>1. Stamped(t) \subseteq Nat
      BY DEF Stamped
    <2>2. First(Stamped(t)) \in Stamped(t)
      BY <1>2, <2>1, FirstIsFirst
    <2>3. \A k \in Stamped(t) : t.packets[k] \in Packet /\ t.packets[k].ts # Absent
      BY DEF Stamped, Trace
    <2> QED BY <2>2, <2>3 DEF Packet
  <1> QED BY <1>1, <1>2 DEF getTraceStartTime

\* The last snapshot of a trace is one, and holds words.
LEMMA LastSyncType ==
    ASSUME NEW t \in Trace, HasSync(t)
    PROVE  /\ LastSync(t) \in Snapshots(t)
           /\ FirstSync(t) \in Snapshots(t)
           /\ Cpu(t, LastSync(t)).time \in Words
           /\ Cpu(t, FirstSync(t)).time \in Words
           /\ Regular(t, LastSync(t)).time \in Words
           /\ Regular(t, FirstSync(t)).time \in Words
  <1>1. Len(t.packets) \in Nat /\ Snapshots(t) \subseteq 1 .. Len(t.packets)
    BY DEF Trace, Snapshots
  <1>2. LastSync(t) \in Snapshots(t)
    <2>1. Snapshots(t) # {}
      BY DEF HasSync
    <2> QED BY <1>1, <2>1, LastIsLast DEF LastSync
  <1>3. FirstSync(t) \in Snapshots(t)
    <2> DEFINE S == {k \in Snapshots(t) : Cpu(t, k).time # 0}
    <2>1. S # {} /\ S \subseteq Nat
      BY <1>1 DEF HasSync
    <2> QED BY <2>1, FirstIsFirst DEF FirstSync
  <1>4. ASSUME NEW k \in Snapshots(t)
        PROVE  Cpu(t, k).time \in Words /\ Regular(t, k).time \in Words
    <2> DEFINE C == [id : Nat, time : Words]
               cs == t.packets[k].clocks
    <2>0. t.packets[k] \in Packet /\ Len(cs) = 2
      BY DEF Snapshots, Trace
    <2>1. cs \in Seq(C)
      BY <2>0 DEF Packet
    <2> HIDE DEF C, cs
    <2>2. \A j \in 1 .. 2 : cs[j] \in C
      <3>1. Len(cs) = 2
        BY <2>0
      <3> QED BY <2>1, <3>1
    <2>3. CpuIndex(t, k) \in 1 .. 2 /\ 3 - CpuIndex(t, k) \in 1 .. 2
      BY DEF CpuIndex
    <2> QED BY <2>2, <2>3 DEF Cpu, Regular, C, cs
  <1> QED BY <1>2, <1>3, <1>4

\* A quotient of doubles is a number.
LEMMA TruncationsType ==
    ASSUME NEW n \in Int, NEW d \in Nat \ {0}
    PROVE  Truncations(n, d) \subseteq Int
  <1>1. Signed \subseteq Int
    BY WordType DEF Signed
  <1> DEFINE q == IF n < 0 THEN -((-n) \div d) ELSE n \div d
  <1>2. q \in Int
    OBVIOUS
  <1>3. \/ Truncations(n, d) = Signed
        \/ Truncations(n, d) \subseteq q - 1 .. q + 1
    BY DEF Truncations
  <1> HIDE DEF q
  <1>4. q - 1 .. q + 1 \subseteq Int
    BY <1>2
  <1> QED BY <1>1, <1>3, <1>4

\* Whatever the traces hold, the difference that is derived is a number.
LEMMA TimeDiffsType ==
    ASSUME TypeOK
    PROVE  TimeDiffs \subseteq Int
  <1>1. /\ hostTrace \in Trace /\ guestTrace \in Trace
        /\ Words \subseteq Int /\ Signed \subseteq Int
        /\ config.guestClockBootTimeNs \in Words
        /\ config.guestClockTimeDiffNs \in Signed /\ config.guestTscOffset \in Signed
    BY WordType DEF TypeOK, Config, Words, Signed
  <1>2. /\ getTraceStartTime(hostTrace) \in Int
        /\ getTraceStartTime(guestTrace) \in Int
    BY <1>1, StartTimeType
  <1>3. ASSUME CanSync PROVE SyncedTimeDiffs \subseteq Int
    <2>1. HasSync(hostTrace) /\ HasSync(guestTrace)
      BY <1>3 DEF CanSync
    <2> DEFINE hc == Cpu(hostTrace, LastSync(hostTrace)).time
               hr == Regular(hostTrace, LastSync(hostTrace)).time
               gr == Regular(guestTrace, LastSync(guestTrace)).time
               delta == getSignedDifference(hc, GuestCpuTime)
               offsets == Truncations(delta * ElapsedNanos(hostTrace),
                                      ElapsedCycles(hostTrace))
    <2>2. /\ hc \in Int /\ hr \in Int /\ gr \in Int
          /\ Cpu(hostTrace, FirstSync(hostTrace)).time \in Int
          /\ Regular(hostTrace, FirstSync(hostTrace)).time \in Int
          /\ Cpu(guestTrace, LastSync(guestTrace)).time \in Int
      BY <1>1, <2>1, LastSyncType
    <2>3. GuestCpuTime \in Int
      <3>1. ASSUME NEW a \in Int, NEW b \in Int PROVE a - b \in Int
        OBVIOUS
      <3>2. config.guestTscOffset \in Int
        BY <1>1
      <3>3. Cpu(guestTrace, LastSync(guestTrace)).time - config.guestTscOffset \in Int
        BY <2>2, <3>1, <3>2
      <3> QED BY <1>1, <3>3, Residue DEF GuestCpuTime
    <2>4. delta \in Int
      BY <2>2, <2>3, SignedDifferenceType
    <2>5. ElapsedNanos(hostTrace) \in Int
      <3>1. hr - Regular(hostTrace, FirstSync(hostTrace)).time \in Int
        BY <2>2
      <3> QED BY <1>1, <3>1, Residue DEF ElapsedNanos
    <2>6. ElapsedCycles(hostTrace) \in Nat \ {0}
      BY <2>1, <2>2 DEF ElapsedCycles, HasSync
    <2>7. offsets \subseteq Int
      <3>1. delta * ElapsedNanos(hostTrace) \in Int
        BY <2>4, <2>5
      <3> QED BY <2>6, <3>1, TruncationsType
    <2>8. SyncedTimeDiffs = {ToSigned(gr + o - hr) : o \in offsets}
      BY DEF SyncedTimeDiffs
    <2> HIDE DEF gr, hr, offsets
    <2>9. \A o \in offsets : gr + o - hr \in Int
      BY <2>2, <2>7
    <2> QED BY <2>8, <2>9, ToSignedType
  <1>4. GuestTimeDiffs \subseteq Int
    BY <1>2, <1>3, SignedDifferenceType DEF GuestTimeDiffs
  <1> QED BY <1>1, <1>2, <1>4, SignedDifferenceType DEF TimeDiffs

\* The initial state is well typed.
LEMMA InitType == Init => TypeOK
  <1> SUFFICES ASSUME Init PROVE TypeOK
    OBVIOUS
  <1>1. world \in World /\ moments \in [Files -> Seq(Moment)]
    BY InputsAssumption DEF Init, Files
  <1>2. disk \in [Files -> File]
    <2>1. PICK p \in [Files -> BOOLEAN] :
             disk = [f \in Files |->
                       [valid |-> TRUE, parses |-> p[f],
                        packets |-> [k \in 1 .. Len(moments[f]) |->
                                       Recorded(world, f, moments[f][k])]]]
      BY DEF Init
    <2>2. ASSUME NEW f \in Files
          PROVE  [k \in 1 .. Len(moments[f]) |-> Recorded(world, f, moments[f][k])]
                    \in Seq(Packet)
      <3>1. moments[f] \in Seq(Moment) /\ Len(moments[f]) \in Nat
        BY <1>1
      <3>2. \A k \in 1 .. Len(moments[f]) : Recorded(world, f, moments[f][k]) \in Packet
        BY <1>1, <3>1, RecordedType
      <3>3. [k \in 1 .. Len(moments[f]) |-> Recorded(world, f, moments[f][k])]
               \in [1 .. Len(moments[f]) -> Packet]
        BY <3>2
      <3> QED BY <3>1, <3>3
    <2> QED BY <2>1, <2>2 DEF File
  <1>3. DefaultConfig \in Config
    BY WordType DEF DefaultConfig, Config, Words, Signed
  <1>4. /\ asked \in CommandLine \cup {ClientCall} /\ argv \in Seq(Token)
        /\ config \in Config /\ pc \in {"main", "readGuest"}
    <2>1. CASE asked \in CommandLines
      <3>1. asked \in CommandLine
        BY <2>1, InputsAssumption
      <3>2. asked # ClientCall /\ asked.options \in Seq(Token)
        BY <3>1 DEF CommandLine, ClientCall
      <3>3. config = DefaultConfig /\ pc = "main"
        BY <3>2 DEF Init, Started
      <3> QED BY <1>3, <3>1, <3>2, <3>3 DEF Init
    <2>2. CASE asked = ClientCall
      <3>1. argv = <<>>
        BY <2>2 DEF Init, ClientCall
      <3>2. asked \notin CommandLines
        BY <2>2, InputsAssumption DEF CommandLine, ClientCall
      <3>3. config \in Configs /\ pc = "readGuest"
        BY <3>2 DEF Init, Started
      <3>4. argv \in Seq(Token) /\ config \in Config
        BY <3>1, <3>3, InputsAssumption
      <3> QED BY <2>2, <3>3, <3>4
    <2> QED BY <2>1, <2>2 DEF Init, Started
  <1>5. NoTrace \in Trace
    BY DEF NoTrace, Trace
  <1>6. combinedFile \in CombinedFile
    BY DEF Init, CombinedFile
  <1> QED BY <1>1, <1>2, <1>4, <1>5, <1>6 DEF Init, TypeOK

\* Every step keeps the types.
LEMMA StepType == TypeOK /\ [Next]_vars => TypeOK'
  <1> SUFFICES ASSUME TypeOK, [Next]_vars PROVE TypeOK'
    OBVIOUS
  <1>t. /\ argv \in Seq(Token) /\ config \in Config /\ disk \in [Files -> File]
        /\ guestTrace \in Trace /\ hostTrace \in Trace
    BY DEF TypeOK
  <1>1. CASE CheckArguments \/ CallCombineTraces
    BY <1>1 DEF CheckArguments, CallCombineTraces, Return, TypeOK
  <1>2. CASE Option
    <2>1. argv # <<>> /\ UNCHANGED <<world, moments, disk, asked, guestTrace,
                                     hostTrace, combinedFile>>
      BY <1>2 DEF Option
    <2>2. CASE UNCHANGED <<argv, config>> /\ Return(1)
      BY <2>1, <2>2 DEF Return, TypeOK
    <2>3. CASE /\ Parses(2, Signed)
               /\ config' = [config EXCEPT !.guestTscOffset = argv[2].val]
               /\ argv' = SubSeq(argv, 3, Len(argv))
               /\ UNCHANGED <<pc, exit>>
      <3>1. config' \in Config
        BY <1>t, <2>3 DEF Config, Parses
      <3>2. argv' \in Seq(Token)
        BY <1>t, <2>3
      <3> QED BY <2>1, <2>3, <3>1, <3>2 DEF TypeOK
    <2>4. CASE MergeGuestIntoHost
      <3>1. config' \in Config
        BY <1>t, <2>4 DEF Config, MergeGuestIntoHost
      <3>2. argv' \in Seq(Token)
        BY <1>t, <2>1, <2>4 DEF MergeGuestIntoHost
      <3> QED BY <2>1, <2>4, <3>1, <3>2 DEF TypeOK, MergeGuestIntoHost
    <2>5. CASE /\ Parses(1, Unsigned)
               /\ config' = [config EXCEPT !.guestClockBootTimeNs = argv[1].val % Word,
                                           !.useGuestAbsoluteTime = TRUE]
               /\ argv' = Tail(argv)
               /\ UNCHANGED <<pc, exit>>
      <3> DEFINE b == argv[1].val % Word
      <3>1. argv[1].val \in Int
        BY <2>5, WordType DEF Parses, Unsigned
      <3>2. b \in Words
        BY <3>1, Residue
      <3> HIDE DEF b
      <3>3. config' = [config EXCEPT !.guestClockBootTimeNs = b,
                                     !.useGuestAbsoluteTime = TRUE]
        BY <2>5 DEF b
      <3>4. config' \in Config
        BY <1>t, <3>2, <3>3 DEF Config
      <3>5. argv' \in Seq(Token)
        BY <1>t, <2>1, <2>5
      <3> QED BY <2>1, <2>5, <3>4, <3>5 DEF TypeOK
    <2> QED BY <1>2, <2>2, <2>3, <2>4, <2>5 DEF Option, TscOffset, BootTime
  <1>3. CASE ReadGuest
    <2>1. guestTrace' \in Trace
      BY <1>t, <1>3 DEF ReadGuest, Trace, File, Files
    <2> QED BY <1>3, <2>1 DEF ReadGuest, TypeOK
  <1>4. CASE ReadHost
    <2>1. hostTrace' \in Trace
      BY <1>t, <1>4 DEF ReadHost, Trace, File, Files
    <2> QED BY <1>4, <2>1 DEF ReadHost, TypeOK
  <1>5. CASE Combine
    <2>1. PICK d \in TimeDiffs : WriteCombined(Combined(d))
      BY <1>5 DEF Combine
    <2>2. d \in Int /\ -d \in Int
      BY TimeDiffsType
    <2>3. Combined(d) \in Seq(Packet)
      BY <1>t, <2>2, MergeType DEF Combined
    <2>4. combinedFile' \in CombinedFile
      <3> DEFINE c == Combined(d)
      <3>1. \A n \in 0 .. Len(c) - 1 : SubSeq(c, 1, n) \in Seq(Packet)
        BY <2>3
      <3>2. WriteCombined(c)
        BY <2>1
      <3> HIDE DEF c
      <3>3. c \in Seq(Packet)
        BY <2>3 DEF c
      <3>4. combinedFile \in CombinedFile
        BY DEF TypeOK
      <3> QED BY <3>1, <3>2, <3>3, <3>4 DEF WriteCombined, CombinedFile
    <2> QED BY <1>5, <2>4 DEF Combine, Return, TypeOK
  <1>6. ASSUME NEW f \in Files, Remove(f) PROVE TypeOK'
    <2>1. disk' \in [Files -> File]
      BY <1>t, <1>6 DEF Remove, File
    <2> QED BY <1>6, <2>1 DEF Remove, TypeOK
  <1>7. CASE UNCHANGED vars
    BY <1>7 DEF vars, TypeOK
  <1> QED BY <1>1, <1>2, <1>3, <1>4, <1>5, <1>6, <1>7 DEF Next

\* The types of the configuration, the traces and the combined file; in
\* particular a boot time read from the command line is a uint64_t and a tsc
\* offset an int64_t.
THEOREM TypeCorrect == Spec => []TypeOK
  BY InitType, StepType, PTL DEF Spec

-----------------------------------------------------------------------------
(***************************************************************************)
(* The command line                                                        *)
(***************************************************************************)

\* Option k is acceptable when the first n have been read.
Accepted(k, n) ==
    /\ asked.options[k].is # "junk"
    /\ IsValue(k) => k \in Numbers(Signed)
    /\ k \in BootTimes => k \in Numbers(Unsigned)
    /\ asked.options[k].is = "--guest-tsc-offset" => k < n

UpTo(s, n) == {k \in s : k <= n}

\* The loop of main has read the first n options: the rest is left in argv,
\* and the configuration is what those n stand for.
HasRead(n) ==
    /\ n \in 0 .. Len(asked.options)
    /\ Len(argv) = Len(asked.options) - n
    /\ \A k \in 1 .. Len(argv) : argv[k] = asked.options[n + k]
    /\ n > 0 => asked.options[n].is # "--guest-tsc-offset"
    /\ \A k \in 1 .. n : Accepted(k, n)
    /\ config.useGuestAbsoluteTime = (UpTo(BootTimes, n) # {})
    /\ config.guestClockBootTimeNs = LastOf(UpTo(BootTimes, n)) % Word
    /\ config.guestTscOffset = LastOf(UpTo(Offsets, n))
    /\ config.mergeGuestIntoHost =
          (\E k \in 1 .. n : asked.options[k].is = "--merge-guest-into-host")
    /\ config.useGuestTimeDiff = FALSE
    /\ config.guestClockTimeDiffNs = 0

\* What main has done at each of its steps, and what it returns.
MainInv ==
    /\ asked.by = "main" =>
          /\ pc \in {"main", "options"} => \E n \in Nat : HasRead(n)
          /\ pc = "options" => asked.files = 3
          /\ pc \in {"readGuest", "readHost", "derive"} \/ exit = 0 =>
                WellFormed /\ config = Wanted
          /\ exit = 1 => ~WellFormed \/ \E f \in Files : ~disk[f].valid
    /\ pc # "returned" => exit = Absent
    /\ combinedFile.state # "old" => exit = 0

\* What the command line holds.
LEMMA AskedType ==
    ASSUME TypeOK
    PROVE  /\ asked.options \in Seq(Token) /\ Len(asked.options) \in Nat
           /\ Options = 1 .. Len(asked.options)
           /\ BootTimes \subseteq Nat /\ Offsets \subseteq Nat
  <1>1. asked.options \in Seq(Token)
    <2>1. CASE asked \in CommandLine
      BY <2>1 DEF CommandLine
    <2>2. CASE asked = ClientCall
      <3>1. asked.options = <<>>
        BY <2>2 DEF ClientCall
      <3> QED BY <3>1
    <2> QED BY <2>1, <2>2 DEF TypeOK
  <1>2. Len(asked.options) \in Nat
    BY <1>1
  <1>3. Options = 1 .. Len(asked.options)
    BY DEF Options
  <1> QED BY <1>1, <1>2, <1>3 DEF BootTimes, Offsets

\* The last of several values counts.
LEMMA LastOfTop ==
    ASSUME NEW S, S \subseteq Nat, NEW m \in S
    PROVE  UpTo(S, m) # {} /\ LastOf(UpTo(S, m)) = asked.options[m].val
  <1> DEFINE U == UpTo(S, m)
  <1>0. \A k \in S : k \in Nat
    OBVIOUS
  <1>1. m \in U /\ (\A l \in U : m >= l) /\ (\A l \in U : l \in Nat)
    BY <1>0 DEF UpTo
  <1> HIDE DEF U
  <1>2. Last(U) \in U /\ \A l \in U : Last(U) >= l
    BY <1>1 DEF Last
  <1>3. Last(U) = m
    <2>1. Last(U) \in Nat /\ m \in Nat /\ m >= Last(U) /\ Last(U) >= m
      BY <1>1, <1>2
    <2> QED BY <2>1
  <1>4. LastOf(U) = asked.options[m].val /\ U # {}
    BY <1>1, <1>3 DEF LastOf
  <1> QED BY <1>4 DEF U

\* Words that are no values of an option leave it alone.
LEMMA UpToSame ==
    ASSUME NEW S, S \subseteq Nat, NEW n \in Nat, NEW m \in Nat, n <= m,
           \A k \in n + 1 .. m : k \notin S
    PROVE  UpTo(S, m) = UpTo(S, n)
  <1>0. \A k \in S : k \in Nat
    OBVIOUS
  <1>1. ASSUME NEW k \in S PROVE k <= m <=> k <= n
    BY <1>0
  <1> QED BY <1>1 DEF UpTo

\* The next word of the command line.
LEMMA NextWord ==
    ASSUME TypeOK, NEW n \in Nat, HasRead(n), argv # <<>>
    PROVE  /\ n + 1 <= Len(asked.options) /\ Len(argv) = Len(asked.options) - n
           /\ argv[1] = asked.options[n + 1]
           /\ ~IsValue(n + 1)
           /\ \A k \in 1 .. Len(argv) : argv[k] = asked.options[n + k]
  <1>1. Len(asked.options) \in Nat
    BY AskedType
  <1>2. argv \in Seq(Token) /\ Len(argv) \in Nat /\ Len(argv) >= 1
    BY DEF TypeOK
  <1>3. /\ n <= Len(asked.options) /\ Len(argv) = Len(asked.options) - n
        /\ \A k \in 1 .. Len(argv) : argv[k] = asked.options[n + k]
        /\ n > 0 => asked.options[n].is # "--guest-tsc-offset"
    BY DEF HasRead
  <1>4. n + 1 <= Len(asked.options)
    BY <1>1, <1>2, <1>3
  <1>5. argv[1] = asked.options[n + 1]
    BY <1>2, <1>3
  <1>6. ~IsValue(n + 1)
    <2>1. (n + 1) - 1 = n
      OBVIOUS
    <2> QED BY <1>3, <2>1 DEF IsValue
  <1> QED BY <1>3, <1>4, <1>5, <1>6

\* What is left of a sequence without its first word, or its first two.
LEMMA DropOne ==
    ASSUME NEW E, NEW s \in Seq(E), s # <<>>
    PROVE  /\ Len(Tail(s)) = Len(s) - 1
           /\ \A k \in 1 .. Len(s) - 1 : Tail(s)[k] = s[k + 1]
  OBVIOUS

\* The same, of two words.
LEMMA DropTwo ==
    ASSUME NEW E, NEW s \in Seq(E), Len(s) >= 2
    PROVE  /\ Len(SubSeq(s, 3, Len(s))) = Len(s) - 2
           /\ \A k \in 1 .. Len(s) - 2 : SubSeq(s, 3, Len(s))[k] = s[k + 2]
  <1>1. Len(s) \in Nat
    OBVIOUS
  <1>2. Len(SubSeq(s, 3, Len(s))) = Len(s) - 2
    <2>1. 3 \in Int /\ Len(s) \in Int /\ \A i \in 3 .. Len(s) : s[i] \in E
      BY <1>1
    <2>2. Len(SubSeq(s, 3, Len(s))) = IF 3 <= Len(s) THEN Len(s) - 3 + 1 ELSE 0
      BY <2>1, SubSeqProperties
    <2> DEFINE r == Len(SubSeq(s, 3, Len(s)))
    <2> HIDE DEF r
    <2>3. r = IF 3 <= Len(s) THEN Len(s) - 3 + 1 ELSE 0
      BY <2>2 DEF r
    <2>4. ASSUME NEW l \in Nat, l >= 2, r = IF 3 <= l THEN l - 3 + 1 ELSE 0
          PROVE  r = l - 2
      <3>1. CASE 3 <= l
        BY <2>4, <3>1
      <3>2. CASE l = 2
        BY <2>4, <3>2
      <3> QED BY <2>4, <3>1, <3>2
    <2>5. r = Len(s) - 2
      BY <1>1, <2>3, <2>4
    <2> QED BY <2>5 DEF r
  <1>3. ASSUME NEW k \in 1 .. Len(s) - 2
        PROVE  SubSeq(s, 3, Len(s))[k] = s[k + 2]
    BY <1>1
  <1> QED BY <1>2, <1>3

\* HasRead of the next state, whose command line is that of this one.
LEMMA HasReadNext ==
    ASSUME NEW m \in Nat, m > 0, m <= Len(asked.options), UNCHANGED asked,
           Len(asked.options) \in Nat,
           Len(argv') = Len(asked.options) - m,
           \A k \in 1 .. Len(argv') : argv'[k] = asked.options[m + k],
           asked.options[m].is # "--guest-tsc-offset",
           \A k \in 1 .. m : Accepted(k, m),
           config'.useGuestAbsoluteTime = (UpTo(BootTimes, m) # {}),
           config'.guestClockBootTimeNs = LastOf(UpTo(BootTimes, m)) % Word,
           config'.guestTscOffset = LastOf(UpTo(Offsets, m)),
           config'.mergeGuestIntoHost =
             (\E k \in 1 .. m : asked.options[k].is = "--merge-guest-into-host"),
           config'.useGuestTimeDiff = FALSE,
           config'.guestClockTimeDiffNs = 0
    PROVE  HasRead(m)'
  <1>1. m \in 0 .. Len(asked.options)
    OBVIOUS
  <1>2. /\ UpTo(BootTimes, m)' = UpTo(BootTimes, m)
        /\ LastOf(UpTo(BootTimes, m))' = LastOf(UpTo(BootTimes, m))
        /\ LastOf(UpTo(Offsets, m))' = LastOf(UpTo(Offsets, m))
    BY DEF UpTo, LastOf, BootTimes, Offsets, Options, IsValue
  <1>3. ASSUME NEW k \in 1 .. m PROVE Accepted(k, m)'
    <2>1. Accepted(k, m)
      OBVIOUS
    <2> QED BY <2>1 DEF Accepted, IsValue, Numbers, Options, BootTimes
  <1> QED BY <1>1, <1>2, <1>3 DEF HasRead

\* "--guest-tsc-offset" takes the next word.
LEMMA ReadTscOffset ==
    ASSUME TypeOK, NEW n \in Nat, HasRead(n), argv # <<>>,
           argv[1].is = "--guest-tsc-offset", Parses(2, Signed),
           config' = [config EXCEPT !.guestTscOffset = argv[2].val],
           argv' = SubSeq(argv, 3, Len(argv)), UNCHANGED asked
    PROVE  HasRead(n + 2)'
  <1> DEFINE o == asked.options
  <1>0. Len(o) \in Nat /\ Options = 1 .. Len(o) /\ BootTimes \subseteq Nat /\ Offsets \subseteq Nat
    BY AskedType
  <1>1. /\ Len(argv) = Len(o) - n /\ argv[1] = o[n + 1] /\ ~IsValue(n + 1)
        /\ \A k \in 1 .. Len(argv) : argv[k] = o[n + k]
    BY NextWord
  <1>a. argv \in Seq(Token) /\ config \in Config /\ Len(argv) \in Nat
    BY DEF TypeOK
  <1>b. Len(argv) >= 2 /\ argv[2].is \in Numeric /\ argv[2].val \in Signed
    BY DEF Parses
  <1>2. /\ n + 2 <= Len(o) /\ argv[2] = o[n + 2]
        /\ o[n + 1].is = "--guest-tsc-offset"
        /\ o[n + 2].is \in Numeric /\ o[n + 2].val \in Signed
    <2>1. argv[2] = o[n + 2]
      <3>1. 2 \in 1 .. Len(argv)
        BY <1>a, <1>b
      <3> QED BY <1>1, <3>1
    <2> QED BY <1>0, <1>1, <1>a, <1>b, <2>1
  <1>3. IsValue(n + 2)
    <2>1. (n + 2) - 1 = n + 1 /\ n + 2 > 1
      OBVIOUS
    <2> QED BY <1>2, <2>1 DEF IsValue
  <1>4. n + 2 \in Numbers(Signed)
    BY <1>0, <1>2 DEF Numbers
  <1>5. ASSUME NEW k \in 1 .. n + 2 PROVE Accepted(k, n + 2)
    <2>1. CASE k \in 1 .. n
      <3>1. Accepted(k, n)
        BY <2>1 DEF HasRead
      <3>2. k < n => k < n + 2
        OBVIOUS
      <3> QED BY <3>1, <3>2 DEF Accepted
    <2>2. CASE k = n + 1
      BY <1>1, <1>2, <2>2 DEF Accepted, BootTimes, Numeric
    <2>3. CASE k = n + 2
      BY <1>2, <1>3, <1>4, <2>3 DEF Accepted, BootTimes, Numeric
    <2> QED BY <2>1, <2>2, <2>3
  <1>6. UpTo(BootTimes, n + 2) = UpTo(BootTimes, n)
    <2>1. n + 1 \notin BootTimes /\ n + 2 \notin BootTimes
      BY <1>2, <1>3 DEF BootTimes, Numeric
    <2>2. \A k \in n + 1 .. n + 2 : k \notin BootTimes
      <3>1. \A k \in n + 1 .. n + 2 : k = n + 1 \/ k = n + 2
        OBVIOUS
      <3> QED BY <2>1, <3>1
    <2>3. n + 2 \in Nat /\ n <= n + 2
      OBVIOUS
    <2> QED BY <1>0, <2>2, <2>3, UpToSame
  <1>7. LastOf(UpTo(Offsets, n + 2)) = argv[2].val
    <2>1. n + 2 \in Offsets
      BY <1>0, <1>2, <1>3 DEF Offsets
    <2>2. LastOf(UpTo(Offsets, n + 2)) = o[n + 2].val
      BY <1>0, <2>1, LastOfTop
    <2> QED BY <1>2, <2>2
  <1>8. (\E k \in 1 .. n + 2 : o[k].is = "--merge-guest-into-host")
           = (\E k \in 1 .. n : o[k].is = "--merge-guest-into-host")
    <2>1. \A k \in 1 .. n + 2 : k \in 1 .. n \/ k = n + 1 \/ k = n + 2
      OBVIOUS
    <2>2. \A k \in 1 .. n : k \in 1 .. n + 2
      OBVIOUS
    <2> HIDE DEF o
    <2> QED BY <1>2, <2>1, <2>2 DEF Numeric
  <1>9. /\ Len(argv') = Len(o) - (n + 2)
        /\ \A k \in 1 .. Len(argv') : argv'[k] = o[n + 2 + k]
    <2>1. /\ Len(argv') = Len(argv) - 2
          /\ \A k \in 1 .. Len(argv) - 2 : argv'[k] = argv[k + 2]
      BY <1>a, <1>b, DropTwo
    <2>2. ASSUME NEW k \in 1 .. Len(argv) - 2 PROVE argv[k + 2] = o[n + 2 + k]
      <3>1. k + 2 \in 1 .. Len(argv) /\ n + (k + 2) = n + 2 + k
        BY <1>a
      <3> QED BY <1>1, <3>1
    <2>3. Len(argv) - 2 = Len(o) - (n + 2)
      BY <1>0, <1>1
    <2> QED BY <2>1, <2>2, <2>3
  <1>10. /\ config'.guestTscOffset = argv[2].val
         /\ config'.useGuestAbsoluteTime = (UpTo(BootTimes, n) # {})
         /\ config'.guestClockBootTimeNs = LastOf(UpTo(BootTimes, n)) % Word
         /\ config'.mergeGuestIntoHost =
               (\E k \in 1 .. n : o[k].is = "--merge-guest-into-host")
         /\ config'.useGuestTimeDiff = FALSE
         /\ config'.guestClockTimeDiffNs = 0
    <2>1. /\ config'.guestTscOffset = argv[2].val
          /\ config'.useGuestAbsoluteTime = config.useGuestAbsoluteTime
          /\ config'.guestClockBootTimeNs = config.guestClockBootTimeNs
          /\ config'.mergeGuestIntoHost = config.mergeGuestIntoHost
          /\ config'.useGuestTimeDiff = config.useGuestTimeDiff
          /\ config'.guestClockTimeDiffNs = config.guestClockTimeDiffNs
      BY <1>a DEF Config
    <2> QED BY <2>1 DEF HasRead
  <1>11. n + 2 \in Nat /\ n + 2 > 0 /\ o[n + 2].is # "--guest-tsc-offset"
    BY <1>2 DEF Numeric
  <1>12. /\ config'.useGuestAbsoluteTime = (UpTo(BootTimes, n + 2) # {})
         /\ config'.guestClockBootTimeNs = LastOf(UpTo(BootTimes, n + 2)) % Word
         /\ config'.guestTscOffset = LastOf(UpTo(Offsets, n + 2))
         /\ config'.mergeGuestIntoHost =
               (\E k \in 1 .. n + 2 : o[k].is = "--merge-guest-into-host")
         /\ config'.useGuestTimeDiff = FALSE
         /\ config'.guestClockTimeDiffNs = 0
    <2>1. config'.useGuestAbsoluteTime = (UpTo(BootTimes, n + 2) # {})
      BY <1>6, <1>10
    <2>2. config'.guestClockBootTimeNs = LastOf(UpTo(BootTimes, n + 2)) % Word
      BY <1>6, <1>10
    <2>3. config'.guestTscOffset = LastOf(UpTo(Offsets, n + 2))
      BY <1>7, <1>10
    <2>4. config'.mergeGuestIntoHost =
               (\E k \in 1 .. n + 2 : o[k].is = "--merge-guest-into-host")
      BY <1>8, <1>10
    <2> QED BY <1>10, <2>1, <2>2, <2>3, <2>4
  <1> QED BY <1>0, <1>2, <1>5, <1>9, <1>11, <1>12, HasReadNext, Zenon

\* One word is read, and was an option or the boot time.
LEMMA ReadOne ==
    ASSUME TypeOK, NEW n \in Nat, HasRead(n), argv # <<>>,
           argv[1].is # "--guest-tsc-offset", Accepted(n + 1, n + 1),
           argv' = Tail(argv), UNCHANGED asked,
           config'.guestTscOffset = config.guestTscOffset,
           config'.useGuestTimeDiff = FALSE, config'.guestClockTimeDiffNs = 0,
           config'.useGuestAbsoluteTime = (UpTo(BootTimes, n + 1) # {}),
           config'.guestClockBootTimeNs = LastOf(UpTo(BootTimes, n + 1)) % Word,
           config'.mergeGuestIntoHost =
             (\E k \in 1 .. n + 1 : asked.options[k].is = "--merge-guest-into-host")
    PROVE  HasRead(n + 1)'
  <1> DEFINE o == asked.options
  <1>0. Len(o) \in Nat /\ Options = 1 .. Len(o) /\ Offsets \subseteq Nat
    BY AskedType
  <1>1. /\ n + 1 <= Len(o)
        /\ Len(argv) = Len(o) - n /\ argv[1] = o[n + 1] /\ ~IsValue(n + 1)
        /\ \A k \in 1 .. Len(argv) : argv[k] = o[n + k]
    BY NextWord
  <1>a. argv \in Seq(Token) /\ Len(argv) \in Nat
    BY DEF TypeOK
  <1>2. ASSUME NEW k \in 1 .. n + 1 PROVE Accepted(k, n + 1)
    <2>1. CASE k \in 1 .. n
      <3>1. Accepted(k, n)
        BY <2>1 DEF HasRead
      <3>2. k < n => k < n + 1
        OBVIOUS
      <3> QED BY <3>1, <3>2 DEF Accepted
    <2>2. CASE k = n + 1
      BY <2>2
    <2> QED BY <2>1, <2>2
  <1>3. config'.guestTscOffset = LastOf(UpTo(Offsets, n + 1))
    <2>1. n + 1 \notin Offsets
      BY <1>1 DEF Offsets
    <2>2. \A k \in n + 1 .. n + 1 : k \notin Offsets
      <3>1. \A k \in n + 1 .. n + 1 : k = n + 1
        OBVIOUS
      <3> QED BY <2>1, <3>1
    <2>3. n + 1 \in Nat /\ n <= n + 1
      OBVIOUS
    <2>4. UpTo(Offsets, n + 1) = UpTo(Offsets, n)
      BY <1>0, <2>2, <2>3, UpToSame
    <2>5. config.guestTscOffset = LastOf(UpTo(Offsets, n))
      BY DEF HasRead
    <2> QED BY <2>4, <2>5
  <1>4. /\ Len(argv') = Len(o) - (n + 1)
        /\ \A k \in 1 .. Len(argv') : argv'[k] = o[n + 1 + k]
    <2>1. /\ Len(argv') = Len(argv) - 1
          /\ \A k \in 1 .. Len(argv) - 1 : argv'[k] = argv[k + 1]
      BY <1>a, DropOne
    <2>2. ASSUME NEW k \in 1 .. Len(argv) - 1 PROVE argv[k + 1] = o[n + 1 + k]
      <3>1. k + 1 \in 1 .. Len(argv) /\ n + (k + 1) = n + 1 + k
        BY <1>a
      <3> QED BY <1>1, <3>1
    <2>3. Len(argv) - 1 = Len(o) - (n + 1)
      BY <1>0, <1>1
    <2> QED BY <2>1, <2>2, <2>3
  <1>5. n + 1 \in Nat /\ n + 1 > 0 /\ o[n + 1].is # "--guest-tsc-offset"
    BY <1>1
  <1> QED BY <1>0, <1>1, <1>2, <1>3, <1>4, <1>5, HasReadNext, Zenon

\* "--merge-guest-into-host" stands alone.
LEMMA ReadMerge ==
    ASSUME TypeOK, NEW n \in Nat, HasRead(n), argv # <<>>,
           MergeGuestIntoHost, UNCHANGED asked
    PROVE  HasRead(n + 1)'
  <1> DEFINE o == asked.options
  <1>0. BootTimes \subseteq Nat
    BY AskedType
  <1>1. argv[1] = o[n + 1] /\ ~IsValue(n + 1)
    BY NextWord
  <1>2. argv[1].is = "--merge-guest-into-host" /\ argv' = Tail(argv)
    BY DEF MergeGuestIntoHost
  <1>3. Accepted(n + 1, n + 1)
    BY <1>1, <1>2 DEF Accepted, BootTimes, Numeric
  <1>4. /\ config'.guestTscOffset = config.guestTscOffset
        /\ config'.useGuestAbsoluteTime = config.useGuestAbsoluteTime
        /\ config'.guestClockBootTimeNs = config.guestClockBootTimeNs
        /\ config'.mergeGuestIntoHost = TRUE
        /\ config'.useGuestTimeDiff = config.useGuestTimeDiff
        /\ config'.guestClockTimeDiffNs = config.guestClockTimeDiffNs
    BY DEF TypeOK, Config, MergeGuestIntoHost
  <1>5. UpTo(BootTimes, n + 1) = UpTo(BootTimes, n)
    <2>1. n + 1 \notin BootTimes
      BY <1>1, <1>2 DEF BootTimes, Numeric
    <2>2. \A k \in n + 1 .. n + 1 : k \notin BootTimes
      <3>1. \A k \in n + 1 .. n + 1 : k = n + 1
        OBVIOUS
      <3> QED BY <2>1, <3>1
    <2>3. n + 1 \in Nat /\ n <= n + 1
      OBVIOUS
    <2> QED BY <1>0, <2>2, <2>3, UpToSame
  <1>6. /\ config'.useGuestAbsoluteTime = (UpTo(BootTimes, n + 1) # {})
        /\ config'.guestClockBootTimeNs = LastOf(UpTo(BootTimes, n + 1)) % Word
        /\ config'.useGuestTimeDiff = FALSE
        /\ config'.guestClockTimeDiffNs = 0
    BY <1>4, <1>5 DEF HasRead
  <1>7. config'.mergeGuestIntoHost =
           (\E k \in 1 .. n + 1 : o[k].is = "--merge-guest-into-host")
    <2>1. n + 1 \in 1 .. n + 1
      OBVIOUS
    <2> QED BY <1>1, <1>2, <1>4, <2>1
  <1> QED BY <1>2, <1>3, <1>4, <1>6, <1>7, ReadOne, Zenon

\* Any other word is the boot time.
LEMMA ReadBootTime ==
    ASSUME TypeOK, NEW n \in Nat, HasRead(n), argv # <<>>,
           argv[1].is \in Numeric \cup {"junk"}, Parses(1, Unsigned),
           config' = [config EXCEPT !.guestClockBootTimeNs = argv[1].val % Word,
                                    !.useGuestAbsoluteTime = TRUE],
           argv' = Tail(argv), UNCHANGED asked
    PROVE  HasRead(n + 1)'
  <1> DEFINE o == asked.options
  <1>0. BootTimes \subseteq Nat /\ Options = 1 .. Len(o) /\ Len(o) \in Nat
    BY AskedType
  <1>1. argv[1] = o[n + 1] /\ ~IsValue(n + 1) /\ n + 1 <= Len(o)
    BY NextWord
  <1>2. argv[1].is \in Numeric /\ argv[1].val \in Unsigned
    BY DEF Parses
  <1>3. Accepted(n + 1, n + 1)
    <2>1. n + 1 \in Numbers(Unsigned)
      BY <1>0, <1>1, <1>2 DEF Numbers
    <2> QED BY <1>1, <1>2, <2>1 DEF Accepted, Numeric
  <1>4. /\ config'.guestTscOffset = config.guestTscOffset
        /\ config'.useGuestAbsoluteTime = TRUE
        /\ config'.guestClockBootTimeNs = argv[1].val % Word
        /\ config'.mergeGuestIntoHost = config.mergeGuestIntoHost
        /\ config'.useGuestTimeDiff = config.useGuestTimeDiff
        /\ config'.guestClockTimeDiffNs = config.guestClockTimeDiffNs
    <2> DEFINE b == argv[1].val % Word
    <2>1. config' = [config EXCEPT !.guestClockBootTimeNs = b,
                                   !.useGuestAbsoluteTime = TRUE]
      OBVIOUS
    <2>2. config \in Config
      BY DEF TypeOK
    <2> HIDE DEF b
    <2>3. config'.guestClockBootTimeNs = b
      BY <2>1, <2>2 DEF Config
    <2> QED BY <2>1, <2>2, <2>3 DEF Config, b
  <1>5. UpTo(BootTimes, n + 1) # {} /\ LastOf(UpTo(BootTimes, n + 1)) = o[n + 1].val
    <2>1. n + 1 \in BootTimes
      BY <1>0, <1>1, <1>2 DEF BootTimes
    <2> QED BY <1>0, <2>1, LastOfTop
  <1>6. config'.useGuestAbsoluteTime = (UpTo(BootTimes, n + 1) # {})
    BY <1>4, <1>5
  <1>7. config'.guestClockBootTimeNs = LastOf(UpTo(BootTimes, n + 1)) % Word
    BY <1>1, <1>4, <1>5
  <1>8. config'.mergeGuestIntoHost =
           (\E k \in 1 .. n + 1 : o[k].is = "--merge-guest-into-host")
    <2>1. \A k \in 1 .. n + 1 : k \in 1 .. n \/ k = n + 1
      OBVIOUS
    <2>2. \A k \in 1 .. n : k \in 1 .. n + 1
      OBVIOUS
    <2>3. o[n + 1].is # "--merge-guest-into-host"
      BY <1>1, <1>2 DEF Numeric
    <2>4. (\E k \in 1 .. n + 1 : o[k].is = "--merge-guest-into-host")
            = (\E k \in 1 .. n : o[k].is = "--merge-guest-into-host")
      <3> HIDE DEF o
      <3> QED BY <2>1, <2>2, <2>3
    <2> QED BY <1>4, <2>4 DEF HasRead
  <1>9. config'.useGuestTimeDiff = FALSE /\ config'.guestClockTimeDiffNs = 0
    BY <1>4 DEF HasRead
  <1>10. argv[1].is # "--guest-tsc-offset"
    BY <1>2 DEF Numeric
  <1> QED BY <1>3, <1>4, <1>6, <1>7, <1>8, <1>9, <1>10, ReadOne, Zenon

\* At the end of the command line all of it was understood.
LEMMA ReadAll ==
    ASSUME TypeOK, NEW n \in Nat, HasRead(n), argv = <<>>, asked.files = 3
    PROVE  WellFormed /\ config = Wanted
  <1> DEFINE o == asked.options
  <1>0. /\ BootTimes \subseteq Nat /\ Offsets \subseteq Nat
        /\ Options = 1 .. Len(o) /\ Len(o) \in Nat
    BY AskedType
  <1>1. n = Len(o)
    <2>1. Len(argv) = 0
      OBVIOUS
    <2>2. Len(argv) = Len(o) - n
      BY DEF HasRead
    <2> HIDE DEF o
    <2> QED BY <1>0, <2>1, <2>2
  <1>2. WellFormed
    <2>1. \A k \in Options : Accepted(k, Len(o))
      BY <1>0, <1>1 DEF HasRead
    <2> QED BY <2>1 DEF WellFormed, Accepted
  <1>3. UpTo(BootTimes, n) = BootTimes /\ UpTo(Offsets, n) = Offsets
    <2>1. \A k \in Options : k <= n
      BY <1>0, <1>1
    <2> QED BY <2>1 DEF UpTo, BootTimes, Offsets
  <1>4. /\ config.useGuestAbsoluteTime = (BootTimes # {})
        /\ config.guestClockBootTimeNs = LastOf(BootTimes) % Word
        /\ config.guestTscOffset = LastOf(Offsets)
        /\ config.mergeGuestIntoHost =
              (\E k \in Options : o[k].is = "--merge-guest-into-host")
        /\ config.useGuestTimeDiff = FALSE
        /\ config.guestClockTimeDiffNs = 0
    BY <1>0, <1>1, <1>3 DEF HasRead
  <1>5. config = Wanted
    <2> DEFINE a == BootTimes # {}
               b == LastOf(BootTimes) % Word
               c == LastOf(Offsets)
               d == \E k \in Options : o[k].is = "--merge-guest-into-host"
    <2>1. Wanted = [useGuestAbsoluteTime |-> a, guestClockBootTimeNs |-> b,
                    useGuestTimeDiff |-> FALSE, guestClockTimeDiffNs |-> 0,
                    guestTscOffset |-> c, mergeGuestIntoHost |-> d]
      <3>1. Wanted = [DefaultConfig EXCEPT
                        !.useGuestAbsoluteTime = a,
                        !.guestClockBootTimeNs = b,
                        !.guestTscOffset = c,
                        !.mergeGuestIntoHost = d]
        BY DEF Wanted
      <3> HIDE DEF a, b, c, d
      <3> QED BY <3>1 DEF DefaultConfig
    <2>2. /\ config.useGuestAbsoluteTime = a /\ config.guestClockBootTimeNs = b
          /\ config.guestTscOffset = c /\ config.mergeGuestIntoHost = d
          /\ config.useGuestTimeDiff = FALSE /\ config.guestClockTimeDiffNs = 0
      BY <1>4
    <2>3. config \in Config
      BY DEF TypeOK
    <2> HIDE DEF a, b, c, d
    <2> QED BY <2>1, <2>2, <2>3 DEF Config
  <1> QED BY <1>2, <1>5

\* Before the first option is read.
LEMMA ReadNone ==
    ASSUME TypeOK, argv = asked.options, config = DefaultConfig
    PROVE  HasRead(0)
  <1>0. /\ BootTimes \subseteq 1 .. Len(asked.options)
        /\ Offsets \subseteq 1 .. Len(asked.options)
        /\ Len(asked.options) \in Nat
    BY AskedType DEF BootTimes, Offsets
  <1>1. UpTo(BootTimes, 0) = {} /\ UpTo(Offsets, 0) = {}
    <2>1. ASSUME NEW k \in 1 .. Len(asked.options) PROVE ~(k <= 0)
      BY <1>0
    <2> QED BY <1>0, <2>1 DEF UpTo
  <1>2. LastOf(UpTo(BootTimes, 0)) = 0 /\ LastOf(UpTo(Offsets, 0)) = 0
    BY <1>1 DEF LastOf
  <1>3. 0 % Word = 0
    BY WordType, OwnResidue DEF Words
  <1>4. /\ 0 \in 0 .. Len(asked.options) /\ Len(argv) = Len(asked.options) - 0
        /\ \A k \in 1 .. Len(argv) : argv[k] = asked.options[0 + k]
    BY <1>0
  <1>5. /\ config.useGuestAbsoluteTime = FALSE /\ config.guestClockBootTimeNs = 0
        /\ config.guestTscOffset = 0 /\ config.mergeGuestIntoHost = FALSE
        /\ config.useGuestTimeDiff = FALSE /\ config.guestClockTimeDiffNs = 0
    BY DEF DefaultConfig
  <1>6. ~(0 > 0) /\ \A k \in 1 .. 0 : FALSE
    OBVIOUS
  <1>7. /\ config.useGuestAbsoluteTime = (UpTo(BootTimes, 0) # {})
        /\ config.guestClockBootTimeNs = LastOf(UpTo(BootTimes, 0)) % Word
        /\ config.guestTscOffset = LastOf(UpTo(Offsets, 0))
    BY <1>1, <1>2, <1>3, <1>5
  <1>8. config.mergeGuestIntoHost =
           (\E k \in 1 .. 0 : asked.options[k].is = "--merge-guest-into-host")
    BY <1>5, <1>6
  <1> QED BY <1>4, <1>5, <1>6, <1>7, <1>8, Zenon DEF HasRead

\* MainInv holds initially, and every step keeps it.
LEMMA InitMain == Init => MainInv
  <1> SUFFICES ASSUME Init PROVE MainInv
    OBVIOUS
  <1>1. TypeOK
    BY InitType
  <1>2. pc \in {"main", "readGuest"} /\ exit = Absent /\ combinedFile.state = "old"
    BY DEF Init, Started
  <1>3. ASSUME asked.by = "main" PROVE pc = "main" /\ HasRead(0)
    <2>1. asked # ClientCall
      BY <1>3 DEF ClientCall
    <2>2. pc = "main" /\ config = DefaultConfig /\ argv = asked.options
      BY <2>1 DEF Init, Started
    <2> QED BY <1>1, <2>2, ReadNone
  <1>4. Absent # 0 /\ 1 # Absent /\ 0 \in Nat
    BY DEF Absent
  <1> QED BY <1>2, <1>3, <1>4 DEF MainInv

\* A word at which the loop gives up is one that no line should have.
LEMMA Refused ==
    ASSUME TypeOK, NEW n \in Nat, HasRead(n), argv # <<>>,
           \/ argv[1].is = "--guest-tsc-offset" /\ ~Parses(2, Signed)
           \/ argv[1].is \in Numeric \cup {"junk"} /\ ~Parses(1, Unsigned)
    PROVE  ~WellFormed
  <1> SUFFICES ASSUME WellFormed PROVE FALSE
    OBVIOUS
  <1> DEFINE o == asked.options
  <1>0. Len(o) \in Nat /\ Options = 1 .. Len(o)
    BY AskedType
  <1>1. /\ n + 1 <= Len(o) /\ Len(argv) = Len(o) - n /\ argv[1] = o[n + 1]
        /\ ~IsValue(n + 1) /\ n + 1 \in Options
        /\ \A k \in 1 .. Len(argv) : argv[k] = o[n + k]
    BY <1>0, NextWord
  <1>2. CASE argv[1].is = "--guest-tsc-offset" /\ ~Parses(2, Signed)
    <2>1. n + 1 < Len(o)
      BY <1>1, <1>2 DEF WellFormed
    <2>2. n + 2 \in Options /\ Len(argv) >= 2 /\ argv[2] = o[n + 2]
      <3>1. 2 \in 1 .. Len(argv) /\ Len(argv) >= 2
        BY <1>0, <1>1, <2>1
      <3>2. argv[2] = o[n + 2]
        BY <1>1, <3>1
      <3> QED BY <1>0, <2>1, <3>1, <3>2
    <2>3. IsValue(n + 2)
      <3>1. (n + 2) - 1 = n + 1 /\ n + 2 > 1
        OBVIOUS
      <3> QED BY <1>1, <1>2, <3>1 DEF IsValue
    <2>4. n + 2 \in Numbers(Signed)
      BY <2>2, <2>3 DEF WellFormed
    <2> QED BY <1>2, <2>2, <2>4 DEF Numbers, Parses
  <1>3. CASE argv[1].is \in Numeric \cup {"junk"} /\ ~Parses(1, Unsigned)
    <2>1. argv[1].is \in Numeric
      BY <1>1, <1>3 DEF WellFormed
    <2>2. n + 1 \in BootTimes
      BY <1>1, <2>1 DEF BootTimes
    <2>3. n + 1 \in Numbers(Unsigned)
      BY <1>1, <2>2 DEF WellFormed
    <2>4. Len(argv) >= 1
      BY <1>0, <1>1
    <2> QED BY <1>1, <1>3, <2>3, <2>4 DEF Numbers, Parses
  <1> QED BY <1>2, <1>3

\* The loop over the options keeps what it has read.
LEMMA OptionMain == TypeOK /\ MainInv /\ Option => MainInv'
  <1> SUFFICES ASSUME TypeOK, MainInv, Option PROVE MainInv'
    OBVIOUS
  <1>0. Absent # 0 /\ 1 # 0
    BY DEF Absent
  <1>1. argv # <<>> /\ pc = "options" /\ UNCHANGED asked /\ UNCHANGED combinedFile
    BY DEF Option
  <1>2. exit = Absent /\ combinedFile.state = "old"
    BY <1>0, <1>1 DEF MainInv
  <1>3. CASE Return(1)
    <2>1. pc' = "returned" /\ exit' = 1
      BY <1>3 DEF Return
    <2>2. ~WellFormed' <=> ~WellFormed
      BY <1>1 DEF WellFormed, Options, IsValue, Numbers, BootTimes
    <2>3. ASSUME asked.by = "main" PROVE ~WellFormed
      <3>1. PICK n \in Nat : HasRead(n)
        BY <1>1, <2>3 DEF MainInv
      <3>2. \/ argv[1].is = "--guest-tsc-offset" /\ ~Parses(2, Signed)
            \/ argv[1].is \in Numeric \cup {"junk"} /\ ~Parses(1, Unsigned)
        BY <1>0, <1>1, <2>1 DEF Option, TscOffset, MergeGuestIntoHost, BootTime
      <3> QED BY <1>1, <3>1, <3>2, Refused
    <2> QED BY <1>0, <1>1, <1>2, <2>1, <2>2, <2>3 DEF MainInv
  <1>4. CASE UNCHANGED <<pc, exit>>
    <2>1. ASSUME asked.by = "main" PROVE \E n \in Nat : HasRead(n)'
      <3>1. PICK n \in Nat : HasRead(n)
        BY <1>1, <2>1 DEF MainInv
      <3>2. CASE TscOffset
        <4>1. ~Return(1)
          BY <1>1, <1>4 DEF Return
        <4>2. HasRead(n + 2)'
          BY <1>1, <3>1, <3>2, <4>1, ReadTscOffset DEF TscOffset
        <4> QED BY <4>2
      <3>3. CASE MergeGuestIntoHost
        <4>1. HasRead(n + 1)'
          BY <1>1, <3>1, <3>3, ReadMerge
        <4> QED BY <4>1
      <3>4. CASE BootTime
        <4>1. ~Return(1)
          BY <1>1, <1>4 DEF Return
        <4>2. HasRead(n + 1)'
          BY <1>1, <3>1, <3>4, <4>1, ReadBootTime DEF BootTime
        <4> QED BY <4>2
      <3> QED BY <3>2, <3>3, <3>4 DEF Option
    <2>2. Absent # 0 /\ Absent # 1
      BY DEF Absent
    <2> QED BY <1>1, <1>2, <1>4, <2>1, <2>2 DEF MainInv
  <1> QED BY <1>3, <1>4 DEF Option, TscOffset, MergeGuestIntoHost, BootTime

\* Every other step of main and of combineTraces keeps it too.
LEMMA StepMain == TypeOK /\ MainInv /\ [Next]_vars => MainInv'
  <1> SUFFICES ASSUME TypeOK, MainInv, [Next]_vars PROVE MainInv'
    OBVIOUS
  <1>0. Absent # 0
    BY DEF Absent
  <1>1. ASSUME UNCHANGED <<asked, argv, config>>
        PROVE  /\ \A n : HasRead(n)' <=> HasRead(n)
               /\ WellFormed' <=> WellFormed
               /\ Wanted' = Wanted
    <2>1. ASSUME NEW n PROVE HasRead(n)' <=> HasRead(n)
      BY <1>1 DEF HasRead, Accepted, UpTo, LastOf, BootTimes, Offsets, Options,
                  IsValue, Numbers
    <2>2. WellFormed' <=> WellFormed
      BY <1>1 DEF WellFormed, Options, IsValue, Numbers, BootTimes
    <2>3. Wanted' = Wanted
      BY <1>1 DEF Wanted, LastOf, BootTimes, Offsets, Options, IsValue
    <2> QED BY <2>1, <2>2, <2>3
  <1>2. CASE CheckArguments
    <2>1. UNCHANGED <<asked, argv, config, combinedFile>> /\ pc = "main"
      BY <1>2 DEF CheckArguments
    <2>2. exit = Absent /\ combinedFile.state = "old"
      BY <1>0, <2>1 DEF MainInv
    <2>3. \/ pc' = "options" /\ exit' = exit /\ asked.files = 3
          \/ /\ pc' = "returned" /\ exit' = 1
             /\ ~WellFormed' \/ \E f \in Files : ~disk'[f].valid
      BY <1>2 DEF CheckArguments, Return, WellFormed, Files
    <2>4. asked.by = "main" => \E n \in Nat : HasRead(n)'
      BY <1>1, <2>1 DEF MainInv
    <2> QED BY <1>0, <2>1, <2>2, <2>3, <2>4 DEF MainInv, Absent
  <1>3. CASE Option
    BY <1>3, OptionMain
  <1>4. CASE CallCombineTraces
    <2>1. UNCHANGED <<asked, argv, config, combinedFile, exit>> /\ pc = "options"
          /\ pc' = "readGuest" /\ argv = <<>>
      BY <1>4 DEF CallCombineTraces
    <2>2. ASSUME asked.by = "main" PROVE WellFormed /\ config = Wanted
      BY <2>1, <2>2, ReadAll DEF MainInv
    <2> QED BY <1>0, <1>1, <2>1, <2>2 DEF MainInv, Absent
  <1>5. CASE ReadGuest \/ ReadHost \/ Combine
    <2>1. /\ UNCHANGED <<asked, argv, config>>
          /\ pc \in {"readGuest", "readHost", "derive"}
          /\ pc' \in {"readHost", "derive", "returned", "aborted"}
          /\ \/ UNCHANGED <<combinedFile, exit>> /\ pc' # "returned"
             \/ exit' = 0 /\ pc' = "returned"
      BY <1>5 DEF ReadGuest, ReadHost, Combine, Return
    <2>2. exit = Absent /\ combinedFile.state = "old"
      BY <1>0, <2>1 DEF MainInv
    <2>3. asked.by = "main" => WellFormed' /\ config' = Wanted'
      BY <1>1, <2>1 DEF MainInv
    <2> QED BY <1>0, <2>1, <2>2, <2>3 DEF MainInv, Absent
  <1>6. CASE UNCHANGED <<asked, argv, config, pc, exit, combinedFile, disk>>
    BY <1>1, <1>6 DEF MainInv
  <1>7. ASSUME NEW f \in Files, Remove(f) PROVE MainInv'
    <2>1. /\ UNCHANGED <<asked, argv, config, pc, exit, combinedFile>>
          /\ pc # "returned"
      BY <1>7 DEF Remove
    <2> QED BY <1>0, <1>1, <2>1 DEF MainInv, Absent
  <1> QED BY <1>2, <1>3, <1>4, <1>5, <1>6, <1>7 DEF Next, vars

\* vperfetto_merge touches the combined file only when it returns 0, and then
\* every word of the command line was an option or began with a number that
\* fits, and the configuration is what these words stand for, whatever they
\* are, how many and in which order; it returns 1 only for another line, or if a
\* trace is gone.
THEOREM MergesWhatWasAsked == Spec => []MergesAsAsked
  <1>1. Init => TypeOK /\ MainInv
    BY InitType, InitMain
  <1>2. TypeOK /\ MainInv /\ [Next]_vars => (TypeOK /\ MainInv)'
    BY StepType, StepMain
  <1>3. TypeOK /\ MainInv => MergesAsAsked
    BY DEF MainInv, MergesAsAsked
  <1> QED BY <1>1, <1>2, <1>3, PTL DEF Spec

-----------------------------------------------------------------------------
(***************************************************************************)
(* The traces and what is merged                                           *)
(***************************************************************************)

\* The packets of the trace of f.
Packets(f) == [k \in 1 .. Len(moments[f]) |-> Recorded(world, f, moments[f][k])]

\* What is read is what was recorded, and what is written was merged from it
\* with a difference that deriveGuestTimeDiff or the configuration gives.
FilesInv ==
    /\ \A f \in Files : disk[f].packets = Packets(f)
    /\ pc \in {"readHost", "derive"} \/ exit = 0 =>
          guestTrace.packets = Packets("guest")
    /\ pc = "derive" \/ exit = 0 => hostTrace.packets = Packets("host")
    /\ combinedFile.state # "old" => exit = 0
    /\ combinedFile.state = "whole" =>
          \E d \in TimeDiffs : combinedFile.packets = Combined(d)
    /\ pc # "returned" => exit = Absent

\* The files hold what was recorded.
LEMMA InitFiles == Init => FilesInv
  <1> SUFFICES ASSUME Init PROVE FilesInv
    OBVIOUS
  <1>1. PICK p \in [Files -> BOOLEAN] :
           disk = [f \in Files |->
                     [valid |-> TRUE, parses |-> p[f],
                      packets |-> [k \in 1 .. Len(moments[f]) |->
                                     Recorded(world, f, moments[f][k])]]]
    BY DEF Init
  <1>2. \A f \in Files : disk[f].packets = Packets(f)
    BY <1>1 DEF Packets
  <1>3. /\ pc \in {"main", "readGuest"} /\ exit = Absent /\ Absent # 0
        /\ combinedFile.state = "old"
    BY DEF Init, Started, Absent
  <1> QED BY <1>2, <1>3 DEF FilesInv

\* Every step keeps that.
LEMMA StepFiles == TypeOK /\ FilesInv /\ [Next]_vars => FilesInv'
  <1> SUFFICES ASSUME TypeOK, FilesInv, [Next]_vars PROVE FilesInv'
    OBVIOUS
  <1>0. Absent # 0 /\ 1 # 0 /\ "guest" \in Files /\ "host" \in Files
    BY DEF Absent, Files
  <1>1. UNCHANGED <<world, moments>>
    BY DEF Next, vars, CheckArguments, Option, CallCombineTraces, ReadGuest,
           ReadHost, Combine, Remove
  <1>2. \A f : Packets(f)' = Packets(f)
    BY <1>1 DEF Packets, Recorded
  <1>3. \A f \in Files : disk'[f].packets = Packets(f)
    <2>1. CASE UNCHANGED disk
      BY <2>1 DEF FilesInv
    <2>2. ASSUME NEW g \in Files, Remove(g)
          PROVE  \A f \in Files : disk'[f].packets = disk[f].packets
      BY <2>2 DEF Remove, TypeOK, File
    <2> QED BY <2>1, <2>2 DEF FilesInv, Next, vars, CheckArguments, Option,
                CallCombineTraces, ReadGuest, ReadHost, Combine
  <1>4. CASE CheckArguments \/ Option \/ CallCombineTraces
    <2>1. /\ pc \in {"main", "options"}
          /\ pc' \in {"options", "readGuest", "returned"}
          /\ UNCHANGED combinedFile
          /\ \/ exit' = 1 /\ pc' = "returned"
             \/ exit' = exit /\ pc' # "returned"
      BY <1>4 DEF CheckArguments, Option, TscOffset, MergeGuestIntoHost, BootTime,
                  CallCombineTraces, Return
    <2> QED BY <1>0, <1>2, <1>3, <2>1 DEF FilesInv
  <1>5. CASE ReadGuest
    <2>1. /\ UNCHANGED <<exit, combinedFile>> /\ pc = "readGuest"
          /\ \/ pc' = "aborted"
             \/ pc' = "readHost" /\ guestTrace'.packets = disk["guest"].packets
      BY <1>5 DEF ReadGuest
    <2> QED BY <1>0, <1>2, <1>3, <2>1 DEF FilesInv
  <1>6. CASE ReadHost
    <2>1. /\ UNCHANGED <<exit, guestTrace, combinedFile>> /\ pc = "readHost"
          /\ \/ pc' = "aborted"
             \/ pc' = "derive" /\ hostTrace'.packets = disk["host"].packets
      BY <1>6 DEF ReadHost
    <2> QED BY <1>0, <1>2, <1>3, <2>1 DEF FilesInv
  <1>7. ASSUME UNCHANGED <<config, guestTrace, hostTrace>>
        PROVE  TimeDiffs' = TimeDiffs /\ \A d : Combined(d)' = Combined(d)
    BY <1>7 DEF TimeDiffs, Combined, GuestTimeDiffs, CanSync, SyncedTimeDiffs,
                GuestCpuTime
  <1>8. CASE Combine
    <2>1. /\ UNCHANGED <<config, guestTrace, hostTrace>>
          /\ pc = "derive" /\ pc' = "returned" /\ exit' = 0
      BY <1>8 DEF Combine, Return
    <2>2. PICK d \in TimeDiffs : WriteCombined(Combined(d))
      BY <1>8 DEF Combine
    <2>3. combinedFile'.state = "whole" =>
             d \in TimeDiffs' /\ combinedFile'.packets = Combined(d)'
      <3>1. combinedFile.state # "whole"
        BY <1>0, <2>1 DEF FilesInv
      <3> QED BY <1>7, <2>1, <2>2, <3>1 DEF WriteCombined
    <2>4. guestTrace'.packets = Packets("guest")' /\ hostTrace'.packets = Packets("host")'
      BY <1>2, <2>1 DEF FilesInv
    <2> QED BY <1>2, <1>3, <2>1, <2>3, <2>4 DEF FilesInv
  <1>9. CASE UNCHANGED <<config, guestTrace, hostTrace, pc, exit, combinedFile>>
    BY <1>2, <1>3, <1>7, <1>9 DEF FilesInv
  <1>10. ASSUME NEW f \in Files, Remove(f)
         PROVE  UNCHANGED <<config, guestTrace, hostTrace, pc, exit, combinedFile>>
    BY <1>10 DEF Remove
  <1> QED BY <1>4, <1>5, <1>6, <1>8, <1>9, <1>10 DEF Next, vars

\* What the packet of a moment holds, for each kind.
LEMMA RecordedKinds ==
    ASSUME NEW w \in World, NEW f \in Files, NEW m \in Moment
    PROVE  LET p == Recorded(w, f, m)
               clock == Reading(6, Clock(w, f, m.at))
               cpu == Reading(CpuClock, Counter(w, f, m.at))
               other == Reading(1, (Nanos * m.at) % Word)
           IN  /\ p.ts = IF m.kind = "event" THEN Clock(w, f, m.at) ELSE Absent
               /\ m.kind = "cpu" => p.clocks = <<clock, cpu>>
               /\ m.kind = "cpuFirst" => p.clocks = <<cpu, clock>>
               /\ m.kind = "monotonic" => p.clocks = <<other, cpu>>
               /\ m.kind = "clocks" => p.clocks = <<other, clock>>
               /\ m.kind = "many" => Len(p.clocks) = 3
               /\ m.kind \in {"event", "plain"} => Len(p.clocks) = 0
  <1> DEFINE clock == Reading(6, Clock(w, f, m.at))
             cpu == Reading(CpuClock, Counter(w, f, m.at))
             other == Reading(1, (Nanos * m.at) % Word)
             ts == IF m.kind = "event" THEN Clock(w, f, m.at) ELSE Absent
             cs == CASE m.kind = "cpu" -> <<clock, cpu>>
                     [] m.kind = "cpuFirst" -> <<cpu, clock>>
                     [] m.kind = "monotonic" -> <<other, cpu>>
                     [] m.kind = "clocks" -> <<other, clock>>
                     [] m.kind = "many" -> <<other, clock, cpu>>
                     [] OTHER -> <<>>
  <1>1. Recorded(w, f, m) = [ts |-> ts, clocks |-> cs]
    BY DEF Recorded
  <1>2. Recorded(w, f, m).ts = ts /\ Recorded(w, f, m).clocks = cs
    <2> HIDE DEF ts, cs
    <2> QED BY <1>1
  <1>3. /\ m.kind = "cpu" => cs = <<clock, cpu>>
        /\ m.kind = "cpuFirst" => cs = <<cpu, clock>>
        /\ m.kind = "monotonic" => cs = <<other, cpu>>
        /\ m.kind = "clocks" => cs = <<other, clock>>
        /\ m.kind = "many" => Len(cs) = 3
        /\ m.kind \in {"event", "plain"} => Len(cs) = 0
    <2> HIDE DEF clock, cpu, other
    <2> QED OBVIOUS
  <1> HIDE DEF cs
  <1> QED BY <1>2, <1>3

\* A trace that was read from the file of f.
ReadFrom(t, f) == t \in Trace /\ f \in Files /\ t.packets = Packets(f)

\* What the packets of such a trace hold.
LEMMA PacketFacts ==
    ASSUME TypeOK, NEW t, NEW f, ReadFrom(t, f)
    PROVE  /\ Len(moments[f]) \in Nat /\ Len(t.packets) = Len(moments[f])
           /\ \A k \in 1 .. Len(moments[f]) :
                 /\ moments[f][k] \in Moment
                 /\ t.packets[k] = Recorded(world, f, moments[f][k])
                 /\ t.packets[k] \in Packet
  <1>1. moments[f] \in Seq(Moment)
    BY DEF TypeOK, ReadFrom
  <1>2. Len(moments[f]) \in Nat /\ \A k \in 1 .. Len(moments[f]) : moments[f][k] \in Moment
    BY <1>1
  <1>3. Len(t.packets) = Len(moments[f])
    BY <1>2 DEF ReadFrom, Packets
  <1>4. \A k \in 1 .. Len(moments[f]) : t.packets[k] = Recorded(world, f, moments[f][k])
    BY DEF ReadFrom, Packets
  <1>5. \A k \in 1 .. Len(moments[f]) : t.packets[k] \in Packet
    <2>1. t.packets \in Seq(Packet)
      BY DEF ReadFrom, Trace
    <2> QED BY <1>3, <2>1
  <1> QED BY <1>2, <1>3, <1>4, <1>5

\* The timestamps are those of the events.
LEMMA StampedEvents ==
    ASSUME TypeOK, NEW t, NEW f, ReadFrom(t, f)
    PROVE  /\ Stamped(t) = Events(f)
           /\ \A k \in Events(f) :
                 /\ t.packets[k].ts = Clock(world, f, moments[f][k].at)
                 /\ t.packets[k].ts \in Words
  <1>1. world \in World /\ f \in Files /\ Absent \notin Words
    BY WordType DEF TypeOK, ReadFrom, Absent, Words
  <1>2. ASSUME NEW k \in 1 .. Len(moments[f])
        PROVE  /\ moments[f][k].kind = "event" =>
                     /\ t.packets[k].ts = Clock(world, f, moments[f][k].at)
                     /\ t.packets[k].ts \in Words
               /\ moments[f][k].kind # "event" => t.packets[k].ts = Absent
    <2>1. /\ moments[f][k] \in Moment /\ moments[f][k].at \in Nat
          /\ t.packets[k] = Recorded(world, f, moments[f][k])
      BY PacketFacts DEF Moment
    <2>2. t.packets[k].ts = IF moments[f][k].kind = "event"
                            THEN Clock(world, f, moments[f][k].at) ELSE Absent
      BY <1>1, <2>1, RecordedKinds
    <2>3. Clock(world, f, moments[f][k].at) \in Words
      BY <1>1, <2>1, ClockType
    <2> QED BY <2>2, <2>3
  <1>3. Len(t.packets) = Len(moments[f])
    BY PacketFacts
  <1> QED BY <1>1, <1>2, <1>3 DEF Stamped, Events

\* The first timestamp of a trace with events.
LEMMA StartOf ==
    ASSUME TypeOK, NEW t, NEW f, ReadFrom(t, f), t.parses, Events(f) # {}
    PROVE  getTraceStartTime(t) = Start(f) /\ Start(f) \in Words
  <1>1. First(Events(f)) \in Events(f)
    <2>1. Events(f) \subseteq Nat
      BY DEF Events
    <2> QED BY <2>1, FirstIsFirst
  <1>2. t.packets[First(Events(f))].ts = Start(f) /\ Start(f) \in Words
    BY <1>1, StampedEvents DEF Start
  <1> QED BY <1>2, StampedEvents DEF getTraceStartTime

\* The snapshots of two clocks, and what the code takes from them.
LEMMA SnapshotFacts ==
    ASSUME TypeOK, NEW t, NEW f, ReadFrom(t, f), NEW k \in 1 .. Len(moments[f])
    PROVE  LET m == moments[f][k] IN
           /\ k \in Snapshots(t) <=> m.kind \in {"cpu", "cpuFirst", "monotonic", "clocks"}
           /\ m.kind \in {"cpu", "cpuFirst"} =>
                 /\ Cpu(t, k) = Reading(CpuClock, Counter(world, f, m.at))
                 /\ Regular(t, k) = Reading(6, Clock(world, f, m.at))
           /\ m.kind = "monotonic" =>
                 /\ Cpu(t, k).id = CpuClock
                 /\ Regular(t, k).id = 1
           /\ m.kind = "clocks" => Cpu(t, k).id # CpuClock
  <1> DEFINE m == moments[f][k]
             p == t.packets[k]
             clock == Reading(6, Clock(world, f, m.at))
             cpu == Reading(CpuClock, Counter(world, f, m.at))
             other == Reading(1, (Nanos * m.at) % Word)
  <1>1. world \in World /\ f \in Files /\ m \in Moment
        /\ p = Recorded(world, f, m) /\ Len(t.packets) = Len(moments[f])
    BY PacketFacts DEF TypeOK, ReadFrom
  <1>2. /\ m.kind = "cpu" => p.clocks = <<clock, cpu>>
        /\ m.kind = "cpuFirst" => p.clocks = <<cpu, clock>>
        /\ m.kind = "monotonic" => p.clocks = <<other, cpu>>
        /\ m.kind = "clocks" => p.clocks = <<other, clock>>
        /\ m.kind = "many" => Len(p.clocks) = 3
        /\ m.kind \in {"event", "plain"} => Len(p.clocks) = 0
    BY <1>1, RecordedKinds
  <1>3. clock.id = 6 /\ cpu.id = 64 /\ other.id = 1 /\ CpuClock = 64
    BY DEF Reading, CpuClock
  <1>4. m.kind \in Kinds
    BY <1>1 DEF Moment
  <1> HIDE DEF clock, cpu, other
  <1>5. CASE m.kind = "cpu"
    <2>0. p.clocks = <<clock, cpu>>
      BY <1>2, <1>5, Zenon
    <2>1. Len(p.clocks) = 2 /\ p.clocks[1] = clock /\ p.clocks[2] = cpu
      BY <2>0
    <2>2. CpuIndex(t, k) = 2 /\ 3 - 2 = 1
      BY <1>3, <2>1 DEF CpuIndex
    <2>3. Cpu(t, k) = cpu /\ Regular(t, k) = clock
      BY <2>1, <2>2 DEF Cpu, Regular
    <2> QED BY <1>1, <1>5, <2>1, <2>3 DEF Snapshots, clock, cpu
  <1>6. CASE m.kind = "cpuFirst"
    <2>0. p.clocks = <<cpu, clock>>
      BY <1>2, <1>6, Zenon
    <2>1. Len(p.clocks) = 2 /\ p.clocks[1] = cpu /\ p.clocks[2] = clock
      BY <2>0
    <2>2. CpuIndex(t, k) = 1 /\ 3 - 1 = 2
      BY <1>3, <2>1 DEF CpuIndex
    <2>3. Cpu(t, k) = cpu /\ Regular(t, k) = clock
      BY <2>1, <2>2 DEF Cpu, Regular
    <2> QED BY <1>1, <1>6, <2>1, <2>3 DEF Snapshots, clock, cpu
  <1>7. CASE m.kind = "monotonic"
    <2>0. p.clocks = <<other, cpu>>
      BY <1>2, <1>7, Zenon
    <2>1. Len(p.clocks) = 2 /\ p.clocks[1] = other /\ p.clocks[2] = cpu
      BY <2>0
    <2>2. CpuIndex(t, k) = 2 /\ 3 - 2 = 1
      BY <1>3, <2>1 DEF CpuIndex
    <2>3. Cpu(t, k) = cpu /\ Regular(t, k) = other
      BY <2>1, <2>2 DEF Cpu, Regular
    <2> QED BY <1>1, <1>3, <1>7, <2>1, <2>3 DEF Snapshots
  <1>8. CASE m.kind = "clocks"
    <2>0. p.clocks = <<other, clock>>
      BY <1>2, <1>8, Zenon
    <2>1. Len(p.clocks) = 2 /\ p.clocks[1] = other /\ p.clocks[2] = clock
      BY <2>0
    <2>2. CpuIndex(t, k) = 2
      BY <1>3, <2>1 DEF CpuIndex
    <2>3. Cpu(t, k) = clock
      BY <2>1, <2>2 DEF Cpu
    <2> QED BY <1>1, <1>3, <1>8, <2>1, <2>3 DEF Snapshots
  <1>9. CASE m.kind \in {"event", "plain", "many"}
    <2>1. Len(p.clocks) = 3 \/ Len(p.clocks) = 0
      BY <1>2, <1>9, Zenon
    <2>2. Len(p.clocks) # 2
      BY <2>1
    <2> QED BY <1>9, <2>2 DEF Snapshots
  <1> QED BY <1>4, <1>5, <1>6, <1>7, <1>8, <1>9 DEF Kinds

-----------------------------------------------------------------------------
(***************************************************************************)
(* Lining up the first timestamps                                          *)
(***************************************************************************)

\* getSignedDifference is exact where the difference fits.
LEMMA ExactDifference ==
    ASSUME NEW a \in Int, NEW b \in Int, a - b \in -(Half - 1) .. Half - 1
    PROVE  getSignedDifference(a, b) = a - b
  <1>1. Half \in Nat \ {0}
    BY WordType
  <1>2. CASE a > b
    BY <1>1, <1>2 DEF getSignedDifference, Clamped
  <1>3. CASE ~(a > b)
    <2>1. b - a \in Int /\ b - a <= Half - 1
      BY <1>1
    <2>2. Clamped(b - a) = b - a
      BY <1>1, <2>1 DEF Clamped
    <2>3. getSignedDifference(a, b) = -(b - a)
      BY <1>3, <2>2 DEF getSignedDifference
    <2> QED BY <2>3
  <1> QED BY <1>2, <1>3

\* Both traces were read and parsed, and merged with the difference d.
MergedWith(d) ==
    /\ d \in Int
    /\ ReadFrom(guestTrace, "guest") /\ ReadFrom(hostTrace, "host")
    /\ guestTrace.parses /\ hostTrace.parses
    /\ combinedFile.packets = Combined(d)

\* Without synchronisation data the code does not synchronise.
LEMMA CannotSync ==
    ASSUME TypeOK, ReadFrom(guestTrace, "guest"), ReadFrom(hostTrace, "host"),
           Unsynchronised
    PROVE  ~CanSync
  <1> SUFFICES ASSUME CanSync PROVE FALSE
    OBVIOUS
  <1>1. ASSUME NEW t, NEW f, ReadFrom(t, f), HasSync(t)
        PROVE  /\ \A k \in 1 .. Len(moments[f]) : moments[f][k].kind # "clocks"
               /\ LastSync(t) \in Counters(f)
               /\ Regular(t, LastSync(t)).id = IF LastSync(t) \in Syncs(f) THEN 6 ELSE 1
    <2>0. t \in Trace /\ Len(t.packets) = Len(moments[f])
      BY <1>1, PacketFacts DEF ReadFrom
    <2>1. ASSUME NEW k \in 1 .. Len(moments[f]) PROVE moments[f][k].kind # "clocks"
      BY <1>1, SnapshotFacts DEF HasSync
    <2>2. LastSync(t) \in Snapshots(t)
      BY <1>1, <2>0, LastSyncType
    <2>3. LastSync(t) \in 1 .. Len(moments[f])
      BY <2>0, <2>2 DEF Snapshots
    <2>4. moments[f][LastSync(t)].kind \in {"cpu", "cpuFirst", "monotonic"}
      BY <1>1, <2>1, <2>2, <2>3, SnapshotFacts
    <2>5. LastSync(t) \in Counters(f)
      BY <2>3, <2>4 DEF Counters, Syncs
    <2>6. CASE moments[f][LastSync(t)].kind \in {"cpu", "cpuFirst"}
      <3>1. Regular(t, LastSync(t)).id = 6
        BY <1>1, <2>3, <2>6, SnapshotFacts DEF Reading
      <3> QED BY <2>1, <2>3, <2>5, <2>6, <3>1 DEF Syncs
    <2>7. CASE moments[f][LastSync(t)].kind = "monotonic"
      <3>1. Regular(t, LastSync(t)).id = 1
        BY <1>1, <2>3, <2>7, SnapshotFacts
      <3> QED BY <2>1, <2>3, <2>5, <2>7, <3>1 DEF Syncs
    <2> QED BY <2>4, <2>6, <2>7
  <1>2. HasSync(hostTrace) /\ HasSync(guestTrace)
    BY DEF CanSync
  <1>3. ASSUME NEW f \in Files
        PROVE  /\ Counters(f) # {}
               /\ \A k \in 1 .. Len(moments[f]) : moments[f][k].kind # "clocks"
    BY <1>1, <1>2 DEF Files
  <1>4. \A j \in Counters("host"), k \in Counters("guest") :
           (j \in Syncs("host")) # (k \in Syncs("guest"))
    BY <1>3 DEF Unsynchronised
  <1>5. (LastSync(hostTrace) \in Syncs("host")) # (LastSync(guestTrace) \in Syncs("guest"))
    BY <1>1, <1>2, <1>4
  <1>6. Regular(hostTrace, LastSync(hostTrace)).id
          = Regular(guestTrace, LastSync(guestTrace)).id
    BY DEF CanSync
  <1>7. 6 # 1
    OBVIOUS
  <1> QED BY <1>1, <1>2, <1>5, <1>6, <1>7

\* Where an event of the addon trace is shown.
LEMMA ResultOf ==
    ASSUME TypeOK, NEW d, MergedWith(d), NEW k \in Events(AddonFile)
    PROVE  Result(k).ts = (Clock(world, AddonFile, moments[AddonFile][k].at)
                             + (IF config.mergeGuestIntoHost THEN -d ELSE d)) % Word
  <1>1. ASSUME NEW main, NEW addon, NEW m, NEW a, NEW e \in Int,
               ReadFrom(main, m), ReadFrom(addon, a), addon.parses,
               NEW l \in Events(a)
        PROVE  Merge(main, addon, e)[Len(moments[m]) + l].ts
                  = (Clock(world, a, moments[a][l].at) + e) % Word
    <2> DEFINE s == main.packets
               r == [j \in 1 .. Len(addon.packets) |-> Moved(addon.packets[j], e)]
    <2>1. s \in Seq(Packet) /\ Len(s) = Len(moments[m]) /\ Len(moments[m]) \in Nat
      BY <1>1, PacketFacts DEF ReadFrom, Trace
    <2>2. Len(addon.packets) = Len(moments[a]) /\ Len(moments[a]) \in Nat
      BY <1>1, PacketFacts
    <2>3. l \in 1 .. Len(addon.packets)
      BY <2>2 DEF Events
    <2>4. r \in Seq(Packet) /\ Len(r) = Len(addon.packets) /\ r[l] = Moved(addon.packets[l], e)
      <3>1. \A j \in 1 .. Len(addon.packets) : Moved(addon.packets[j], e) \in Packet
        BY <1>1, <2>2, PacketFacts, MovedType
      <3>2. r \in [1 .. Len(addon.packets) -> Packet]
        BY <3>1
      <3>3. r \in Seq(Packet)
        BY <2>2, <3>2
      <3>4. Len(r) = Len(addon.packets)
        BY <2>2
      <3> QED BY <2>3, <3>3, <3>4
    <2>5. Merge(main, addon, e) = s \o r
      BY <1>1 DEF Merge
    <2> HIDE DEF s, r
    <2>6. (s \o r)[Len(s) + l] = r[l]
      BY <2>1, <2>2, <2>3, <2>4
    <2>7. /\ addon.packets[l].ts = Clock(world, a, moments[a][l].at)
          /\ addon.packets[l].ts # Absent
      <3>1. Absent \notin Words
        BY WordType DEF Words, Absent
      <3> QED BY <1>1, <3>1, StampedEvents
    <2>8. r[l].ts = (Clock(world, a, moments[a][l].at) + e) % Word
      BY <2>4, <2>7 DEF Moved
    <2> QED BY <2>1, <2>5, <2>6, <2>8
  <1>2. CASE config.mergeGuestIntoHost
    <2>1. AddonFile = "guest" /\ MainFile = "host"
      BY <1>2 DEF AddonFile, MainFile
    <2>2. combinedFile.packets = Merge(hostTrace, guestTrace, -d)
      BY <1>2 DEF MergedWith, Combined
    <2>3. -d \in Int
      BY DEF MergedWith
    <2>4. Merge(hostTrace, guestTrace, -d)[Len(moments["host"]) + k].ts
             = (Clock(world, "guest", moments["guest"][k].at) + (-d)) % Word
      BY <1>1, <2>1, <2>3 DEF MergedWith
    <2> QED BY <1>2, <2>1, <2>2, <2>4 DEF Result
  <1>3. CASE ~config.mergeGuestIntoHost
    <2>1. AddonFile = "host" /\ MainFile = "guest"
      BY <1>3 DEF AddonFile, MainFile
    <2>2. combinedFile.packets = Merge(guestTrace, hostTrace, d)
      BY <1>3 DEF MergedWith, Combined
    <2>4. Merge(guestTrace, hostTrace, d)[Len(moments["guest"]) + k].ts
             = (Clock(world, "host", moments["host"][k].at) + d) % Word
      BY <1>1, <2>1 DEF MergedWith
    <2> QED BY <1>3, <2>1, <2>2, <2>4 DEF Result
  <1> QED BY <1>2, <1>3

\* A difference of g and h makes them one.
LEMMA Meets ==
    ASSUME TypeOK, NEW g \in Words, NEW h \in Words,
           MergedWith(getSignedDifference(g, h))
    PROVE  Meet(g, h)
  <1> DEFINE d == getSignedDifference(g, h)
  <1>1. SUFFICES ASSUME g - h \in -(Half - 1) .. Half - 1, NEW k \in Events(AddonFile)
                 PROVE  LET ts == Clock(world, AddonFile, moments[AddonFile][k].at)
                        IN  IF config.mergeGuestIntoHost THEN ts = g => Result(k).ts = h
                                                         ELSE ts = h => Result(k).ts = g
    BY DEF Meet
  <1>2. g \in Int /\ h \in Int
    BY WordType DEF Words
  <1>3. d = g - h
    BY <1>1, <1>2, ExactDifference
  <1>4. g + (-(g - h)) = h /\ h + (g - h) = g
    BY <1>2
  <1>5. g % Word = g /\ h % Word = h
    BY OwnResidue
  <1>6. Result(k).ts = (Clock(world, AddonFile, moments[AddonFile][k].at)
                           + (IF config.mergeGuestIntoHost THEN -d ELSE d)) % Word
    BY ResultOf
  <1> HIDE DEF d
  <1> QED BY <1>3, <1>4, <1>5, <1>6

\* The traces at the end of a merge.
LEMMA MergedFacts ==
    ASSUME TypeOK, FilesInv, Merged
    PROVE  \E d \in TimeDiffs : MergedWith(d)
  <1>1. PICK d \in TimeDiffs : combinedFile.packets = Combined(d)
    BY DEF FilesInv, Merged
  <1>2. d \in Int
    BY TimeDiffsType
  <1>3. ReadFrom(guestTrace, "guest") /\ ReadFrom(hostTrace, "host")
    BY DEF FilesInv, Merged, ReadFrom, TypeOK, Files
  <1> QED BY <1>1, <1>2, <1>3 DEF MergedWith, Merged

\* With a boot time the host's first timestamp becomes that time, and without
\* one, and without synchronisation data, the first timestamps of the traces
\* become one, whatever the two traces hold and wherever their clocks stand.
THEOREM LinesUp == Spec => []LinedUp
  <1>1. Init => TypeOK /\ FilesInv
    BY InitType, InitFiles
  <1>2. TypeOK /\ FilesInv /\ [Next]_vars => (TypeOK /\ FilesInv)'
    BY StepType, StepFiles
  <1>3. ASSUME TypeOK, FilesInv PROVE LinedUp
    <2> SUFFICES ASSUME Merged, Events("host") # {} PROVE
            /\ config.useGuestAbsoluteTime =>
                  Meet(config.guestClockBootTimeNs, Start("host"))
            /\ Derived /\ Events("guest") # {} /\ Unsynchronised =>
                  Meet(Start("guest"), Start("host"))
      BY DEF LinedUp
    <2>1. PICK d \in TimeDiffs : MergedWith(d)
      BY <1>3, MergedFacts
    <2>2. getTraceStartTime(hostTrace) = Start("host") /\ Start("host") \in Words
      BY <1>3, <2>1, StartOf DEF MergedWith
    <2>3. ASSUME config.useGuestAbsoluteTime
          PROVE  Meet(config.guestClockBootTimeNs, Start("host"))
      <3>1. d = getSignedDifference(config.guestClockBootTimeNs, Start("host"))
        BY <2>2, <2>3 DEF TimeDiffs
      <3>2. config.guestClockBootTimeNs \in Words
        BY <1>3 DEF TypeOK, Config
      <3> QED BY <1>3, <2>1, <2>2, <3>1, <3>2, Meets
    <2>4. ASSUME Derived, Events("guest") # {}, Unsynchronised
          PROVE  Meet(Start("guest"), Start("host"))
      <3>1. getTraceStartTime(guestTrace) = Start("guest") /\ Start("guest") \in Words
        BY <1>3, <2>1, <2>4, StartOf DEF MergedWith
      <3>2. ~CanSync
        BY <1>3, <2>1, <2>4, CannotSync DEF MergedWith
      <3>3. d = getSignedDifference(Start("guest"), Start("host"))
        BY <2>2, <2>4, <3>1, <3>2 DEF TimeDiffs, GuestTimeDiffs, Derived
      <3> QED BY <1>3, <2>1, <2>2, <3>1, <3>3, Meets
    <2> QED BY <2>3, <2>4
  <1> QED BY <1>1, <1>2, <1>3, PTL DEF Spec

-----------------------------------------------------------------------------
(***************************************************************************)
(* Aligning the clocks by the cycle counter                                *)
(***************************************************************************)

\* Equality modulo Word.
Congruent(a, b) == \E q \in Int : a = b + Word * q

\* A residue is congruent to what it is a residue of.
LEMMA CongruentResidue ==
    ASSUME NEW a \in Int
    PROVE  a % Word \in Int /\ Congruent(a % Word, a)
  <1>0. Word \in Nat /\ Words \subseteq Int
    BY WordType DEF Words
  <1>1. a % Word \in Words
    BY Residue
  <1>2. PICK q \in Int : a = Word * q + (a % Word)
    BY Residue
  <1>3. ASSUME NEW r \in Int, a = Word * q + r PROVE r = a + Word * (-q)
    BY <1>0, <1>3
  <1>4. a % Word = a + Word * (-q)
    <2>1. a % Word \in Int
      BY <1>0, <1>1
    <2> QED BY <1>2, <1>3, <2>1, Zenon
  <1>5. -q \in Int
    OBVIOUS
  <1> QED BY <1>0, <1>1, <1>4, <1>5 DEF Congruent

\* Sums and differences of congruent numbers.
LEMMA CongruentSum ==
    ASSUME NEW a \in Int, NEW b \in Int, NEW c \in Int, NEW d \in Int,
           Congruent(a, b), Congruent(c, d)
    PROVE  Congruent(a + c, b + d) /\ Congruent(a - c, b - d)
  <1>0. Word \in Int
    BY WordType
  <1>1. PICK p \in Int : a = b + Word * p
    BY DEF Congruent
  <1>2. PICK q \in Int : c = d + Word * q
    BY DEF Congruent
  <1>3. a + c = b + d + Word * (p + q) /\ a - c = b - d + Word * (p - q)
    BY <1>0, <1>1, <1>2
  <1>4. p + q \in Int /\ p - q \in Int
    OBVIOUS
  <1> QED BY <1>3, <1>4 DEF Congruent

\* Congruence is an equivalence.
LEMMA CongruentTrans ==
    ASSUME NEW a \in Int, NEW b \in Int, NEW c \in Int,
           Congruent(a, b), Congruent(b, c)
    PROVE  Congruent(a, c) /\ Congruent(c, a) /\ Congruent(a, a)
  <1>0. Word \in Int
    BY WordType
  <1>1. PICK p \in Int : a = b + Word * p
    BY DEF Congruent
  <1>2. PICK q \in Int : b = c + Word * q
    BY DEF Congruent
  <1>3. a = c + Word * (p + q) /\ c = a + Word * (-p - q) /\ a = a + Word * 0
    BY <1>0, <1>1, <1>2
  <1>4. p + q \in Int /\ -p - q \in Int /\ 0 \in Int
    OBVIOUS
  <1> QED BY <1>3, <1>4 DEF Congruent

\* Congruent numbers have one residue, and that is the one that is a word.
LEMMA CongruentWord ==
    ASSUME NEW a \in Words, NEW b \in Int, Congruent(b, a)
    PROVE  b % Word = a
  <1>1. PICK q \in Int : b = a + Word * q
    BY DEF Congruent
  <1>2. Word \in Int /\ a \in Int
    BY WordType DEF Words
  <1>3. b = Word * q + a
    BY <1>1, <1>2
  <1> QED BY <1>3, ResidueOf

\* An exact quotient.
LEMMA ExactQuotient ==
    ASSUME NEW x \in Int, NEW d \in Nat \ {0}
    PROVE  (x * d) \div d = x /\ (x * d) % d = 0
  <1> DEFINE n == x * d
             q == n \div d
             r == n % d
  <1>1. n \in Int
    OBVIOUS
  <1>2. q \in Int /\ r \in 0 .. d - 1 /\ n = d * q + r
    <2> HIDE DEF n
    <2> QED BY <1>1
  <1>3. n = x * d
    OBVIOUS
  <1> HIDE DEF n, q, r
  <1>4. d * (x - q) = r
    BY <1>2, <1>3
  <1>5. x - q < 1
    <2>1. ASSUME x - q >= 1 PROVE d * (x - q) >= d
      BY <1>2, <2>1
    <2> QED BY <1>2, <1>4, <2>1
  <1>6. x - q > -1
    <2>1. ASSUME x - q <= -1 PROVE d * (x - q) <= -d
      BY <1>2, <2>1
    <2> QED BY <1>2, <1>4, <2>1
  <1>7. x = q
    BY <1>2, <1>5, <1>6
  <1>8. r = 0
    BY <1>2, <1>4, <1>7
  <1> QED BY <1>7, <1>8 DEF q, r, n

\* The doubles miss an exact quotient by at most one.
LEMMA ExactTruncations ==
    ASSUME NEW x \in -Precise .. Precise, NEW d \in Nat \ {0}
    PROVE  Truncations(x * d, d) \subseteq {x - 1, x, x + 1}
  <1>0. x \in Int /\ -x \in Int /\ Precise \in Nat
    BY WordAssumption
  <1> DEFINE n == x * d
             q == IF n < 0 THEN -((-n) \div d) ELSE n \div d
  <1>1. q = x
    <2>1. CASE n < 0
      <3>1. -n = (-x) * d
        BY <1>0
      <3>2. ((-x) * d) \div d = -x
        BY <1>0, ExactQuotient
      <3>3. (-n) \div d = -x
        BY <3>1, <3>2
      <3> HIDE DEF n
      <3> QED BY <1>0, <2>1, <3>3
    <2>2. CASE ~(n < 0)
      BY <1>0, <2>2, ExactQuotient
    <2> QED BY <2>1, <2>2
  <1>2. Truncations(n, d) \subseteq q - 1 .. q + 1
    <2>1. q \in -Precise .. Precise
      BY <1>1
    <2> HIDE DEF n
    <2> QED BY <2>1 DEF Truncations
  <1> HIDE DEF n, q
  <1>3. Truncations(n, d) \subseteq x - 1 .. x + 1
    BY <1>1, <1>2
  <1>4. x - 1 .. x + 1 \subseteq {x - 1, x, x + 1}
    BY <1>0
  <1> QED BY <1>3, <1>4 DEF n

\* The counters count no slower than the nanoseconds (a time stamp counter of
\* 1 GHz or more): while the counter does not wrap, the nanoseconds that pass
\* fit in a word too.
FastCounter == Nanos <= Cycles

\* The clock snapshots of a trace are in the order in which they were taken.
InOrder ==
    \A s \in HostTraces \cup GuestTraces : \A j, k \in 1 .. Len(s) :
        /\ s[j].kind \in {"cpu", "cpuFirst"} /\ s[k].kind \in {"cpu", "cpuFirst"}
        /\ j <= k
        => s[j].at <= s[k].at

\* What was recorded does not change.
TracesInv == moments["guest"] \in GuestTraces /\ moments["host"] \in HostTraces

\* It is given initially and no step touches it.
LEMMA TracesKept ==
    /\ Init => TracesInv
    /\ TracesInv /\ [Next]_vars => TracesInv'
  <1>1. Init => TracesInv
    BY DEF Init, TracesInv
  <1>2. [Next]_vars => UNCHANGED moments
    BY DEF Next, vars, CheckArguments, Option, CallCombineTraces, ReadGuest,
           ReadHost, Combine, Remove
  <1> QED BY <1>1, <1>2 DEF TracesInv

\* A trace with synchronisation data is one for the code too: it takes the
\* first and the last of its snapshots, which are apart.
LEMMA SyncFacts ==
    ASSUME TypeOK, TracesInv, InOrder, NEW t, NEW f, ReadFrom(t, f), t.parses,
           Synchronised(f)
    PROVE  /\ HasSync(t)
           /\ LastSync(t) \in Syncs(f) /\ FirstSync(t) \in Syncs(f)
           /\ moments[f][FirstSync(t)].at < moments[f][LastSync(t)].at
  <1>0. /\ f \in Files /\ t \in Trace /\ Len(moments[f]) \in Nat
        /\ Len(t.packets) = Len(moments[f])
    BY PacketFacts DEF ReadFrom
  <1>1. \A k \in 1 .. Len(moments[f]) : moments[f][k] \in Moment /\ moments[f][k].at \in Nat
    BY PacketFacts DEF Moment
  <1>2. Snapshots(t) = Syncs(f)
    <2>1. ASSUME NEW k \in 1 .. Len(moments[f])
          PROVE  k \in Snapshots(t) <=> moments[f][k].kind \in {"cpu", "cpuFirst"}
      BY SnapshotFacts DEF Synchronised
    <2> QED BY <1>0, <2>1 DEF Snapshots, Syncs
  <1>3. ASSUME NEW k \in Syncs(f)
        PROVE  /\ Cpu(t, k).id = CpuClock
               /\ Cpu(t, k).time = Counter(world, f, moments[f][k].at)
               /\ Cpu(t, k).time # 0
    <2>1. k \in 1 .. Len(moments[f]) /\ moments[f][k].kind \in {"cpu", "cpuFirst"}
      BY DEF Syncs
    <2>2. Cpu(t, k) = Reading(CpuClock, Counter(world, f, moments[f][k].at))
      BY <2>1, SnapshotFacts
    <2>3. Counter(world, f, moments[f][k].at) # 0
      BY DEF Synchronised
    <2> QED BY <2>2, <2>3 DEF Reading
  <1>4. PICK i \in Syncs(f), j \in Syncs(f) : moments[f][i].at # moments[f][j].at
    BY DEF Synchronised
  <1>5. Syncs(f) \subseteq 1 .. Len(moments[f]) /\ Syncs(f) \subseteq Nat /\ Syncs(f) # {}
    BY <1>4 DEF Syncs
  <1>6. LastSync(t) \in Syncs(f) /\ \A k \in Syncs(f) : k <= LastSync(t)
    <2>1. Last(Syncs(f)) \in Syncs(f) /\ \A k \in Syncs(f) : Last(Syncs(f)) >= k
      BY <1>0, <1>5, LastIsLast
    <2>2. \A k \in Syncs(f) : k \in Nat
      BY <1>5
    <2> QED BY <1>2, <2>1, <2>2 DEF LastSync
  <1>7. FirstSync(t) \in Syncs(f) /\ \A k \in Syncs(f) : FirstSync(t) <= k
    <2>1. {k \in Snapshots(t) : Cpu(t, k).time # 0} = Syncs(f)
      BY <1>2, <1>3
    <2> QED BY <1>5, <2>1, FirstIsFirst DEF FirstSync
  <1>8. ASSUME NEW j2 \in Syncs(f), NEW k2 \in Syncs(f), j2 <= k2
        PROVE  moments[f][j2].at <= moments[f][k2].at
    <2>1. moments[f] \in HostTraces \cup GuestTraces
      BY <1>0 DEF TracesInv, Files
    <2>2. /\ j2 \in 1 .. Len(moments[f]) /\ moments[f][j2].kind \in {"cpu", "cpuFirst"}
          /\ k2 \in 1 .. Len(moments[f]) /\ moments[f][k2].kind \in {"cpu", "cpuFirst"}
      BY DEF Syncs
    <2> QED BY <1>8, <2>1, <2>2 DEF InOrder
  <1>9. moments[f][FirstSync(t)].at < moments[f][LastSync(t)].at
    <2> DEFINE at(k) == moments[f][k].at
    <2>1. \A k \in Syncs(f) : at(k) \in Nat
      BY <1>1, <1>5
    <2>2. \A k \in Syncs(f) : at(FirstSync(t)) <= at(k) /\ at(k) <= at(LastSync(t))
      BY <1>6, <1>7, <1>8
    <2>3. at(i) # at(j)
      BY <1>4
    <2> HIDE DEF at
    <2>4. /\ at(FirstSync(t)) <= at(i) /\ at(i) <= at(LastSync(t))
          /\ at(FirstSync(t)) <= at(j) /\ at(j) <= at(LastSync(t))
          /\ at(FirstSync(t)) \in Nat /\ at(LastSync(t)) \in Nat
          /\ at(i) \in Nat /\ at(j) \in Nat
      BY <1>4, <1>6, <1>7, <2>1, <2>2
    <2>5. at(FirstSync(t)) < at(LastSync(t))
      BY <2>3, <2>4
    <2> QED BY <2>5 DEF at
  <1>10. HasSync(t)
    <2>1. Cpu(t, FirstSync(t)).time < Cpu(t, LastSync(t)).time
      BY <1>3, <1>6, <1>7, <1>9 DEF Synchronised
    <2>2. \A k \in Syncs(f) : Cpu(t, k).time \in Int
      <3>1. world \in World
        BY DEF TypeOK
      <3>2. Words \subseteq Int
        BY WordType DEF Words
      <3> QED BY <1>0, <1>1, <1>3, <1>5, <3>1, <3>2, ClockType
    <2>3. Cpu(t, LastSync(t)).time > Cpu(t, FirstSync(t)).time
      BY <1>6, <1>7, <2>1, <2>2
    <2> QED BY <1>2, <1>3, <1>6, <2>3 DEF HasSync
  <1> QED BY <1>6, <1>7, <1>9, <1>10

\* The clocks at two times.
LEMMA ClockAt ==
    ASSUME NEW w \in World, NEW f \in Files, NEW t \in Nat
    PROVE  /\ w[f] \in Int /\ Nanos * t \in Int
           /\ Clock(w, f, t) \in Int /\ Clock(w, f, t) \in Words
           /\ Congruent(Clock(w, f, t), w[f] + Nanos * t)
  <1>1. Nanos * t \in Int
    BY WordAssumption
  <1>2. w[f] \in Int
    BY WordType DEF World, Files, Words
  <1>3. w[f] + Nanos * t \in Int
    BY <1>1, <1>2
  <1> QED BY <1>1, <1>2, <1>3, CongruentResidue, ClockType DEF Clock

\* The counters do not wrap, and the host's is the guest's without its offset.
LEMMA CounterAt ==
    ASSUME NEW w \in World, NEW t \in Nat, w.tsc + Cycles * t < Word
    PROVE  /\ Counter(w, "host", t) = w.tsc + Cycles * t
           /\ (Counter(w, "guest", t) - w.tscOffset) % Word = w.tsc + Cycles * t
           /\ w.tsc + Cycles * t \in Words
  <1> DEFINE c == w.tsc + Cycles * t
             o == w.tscOffset
  <1>1. Cycles * t \in Nat
    BY WordAssumption
  <1>2. w.tsc \in Nat /\ o \in Int
    BY WordType DEF World, Words, Signed
  <1>3. c \in Words /\ c \in Int
    BY <1>1, <1>2, WordType DEF Words
  <1>4. Counter(w, "host", t) = c
    <2>1. c + 0 = c
      BY <1>3
    <2>2. Counter(w, "host", t) = (c + 0) % Word
      BY DEF Counter
    <2> QED BY <1>3, <2>1, <2>2, OwnResidue
  <1>5. (Counter(w, "guest", t) - o) % Word = c
    <2> DEFINE g == (c + o) % Word
    <2>1. Counter(w, "guest", t) = g
      BY DEF Counter
    <2> HIDE DEF c, o
    <2>2. c + o \in Int
      BY <1>2, <1>3
    <2>3. g \in Int /\ Congruent(g, c + o)
      BY <2>2, CongruentResidue
    <2> HIDE DEF g
    <2>4. Congruent(o, o)
      <3>1. o = o + Word * 0 /\ 0 \in Int
        BY <1>2, WordType
      <3> QED BY <3>1 DEF Congruent
    <2>5. Congruent(g - o, (c + o) - o) /\ (c + o) - o = c /\ g - o \in Int
      BY <1>2, <1>3, <2>2, <2>3, <2>4, CongruentSum
    <2>6. (g - o) % Word = c
      BY <1>3, <2>5, CongruentWord
    <2> QED BY <2>1, <2>6
  <1> QED BY <1>3, <1>4, <1>5

\* How far apart two times are, in cycles and in nanoseconds: what fits as
\* cycles fits as nanoseconds.
LEMMA Apart ==
    ASSUME FastCounter, NEW n \in Int
    PROVE  /\ Nanos * n \in Int /\ Cycles * n \in Int
           /\ n >= 0 => 0 <= Nanos * n /\ Nanos * n <= Cycles * n
           /\ n <= 0 => Cycles * n <= Nanos * n /\ Nanos * n <= 0
           /\ n > 0 => Cycles * n > 0
  <1>1. Nanos \in Nat \ {0} /\ Cycles \in Nat \ {0} /\ Nanos <= Cycles
    BY WordAssumption DEF FastCounter
  <1>2. PICK e \in Nat : Cycles = Nanos + e
    <2>1. Cycles - Nanos \in Nat /\ Cycles = Nanos + (Cycles - Nanos)
      BY <1>1
    <2> QED BY <2>1
  <1>3. Cycles * n = Nanos * n + e * n /\ Nanos * n \in Int /\ e * n \in Int
    BY <1>1, <1>2
  <1>4. n >= 0 => Nanos * n >= 0 /\ e * n >= 0
    BY <1>1, <1>2
  <1>5. n <= 0 => Nanos * n <= 0 /\ e * n <= 0
    BY <1>1, <1>2
  <1>6. n > 0 => Nanos * n > 0
    BY <1>1
  <1> QED BY <1>3, <1>4, <1>5, <1>6

\* The nanoseconds that pass between two times of the host's clock.
LEMMA ElapsedExact ==
    ASSUME FastCounter, NEW w \in World, NEW a0 \in Nat, NEW a \in Nat, a0 < a,
           w.tsc + Cycles * a < Word
    PROVE  /\ (Clock(w, "host", a) - Clock(w, "host", a0)) % Word = Nanos * (a - a0)
           /\ Cycles * (a - a0) \in Nat \ {0}
           /\ Counter(w, "host", a) - Counter(w, "host", a0) = Cycles * (a - a0)
  <1> DEFINE n == a - a0
  <1>0. n \in Nat /\ n > 0 /\ "host" \in Files
    BY DEF Files
  <1>1. w.tsc \in Nat /\ Word \in Nat /\ Cycles \in Nat /\ Nanos \in Nat
    BY WordType, WordAssumption DEF World, Words
  <1>2. /\ Cycles * a = Cycles * a0 + Cycles * n /\ Cycles * a0 \in Nat
        /\ Nanos * a = Nanos * a0 + Nanos * n
    BY <1>1
  <1>3. /\ Nanos * n \in Int /\ Cycles * n \in Int /\ 0 <= Nanos * n
        /\ Nanos * n <= Cycles * n /\ Cycles * n > 0
    BY <1>0, Apart
  <1> HIDE DEF n
  <1>4. Nanos * n \in Words
    BY <1>1, <1>2, <1>3 DEF Words
  <1>5. w.tsc + Cycles * a0 < Word
    BY <1>1, <1>2, <1>3
  <1>6. Counter(w, "host", a) - Counter(w, "host", a0) = Cycles * n
    <2>1. Counter(w, "host", a) = w.tsc + Cycles * a
      BY CounterAt
    <2>2. Counter(w, "host", a0) = w.tsc + Cycles * a0
      BY <1>5, CounterAt
    <2>3. w.tsc + Cycles * a = (w.tsc + Cycles * a0) + Cycles * n
      BY <1>1, <1>2, <1>3
    <2>4. (w.tsc + Cycles * a0) \in Int
      BY <1>1, <1>2
    <2> QED BY <1>3, <2>1, <2>2, <2>3, <2>4
  <1>7. (Clock(w, "host", a) - Clock(w, "host", a0)) % Word = Nanos * n
    <2> DEFINE x == Clock(w, "host", a)
               y == Clock(w, "host", a0)
               u == w["host"] + Nanos * a
               v == w["host"] + Nanos * a0
    <2>1. x \in Int /\ y \in Int /\ Congruent(x, u) /\ Congruent(y, v)
      BY <1>0, ClockAt
    <2>2. w["host"] \in Int /\ Nanos * a0 \in Int /\ Nanos * a \in Int
      BY <1>0, ClockAt
    <2>3. u \in Int /\ v \in Int /\ u - v = Nanos * n
      BY <1>2, <1>3, <2>2
    <2> HIDE DEF x, y, u, v
    <2>4. Congruent(x - y, u - v) /\ x - y \in Int
      BY <2>1, <2>3, CongruentSum
    <2>5. (x - y) % Word = Nanos * n
      BY <1>4, <2>3, <2>4, CongruentWord
    <2> QED BY <2>5 DEF x, y
  <1> QED BY <1>3, <1>6, <1>7 DEF n

\* The difference that is derived from the counters is the difference between
\* the clocks, to the nanosecond.
LEMMA SyncedDifference ==
    ASSUME TypeOK, TracesInv, InOrder, FastCounter,
           ReadFrom(guestTrace, "guest"), ReadFrom(hostTrace, "host"),
           guestTrace.parses, hostTrace.parses, Derived,
           config.guestTscOffset = world.tscOffset,
           Synchronised("host"), Synchronised("guest"), NEW d \in TimeDiffs
    PROVE  \E e \in {-1, 0, 1} : Congruent(d, world.guest - world.host + e)
  <1> DEFINE hl == LastSync(hostTrace)
             hf == FirstSync(hostTrace)
             gl == LastSync(guestTrace)
             a == moments["host"][hl].at
             a0 == moments["host"][hf].at
             b == moments["guest"][gl].at
             w == world
  <1>0. w \in World /\ "host" \in Files /\ "guest" \in Files
    BY DEF TypeOK, Files
  <1>1. /\ HasSync(hostTrace) /\ hl \in Syncs("host") /\ hf \in Syncs("host") /\ a0 < a
        /\ HasSync(guestTrace) /\ gl \in Syncs("guest")
    BY SyncFacts
  <1>2. a \in Nat /\ a0 \in Nat /\ b \in Nat
    <2>1. /\ \A k \in Syncs("host") : moments["host"][k].at \in Nat
          /\ \A k \in Syncs("guest") : moments["guest"][k].at \in Nat
      BY PacketFacts DEF Syncs, Moment
    <2> QED BY <1>1, <2>1
  <1>3. /\ Cpu(hostTrace, hl).time = Counter(w, "host", a)
        /\ Cpu(hostTrace, hf).time = Counter(w, "host", a0)
        /\ Cpu(guestTrace, gl).time = Counter(w, "guest", b)
        /\ Regular(hostTrace, hl) = Reading(6, Clock(w, "host", a))
        /\ Regular(hostTrace, hf) = Reading(6, Clock(w, "host", a0))
        /\ Regular(guestTrace, gl) = Reading(6, Clock(w, "guest", b))
    <2>1. ASSUME NEW t, NEW f, ReadFrom(t, f), NEW k \in Syncs(f)
          PROVE  /\ Cpu(t, k).time = Counter(world, f, moments[f][k].at)
                 /\ Regular(t, k) = Reading(6, Clock(world, f, moments[f][k].at))
      <3>1. k \in 1 .. Len(moments[f]) /\ moments[f][k].kind \in {"cpu", "cpuFirst"}
        BY DEF Syncs
      <3> QED BY <2>1, <3>1, SnapshotFacts DEF Reading
    <2> QED BY <1>1, <2>1
  <1>4. CanSync
    BY <1>1, <1>3 DEF CanSync, Reading
  <1>5. /\ w.tsc + Cycles * a < Word /\ w.tsc + Cycles * b < Word
        /\ Cycles * (a - b) \in -Precise .. Precise
    BY <1>1 DEF Synchronised
  <1> DEFINE x == Nanos * (a - b)
             m == Cycles * (a - a0)
  <1> HIDE DEF hl, hf, gl, a, a0, b, w
  <1>6. GuestCpuTime = w.tsc + Cycles * b
    <2>1. GuestCpuTime = (Counter(w, "guest", b) - w.tscOffset) % Word
      BY <1>3 DEF GuestCpuTime, gl, w
    <2> QED BY <1>0, <1>2, <1>5, <2>1, CounterAt
  <1>7. getSignedDifference(Cpu(hostTrace, hl).time, GuestCpuTime) = Cycles * (a - b)
    <2>1. Counter(w, "host", a) = w.tsc + Cycles * a
      BY <1>0, <1>2, <1>5, CounterAt
    <2>2. w.tsc \in Int /\ Cycles * a \in Int /\ Cycles * b \in Int /\ Half \in Int
      BY <1>0, <1>2, WordAssumption, WordType DEF World, Words
    <2>3. Cycles * (a - b) = Cycles * a - Cycles * b
      BY <1>2, WordAssumption
    <2>4. /\ w.tsc + Cycles * a \in Int /\ w.tsc + Cycles * b \in Int
          /\ (w.tsc + Cycles * a) - (w.tsc + Cycles * b) = Cycles * (a - b)
      BY <2>2, <2>3
    <2>5. Cycles * (a - b) \in -(Half - 1) .. Half - 1
      BY <1>5, <2>2, WordAssumption
    <2> QED BY <1>3, <1>5, <1>6, <2>1, <2>4, <2>5, ExactDifference
  <1>8. ElapsedNanos(hostTrace) = Nanos * (a - a0) /\ ElapsedCycles(hostTrace) = m
        /\ m \in Nat \ {0}
    <2>1. Regular(hostTrace, hl).time = Clock(w, "host", a)
          /\ Regular(hostTrace, hf).time = Clock(w, "host", a0)
      BY <1>3 DEF Reading
    <2>2. ElapsedNanos(hostTrace) = (Clock(w, "host", a) - Clock(w, "host", a0)) % Word
          /\ ElapsedCycles(hostTrace) = Counter(w, "host", a) - Counter(w, "host", a0)
      BY <1>3, <2>1 DEF ElapsedNanos, ElapsedCycles, hl, hf
    <2> QED BY <1>0, <1>1, <1>2, <1>5, <2>2, ElapsedExact
  <1>9. x \in -Precise .. Precise
    <2>1. a - b \in Int /\ Precise \in Int
      BY <1>2, WordAssumption
    <2>2. /\ x \in Int /\ Cycles * (a - b) \in Int
          /\ a - b >= 0 => 0 <= x /\ x <= Cycles * (a - b)
          /\ a - b <= 0 => Cycles * (a - b) <= x /\ x <= 0
      BY <2>1, Apart
    <2>3. -Precise <= Cycles * (a - b) /\ Cycles * (a - b) <= Precise
      BY <1>5
    <2> HIDE DEF x
    <2>4. CASE a - b >= 0
      BY <2>1, <2>2, <2>3, <2>4
    <2>5. CASE a - b <= 0
      BY <2>1, <2>2, <2>3, <2>5
    <2> QED BY <2>1, <2>4, <2>5
  <1>10. (Cycles * (a - b)) * (Nanos * (a - a0)) = x * m
    BY <1>2, WordAssumption
  <1>11. Truncations(x * m, m) \subseteq {x - 1, x, x + 1}
    BY <1>8, <1>9, ExactTruncations
  <1> DEFINE gr == Clock(w, "guest", b)
             hr == Clock(w, "host", a)
  <1>12. PICK o \in Truncations(x * m, m) : d = ToSigned(gr + o - hr)
    <2>1. d \in SyncedTimeDiffs
      BY <1>4 DEF TimeDiffs, GuestTimeDiffs, Derived
    <2>2. Regular(guestTrace, gl).time = gr /\ Regular(hostTrace, hl).time = hr
      BY <1>3 DEF Reading
    <2>3. d \in {ToSigned(Regular(guestTrace, gl).time + o - Regular(hostTrace, hl).time) :
                   o \in Truncations(getSignedDifference(Cpu(hostTrace, hl).time, GuestCpuTime)
                                        * ElapsedNanos(hostTrace),
                                     ElapsedCycles(hostTrace))}
      BY <2>1 DEF SyncedTimeDiffs, gl, hl
    <2> HIDE DEF x, m, gr, hr
    <2> QED BY <1>7, <1>8, <1>10, <2>2, <2>3
  <1>13. PICK e \in {-1, 0, 1} : o = x + e
    <2>1. o \in {x - 1, x, x + 1}
      BY <1>11
    <2>2. x - 1 = x + (-1) /\ x = x + 0
      BY <1>9
    <2> QED BY <2>1, <2>2
  <1>14. Congruent(d, w.guest - w.host + e)
    <2>1. w["guest"] = w.guest /\ w["host"] = w.host
      BY <1>0 DEF World
    <2>2. /\ gr \in Int /\ Congruent(gr, w.guest + Nanos * b)
          /\ hr \in Int /\ Congruent(hr, w.host + Nanos * a)
          /\ w.guest \in Int /\ w.host \in Int /\ Nanos * a \in Int /\ Nanos * b \in Int
      BY <1>0, <1>2, <2>1, ClockAt
    <2>3. e \in Int /\ x \in Int /\ o \in Int
      <3>1. x \in Int
        BY <1>9, WordType
      <3> QED BY <1>13, <3>1
    <2>4. x = Nanos * a - Nanos * b
      BY <1>2, WordAssumption
    <2> HIDE DEF x, gr, hr, m
    <2>5. Congruent(o, o)
      <3>1. o = o + Word * 0 /\ 0 \in Int
        BY <2>3, WordType
      <3> QED BY <3>1 DEF Congruent
    <2> DEFINE u == w.guest + Nanos * b
               v == w.host + Nanos * a
    <2>6. u \in Int /\ v \in Int /\ u + o - v = w.guest - w.host + e
      BY <1>13, <2>2, <2>3, <2>4
    <2>7. Congruent(gr, u) /\ Congruent(hr, v)
      BY <2>2
    <2> HIDE DEF u, v
    <2>8. Congruent(gr + o, u + o) /\ gr + o \in Int /\ u + o \in Int
      BY <2>2, <2>3, <2>5, <2>6, <2>7, CongruentSum
    <2>9. Congruent(gr + o - hr, u + o - v) /\ gr + o - hr \in Int
      <3> DEFINE y == gr + o
                 z == u + o
      <3>1. Congruent(y, z) /\ y \in Int /\ z \in Int
        BY <2>8
      <3> HIDE DEF y, z
      <3>2. Congruent(y - hr, z - v) /\ y - hr \in Int
        BY <2>2, <2>6, <2>7, <3>1, CongruentSum
      <3>3. gr + o - hr = y - hr /\ u + o - v = z - v
        BY <2>2, <2>3, <2>6 DEF y, z
      <3> QED BY <3>2, <3>3
    <2>10. d \in Int /\ Congruent(d, gr + o - hr)
      <3> DEFINE z == gr + o - hr
      <3>1. z \in Int
        BY <2>9
      <3> HIDE DEF z
      <3>2. z % Word \in Int /\ Congruent(z % Word, z)
        BY <3>1, CongruentResidue
      <3>3. PICK q \in Int : z % Word = z + Word * q
        BY <3>2 DEF Congruent
      <3>4. ToSigned(z) = z + Word * q \/ ToSigned(z) = z + Word * (q - 1)
        <4>1. (z % Word) - Word = z + Word * (q - 1)
          BY <3>1, <3>3, WordType
        <4> QED BY <3>3, <4>1 DEF ToSigned
      <3>5. ToSigned(z) \in Int /\ Congruent(ToSigned(z), z)
        <4>1. q - 1 \in Int
          OBVIOUS
        <4> QED BY <3>1, <3>4, <4>1, ToSignedType DEF Congruent
      <3> QED BY <1>12, <3>5 DEF z
    <2>11. w.guest - w.host + e \in Int
      BY <2>2, <2>3
    <2> QED BY <2>6, <2>9, <2>10, <2>11, CongruentTrans
  <1> QED BY <1>14 DEF w

\* Moved by that difference, an event of the addon trace is where the clock of
\* the main trace was.
LEMMA AlignedBy ==
    ASSUME NEW c \in Int, NEW p \in Int, NEW s \in Int,
           NEW e \in {-1, 0, 1}, NEW x \in Int,
           Congruent(c, s + x),     \* the clock of the main trace
           Congruent(p, s + x + e)  \* what is shown, before % Word
    PROVE  Near(p % Word, c)
  <1>0. Word \in Nat /\ Word >= 2 /\ e \in Int
    BY WordType
  <1> DEFINE y == s + x
             z == s + x + e
  <1>1. y \in Int /\ z \in Int /\ z - y = e
    BY <1>0
  <1> HIDE DEF y, z
  <1>2. Congruent(p, z) /\ Congruent(c, y)
    BY DEF y, z
  <1>3. p % Word \in Int /\ Congruent(p % Word, p)
    BY CongruentResidue
  <1>4. Congruent(p % Word, z)
    BY <1>1, <1>2, <1>3, CongruentTrans
  <1>5. Congruent((p % Word) - c, e) /\ (p % Word) - c \in Int
    <2> DEFINE l == p % Word
    <2>1. l \in Int /\ Congruent(l, z)
      BY <1>3, <1>4
    <2> HIDE DEF l
    <2>2. Congruent(l - c, z - y) /\ l - c \in Int
      BY <1>1, <1>2, <2>1, CongruentSum
    <2> QED BY <1>1, <2>2, Zenon DEF l
  <1> DEFINE n == (p % Word) - c
  <1>6. n \in Int /\ Congruent(n, e)
    BY <1>5
  <1> HIDE DEF n
  <1>7. CASE e = 0 \/ e = 1
    <2>1. e \in Words
      BY <1>0, <1>7 DEF Words
    <2> QED BY <1>6, <1>7, <2>1, CongruentWord DEF Near, n
  <1>8. CASE e = -1
    <2>1. Word - 1 \in Words
      BY <1>0 DEF Words
    <2>2. PICK q \in Int : n = e + Word * q
      BY <1>6 DEF Congruent
    <2>3. n = (Word - 1) + Word * (q - 1) /\ q - 1 \in Int
      BY <1>0, <1>8, <2>2
    <2>4. Congruent(n, Word - 1)
      BY <2>3 DEF Congruent
    <2>5. n % Word = Word - 1
      BY <1>6, <2>1, <2>4, CongruentWord
    <2> QED BY <2>5 DEF Near, n
  <1> QED BY <1>7, <1>8

\* "deriving time sync between host and guest using rdtsc": whatever the width
\* of the integers, wherever the clocks and the counters stand and whatever
\* else the traces hold, every event of the addon trace is shown at the time,
\* to the nanosecond, that the clock of the main trace had when it happened.
THEOREM Aligns ==
    ASSUME FastCounter, InOrder
    PROVE  Spec => []Aligned
  <1>1. Init => TypeOK /\ FilesInv /\ TracesInv
    BY InitType, InitFiles, TracesKept
  <1>2. TypeOK /\ FilesInv /\ TracesInv /\ [Next]_vars => (TypeOK /\ FilesInv /\ TracesInv)'
    BY StepType, StepFiles, TracesKept
  <1>3. ASSUME TypeOK, FilesInv, TracesInv PROVE Aligned
    <2> SUFFICES ASSUME Merged, Derived, config.guestTscOffset = world.tscOffset,
                        Synchronised("host"), Synchronised("guest"),
                        NEW k \in 1 .. Len(moments[AddonFile]),
                        moments[AddonFile][k].kind = "event"
                 PROVE  Near(Result(k).ts,
                             Clock(world, MainFile, moments[AddonFile][k].at))
      BY DEF Aligned
    <2> DEFINE t == moments[AddonFile][k].at
    <2>0. k \in Events(AddonFile) /\ AddonFile \in Files /\ MainFile \in Files
      BY DEF Events, AddonFile, MainFile, Files
    <2>1. PICK d \in TimeDiffs : MergedWith(d)
      BY <1>3, MergedFacts
    <2>2. d \in Int
      BY <2>1 DEF MergedWith
    <2>3. PICK e \in {-1, 0, 1} : Congruent(d, world.guest - world.host + e)
      BY <1>3, <2>1, SyncedDifference DEF MergedWith
    <2>4. t \in Nat /\ world \in World
      <3>1. moments[AddonFile] \in Seq(Moment)
        BY <1>3, <2>0 DEF TypeOK
      <3>2. moments[AddonFile][k] \in Moment
        BY <3>1
      <3> QED BY <1>3, <3>2 DEF TypeOK, Moment
    <2> DEFINE cg == Clock(world, "guest", t)
               ch == Clock(world, "host", t)
               g == world.guest
               h == world.host
               x == Nanos * t
    <2>5. /\ cg \in Int /\ ch \in Int /\ g \in Int /\ h \in Int /\ x \in Int
          /\ Congruent(cg, g + x) /\ Congruent(ch, h + x)
      <3>1. world["guest"] = world.guest /\ world["host"] = world.host
        BY <2>4 DEF World
      <3> QED BY <2>4, <3>1, ClockAt DEF Files
    <2>6. Result(k).ts = (Clock(world, AddonFile, t)
                             + (IF config.mergeGuestIntoHost THEN -d ELSE d)) % Word
      BY <1>3, <2>0, <2>1, ResultOf
    <2>7. e \in Int /\ -e \in {-1, 0, 1} /\ g - h + e \in Int
      BY <2>5
    <2>8. CASE config.mergeGuestIntoHost
      <3>1. Result(k).ts = (cg + (-d)) % Word
        BY <2>6, <2>8 DEF AddonFile
      <3>2. Clock(world, MainFile, t) = ch
        BY <2>8 DEF MainFile
      <3> HIDE DEF cg, ch, g, h, x, t
      <3>3. cg + (-d) = cg - d /\ cg - d \in Int
        BY <2>2, <2>5
      <3>4. Congruent(cg - d, (g + x) - (g - h + e))
        <4>1. g + x \in Int
          BY <2>5
        <4> QED BY <2>2, <2>3, <2>5, <2>7, <4>1, CongruentSum DEF g, h
      <3>5. (g + x) - (g - h + e) = h + x + (-e)
        BY <2>5, <2>7
      <3>6. Congruent(cg - d, h + x + (-e))
        BY <3>4, <3>5
      <3>7. Near((cg - d) % Word, ch)
        BY <2>5, <2>7, <3>3, <3>6, AlignedBy
      <3> QED BY <3>1, <3>2, <3>3, <3>7 DEF t
    <2>9. CASE ~config.mergeGuestIntoHost
      <3>1. Result(k).ts = (ch + d) % Word
        BY <2>6, <2>9 DEF AddonFile
      <3>2. Clock(world, MainFile, t) = cg
        BY <2>9 DEF MainFile
      <3> HIDE DEF cg, ch, g, h, x, t
      <3>3. ch + d \in Int
        BY <2>2, <2>5
      <3>4. Congruent(ch + d, (h + x) + (g - h + e))
        <4>1. h + x \in Int
          BY <2>5
        <4> QED BY <2>2, <2>3, <2>5, <2>7, <4>1, CongruentSum DEF g, h
      <3>5. (h + x) + (g - h + e) = g + x + e
        BY <2>5, <2>7
      <3>6. Congruent(ch + d, g + x + e)
        BY <3>4, <3>5
      <3>7. Near((ch + d) % Word, cg)
        BY <2>5, <2>7, <3>3, <3>6, AlignedBy
      <3> QED BY <3>1, <3>2, <3>7 DEF t
    <2> QED BY <2>8, <2>9
  <1> QED BY <1>1, <1>2, <1>3, PTL DEF Spec
=============================================================================
