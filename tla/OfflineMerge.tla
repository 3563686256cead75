----------------------------- MODULE OfflineMerge -----------------------------
(***************************************************************************)
(* vperfetto_merge (vperfetto_merge.cpp) and combineTraces                 *)
(* (vperfetto-sdk.cpp): the options of the command line, and how the       *)
(* difference between the clocks of a guest trace and of a host trace is   *)
(* derived from the traces.                                                *)
(*                                                                         *)
(* A packet is reduced to its timestamp and its clock snapshot; what the   *)
(* merge does to ids and tracks is TraceMerge.  Integers are modulo Word   *)
(* (2^64 in the code); a quotient of doubles is off by at most one as long *)
(* as it is at most Precise, and may be anything beyond that.              *)
(*                                                                         *)
(* So that what the merge should do can be said, the traces are written in *)
(* a world where one time t drives all clocks: in each unit of t the       *)
(* clocks advance by Nanos and the cycle counters by Cycles, and the       *)
(* guest's counter is the host's plus an offset (the tsc-offset of KVM).   *)
(***************************************************************************)
EXTENDS Integers, Sequences

CONSTANTS
    Word,          \* 2^64
    Precise,       \* 2^50: 53 bits of a double, less the roundings
    Nanos, Cycles, \* per unit of time
    Worlds,        \* where the clocks stand at time 0
    HostTraces, GuestTraces,  \* what was written, and when
    CommandLines,  \* the arguments of vperfetto_merge
    Configs        \* the configurations that clients of the library pass

Half == Word \div 2
Words == 0 .. Word - 1
Signed == -Half .. Half - 1           \* what an int64_t can hold
Unsigned == -(Word - 1) .. Word - 1   \* what operator>> takes for a uint64_t
CpuClock == 64

ASSUME WordAssumption ==
    /\ Half \in Nat \ {0} /\ Word = 2 * Half
    /\ Precise \in Nat /\ Precise < Half - 1
    /\ Nanos \in Nat \ {0} /\ Cycles \in Nat \ {0}

World == [host : Words, guest : Words, tsc : Words, tscOffset : Signed]

\* What a trace records of a moment: "event" a packet with a timestamp,
\* "plain" one without; the others are clock snapshots, of the trace's clock
\* and the cycle counter ("cpu", "cpuFirst"), of another clock and the counter
\* ("monotonic"), of two clocks ("clocks") or of more ("many").
Kinds == {"event", "plain", "cpu", "cpuFirst", "monotonic", "clocks", "many"}
Moment == [kind : Kinds, at : Nat]

Absent == -1                        \* of an optional field
Packet == [ts : Words \cup {Absent},
           clocks : Seq([id : Nat, time : Words])]

\* A word of a command line: an option, a number, a word that begins with the
\* number val ("12abc", or "0x10" with 0) or anything else.
Numeric == {"number", "prefixed"}
Token == [is : {"--guest-tsc-offset", "--merge-guest-into-host", "junk"}
                  \cup Numeric,
          val : Int]
CommandLine == [by : {"main"}, files : 0 .. 3, options : Seq(Token)]
ClientCall == [by |-> "client", files |-> 3, options |-> <<>>]

\* TraceCombineConfig, without its file names.
Config == [useGuestAbsoluteTime : BOOLEAN, guestClockBootTimeNs : Words,
           useGuestTimeDiff : BOOLEAN, guestClockTimeDiffNs : Signed,
           guestTscOffset : Signed, mergeGuestIntoHost : BOOLEAN]

ASSUME InputsAssumption ==
    /\ Worlds \subseteq World
    /\ HostTraces \subseteq Seq(Moment)
    /\ GuestTraces \subseteq Seq(Moment)
    /\ CommandLines \subseteq CommandLine
    /\ Configs \subseteq Config

VARIABLES
    world, moments, \* the clocks and what the traces record (history)
    disk,           \* the two files: their packets; valid if sValidFilename
                    \*   accepts them, parses if ParseFromString does
    argv,           \* what is left of the command line
    asked,          \* the command line, or ClientCall (history)
    config,
    pc,
    guestTrace, hostTrace,  \* what combineTraces has read
    combinedFile,   \* the file as it was, cut short, or the whole result
    exit            \* what main returns

vars == <<world, moments, disk, argv, asked, config, pc, guestTrace,
          hostTrace, combinedFile, exit>>

Files == {"guest", "host"}
File == [valid : BOOLEAN, parses : BOOLEAN, packets : Seq(Packet)]
NoTrace == [parses |-> TRUE, packets |-> <<>>]
Trace == [parses : BOOLEAN, packets : Seq(Packet)]
CombinedFile == [state : {"old", "cut", "whole"}, packets : Seq(Packet)]

\* What the clock and the counter of f show at time t.
Clock(w, f, t) == (w[f] + Nanos * t) % Word
Counter(w, f, t) ==
    (w.tsc + Cycles * t + (IF f = "guest" THEN w.tscOffset ELSE 0)) % Word

TypeOK ==
    /\ world \in World
    /\ moments \in [Files -> Seq(Moment)]
    /\ disk \in [Files -> File]
    /\ argv \in Seq(Token)
    /\ asked \in CommandLine \cup {ClientCall}
    /\ config \in Config
    /\ pc \in {"main", "options", "readGuest", "readHost", "derive",
               "returned", "aborted"}
    /\ guestTrace \in Trace
    /\ hostTrace \in Trace
    /\ combinedFile \in CombinedFile
    /\ exit \in {0, 1, Absent}

-----------------------------------------------------------------------------
(***************************************************************************)
(* The initial states: two trace files, and a caller                       *)
(***************************************************************************)

Reading(id, time) == [id |-> id, time |-> time]

\* The packet that records moment m in the trace of f.  The timestamps are those
\* of the clock 6 (BOOTTIME); the clock 1 is another one.
Recorded(w, f, m) ==
    LET clock == Clock(w, f, m.at)
        cpu == Reading(CpuClock, Counter(w, f, m.at))
        other == Reading(1, (Nanos * m.at) % Word)
    IN  [ts |-> IF m.kind = "event" THEN clock ELSE Absent,
         clocks |->
            CASE m.kind = "cpu" -> <<Reading(6, clock), cpu>>
              [] m.kind = "cpuFirst" -> <<cpu, Reading(6, clock)>>
              [] m.kind = "monotonic" -> <<other, cpu>>
              [] m.kind = "clocks" -> <<other, Reading(6, clock)>>
              [] m.kind = "many" ->
                    <<other, Reading(6, clock), cpu>>
              [] OTHER -> <<>>]

DefaultConfig ==
    [useGuestAbsoluteTime |-> FALSE, guestClockBootTimeNs |-> 0,
     useGuestTimeDiff |-> FALSE, guestClockTimeDiffNs |-> 0,
     guestTscOffset |-> 0, mergeGuestIntoHost |-> FALSE]

\* The program is started, or a client calls combineTraces.
Started ==
    \/ /\ asked \in CommandLines
       /\ pc = "main"
       /\ config = DefaultConfig
    \/ /\ asked = ClientCall
       /\ pc = "readGuest"
       /\ config \in Configs

Init ==
    /\ world \in Worlds
    /\ moments \in [guest : GuestTraces, host : HostTraces]
    /\ disk \in {[f \in Files |->
                    [valid |-> TRUE, parses |-> p[f],
                     packets |-> [k \in 1 .. Len(moments[f]) |->
                                    Recorded(world, f, moments[f][k])]]] :
                 p \in [Files -> BOOLEAN]}
    /\ Started
    /\ argv = asked.options
    /\ guestTrace = NoTrace
    /\ hostTrace = NoTrace
    /\ combinedFile = [state |-> "old", packets |-> <<>>]
    /\ exit = Absent

-----------------------------------------------------------------------------
(***************************************************************************)
(* main                                                                    *)
(***************************************************************************)

Return(code) == pc' = "returned" /\ exit' = code

\* argc, and sValidFilename for the guest file and the host file.
CheckArguments ==
    /\ pc = "main"
    /\ IF asked.files = 3 /\ disk["guest"].valid /\ disk["host"].valid
       THEN pc' = "options" /\ UNCHANGED exit
       ELSE Return(1)
    /\ UNCHANGED <<world, moments, disk, argv, asked, config, guestTrace,
                   hostTrace, combinedFile>>

\* operator>> reads a number of this range at the beginning of word k, and
\* fails if there is none; nobody looks at the rest of the word.
Parses(k, range) ==
    /\ Len(argv) >= k
    /\ argv[k].is \in Numeric
    /\ argv[k].val \in range

\* Mutant: a value that cannot be parsed is skipped.
TscOffsetLenient ==
    /\ argv[1].is = "--guest-tsc-offset"
    /\ argv' = SubSeq(argv, 3, Len(argv))
    /\ config' = IF Parses(2, Signed) THEN [config EXCEPT !.guestTscOffset = argv[2].val]
                                ELSE config
    /\ UNCHANGED <<pc, exit>>

TscOffset ==
    /\ argv[1].is = "--guest-tsc-offset"
    /\ IF Parses(2, Signed)
       THEN /\ config' = [config EXCEPT !.guestTscOffset = argv[2].val]
            /\ argv' = SubSeq(argv, 3, Len(argv))
            /\ UNCHANGED <<pc, exit>>
       ELSE Return(1) /\ UNCHANGED <<argv, config>>

MergeGuestIntoHost ==
    /\ argv[1].is = "--merge-guest-into-host"
    /\ config' = [config EXCEPT !.mergeGuestIntoHost = TRUE]
    /\ argv' = Tail(argv)
    /\ UNCHANGED <<pc, exit>>

\* Mutant: a negative number is kept.
BootTimeSigned ==
    /\ argv[1].is \in Numeric \cup {"junk"}
    /\ IF Parses(1, Unsigned)
       THEN /\ config' = [config EXCEPT !.guestClockBootTimeNs = argv[1].val,
                                        !.useGuestAbsoluteTime = TRUE]
            /\ argv' = Tail(argv)
            /\ UNCHANGED <<pc, exit>>
       ELSE Return(1) /\ UNCHANGED <<argv, config>>

\* Any other word is the boot time: operator>> for uint64_t takes a negative
\* number modulo Word.
BootTime ==
    /\ argv[1].is \in Numeric \cup {"junk"}
    /\ IF Parses(1, Unsigned)
       THEN /\ config' = [config EXCEPT !.guestClockBootTimeNs = argv[1].val % Word,
                                        !.useGuestAbsoluteTime = TRUE]
            /\ argv' = Tail(argv)
            /\ UNCHANGED <<pc, exit>>
       ELSE Return(1) /\ UNCHANGED <<argv, config>>

\* The loop over the options, one at a time.
Option ==
    /\ pc = "options"
    /\ argv # <<>>
    /\ TscOffset \/ MergeGuestIntoHost \/ BootTime
    /\ UNCHANGED <<world, moments, disk, asked, guestTrace, hostTrace,
                   combinedFile>>

CallCombineTraces ==
    /\ pc = "options"
    /\ argv = <<>>
    /\ pc' = "readGuest"
    /\ UNCHANGED <<world, moments, disk, argv, asked, config, guestTrace,
                   hostTrace, combinedFile, exit>>

-----------------------------------------------------------------------------
(***************************************************************************)
(* The clocks                                                              *)
(***************************************************************************)

Clamped(x) == IF x < Half - 1 THEN x ELSE Half - 1

\* Mutant: the sign is dropped.
AbsoluteDifference(a, b) == IF a > b THEN Clamped(a - b) ELSE Clamped(b - a)

getSignedDifference(a, b) == IF a > b THEN Clamped(a - b) ELSE -Clamped(b - a)

ToSigned(x) == IF x % Word < Half THEN x % Word ELSE (x % Word) - Word

Stamped(t) == {k \in 1 .. Len(t.packets) : t.packets[k].ts # Absent}
First(s) == CHOOSE k \in s : \A l \in s : k <= l
Last(s) == CHOOSE k \in s : \A l \in s : k >= l

getTraceStartTime(t) ==
    IF t.parses /\ Stamped(t) # {} THEN t.packets[First(Stamped(t))].ts ELSE 0

\* The two clocks of snapshot k of trace t, the cycle counter and the other.
Snapshots(t) == {k \in 1 .. Len(t.packets) : Len(t.packets[k].clocks) = 2}
CpuIndex(t, k) == IF t.packets[k].clocks[1].id = CpuClock THEN 1 ELSE 2
Cpu(t, k) == t.packets[k].clocks[CpuIndex(t, k)]
Regular(t, k) == t.packets[k].clocks[3 - CpuIndex(t, k)]

FirstSync(t) == First({k \in Snapshots(t) : Cpu(t, k).time # 0})
LastSync(t) == Last(Snapshots(t))

\* getTraceCpuTimeSync: a 2-clock snapshot without the counter is an error.
HasSync(t) ==
    /\ t.parses
    /\ \A k \in Snapshots(t) : Cpu(t, k).id = CpuClock
    /\ \E k \in Snapshots(t) : Cpu(t, k).time # 0
    /\ Cpu(t, LastSync(t)).time > Cpu(t, FirstSync(t)).time

\* cpuCyclesPerNano as a fraction; the difference of the clocks is modulo Word.
ElapsedCycles(t) == Cpu(t, LastSync(t)).time - Cpu(t, FirstSync(t)).time
ElapsedNanos(t) ==
    (Regular(t, LastSync(t)).time - Regular(t, FirstSync(t)).time) % Word

\* What (int64_t)(n / d) may be.
Truncations(n, d) ==
    LET q == IF n < 0 THEN -((-n) \div d) ELSE n \div d
    IN  IF q \in -Precise .. Precise
        THEN {x \in q - 1 .. q + 1 : (n >= 0 => x >= 0) /\ (n <= 0 => x <= 0)}
        ELSE Signed

\* Mutant: the offset has the wrong sign.
GuestCpuTimeAdded == (Cpu(guestTrace, LastSync(guestTrace)).time
                        + config.guestTscOffset) % Word

\* "Transform guest cpuTime to host"
GuestCpuTime == (Cpu(guestTrace, LastSync(guestTrace)).time
                    - config.guestTscOffset) % Word

\* What deriveGuestTimeDiff may return.
SyncedTimeDiffs ==
    LET delta == getSignedDifference(Cpu(hostTrace, LastSync(hostTrace)).time,
                                     GuestCpuTime)
        offsets == Truncations(delta * ElapsedNanos(hostTrace),
                               ElapsedCycles(hostTrace))
    IN  {ToSigned(Regular(guestTrace, LastSync(guestTrace)).time + o
                    - Regular(hostTrace, LastSync(hostTrace)).time) : o \in offsets}

CanSync ==
    /\ HasSync(hostTrace)
    /\ HasSync(guestTrace)
    /\ Regular(hostTrace, LastSync(hostTrace)).id
         = Regular(guestTrace, LastSync(guestTrace)).id

GuestTimeDiffs ==
    IF CanSync THEN SyncedTimeDiffs
    ELSE {getSignedDifference(getTraceStartTime(guestTrace),
                              getTraceStartTime(hostTrace))}

TimeDiffs ==
    IF config.useGuestAbsoluteTime
    THEN {getSignedDifference(config.guestClockBootTimeNs,
                              getTraceStartTime(hostTrace))}
    ELSE IF config.useGuestTimeDiff THEN {config.guestClockTimeDiffNs}
    ELSE GuestTimeDiffs

-----------------------------------------------------------------------------
(***************************************************************************)
(* combineTraces                                                           *)
(***************************************************************************)

\* A file that is gone has size -1, which resize does not survive.
ReadGuest ==
    /\ pc = "readGuest"
    /\ IF disk["guest"].valid
       THEN /\ guestTrace' = [parses |-> disk["guest"].parses,
                              packets |-> disk["guest"].packets]
            /\ pc' = "readHost"
       ELSE pc' = "aborted" /\ UNCHANGED guestTrace
    /\ UNCHANGED <<world, moments, disk, argv, asked, config, hostTrace,
                   combinedFile, exit>>

ReadHost ==
    /\ pc = "readHost"
    /\ IF disk["host"].valid
       THEN /\ hostTrace' = [parses |-> disk["host"].parses,
                             packets |-> disk["host"].packets]
            /\ pc' = "derive"
       ELSE pc' = "aborted" /\ UNCHANGED hostTrace
    /\ UNCHANGED <<world, moments, disk, argv, asked, config, guestTrace,
                   combinedFile, exit>>

\* constructCombinedTrace, of timestamps and snapshots.
Moved(p, diff) == [ts |-> IF p.ts = Absent THEN Absent ELSE (p.ts + diff) % Word,
                   clocks |-> <<>>]
Merge(main, addon, diff) ==
    IF addon.parses
    THEN main.packets \o [k \in 1 .. Len(addon.packets) |->
                              Moved(addon.packets[k], diff)]
    ELSE <<>>

Combined(diff) == IF config.mergeGuestIntoHost
                  THEN Merge(hostTrace, guestTrace, -diff)
                  ELSE Merge(guestTrace, hostTrace, diff)

\* The ofstream writes the packets, cannot be opened, or fails part of the way.
\* Nobody asks it.
WriteCombined(packets) ==
    \/ combinedFile' = [state |-> "whole", packets |-> packets]
    \/ UNCHANGED combinedFile
    \/ \E n \in 0 .. Len(packets) - 1 :
          combinedFile' = [state |-> "cut", packets |-> SubSeq(packets, 1, n)]

Combine ==
    /\ pc = "derive"
    /\ \E diff \in TimeDiffs : WriteCombined(Combined(diff))
    /\ Return(0)
    /\ UNCHANGED <<world, moments, disk, argv, asked, config, guestTrace,
                   hostTrace>>

\* Somebody else removes a trace, before or after the program looks at it.
Remove(f) ==
    /\ pc \notin {"returned", "aborted"}
    /\ disk[f].valid
    /\ disk' = [disk EXCEPT ![f].valid = FALSE]
    /\ UNCHANGED <<world, moments, argv, asked, config, pc, guestTrace,
                   hostTrace, combinedFile, exit>>

Next == \/ CheckArguments \/ Option \/ CallCombineTraces
        \/ ReadGuest \/ ReadHost \/ Combine
        \/ \E f \in Files : Remove(f)

Spec == Init /\ [][Next]_vars

-----------------------------------------------------------------------------
(***************************************************************************)
(* Properties                                                              *)
(***************************************************************************)

\* The configuration a command line stands for, whatever the order of its
\* options; the last of several values counts.
Options == 1 .. Len(asked.options)
IsValue(k) == k > 1 /\ asked.options[k - 1].is = "--guest-tsc-offset"
Offsets == {k \in Options : IsValue(k)}
BootTimes == {k \in Options : asked.options[k].is \in Numeric /\ ~IsValue(k)}
Numbers(range) == {k \in Options : /\ asked.options[k].is \in Numeric
                                   /\ asked.options[k].val \in range}
LastOf(s) == IF s = {} THEN 0 ELSE asked.options[Last(s)].val
Wanted ==
    [DefaultConfig EXCEPT
        !.useGuestAbsoluteTime = BootTimes # {},
        !.guestClockBootTimeNs = LastOf(BootTimes) % Word,
        !.guestTscOffset = LastOf(Offsets),
        !.mergeGuestIntoHost =
            \E k \in Options : asked.options[k].is = "--merge-guest-into-host"]
WellFormed ==
    /\ asked.files = 3
    /\ \A k \in Options :
          /\ asked.options[k].is # "junk"
          /\ IsValue(k) => k \in Numbers(Signed)
          /\ k \in BootTimes => k \in Numbers(Unsigned)
          /\ asked.options[k].is = "--guest-tsc-offset" => k < Len(asked.options)

\* vperfetto_merge touches the combined file only when it returns 0, and it
\* returns 0 only if every word is an option or begins with a number that fits,
\* "--guest-tsc-offset" has its value, and the configuration it merges with is
\* the one these words stand for, in whatever order they come.  It returns 1
\* only for a line that is not so, or if a trace is gone.  (A return of 0 does
\* not say that the file was written, nor that the traces could be parsed.)
MergesAsAsked ==
    /\ combinedFile.state # "old" => exit = 0
    /\ asked.by = "main" =>
          /\ exit = 0 => WellFormed /\ config = Wanted
          /\ exit = 1 => ~WellFormed \/ \E f \in Files : ~disk[f].valid

MainFile == IF config.mergeGuestIntoHost THEN "host" ELSE "guest"
AddonFile == IF config.mergeGuestIntoHost THEN "guest" ELSE "host"

\* Both traces were read, merged and written; the k-th packet of the addon.
Merged == combinedFile.state = "whole" /\ guestTrace.parses /\ hostTrace.parses
Result(k) == combinedFile.packets[Len(moments[MainFile]) + k]

Derived == ~config.useGuestAbsoluteTime /\ ~config.useGuestTimeDiff

\* The moments at which the trace of f records its clock and the counter.
Syncs(f) == {k \in 1 .. Len(moments[f]) : moments[f][k].kind \in {"cpu", "cpuFirst"}}

\* The trace has synchronisation data: the counter, which is never 0 and does
\* not wrap, next to the clock of the timestamps, at two times; and the traces
\* are near enough to each other for doubles.
Synchronised(f) ==
    /\ \A k \in 1 .. Len(moments[f]) : moments[f][k].kind \notin {"monotonic", "clocks"}
    /\ \E j, k \in Syncs(f) : moments[f][j].at # moments[f][k].at
    /\ \A j, k \in Syncs(f) :
          /\ Counter(world, f, moments[f][j].at) # 0
          /\ moments[f][j].at < moments[f][k].at =>
                Counter(world, f, moments[f][j].at) < Counter(world, f, moments[f][k].at)
    /\ \A k \in Syncs(f) : world.tsc + Cycles * moments[f][k].at < Word
    /\ \A j \in Syncs("host"), k \in Syncs("guest") :
          Cycles * (moments["host"][j].at - moments["guest"][k].at) \in -Precise .. Precise

Near(x, y) == (x - y) % Word \in {0, 1, Word - 1}

\* "deriving time sync between host and guest using rdtsc": if both traces have
\* synchronisation data and the tsc offset is the guest's, every event of the
\* addon trace is shown at the time, to the nanosecond, that the clock of the
\* main trace had when it happened, wherever the two clocks started and
\* whichever trace is merged into the other.
Aligned ==
    /\ Merged /\ Derived
    /\ config.guestTscOffset = world.tscOffset
    /\ Synchronised("host") /\ Synchronised("guest")
    => \A k \in 1 .. Len(moments[AddonFile]) :
          moments[AddonFile][k].kind = "event" =>
              Near(Result(k).ts, Clock(world, MainFile, moments[AddonFile][k].at))

\* A trace has no counter, or a snapshot of two other clocks, or the traces set
\* their counters against different clocks.
Counters(f) == Syncs(f) \cup
               {k \in 1 .. Len(moments[f]) : moments[f][k].kind = "monotonic"}
Unsynchronised ==
    \/ \E f \in Files :
          \/ Counters(f) = {}
          \/ \E k \in 1 .. Len(moments[f]) : moments[f][k].kind = "clocks"
    \/ \A j \in Counters("host"), k \in Counters("guest") :
          (j \in Syncs("host")) # (k \in Syncs("guest"))

Events(f) == {k \in 1 .. Len(moments[f]) : moments[f][k].kind = "event"}
Start(f) == Clock(world, f, moments[f][First(Events(f))].at)

\* The time g of the guest and the time h of the host become one, unless they
\* are too far apart ("Assumes that the difference is less than
\* abs(INT64_MAX)").
Meet(g, h) ==
    g - h \in -(Half - 1) .. Half - 1 =>
        \A k \in Events(AddonFile) :
            LET ts == Clock(world, AddonFile, moments[AddonFile][k].at)
            IN  IF config.mergeGuestIntoHost THEN ts = g => Result(k).ts = h
                                             ELSE ts = h => Result(k).ts = g

\* "Guest time when tracing begins, to line up with host": with a boot time the
\* host's first timestamp becomes that time, even if a difference is given
\* too; without one, and without synchronisation data, the first timestamps of
\* the traces become one.
LinedUp ==
    Merged /\ Events("host") # {} =>
        /\ config.useGuestAbsoluteTime =>
              Meet(config.guestClockBootTimeNs, Start("host"))
        /\ Derived /\ Events("guest") # {} /\ Unsynchronised =>
              Meet(Start("guest"), Start("host"))
=============================================================================
