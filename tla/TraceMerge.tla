------------------------------ MODULE TraceMerge ------------------------------
(***************************************************************************)
(* constructCombinedTrace (vperfetto-sdk.cpp): merges an addon trace into  *)
(* a main trace.  The ids of the addon's packets are shifted above those   *)
(* of the main trace, and the uuids of its process and thread tracks are   *)
(* replaced by new ones.                                                   *)
(*                                                                         *)
(* A trace is a sequence of packets.  A packet that lists several ftrace   *)
(* events, processes or threads is several packets here, each with one:    *)
(* the code visits them one after the other and treats them alike.  The    *)
(* ids are far enough below 2^31 (a pid is below 2^22) for no sum to       *)
(* overflow; timestamps are modulo TimeMod.                                *)
(***************************************************************************)
EXTENDS Integers, Sequences

CONSTANTS
    MainTraces, AddonTraces,  \* traces that are merged
    TimeDiffs,                \* values of mainTimeDiff
    TimeMod,                  \* 2^64
    FreshUuids                \* what GenUuidv4Lsb returns

Absent == -1                  \* of an optional field
Opt == Nat \cup {Absent}

\* The fields the merge looks at:
\*   uid, seq     trusted_uid, trusted_packet_sequence_id
\*   cpu          of an ftrace bundle
\*   pid          of an ftrace event, of a process or of a thread (tgid)
\*   tid          of a thread of the process tree
\*   dtid         the tid of a thread that a track descriptor describes
\*   uuid, parent of a track descriptor; owned if it describes a process or
\*                a thread and gives its pid
\*   event        the track of a track event, or the default track
\*   clock        the packet holds a clock snapshot or a service event
Packet == [uid : Opt, seq : Opt \ {0}, ts : Opt, cpu : Opt, pid : Opt,
           tid : Opt, dtid : Opt, uuid : Opt, parent : Opt, event : Opt,
           owned : BOOLEAN, clock : BOOLEAN]

Uuids(p) == {p.uuid, p.parent, p.event}

ASSUME TracesAssumption ==
    /\ MainTraces \subseteq Seq(Packet)
    /\ AddonTraces \subseteq Seq(Packet)
    /\ TimeDiffs \subseteq Int
    /\ TimeMod \in Nat \ {0}

\* A track descriptor has an uuid.
ASSUME DescriptorAssumption ==
    \A t \in AddonTraces : \A j \in 1 .. Len(t) :
        t[j].owned => t[j].uuid # Absent

\* An idealisation of GenUuidv4Lsb, whose bits come from a minstd_rand seeded
\* by the clock: it repeats neither itself nor an uuid of the traces, and 0 is
\* not one of its values.
ASSUME FreshAssumption ==
    /\ FreshUuids \subseteq Nat \ {0}
    /\ \A t \in MainTraces \cup AddonTraces : \A j \in 1 .. Len(t) :
          Uuids(t[j]) \cap FreshUuids = {}

VARIABLES
    main, addon,   \* the traces
    input,         \* the addon trace as it was passed (history)
    parses,        \* whether ParseFromString accepts the traces
    mainTimeDiff,
    pass,          \* the loop that is running
    i,             \* its index
    max,           \* the maxMain... variables
    uuidMap,       \* of iterateTraceIds
    combined       \* the result

vars == <<main, addon, input, parses, mainTimeDiff, pass, i, max, uuidMap,
          combined>>

MaxIds == [uid : Nat, seq : Nat, pid : Nat, tid : Nat, cpu : Nat]

TypeOK ==
    /\ main \in Seq(Packet)
    /\ addon \in Seq(Packet)
    /\ input \in Seq(Packet) /\ Len(input) = Len(addon)
    /\ parses \in [main : BOOLEAN, addon : BOOLEAN]
    /\ mainTimeDiff \in Int
    /\ pass \in {"max", "clear", "shift", "ids", "uuids", "cat", "done",
                "failed"}
    /\ i \in Nat \ {0}
    /\ max \in MaxIds
    /\ DOMAIN uuidMap \subseteq Opt
    /\ \A u \in DOMAIN uuidMap : uuidMap[u] \in FreshUuids
    /\ combined \in Seq(Packet)

Init ==
    /\ main \in MainTraces
    /\ addon \in AddonTraces
    /\ input = addon
    /\ parses \in [main : BOOLEAN, addon : BOOLEAN]
    /\ mainTimeDiff \in TimeDiffs
    /\ pass = "max"
    /\ i = 1
    /\ max = [uid |-> 0, seq |-> 0, pid |-> 0, tid |-> 0, cpu |-> 0]
    /\ uuidMap = [u \in {} |-> 0]
    /\ combined = <<>>

Larger(m, x) == IF x > m THEN x ELSE m

-----------------------------------------------------------------------------
(***************************************************************************)
(* sCalcMaxIds on the main trace                                           *)
(***************************************************************************)

MaxSeen == [uid |-> Larger(max.uid, main[i].uid),
            seq |-> Larger(max.seq, main[i].seq),
            pid |-> Larger(max.pid, main[i].pid),
            tid |-> Larger(max.tid, main[i].tid),
            cpu |-> Larger(max.cpu, main[i].cpu)]

CalcMax ==
    /\ pass = "max"
    /\ parses.main
    /\ i <= Len(main)
    /\ max' = MaxSeen
    /\ i' = i + 1
    /\ UNCHANGED <<main, addon, input, parses, mainTimeDiff, pass, uuidMap,
                   combined>>

\* Mutant: nothing is returned if the main trace cannot be parsed.
ParseAddonOrNothing ==
    /\ pass = "max"
    /\ parses.main => i > Len(main)
    /\ pass' = IF parses.addon /\ parses.main THEN "clear" ELSE "failed"
    /\ i' = 1
    /\ UNCHANGED <<main, addon, input, parses, mainTimeDiff, max, uuidMap,
                   combined>>

\* The maxima are 0 if the main trace cannot be parsed, and nothing is
\* returned if the addon trace cannot.
ParseAddon ==
    /\ pass = "max"
    /\ parses.main => i > Len(main)
    /\ pass' = IF parses.addon THEN "clear" ELSE "failed"
    /\ i' = 1
    /\ UNCHANGED <<main, addon, input, parses, mainTimeDiff, max, uuidMap,
                   combined>>

-----------------------------------------------------------------------------
(***************************************************************************)
(* The loops over the packets of the addon trace                           *)
(***************************************************************************)

\* mutateTracePackets: "clear_clock_snapshot", "clear_service_event".
ClearSnapshots ==
    /\ pass = "clear"
    /\ addon' = [j \in 1 .. Len(addon) |-> [addon[j] EXCEPT !.clock = FALSE]]
    /\ pass' = "shift"
    /\ UNCHANGED <<main, input, parses, mainTimeDiff, i, max, uuidMap, combined>>

\* Mutant: timestamps are signed.
ShiftedTimeSigned(ts) == IF ts = Absent THEN ts ELSE ts + mainTimeDiff

\* iterateTraceTimestamps: ts + mainTimeDiff on uint64_t.
ShiftedTime(ts) == IF ts = Absent THEN ts ELSE (ts + mainTimeDiff) % TimeMod

ShiftTimestamps ==
    /\ pass = "shift"
    /\ addon' = [j \in 1 .. Len(addon) |->
                    [addon[j] EXCEPT !.ts = ShiftedTime(@)]]
    /\ pass' = "ids"
    /\ UNCHANGED <<main, input, parses, mainTimeDiff, i, max, uuidMap, combined>>

\* The functions constructCombinedTrace passes to iterateTraceIds.
Shifted(id, by) == IF id = Absent THEN id ELSE id + by
ShiftedUnless0(id, by) == IF id \in {0, Absent} THEN id ELSE id + by

\* Mutant: cpus are shifted like the other ids, although they start at 0.
ShiftIdsSameCpu(p) ==
    [p EXCEPT !.uid = Shifted(@, max.uid),
              !.seq = Shifted(@, max.seq),
              !.cpu = Shifted(@, max.cpu),
              !.pid = ShiftedUnless0(@, max.pid),
              !.tid = ShiftedUnless0(@, max.tid)]

\* The tid of a thread descriptor is neither scanned above nor shifted here.
ShiftIds(p) ==
    [p EXCEPT !.uid = Shifted(@, max.uid),
              !.seq = Shifted(@, max.seq),
              !.cpu = Shifted(@, max.cpu + 1),
              !.pid = ShiftedUnless0(@, max.pid),
              !.tid = ShiftedUnless0(@, max.tid)]

\* transformPidWithUuidRemapTracking: the track of a process or a thread
\* needs a new uuid if its pid changes and it has none yet.
NeedsUuid(p) == p.owned /\ ShiftIds(p).pid # p.pid /\ p.uuid \notin DOMAIN uuidMap

\* iterateTraceIds, one packet.
MapIds ==
    /\ pass = "ids"
    /\ i <= Len(addon)
    /\ addon' = [addon EXCEPT ![i] = ShiftIds(addon[i])]
    /\ IF NeedsUuid(addon[i])
       THEN \E new \in FreshUuids :
               /\ \A u \in DOMAIN uuidMap : uuidMap[u] # new
               /\ uuidMap' = [u \in DOMAIN uuidMap \cup {addon[i].uuid} |->
                                 IF u = addon[i].uuid THEN new ELSE uuidMap[u]]
       ELSE UNCHANGED uuidMap
    /\ i' = i + 1
    /\ UNCHANGED <<main, input, parses, mainTimeDiff, pass, max, combined>>

\* needRemapUuids
EndMapIds ==
    /\ pass = "ids"
    /\ i > Len(addon)
    /\ pass' = IF DOMAIN uuidMap = {} THEN "cat" ELSE "uuids"
    /\ UNCHANGED <<main, addon, input, parses, mainTimeDiff, i, max, uuidMap,
                   combined>>

\* uuidMap[uuid] adds a 0 for an uuid that is not in the map.
NewUuid(u) == IF u = Absent THEN u
              ELSE IF u \in DOMAIN uuidMap THEN uuidMap[u] ELSE 0

\* Mutant: the track events keep their tracks.
RemapDescriptors ==
    /\ pass = "uuids"
    /\ addon' = [j \in 1 .. Len(addon) |->
                    [addon[j] EXCEPT !.uuid = NewUuid(@),
                                     !.parent = NewUuid(@)]]
    /\ pass' = "cat"
    /\ UNCHANGED <<main, input, parses, mainTimeDiff, i, max, uuidMap, combined>>

\* iterateTraceTrackDescriptorUuids
RemapUuids ==
    /\ pass = "uuids"
    /\ addon' = [j \in 1 .. Len(addon) |->
                    [addon[j] EXCEPT !.uuid = NewUuid(@),
                                     !.parent = NewUuid(@),
                                     !.event = NewUuid(@)]]
    /\ pass' = "cat"
    /\ UNCHANGED <<main, input, parses, mainTimeDiff, i, max, uuidMap, combined>>

Concatenate ==
    /\ pass = "cat"
    /\ combined' = main \o addon
    /\ pass' = "done"
    /\ UNCHANGED <<main, addon, input, parses, mainTimeDiff, i, max, uuidMap>>

Next == \/ CalcMax \/ ParseAddon \/ ClearSnapshots \/ ShiftTimestamps
        \/ MapIds \/ EndMapIds \/ RemapUuids \/ Concatenate

Spec == Init /\ [][Next]_vars

\* The merge is a loop of one thread.
FairSpec == Spec /\ WF_vars(Next)

-----------------------------------------------------------------------------
Merged == pass = "done" /\ parses.main

FromMain(j) == combined[j]
FromAddon(k) == combined[Len(main) + k]

Differ(x, y) == x = Absent \/ x # y

\* "offseting by main max seqid, max pid": no packet of the addon trace ends on
\* a sequence, on a cpu or in a process of the main trace, and no thread of its
\* process tree on the tid of one of the main's (pid and tid 0 are the idle
\* task of both); and the addon's own sequences, cpus, processes and threads
\* stay as distinct as they were.  Each kind of id is compared with its own kind
\* only: the tid of a thread descriptor is not shifted, and the pids of ftrace
\* events, which are thread ids, are shifted by the largest pid, so that either
\* may be the tid of a thread of the main trace.
IdsDisjoint ==
    Merged => \A k \in 1 .. Len(input) :
        /\ \A j \in 1 .. Len(main) :
              LET m == FromMain(j)  a == FromAddon(k)
              IN  /\ Differ(a.seq, m.seq)
                  /\ Differ(a.cpu, m.cpu)
                  /\ a.pid # 0 => Differ(a.pid, m.pid)
                  /\ a.tid # 0 => Differ(a.tid, m.tid)
        /\ \A l \in 1 .. Len(input) :
              LET a == FromAddon(k)  b == FromAddon(l)
              IN  /\ a.seq = b.seq <=> input[k].seq = input[l].seq
                  /\ a.cpu = b.cpu <=> input[k].cpu = input[l].cpu
                  /\ a.pid = b.pid <=> input[k].pid = input[l].pid
                  /\ a.tid = b.tid <=> input[k].tid = input[l].tid
                  /\ a.dtid = b.dtid <=> input[k].dtid = input[l].dtid

\* The addon's packet k describes a track whose process or thread is given
\* another pid.
Moved(k) == input[k].owned /\ input[k].pid > 0 /\ max.pid > 0

\* The addon's packet k refers to the tracks it referred to before.
SameTracks(k) ==
    /\ FromAddon(k).uuid = input[k].uuid
    /\ FromAddon(k).parent = input[k].parent
    /\ FromAddon(k).event = input[k].event

\* "This also takes care of changing UUIDs if a process or thread descriptor
\* gets its id modified": the tracks of such descriptors stay apart, from each
\* other and from those of the main trace, and what referred to one of them,
\* an event or another descriptor, before or after it in the trace, still does.
\* Without such a descriptor all tracks stay as they are.
TracksFollow ==
    Merged =>
        /\ (\A k \in 1 .. Len(input) : ~Moved(k)) =>
              \A k \in 1 .. Len(input) : SameTracks(k)
        /\ \A k \in 1 .. Len(input) : Moved(k) =>
              /\ \A j \in 1 .. Len(main) :
                    FromAddon(k).uuid \notin Uuids(FromMain(j))
              /\ \A l \in 1 .. Len(input) :
                    /\ Moved(l) =>
                          (FromAddon(l).uuid = FromAddon(k).uuid
                              <=> input[l].uuid = input[k].uuid)
                    /\ input[l].event = input[k].uuid =>
                          FromAddon(l).event = FromAddon(k).uuid
                    /\ input[l].parent = input[k].uuid =>
                          FromAddon(l).parent = FromAddon(k).uuid

\* The merge ends, with all packets of both traces unless the addon trace
\* cannot be parsed.
MergeEnds ==
    <>IF parses.addon THEN pass = "done" /\ Len(combined) = Len(main) + Len(input)
                      ELSE pass = "failed"
=============================================================================
