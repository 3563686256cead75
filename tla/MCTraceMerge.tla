----------------------------- MODULE MCTraceMerge -----------------------------
(***************************************************************************)
(* Instances of TraceMerge for TLC: traces of up to two and three packets  *)
(* of the kinds that the merge treats differently.                         *)
(***************************************************************************)
EXTENDS TraceMerge

Blank == [uid |-> Absent, seq |-> Absent, ts |-> Absent, cpu |-> Absent,
          pid |-> Absent, tid |-> Absent, dtid |-> Absent, uuid |-> Absent,
          parent |-> Absent, event |-> Absent, owned |-> FALSE, clock |-> FALSE]

ProcessTrack(u, p) ==
    [Blank EXCEPT !.seq = 1, !.uuid = u, !.owned = TRUE, !.pid = p]
ThreadTrack(u, p, t) == [ProcessTrack(u, p) EXCEPT !.dtid = t]
PlainTrack(u, p) == [Blank EXCEPT !.seq = 1, !.uuid = u, !.parent = p]
Event(u) == [Blank EXCEPT !.seq = 2, !.ts = 3, !.event = u]
Ftrace(c, p) == [Blank EXCEPT !.uid = 1, !.cpu = c, !.pid = p, !.ts = 1]
Thread(p, t) == [Blank EXCEPT !.seq = 1, !.pid = p, !.tid = t]
Snapshot == [Blank EXCEPT !.ts = 2, !.clock = TRUE]

MainPackets == {ProcessTrack(5, 1), ThreadTrack(6, 2, 4), Ftrace(0, 2),
                Thread(2, 2), Thread(2, 3)}
AddonPackets == MainPackets \cup {PlainTrack(7, 5), PlainTrack(8, 5), Event(5),
                                  Event(7), Snapshot}

MCMainTraces == UNION {[1 .. n -> MainPackets] : n \in 0 .. 2}
MCAddonTraces == UNION {[1 .. n -> AddonPackets] : n \in 0 .. 3}
MCTimeDiffs == {-3}
=============================================================================
