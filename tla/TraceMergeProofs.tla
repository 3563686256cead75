--------------------------- MODULE TraceMergeProofs ---------------------------
(***************************************************************************)
(* What the merge does with the ids and the tracks of two traces, for all  *)
(* traces, time differences and new uuids.                                 *)
(***************************************************************************)
EXTENDS TraceMerge, SequenceTheorems, TLAPS

\* The inputs are what they were.
InputInv ==
    /\ main \in MainTraces
    /\ input \in AddonTraces

\* The maxima bound the ids of the main packets seen so far.
MaxInv ==
    parses.main =>
        \A j \in 1 .. Len(main) : pass # "max" \/ j < i =>
            /\ main[j].seq <= max.seq
            /\ main[j].cpu <= max.cpu
            /\ main[j].pid <= max.pid
            /\ main[j].tid <= max.tid

\* Packet k of the addon trace has its new ids.
Renumbered(k) == pass \in {"uuids", "cat", "done"} \/ (pass = "ids" /\ k < i)
Before(k) ==
    /\ addon[k].seq = input[k].seq
    /\ addon[k].cpu = input[k].cpu
    /\ addon[k].pid = input[k].pid
    /\ addon[k].tid = input[k].tid
    /\ addon[k].dtid = input[k].dtid
After(k) ==
    /\ addon[k].seq = Shifted(input[k].seq, max.seq)
    /\ addon[k].cpu = Shifted(input[k].cpu, max.cpu + 1)
    /\ addon[k].pid = ShiftedUnless0(input[k].pid, max.pid)
    /\ addon[k].tid = ShiftedUnless0(input[k].tid, max.tid)
    /\ addon[k].dtid = input[k].dtid
IdInv ==
    \A k \in 1 .. Len(input) :
        (Renumbered(k) => After(k)) /\ (~Renumbered(k) => Before(k))

\* The tracks of the addon trace have their new uuids.
Remapped == pass \in {"cat", "done"} /\ DOMAIN uuidMap # {}
Kept(k) ==
    /\ addon[k].uuid = input[k].uuid
    /\ addon[k].parent = input[k].parent
    /\ addon[k].event = input[k].event
Replaced(k) ==
    /\ addon[k].uuid = NewUuid(input[k].uuid)
    /\ addon[k].parent = NewUuid(input[k].parent)
    /\ addon[k].event = NewUuid(input[k].event)
TrackInv ==
    \A k \in 1 .. Len(input) :
        /\ addon[k].owned = input[k].owned
        /\ (Remapped => Replaced(k)) /\ (~Remapped => Kept(k))

\* The map has a new uuid for every track that needs one.
MapInv ==
    /\ pass = "uuids" => DOMAIN uuidMap # {}
    /\ \A u, v \in DOMAIN uuidMap : uuidMap[u] = uuidMap[v] => u = v
    /\ \A k \in 1 .. Len(input) :
          Renumbered(k) /\ Moved(k) => input[k].uuid \in DOMAIN uuidMap

\* The loops start at the first packet, and the result is both traces.
LoopInv == pass \in {"clear", "shift"} => i = 1
DoneInv == pass = "done" => combined = main \o addon

Inv == TypeOK /\ InputInv /\ MaxInv /\ IdInv /\ TrackInv /\ MapInv
       /\ LoopInv /\ DoneInv

-----------------------------------------------------------------------------
\* A function on 1 .. n is a sequence of length n.
LEMMA FunctionIsSeq ==
    ASSUME NEW S, NEW n \in Nat, NEW f \in [1 .. n -> S]
    PROVE  f \in Seq(S) /\ Len(f) = n
  OBVIOUS

\* Larger is the maximum.
LEMMA LargerOfTwo ==
    ASSUME NEW m \in Nat, NEW x \in Int
    PROVE  Larger(m, x) \in Nat /\ Larger(m, x) >= m /\ x <= Larger(m, x)
  BY DEF Larger

\* Packet q differs from p in none of the fields the invariants are about.
SameIds(p, q) ==
    /\ q.seq = p.seq /\ q.cpu = p.cpu /\ q.pid = p.pid /\ q.tid = p.tid
    /\ q.dtid = p.dtid
    /\ q.uuid = p.uuid /\ q.parent = p.parent /\ q.event = p.event
    /\ q.owned = p.owned

\* A packet whose snapshot is cleared, or whose timestamp is replaced, is a
\* packet with the same ids and tracks.
LEMMA ClockCleared ==
    ASSUME NEW p \in Packet, NEW q, q = [p EXCEPT !.clock = FALSE]
    PROVE  q \in Packet /\ SameIds(p, q)
<1>1. q \in Packet
  BY DEF Packet
<1>2. /\ q.seq = p.seq /\ q.cpu = p.cpu /\ q.pid = p.pid /\ q.tid = p.tid
      /\ q.dtid = p.dtid
  BY DEF Packet
<1>3. q.uuid = p.uuid /\ q.parent = p.parent /\ q.event = p.event
  BY DEF Packet
<1>4. q.owned = p.owned
  BY DEF Packet
<1> QED
  BY <1>1, <1>2, <1>3, <1>4 DEF SameIds

\* A packet with another timestamp is a packet with the same ids.
LEMMA TimeReplaced ==
    ASSUME NEW p \in Packet, NEW t \in Opt, NEW q, q = [p EXCEPT !.ts = t]
    PROVE  q \in Packet /\ SameIds(p, q)
<1>1. q \in Packet
  BY DEF Packet
<1>2. /\ q.seq = p.seq /\ q.cpu = p.cpu /\ q.pid = p.pid /\ q.tid = p.tid
      /\ q.dtid = p.dtid
  BY DEF Packet
<1>3. q.uuid = p.uuid /\ q.parent = p.parent /\ q.event = p.event
  BY DEF Packet
<1>4. q.owned = p.owned
  BY DEF Packet
<1> QED
  BY <1>1, <1>2, <1>3, <1>4 DEF SameIds

\* What iterateTraceIds does to a packet.
LEMMA IdsShifted ==
    ASSUME NEW p \in Packet, max \in MaxIds, NEW q, q = ShiftIds(p)
    PROVE  /\ q \in Packet
           /\ q.seq = Shifted(p.seq, max.seq)
           /\ q.cpu = Shifted(p.cpu, max.cpu + 1)
           /\ q.pid = ShiftedUnless0(p.pid, max.pid)
           /\ q.tid = ShiftedUnless0(p.tid, max.tid)
           /\ q.dtid = p.dtid
           /\ q.uuid = p.uuid /\ q.parent = p.parent /\ q.event = p.event
           /\ q.owned = p.owned
<1> DEFINE uid == Shifted(p.uid, max.uid)
           seq == Shifted(p.seq, max.seq)
           cpu == Shifted(p.cpu, max.cpu + 1)
           pid == ShiftedUnless0(p.pid, max.pid)
           tid == ShiftedUnless0(p.tid, max.tid)
<1>1. /\ uid \in Opt /\ seq \in Opt \ {0} /\ cpu \in Opt /\ pid \in Opt
      /\ tid \in Opt
  <2>1. /\ max.uid \in Nat /\ max.seq \in Nat /\ max.cpu \in Nat
        /\ max.pid \in Nat /\ max.tid \in Nat
    BY DEF MaxIds
  <2>2. /\ p.uid \in Opt /\ p.seq \in Opt \ {0} /\ p.cpu \in Opt
        /\ p.pid \in Opt /\ p.tid \in Opt
    BY DEF Packet
  <2>3. \A x \in Opt, y \in Nat : Shifted(x, y) \in Opt
    BY DEF Shifted, Opt, Absent
  <2>4. \A x \in Opt, y \in Nat : ShiftedUnless0(x, y) \in Opt
    BY DEF ShiftedUnless0, Opt, Absent
  <2>5. seq # 0
    BY <2>1, <2>2 DEF Shifted, Opt, Absent
  <2>6. max.cpu + 1 \in Nat
    BY <2>1
  <2> QED
    BY <2>1, <2>2, <2>3, <2>4, <2>5, <2>6
<1>2. q = [p EXCEPT !.uid = uid, !.seq = seq, !.cpu = cpu, !.pid = pid,
                    !.tid = tid]
  BY DEF ShiftIds
<1> HIDE DEF uid, seq, cpu, pid, tid
<1>3. q \in Packet
  BY <1>1, <1>2 DEF Packet
<1>4. /\ q.seq = seq /\ q.cpu = cpu /\ q.pid = pid /\ q.tid = tid
      /\ q.dtid = p.dtid
  BY <1>2 DEF Packet
<1>5. q.uuid = p.uuid /\ q.parent = p.parent /\ q.event = p.event
  BY <1>2 DEF Packet
<1>6. q.owned = p.owned
  BY <1>2 DEF Packet
<1> QED
  BY <1>3, <1>4, <1>5, <1>6 DEF seq, cpu, pid, tid

\* What iterateTraceTrackDescriptorUuids does to a packet.
NewTracks(p, q, a, b, c) ==
    /\ q.seq = p.seq /\ q.cpu = p.cpu /\ q.pid = p.pid /\ q.tid = p.tid
    /\ q.dtid = p.dtid
    /\ q.owned = p.owned
    /\ q.uuid = a /\ q.parent = b /\ q.event = c

WithUuids(p, a, b, c) == [p EXCEPT !.uuid = a, !.parent = b, !.event = c]

\* A packet with other uuids is a packet with the same other ids.
LEMMA UuidsReplaced ==
    ASSUME NEW p \in Packet, NEW a \in Opt, NEW b \in Opt, NEW c \in Opt,
           NEW q, q = WithUuids(p, a, b, c)
    PROVE  q \in Packet /\ NewTracks(p, q, a, b, c)
<1>1. q \in Packet
  BY DEF Packet, WithUuids
<1>2. /\ q.seq = p.seq /\ q.cpu = p.cpu /\ q.pid = p.pid /\ q.tid = p.tid
      /\ q.dtid = p.dtid
  BY DEF Packet, WithUuids
<1>3. q.uuid = a /\ q.parent = b /\ q.event = c
  BY DEF Packet, WithUuids
<1>4. q.owned = p.owned
  BY DEF Packet, WithUuids
<1> QED
  BY <1>1, <1>2, <1>3, <1>4 DEF NewTracks

\* The initial states satisfy the invariant.
LEMMA InitInv == Init => Inv
<1> SUFFICES ASSUME Init PROVE Inv
  OBVIOUS
<1>1. TypeOK
  BY TracesAssumption DEF Init, TypeOK, MaxIds
<1>2. InputInv /\ MaxInv /\ IdInv /\ TrackInv /\ MapInv
       /\ LoopInv /\ DoneInv
  BY <1>1 DEF Init, InputInv, MaxInv, IdInv, Renumbered, Before, TrackInv,
     Remapped, Kept, MapInv, LoopInv, DoneInv, TypeOK
<1> QED
  BY <1>1, <1>2 DEF Inv

-----------------------------------------------------------------------------
(***************************************************************************)
(* Preservation, action by action                                          *)
(***************************************************************************)

\* sCalcMaxIds, one packet: the maxima bound the packets seen.
LEMMA CalcMaxInv == Inv /\ CalcMax => Inv'
<1> SUFFICES ASSUME Inv, CalcMax PROVE Inv'
  OBVIOUS
<1> USE DEF Inv
<1>1. main[i] \in Packet /\ i \in 1 .. Len(main)
  BY ElementOfSeq DEF TypeOK, CalcMax
<1>2. /\ main[i].uid \in Int /\ main[i].seq \in Int /\ main[i].pid \in Int
      /\ main[i].tid \in Int /\ main[i].cpu \in Int
  BY <1>1 DEF Packet, Opt, Absent
<1>3. max' \in MaxIds /\ max'.seq >= max.seq /\ max'.cpu >= max.cpu
      /\ max'.pid >= max.pid /\ max'.tid >= max.tid
      /\ main[i].seq <= max'.seq /\ main[i].cpu <= max'.cpu
      /\ main[i].pid <= max'.pid /\ main[i].tid <= max'.tid
  <2>1. /\ max.uid \in Nat /\ max.seq \in Nat /\ max.pid \in Nat
        /\ max.tid \in Nat /\ max.cpu \in Nat
    BY DEF TypeOK, MaxIds
  <2>2. /\ max'.uid = Larger(max.uid, main[i].uid)
        /\ max'.seq = Larger(max.seq, main[i].seq)
        /\ max'.pid = Larger(max.pid, main[i].pid)
        /\ max'.tid = Larger(max.tid, main[i].tid)
        /\ max'.cpu = Larger(max.cpu, main[i].cpu)
    BY DEF CalcMax, MaxSeen
  <2>3. /\ max'.uid \in Nat /\ max'.seq \in Nat /\ max'.pid \in Nat
        /\ max'.tid \in Nat /\ max'.cpu \in Nat
    BY <1>2, <2>1, <2>2, LargerOfTwo
  <2>4. max' \in MaxIds
    BY <2>2, <2>3 DEF CalcMax, MaxSeen, MaxIds
  <2> QED
    BY <1>2, <2>1, <2>2, <2>4, LargerOfTwo
<1>4. TypeOK'
  BY <1>3 DEF CalcMax, TypeOK
<1>5. MaxInv'
  <2> SUFFICES ASSUME parses.main, NEW j \in 1 .. Len(main), j < i'
               PROVE  /\ main[j].seq <= max'.seq
                      /\ main[j].cpu <= max'.cpu
                      /\ main[j].pid <= max'.pid
                      /\ main[j].tid <= max'.tid
    BY DEF CalcMax, MaxInv
  <2>1. CASE j = i
    BY <2>1, <1>3
  <2>2. CASE j # i
    <3>1. j < i
      BY <2>2 DEF CalcMax, TypeOK
    <3>2. main[j] \in Packet
      BY ElementOfSeq DEF TypeOK
    <3>3. main[j].seq \in Int /\ main[j].cpu \in Int /\ main[j].pid \in Int
          /\ main[j].tid \in Int
      BY <3>2 DEF Packet, Opt, Absent
    <3>4. /\ max.seq \in Int /\ max.cpu \in Int /\ max.pid \in Int
          /\ max.tid \in Int /\ max'.seq \in Int /\ max'.cpu \in Int
          /\ max'.pid \in Int /\ max'.tid \in Int
      BY <1>3 DEF TypeOK, MaxIds
    <3>5. /\ main[j].seq <= max.seq
          /\ main[j].cpu <= max.cpu
          /\ main[j].pid <= max.pid
          /\ main[j].tid <= max.tid
      BY <3>1 DEF MaxInv
    <3>6. main[j].seq <= max'.seq
      BY <3>3, <3>4, <3>5, <1>3
    <3>7. main[j].cpu <= max'.cpu
      BY <3>3, <3>4, <3>5, <1>3
    <3>8. main[j].pid <= max'.pid
      BY <3>3, <3>4, <3>5, <1>3
    <3>9. main[j].tid <= max'.tid
      BY <3>3, <3>4, <3>5, <1>3
    <3> QED
      BY <3>6, <3>7, <3>8, <3>9
  <2> QED
    BY <2>1, <2>2
<1>6. InputInv' /\ IdInv' /\ TrackInv' /\ MapInv' /\ LoopInv' /\ DoneInv'
  BY DEF CalcMax, InputInv, IdInv, Renumbered, Before, TrackInv, Remapped,
     Kept, MapInv, LoopInv, DoneInv
<1> QED
  BY <1>4, <1>5, <1>6

\* The addon trace is parsed.
LEMMA ParseAddonInv == Inv /\ ParseAddon => Inv'
<1> SUFFICES ASSUME Inv, ParseAddon PROVE Inv'
  OBVIOUS
<1> USE DEF Inv
<1>1. TypeOK'
  BY DEF ParseAddon, TypeOK
<1>2. MaxInv'
  BY DEF ParseAddon, MaxInv, TypeOK
<1>3. InputInv' /\ IdInv' /\ TrackInv' /\ MapInv' /\ LoopInv' /\ DoneInv'
  BY DEF ParseAddon, InputInv, IdInv, Renumbered, Before, TrackInv, Remapped,
     Kept, MapInv, LoopInv, DoneInv
<1> QED
  BY <1>1, <1>2, <1>3

\* The clock snapshots of the addon trace are cleared.
LEMMA ClearSnapshotsInv == Inv /\ ClearSnapshots => Inv'
<1> SUFFICES ASSUME Inv, ClearSnapshots PROVE Inv'
  OBVIOUS
<1> USE DEF Inv
<1>1. \A j \in 1 .. Len(addon) : addon'[j] = [addon[j] EXCEPT !.clock = FALSE]
  BY DEF ClearSnapshots
<1>2. \A j \in 1 .. Len(addon) : addon[j] \in Packet
  BY ElementOfSeq DEF TypeOK
<1>3. \A j \in 1 .. Len(addon) :
        addon'[j] \in Packet /\ SameIds(addon[j], addon'[j])
  BY <1>1, <1>2, ClockCleared
<1>4. addon' \in Seq(Packet) /\ Len(addon') = Len(addon)
  <2>1. Len(addon) \in Nat /\ addon' \in [1 .. Len(addon) -> Packet]
    BY <1>3 DEF ClearSnapshots, TypeOK
  <2> QED
    BY <2>1, FunctionIsSeq
<1>5. TypeOK'
  BY <1>4 DEF ClearSnapshots, TypeOK
<1>6. MaxInv' /\ InputInv' /\ MapInv' /\ LoopInv' /\ DoneInv'
  BY DEF ClearSnapshots, MaxInv, InputInv, MapInv, Renumbered, Moved, LoopInv, DoneInv
<1>7. IdInv' /\ TrackInv'
  BY <1>3 DEF SameIds, ClearSnapshots, TypeOK, IdInv, Renumbered, Before, TrackInv,
     Remapped, Kept
<1> QED
  BY <1>5, <1>6, <1>7

\* iterateTraceTimestamps
LEMMA ShiftTimestampsInv == Inv /\ ShiftTimestamps => Inv'
<1> SUFFICES ASSUME Inv, ShiftTimestamps PROVE Inv'
  OBVIOUS
<1> USE DEF Inv
<1>1. \A j \in 1 .. Len(addon) :
        addon'[j] = [addon[j] EXCEPT !.ts = ShiftedTime(addon[j].ts)]
  BY DEF ShiftTimestamps
<1>2. \A j \in 1 .. Len(addon) : addon[j] \in Packet
  BY ElementOfSeq DEF TypeOK
<1>3. \A ts \in Opt : ShiftedTime(ts) \in Opt
  BY TracesAssumption DEF ShiftedTime, Opt, Absent, TypeOK
<1>4. \A j \in 1 .. Len(addon) : ShiftedTime(addon[j].ts) \in Opt
  BY <1>2, <1>3 DEF Packet
<1>5. \A j \in 1 .. Len(addon) :
        addon'[j] \in Packet /\ SameIds(addon[j], addon'[j])
  BY <1>1, <1>2, <1>4, TimeReplaced
<1>6. addon' \in Seq(Packet) /\ Len(addon') = Len(addon)
  <2>1. Len(addon) \in Nat /\ addon' \in [1 .. Len(addon) -> Packet]
    BY <1>5 DEF ShiftTimestamps, TypeOK
  <2> QED
    BY <2>1, FunctionIsSeq
<1>7. TypeOK'
  BY <1>6 DEF ShiftTimestamps, TypeOK
<1>8. MaxInv' /\ InputInv' /\ LoopInv' /\ DoneInv'
  BY DEF ShiftTimestamps, MaxInv, InputInv, LoopInv, DoneInv
<1>9. \A k \in 1 .. Len(input) : ~Renumbered(k)' /\ ~Renumbered(k)
  BY DEF ShiftTimestamps, Renumbered, TypeOK, LoopInv
<1>10. IdInv' /\ TrackInv' /\ MapInv'
  BY <1>5, <1>9 DEF SameIds, ShiftTimestamps, TypeOK, IdInv, Before, TrackInv,
     Remapped, Kept, MapInv
<1> QED
  BY <1>7, <1>8, <1>10

\* iterateTraceIds, one packet: its ids are shifted, and its uuid is mapped if
\* its pid moves.
LEMMA MapIdsInv == Inv /\ MapIds => Inv'
<1> SUFFICES ASSUME Inv, MapIds PROVE Inv'
  OBVIOUS
<1> USE DEF Inv
<1>0. PICK n \in 1 .. Len(addon) : n = i
  BY DEF TypeOK, MapIds
<1> DEFINE q == ShiftIds(addon[n])
<1>1. Len(input) = Len(addon)
  BY DEF TypeOK
<1>2. addon[n] \in Packet /\ max \in MaxIds
  BY ElementOfSeq DEF TypeOK
<1>3. /\ q \in Packet
      /\ q.seq = Shifted(addon[n].seq, max.seq)
      /\ q.cpu = Shifted(addon[n].cpu, max.cpu + 1)
      /\ q.pid = ShiftedUnless0(addon[n].pid, max.pid)
      /\ q.tid = ShiftedUnless0(addon[n].tid, max.tid)
      /\ q.dtid = addon[n].dtid
      /\ q.uuid = addon[n].uuid /\ q.parent = addon[n].parent
      /\ q.event = addon[n].event /\ q.owned = addon[n].owned
  BY <1>2, IdsShifted
<1>4. addon' = [addon EXCEPT ![n] = q]
  BY <1>0 DEF MapIds
<1> HIDE DEF q
<1>5. /\ addon' \in Seq(Packet) /\ Len(addon') = Len(addon)
      /\ addon'[n] = q
      /\ \A j \in 1 .. Len(addon) : j # n => addon'[j] = addon[j]
  BY <1>3, <1>4, ExceptSeq DEF TypeOK
<1>6. /\ ~Renumbered(n)
      /\ Renumbered(n)'
      /\ \A k \in 1 .. Len(input) : k # n => (Renumbered(k)' <=> Renumbered(k))
  BY <1>0, <1>1 DEF Renumbered, MapIds, TypeOK
<1>7. Before(n) /\ Kept(n) /\ addon[n].owned = input[n].owned
  BY <1>1, <1>6 DEF IdInv, TrackInv, Remapped, MapIds
<1>8. IdInv'
  <2>1. After(n)'
    BY <1>3, <1>5, <1>7 DEF After, Before, MapIds
  <2>2. \A k \in 1 .. Len(input) : k # n =>
            (After(k)' <=> After(k)) /\ (Before(k)' <=> Before(k))
    BY <1>1, <1>5 DEF After, Before, MapIds
  <2>3. Len(input') = Len(input)
    BY DEF MapIds
  <2> QED
    BY <2>1, <2>2, <2>3, <1>6 DEF IdInv
<1>9. TrackInv'
  <2>1. Kept(n)' /\ addon'[n].owned = input'[n].owned
    BY <1>3, <1>5, <1>7 DEF Kept, MapIds
  <2>2. \A k \in 1 .. Len(input) : k # n =>
            (Kept(k)' <=> Kept(k)) /\ addon'[k] = addon[k]
    BY <1>1, <1>5 DEF Kept, MapIds
  <2>3. ~Remapped /\ ~Remapped' /\ input' = input
    BY DEF Remapped, MapIds
  <2> QED
    BY <2>1, <2>2, <2>3 DEF TrackInv
<1>10. InputInv' /\ MaxInv' /\ LoopInv' /\ DoneInv'
  BY DEF MapIds, InputInv, MaxInv, LoopInv, DoneInv
<1>11. Moved(n) => q.pid # addon[n].pid /\ addon[n].owned
  <2> SUFFICES ASSUME Moved(n) PROVE q.pid # addon[n].pid /\ addon[n].owned
    OBVIOUS
  <2>1. addon[n].owned /\ addon[n].pid > 0 /\ max.pid > 0
    BY <1>7 DEF Moved, Before
  <2>2. addon[n].pid \in Opt /\ max.pid \in Nat
    BY <1>2 DEF Packet, MaxIds
  <2> QED
    BY <2>1, <2>2, <1>3 DEF ShiftedUnless0, Opt, Absent
<1>12. \A k \in 1 .. Len(input) : Moved(k)' <=> Moved(k)
  BY DEF Moved, MapIds
<1>13. CASE ~NeedsUuid(addon[n])
  <2>1. UNCHANGED uuidMap
    BY <1>0, <1>13 DEF MapIds
  <2>2. TypeOK'
    BY <1>5, <2>1 DEF TypeOK, MapIds
  <2>3. Moved(n) => input[n].uuid \in DOMAIN uuidMap
    BY <1>7, <1>11, <1>13 DEF NeedsUuid, Kept, q
  <2>4. MapInv'
    BY <2>1, <2>3, <1>6, <1>12 DEF MapInv, MapIds
  <2> QED
    BY <2>2, <2>4, <1>8, <1>9, <1>10
<1>14. CASE NeedsUuid(addon[n])
  <2>1. addon[n].uuid \notin DOMAIN uuidMap /\ addon[n].uuid \in Opt
    BY <1>2, <1>14 DEF NeedsUuid, Packet
  <2>2. PICK new \in FreshUuids :
          /\ \A u \in DOMAIN uuidMap : uuidMap[u] # new
          /\ uuidMap' = [u \in DOMAIN uuidMap \cup {addon[n].uuid} |->
                            IF u = addon[n].uuid THEN new ELSE uuidMap[u]]
    BY <1>0, <1>14 DEF MapIds
  <2>3. /\ DOMAIN uuidMap' = DOMAIN uuidMap \cup {addon[n].uuid}
        /\ uuidMap'[addon[n].uuid] = new
        /\ \A u \in DOMAIN uuidMap : uuidMap'[u] = uuidMap[u]
    BY <2>1, <2>2
  <2>4. TypeOK'
    <3>1. DOMAIN uuidMap' \subseteq Opt
          /\ \A u \in DOMAIN uuidMap' : uuidMap'[u] \in FreshUuids
      BY <2>1, <2>3 DEF TypeOK
    <3> QED
      BY <1>5, <3>1 DEF TypeOK, MapIds
  <2>5. \A u, v \in DOMAIN uuidMap' : uuidMap'[u] = uuidMap'[v] => u = v
    BY <2>2, <2>3 DEF MapInv
  <2>6. input[n].uuid \in DOMAIN uuidMap'
    BY <2>3, <1>7 DEF Kept
  <2>7. pass' # "uuids" /\ input' = input
    BY DEF MapIds
  <2>8. ASSUME NEW k \in 1 .. Len(input), Renumbered(k)', Moved(k)'
        PROVE  input[k].uuid \in DOMAIN uuidMap'
    BY <2>3, <2>6, <2>8, <1>6, <1>12 DEF MapInv
  <2>9. MapInv'
    BY <2>5, <2>7, <2>8 DEF MapInv
  <2> QED
    BY <2>4, <2>9, <1>8, <1>9, <1>10
<1> QED
  BY <1>13, <1>14

\* The end of the loop of iterateTraceIds.
LEMMA EndMapIdsInv == Inv /\ EndMapIds => Inv'
<1> SUFFICES ASSUME Inv, EndMapIds PROVE Inv'
  OBVIOUS
<1> USE DEF Inv
<1>1. TypeOK' /\ InputInv' /\ MaxInv' /\ LoopInv' /\ DoneInv'
  BY DEF EndMapIds, TypeOK, InputInv, MaxInv, LoopInv, DoneInv
<1>2. \A k \in 1 .. Len(input) : Renumbered(k) /\ Renumbered(k)'
  BY DEF EndMapIds, Renumbered, TypeOK
<1>3. IdInv'
  BY <1>2 DEF EndMapIds, IdInv, After
<1>4. ~Remapped /\ ~Remapped'
  BY DEF EndMapIds, Remapped
<1>5. TrackInv'
  BY <1>4 DEF EndMapIds, TrackInv, Kept
<1>6. MapInv'
  BY <1>2 DEF EndMapIds, MapInv, Moved
<1> QED
  BY <1>1, <1>3, <1>5, <1>6

\* iterateTraceTrackDescriptorUuids: every reference to a mapped uuid follows it.
LEMMA RemapUuidsInv == Inv /\ RemapUuids => Inv'
<1> SUFFICES ASSUME Inv, RemapUuids PROVE Inv'
  OBVIOUS
<1> USE DEF Inv
<1>1. \A j \in 1 .. Len(addon) :
        addon'[j] = [addon[j] EXCEPT !.uuid = NewUuid(addon[j].uuid),
                                     !.parent = NewUuid(addon[j].parent),
                                     !.event = NewUuid(addon[j].event)]
  BY DEF RemapUuids
<1>2. \A j \in 1 .. Len(addon) : addon[j] \in Packet
  BY ElementOfSeq DEF TypeOK
<1>3. \A u \in Opt : NewUuid(u) \in Opt
  BY FreshAssumption DEF NewUuid, Opt, Absent, TypeOK
<1>4. \A j \in 1 .. Len(addon) :
        /\ addon'[j] \in Packet
        /\ NewTracks(addon[j], addon'[j], NewUuid(addon[j].uuid),
                     NewUuid(addon[j].parent), NewUuid(addon[j].event))
  <2> TAKE j \in 1 .. Len(addon)
  <2>1. /\ NewUuid(addon[j].uuid) \in Opt
        /\ NewUuid(addon[j].parent) \in Opt
        /\ NewUuid(addon[j].event) \in Opt
    BY <1>2, <1>3 DEF Packet
  <2>2. PICK a \in Opt, b \in Opt, c \in Opt :
          /\ a = NewUuid(addon[j].uuid)
          /\ b = NewUuid(addon[j].parent)
          /\ c = NewUuid(addon[j].event)
    BY <2>1
  <2>3. addon[j] \in Packet
    BY <1>2
  <2>4. PICK p \in Packet : p = addon[j]
    BY <2>3
  <2>5. PICK q : q = addon'[j]
    OBVIOUS
  <2>6. q = WithUuids(p, a, b, c)
    BY <1>1, <2>2, <2>4, <2>5 DEF WithUuids
  <2>7. q \in Packet /\ NewTracks(p, q, a, b, c)
    BY <2>2, <2>4, <2>6, UuidsReplaced
  <2> QED
    BY <2>2, <2>4, <2>5, <2>7
<1>5. addon' \in Seq(Packet) /\ Len(addon') = Len(addon)
  <2>1. addon' = [j \in 1 .. Len(addon) |-> addon'[j]]
    BY DEF RemapUuids
  <2>2. Len(addon) \in Nat /\ addon' \in [1 .. Len(addon) -> Packet]
    BY <1>4, <2>1 DEF TypeOK
  <2> QED
    BY <2>2, FunctionIsSeq
<1>6. TypeOK'
  BY <1>5 DEF RemapUuids, TypeOK
<1>7. InputInv' /\ MaxInv' /\ MapInv' /\ LoopInv' /\ DoneInv'
  BY DEF RemapUuids, InputInv, MaxInv, MapInv, Renumbered, Moved, LoopInv,
     DoneInv
<1>8. Len(input) = Len(addon) /\ input' = input /\ max' = max
      /\ uuidMap' = uuidMap
  BY DEF RemapUuids, TypeOK
<1>9. IdInv'
  <2>1. \A k \in 1 .. Len(input) : Renumbered(k) /\ Renumbered(k)'
    BY DEF RemapUuids, Renumbered
  <2>2. \A k \in 1 .. Len(input) : After(k) => After(k)'
    BY <1>4, <1>8 DEF NewTracks, After
  <2> QED
    BY <2>1, <2>2, <1>8 DEF IdInv
<1>10. TrackInv'
  <2>1. Remapped' /\ ~Remapped
    BY DEF RemapUuids, Remapped, MapInv
  <2>2. \A k \in 1 .. Len(input) : Kept(k) => Replaced(k)'
    BY <1>4, <1>8 DEF NewTracks, Kept, Replaced, NewUuid
  <2> QED
    BY <2>1, <2>2, <1>4, <1>8 DEF TrackInv, NewTracks
<1> QED
  BY <1>6, <1>7, <1>9, <1>10

\* The two traces are concatenated.
LEMMA ConcatenateInv == Inv /\ Concatenate => Inv'
<1> SUFFICES ASSUME Inv, Concatenate PROVE Inv'
  OBVIOUS
<1> USE DEF Inv
<1>1. TypeOK'
  BY ConcatProperties DEF Concatenate, TypeOK
<1>2. InputInv' /\ MaxInv' /\ MapInv' /\ LoopInv' /\ DoneInv'
  BY DEF Concatenate, InputInv, MaxInv, MapInv, Renumbered, Moved, LoopInv,
     DoneInv
<1>3. IdInv'
  BY DEF Concatenate, IdInv, Renumbered, After
<1>4. TrackInv'
  BY DEF Concatenate, TrackInv, Remapped, Replaced, Kept, NewUuid
<1> QED
  BY <1>1, <1>2, <1>3, <1>4

\* Every step keeps the invariant.
LEMMA NextInv == Inv /\ [Next]_vars => Inv'
<1> SUFFICES ASSUME Inv, [Next]_vars PROVE Inv'
  OBVIOUS
<1>1. CASE UNCHANGED vars
  BY <1>1 DEF vars, Inv, TypeOK, InputInv, MaxInv, IdInv, Renumbered, Before,
     After, TrackInv, Remapped, Kept, Replaced, NewUuid, MapInv, Moved,
     LoopInv, DoneInv
<1> QED
  BY <1>1, CalcMaxInv, ParseAddonInv, ClearSnapshotsInv, ShiftTimestampsInv,
     MapIdsInv, EndMapIdsInv, RemapUuidsInv, ConcatenateInv DEF Next

\* Every reachable state satisfies the invariant.
THEOREM Invariance == Spec => []Inv
  BY InitInv, NextInv, PTL DEF Spec

\* The variables keep their types: in particular every packet that the passes
\* of constructCombinedTrace rewrite is a packet, for every pair of traces.
THEOREM TypeCorrect == Spec => []TypeOK
<1>1. Inv => TypeOK
  BY DEF Inv
<1> QED
  BY Invariance, <1>1, PTL

-----------------------------------------------------------------------------
\* The result holds the packets of both traces, the main one first.
LEMMA Halves ==
    ASSUME Inv, Merged
    PROVE  /\ \A j \in 1 .. Len(main) : FromMain(j) = main[j]
           /\ \A k \in 1 .. Len(input) : FromAddon(k) = addon[k]
<1>1. /\ main \in Seq(Packet) /\ addon \in Seq(Packet)
      /\ Len(input) = Len(addon) /\ combined = main \o addon
  BY DEF Inv, TypeOK, DoneInv, Merged
<1>2. \A n \in 1 .. Len(main) + Len(addon) :
        combined[n] = IF n <= Len(main) THEN main[n] ELSE addon[n - Len(main)]
  BY <1>1, ConcatProperties
<1>3. Len(main) \in Nat /\ Len(addon) \in Nat
  BY <1>1
<1>4. \A k \in 1 .. Len(addon) :
        /\ Len(main) + k \in 1 .. Len(main) + Len(addon)
        /\ ~(Len(main) + k <= Len(main))
        /\ (Len(main) + k) - Len(main) = k
  BY <1>3
<1>5. \A k \in 1 .. Len(addon) : combined[Len(main) + k] = addon[k]
  BY <1>2, <1>4
<1>6. \A j \in 1 .. Len(main) : combined[j] = main[j]
  BY <1>2, <1>3
<1> QED
  BY <1>1, <1>5, <1>6 DEF FromMain, FromAddon

\* An id that is shifted by a bound of the main ids is none of them.
LEMMA ShiftedAbove ==
    ASSUME NEW x \in Opt, NEW m \in Opt, NEW b \in Nat, m <= b
    PROVE  /\ x # 0 => Differ(Shifted(x, b), m)
           /\ Differ(Shifted(x, b + 1), m)
           /\ ShiftedUnless0(x, b) # 0 => Differ(ShiftedUnless0(x, b), m)
  BY DEF Opt, Absent, Shifted, ShiftedUnless0, Differ

\* Shifted ids are equal only if the ids were.
LEMMA ShiftedApart ==
    ASSUME NEW x \in Opt, NEW y \in Opt, NEW b \in Nat
    PROVE  /\ Shifted(x, b) = Shifted(y, b) <=> x = y
           /\ Shifted(x, b + 1) = Shifted(y, b + 1) <=> x = y
           /\ ShiftedUnless0(x, b) = ShiftedUnless0(y, b) <=> x = y
  BY DEF Opt, Absent, Shifted, ShiftedUnless0

\* The sequences, cpus and processes that constructCombinedTrace gives to the
\* packets of the addon trace, and the threads of its process tree, are not
\* those of the main trace and stay apart from each other, for any two traces.
THEOREM IdsAreDisjoint == Spec => []IdsDisjoint
<1>1. ASSUME Inv, Merged, NEW j \in 1 .. Len(main), NEW k \in 1 .. Len(input)
      PROVE  /\ Differ(FromAddon(k).seq, FromMain(j).seq)
             /\ Differ(FromAddon(k).cpu, FromMain(j).cpu)
             /\ FromAddon(k).pid # 0 => Differ(FromAddon(k).pid, FromMain(j).pid)
             /\ FromAddon(k).tid # 0 => Differ(FromAddon(k).tid, FromMain(j).tid)
  <2>1. FromMain(j) = main[j] /\ FromAddon(k) = addon[k]
    BY <1>1, Halves
  <2>2. main[j] \in Packet /\ input[k] \in Packet
    BY <1>1, ElementOfSeq DEF Inv, TypeOK
  <2>3. /\ main[j].seq \in Opt /\ main[j].cpu \in Opt /\ main[j].pid \in Opt
        /\ main[j].tid \in Opt
        /\ input[k].seq \in Opt /\ input[k].seq # 0
        /\ input[k].cpu \in Opt /\ input[k].pid \in Opt /\ input[k].tid \in Opt
    BY <2>2 DEF Packet
  <2>4. /\ max.seq \in Nat /\ max.cpu \in Nat /\ max.pid \in Nat
        /\ max.tid \in Nat
    BY <1>1 DEF Inv, TypeOK, MaxIds
  <2>5. /\ main[j].seq <= max.seq /\ main[j].cpu <= max.cpu
        /\ main[j].pid <= max.pid /\ main[j].tid <= max.tid
    BY <1>1 DEF Inv, MaxInv, Merged
  <2>6. After(k)
    BY <1>1 DEF Inv, IdInv, Renumbered, Merged
  <2>7. Differ(addon[k].seq, main[j].seq)
    BY <2>3, <2>4, <2>5, <2>6, ShiftedAbove DEF After
  <2>8. Differ(addon[k].cpu, main[j].cpu)
    BY <2>3, <2>4, <2>5, <2>6, ShiftedAbove DEF After
  <2>9. addon[k].pid # 0 => Differ(addon[k].pid, main[j].pid)
    BY <2>3, <2>4, <2>5, <2>6, ShiftedAbove DEF After
  <2>10. addon[k].tid # 0 => Differ(addon[k].tid, main[j].tid)
    BY <2>3, <2>4, <2>5, <2>6, ShiftedAbove DEF After
  <2> QED
    BY <2>1, <2>7, <2>8, <2>9, <2>10
<1>2. ASSUME Inv, Merged, NEW k \in 1 .. Len(input), NEW l \in 1 .. Len(input)
      PROVE  /\ FromAddon(k).seq = FromAddon(l).seq <=> input[k].seq = input[l].seq
             /\ FromAddon(k).cpu = FromAddon(l).cpu <=> input[k].cpu = input[l].cpu
             /\ FromAddon(k).pid = FromAddon(l).pid <=> input[k].pid = input[l].pid
             /\ FromAddon(k).tid = FromAddon(l).tid <=> input[k].tid = input[l].tid
             /\ FromAddon(k).dtid = FromAddon(l).dtid <=> input[k].dtid = input[l].dtid
  <2>1. FromAddon(k) = addon[k] /\ FromAddon(l) = addon[l]
    BY <1>2, Halves
  <2>2. input[k] \in Packet /\ input[l] \in Packet
    BY <1>2, ElementOfSeq DEF Inv, TypeOK
  <2>3. /\ input[k].seq \in Opt /\ input[k].cpu \in Opt
        /\ input[k].pid \in Opt /\ input[k].tid \in Opt
        /\ input[l].seq \in Opt /\ input[l].cpu \in Opt
        /\ input[l].pid \in Opt /\ input[l].tid \in Opt
    BY <2>2 DEF Packet
  <2>4. /\ max.seq \in Nat /\ max.cpu \in Nat /\ max.pid \in Nat
        /\ max.tid \in Nat
    BY <1>2 DEF Inv, TypeOK, MaxIds
  <2>5. After(k) /\ After(l)
    BY <1>2 DEF Inv, IdInv, Renumbered, Merged
  <2>6. addon[k].seq = addon[l].seq <=> input[k].seq = input[l].seq
    <3>1. Shifted(input[k].seq, max.seq) = Shifted(input[l].seq, max.seq)
            <=> input[k].seq = input[l].seq
      BY <2>3, <2>4, ShiftedApart
    <3> QED
      BY <2>5, <3>1 DEF After
  <2>7. addon[k].cpu = addon[l].cpu <=> input[k].cpu = input[l].cpu
    <3>1. Shifted(input[k].cpu, max.cpu + 1) = Shifted(input[l].cpu, max.cpu + 1)
            <=> input[k].cpu = input[l].cpu
      BY <2>3, <2>4, ShiftedApart
    <3> QED
      BY <2>5, <3>1 DEF After
  <2>8. addon[k].pid = addon[l].pid <=> input[k].pid = input[l].pid
    <3>1. ShiftedUnless0(input[k].pid, max.pid) = ShiftedUnless0(input[l].pid, max.pid)
            <=> input[k].pid = input[l].pid
      BY <2>3, <2>4, ShiftedApart
    <3> QED
      BY <2>5, <3>1 DEF After
  <2>9. addon[k].tid = addon[l].tid <=> input[k].tid = input[l].tid
    <3>1. ShiftedUnless0(input[k].tid, max.tid) = ShiftedUnless0(input[l].tid, max.tid)
            <=> input[k].tid = input[l].tid
      BY <2>3, <2>4, ShiftedApart
    <3> QED
      BY <2>5, <3>1 DEF After
  <2>10. addon[k].dtid = addon[l].dtid <=> input[k].dtid = input[l].dtid
    BY <2>5 DEF After
  <2> QED
    BY <2>1, <2>6, <2>7, <2>8, <2>9, <2>10
<1>3. Inv => IdsDisjoint
  BY <1>1, <1>2 DEF IdsDisjoint
<1> QED
  BY Invariance, <1>3, PTL

\* The map stays empty unless some process or thread is given another pid.
ReasonInv ==
    /\ pass = "max" => DOMAIN uuidMap = {}
    /\ DOMAIN uuidMap # {} => \E k \in 1 .. Len(input) : Moved(k)

\* Every step keeps ReasonInv.
LEMMA ReasonStep == Inv /\ ReasonInv /\ [Next]_vars => ReasonInv'
<1> SUFFICES ASSUME Inv, ReasonInv, [Next]_vars PROVE ReasonInv'
  OBVIOUS
<1>1. CASE MapIds
  <2>1. input' = input /\ max' = max /\ pass' = "ids" /\ pass = "ids"
    BY <1>1 DEF MapIds
  <2>2. CASE NeedsUuid(addon[i])
    <3>1. i \in 1 .. Len(input) /\ ~Renumbered(i) /\ ~Remapped
      BY <1>1 DEF MapIds, Inv, TypeOK, Renumbered, Remapped
    <3>2. Before(i) /\ addon[i].owned = input[i].owned /\ input[i] \in Packet
      BY <3>1 DEF Inv, IdInv, TrackInv, TypeOK
    <3>3. addon[i] \in Packet /\ max \in MaxIds /\ max.pid \in Nat
      BY <3>1 DEF Inv, TypeOK, MaxIds
    <3>4. ShiftIds(addon[i]).pid = ShiftedUnless0(addon[i].pid, max.pid)
      BY <3>3, IdsShifted
    <3>5. addon[i].owned /\ addon[i].pid # 0 /\ addon[i].pid # Absent
          /\ addon[i].pid + max.pid # addon[i].pid
      BY <2>2, <3>4 DEF NeedsUuid, ShiftedUnless0
    <3>6. addon[i].pid > 0 /\ max.pid > 0
      BY <3>3, <3>5 DEF Packet, Opt, Absent
    <3>7. Moved(i)
      BY <3>2, <3>5, <3>6 DEF Moved, Before
    <3> QED
      BY <2>1, <3>1, <3>7 DEF ReasonInv, Moved
  <2>3. CASE ~NeedsUuid(addon[i])
    <3>1. uuidMap' = uuidMap
      BY <1>1, <2>3 DEF MapIds
    <3> QED
      BY <2>1, <3>1 DEF ReasonInv, Moved
  <2> QED
    BY <2>2, <2>3
<1>2. CASE CalcMax
  BY <1>2 DEF CalcMax, ReasonInv
<1>3. CASE \/ ParseAddon \/ ClearSnapshots \/ ShiftTimestamps \/ EndMapIds
           \/ RemapUuids \/ Concatenate \/ UNCHANGED vars
  <2>1. /\ uuidMap' = uuidMap /\ input' = input /\ max' = max
        /\ pass' = "max" => pass = "max"
    BY <1>3 DEF ParseAddon, ClearSnapshots, ShiftTimestamps, EndMapIds,
       RemapUuids, Concatenate, vars
  <2> QED
    BY <2>1 DEF ReasonInv, Moved
<1> QED
  BY <1>1, <1>2, <1>3 DEF Next

\* iterateTraceIds maps an uuid only if it changed the pid of some process or
\* thread: otherwise the pass over the uuids is left out.
THEOREM MapHasReason == Spec => []ReasonInv
<1>1. Init => ReasonInv
  BY DEF Init, ReasonInv
<1> QED
  BY Invariance, ReasonStep, <1>1, PTL DEF Spec

\* The process and thread tracks of the addon trace survive the merge, with
\* all that refers to them, for any two traces: the map that iterateTraceIds
\* builds knows every descriptor whose pid it changed, wherever it stands, and
\* is consulted only if there is one.
THEOREM TracksAreFollowed == Spec => []TracksFollow
<1>1. ASSUME Inv, ReasonInv, Merged, \A k \in 1 .. Len(input) : ~Moved(k),
             NEW k \in 1 .. Len(input)
      PROVE  SameTracks(k)
  <2>1. ~Remapped
    BY <1>1 DEF ReasonInv, Remapped
  <2>2. Kept(k)
    BY <1>1, <2>1 DEF Inv, TrackInv
  <2> QED
    BY <1>1, <2>2, Halves DEF Kept, SameTracks
<1>2. Inv /\ ReasonInv => TracksFollow
  <2> SUFFICES ASSUME Inv, Merged, NEW k \in 1 .. Len(input), Moved(k)
               PROVE  /\ \A j \in 1 .. Len(main) :
                            FromAddon(k).uuid \notin Uuids(FromMain(j))
                      /\ \A l \in 1 .. Len(input) :
                            /\ Moved(l) =>
                                  (FromAddon(l).uuid = FromAddon(k).uuid
                                      <=> input[l].uuid = input[k].uuid)
                            /\ input[l].event = input[k].uuid =>
                                  FromAddon(l).event = FromAddon(k).uuid
                            /\ input[l].parent = input[k].uuid =>
                                  FromAddon(l).parent = FromAddon(k).uuid
    BY <1>1 DEF TracksFollow
  <2>1. \A l \in 1 .. Len(input) : FromAddon(l) = addon[l]
    BY Halves
  <2>2. \A l \in 1 .. Len(input) : Moved(l) =>
            input[l].uuid \in DOMAIN uuidMap /\ input[l].uuid # Absent
    <3>1. \A l \in 1 .. Len(input) : Moved(l) => input[l].uuid \in DOMAIN uuidMap
      BY DEF Inv, MapInv, Renumbered, Merged
    <3>2. \A l \in 1 .. Len(input) : Moved(l) => input[l].uuid # Absent
      BY DescriptorAssumption DEF Inv, InputInv, Moved
    <3> QED
      BY <3>1, <3>2
  <2>3. Remapped
    BY <2>2 DEF Remapped, Merged
  <2>4. \A l \in 1 .. Len(input) : Replaced(l)
    BY <2>3 DEF Inv, TrackInv
  <2>5. \A u \in DOMAIN uuidMap : u # Absent => NewUuid(u) = uuidMap[u]
    BY DEF NewUuid
  <2>6. addon[k].uuid = uuidMap[input[k].uuid] /\ uuidMap[input[k].uuid] \in FreshUuids
    BY <2>2, <2>4, <2>5 DEF Replaced, Inv, TypeOK
  <2>7. ASSUME NEW j \in 1 .. Len(main)
        PROVE  FromAddon(k).uuid \notin Uuids(FromMain(j))
    <3>1. FromMain(j) = main[j]
      BY Halves
    <3>2. Uuids(main[j]) \cap FreshUuids = {}
      BY FreshAssumption DEF Inv, InputInv
    <3> QED
      BY <2>1, <2>6, <3>1, <3>2
  <2>8. ASSUME NEW l \in 1 .. Len(input)
        PROVE  /\ Moved(l) => (addon[l].uuid = addon[k].uuid
                                  <=> input[l].uuid = input[k].uuid)
               /\ input[l].event = input[k].uuid => addon[l].event = addon[k].uuid
               /\ input[l].parent = input[k].uuid => addon[l].parent = addon[k].uuid
    <3>1. Replaced(l) /\ Replaced(k)
      BY <2>4
    <3>2. Moved(l) => addon[l].uuid = uuidMap[input[l].uuid]
      BY <2>2, <2>5, <3>1 DEF Replaced
    <3>3. Moved(l) => (addon[l].uuid = addon[k].uuid
                          <=> input[l].uuid = input[k].uuid)
      BY <2>2, <2>6, <3>2 DEF Inv, MapInv
    <3> QED
      BY <3>1, <3>3 DEF Replaced
  <2> QED
    BY <2>1, <2>7, <2>8
<1> QED
  BY Invariance, MapHasReason, <1>2, PTL
=============================================================================
