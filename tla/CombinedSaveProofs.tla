-------------------------- MODULE CombinedSaveProofs --------------------------
(***************************************************************************)
(* Theorems about CombinedSave, for every number of sessions and polls and *)
(* every behaviour of the guest's file.                                    *)
(***************************************************************************)
EXTENDS CombinedSave, GuestFileProofs

\* A session has a thread of its own, which starts with a fresh loop when the
\* session ends; a thread that polls has not found a stable size.
ThreadInv ==
    /\ ~tracingDisabled => sessions > 0
    /\ \A k \in Sessions :
          /\ savers[k].step = "poll" => ~Stable(savers[k].poll)
          /\ k > sessions \/ (k = sessions /\ ~tracingDisabled) =>
                savers[k] = Unused

Inv == TypeOK /\ ThreadInv

-----------------------------------------------------------------------------
\* What each step of a thread does to the threads.
LEMMA SaverMoves ==
    ASSUME Inv, NEW k \in Sessions, Saver(k)
    PROVE  /\ savers' \in [Sessions -> SaverType]
           /\ \A j \in Sessions : j # k => savers'[j] = savers[j]
           /\ Poll(k) => LET p == Polled(savers[k].poll, guestFile.size)
                         IN  /\ savers'[k].poll = p
                             /\ savers'[k].step = IF Stable(p) THEN "open" ELSE "poll"
           /\ TimeOut(k) \/ Finish(k) => savers'[k].step = "none"
           /\ OpenCombined(k) => savers'[k].step = "guest"
           /\ CopyGuest(k) => /\ savers'[k].step = "host"
                              /\ savers'[k].broken = ~(guestFile.size > 0)
           /\ CopyHost(k) => savers'[k].step = "done"
  <1>t. /\ savers \in [Sessions -> SaverType] /\ savers[k] \in SaverType
        /\ guestFile \in GuestFileType
    BY DEF Inv, TypeOK
  <1>p. /\ Poll(k) => savers[k].step = "poll"
        /\ TimeOut(k) => savers[k].step = "poll"
        /\ OpenCombined(k) => savers[k].step = "open"
        /\ CopyGuest(k) => savers[k].step = "guest"
        /\ CopyHost(k) => savers[k].step = "host"
        /\ Finish(k) => savers[k].step = "done"
    BY DEF Poll, TimeOut, OpenCombined, CopyGuest, CopyHost, Finish
  <1>1. CASE Poll(k)
    <2> DEFINE p == Polled(savers[k].poll, guestFile.size)
               st == IF Stable(p) THEN "open" ELSE "poll"
    <2>1. savers' = [savers EXCEPT ![k] = [savers[k] EXCEPT !.poll = p, !.step = st]]
      BY <1>t, <1>1 DEF Poll
    <2>2. p \in Polls
      <3>1. ~Stable(savers[k].poll) /\ savers[k].poll.i < kMaxIters
        BY <1>1 DEF Poll, Inv, ThreadInv
      <3>2. savers[k].poll \in Polls /\ guestFile.size \in Missing .. GuestSize
        BY <1>t DEF SaverType, GuestFileType
      <3> QED BY <3>1, <3>2, PolledType
    <2>3. st \in Steps
      BY DEF Steps
    <2>4. st = IF Stable(p) THEN "open" ELSE "poll"
      OBVIOUS
    <2> HIDE DEF p, st
    <2>5. /\ savers' \in [Sessions -> SaverType]
          /\ savers'[k].poll = p /\ savers'[k].step = st
          /\ \A j \in Sessions : j # k => savers'[j] = savers[j]
      BY <1>t, <2>1, <2>2, <2>3 DEF SaverType
    <2>6. savers[k].step = "poll"
      BY <1>1, <1>p
    <2>7. /\ ~TimeOut(k) \/ savers[k].poll.i = kMaxIters
          /\ savers[k].poll.i < kMaxIters /\ kMaxIters \in Nat
      BY <1>1, GuestFileAssumption DEF TimeOut, GaveUp, Poll
    <2>8. savers[k].poll.i \in Nat
      BY <1>t DEF SaverType, Polls
    <2>9. ~(TimeOut(k) \/ Finish(k) \/ OpenCombined(k) \/ CopyGuest(k) \/ CopyHost(k))
      BY <1>p, <2>6, <2>7, <2>8
    <2> QED BY <2>4, <2>5, <2>9 DEF p
  <1>u. Unused \in SaverType /\ Unused.step = "none"
    BY FirstPollType DEF Unused, SaverType, Steps
  <1>2. CASE TimeOut(k)
    <2>1. savers' = [savers EXCEPT ![k] = Unused] /\ ~Poll(k)
      BY <1>2, GuestFileAssumption DEF TimeOut, GaveUp, Poll
    <2> QED BY <1>t, <1>p, <1>u, <1>2, <2>1
  <1>3. CASE OpenCombined(k)
    BY <1>t, <1>p, <1>3 DEF OpenCombined, SaverType, Steps
  <1>4. CASE CopyGuest(k)
    BY <1>t, <1>p, <1>4 DEF CopyGuest, SaverType, Steps
  <1>5. CASE CopyHost(k)
    BY <1>t, <1>p, <1>5 DEF CopyHost, SaverType, Steps
  <1>6. CASE Finish(k)
    <2>1. savers' = [savers EXCEPT ![k] = Unused]
      BY <1>6 DEF Finish
    <2> QED BY <1>t, <1>p, <1>u, <1>6, <2>1
  <1> QED BY <1>1, <1>2, <1>3, <1>4, <1>5, <1>6 DEF Saver

\* The files stay files.
LEMMA FilesType ==
    ASSUME Inv, \/ Guest
                \/ \E k \in Sessions : Saver(k)
    PROVE  /\ guestFile' \in GuestFileType
           /\ steady' \in BOOLEAN
           /\ combinedFile' \in [guest : GuestTrace, host : 0 .. MaxSessions]
  <1>t. /\ guestFile \in GuestFileType /\ steady \in BOOLEAN
        /\ combinedFile \in [guest : GuestTrace, host : 0 .. MaxSessions]
        /\ sessions \in Nat /\ hostFile \in 0 .. MaxSessions
    BY CombinedAssumption DEF Inv, TypeOK
  <1>1. CASE Guest
    <2>1. UNCHANGED <<steady, combinedFile>>
      BY <1>1 DEF Guest
    <2>2. CASE BeginTransfer(sessions)
      BY <1>t, <2>1, <2>2, GuestFileAssumption
      DEF BeginTransfer, GuestFileType, Missing
    <2>3. CASE Transfer
      <3> DEFINE size == guestFile.size + 1
      <3>1. size \in Missing .. GuestSize
        BY <1>t, <2>3, GuestFileAssumption DEF Transfer, GuestFileType, Missing
      <3>2. guestFile' = [guestFile EXCEPT !.size = size, !.stall = 0]
        BY <2>3 DEF Transfer
      <3> HIDE DEF size
      <3> QED BY <1>t, <2>1, <3>1, <3>2 DEF GuestFileType
    <2> QED BY <1>1, <2>2, <2>3 DEF Guest
  <1>2. ASSUME NEW k \in Sessions, Poll(k)
        PROVE  /\ guestFile' \in GuestFileType /\ steady' \in BOOLEAN
               /\ combinedFile' = combinedFile
    BY <1>t, <1>2 DEF Poll, SeenByPoll, GuestFileType
  <1>3. ASSUME NEW k \in Sessions, TimeOut(k) \/ Finish(k)
        PROVE  UNCHANGED <<guestFile, steady, combinedFile>>
    BY <1>3 DEF TimeOut, Finish
  <1>4. ASSUME NEW k \in Sessions, OpenCombined(k)
        PROVE  /\ UNCHANGED <<guestFile, steady>>
               /\ combinedFile' \in [guest : GuestTrace, host : 0 .. MaxSessions]
    BY <1>4, GuestFileAssumption, CombinedAssumption
    DEF OpenCombined, NoGuest, GuestTrace
  <1>5. ASSUME NEW k \in Sessions, CopyGuest(k)
        PROVE  /\ UNCHANGED <<guestFile, steady>>
               /\ combinedFile' \in [guest : GuestTrace, host : 0 .. MaxSessions]
    <2> DEFINE g == [sess |-> guestFile.sess, size |-> guestFile.size]
    <2>1. guestFile.size > 0 => g \in GuestTrace
      BY <1>t, GuestFileAssumption DEF GuestFileType, GuestTrace, Missing
    <2>2. /\ UNCHANGED <<guestFile, steady>>
          /\ \/ combinedFile' = combinedFile
             \/ /\ guestFile.size > 0
                /\ combinedFile' = [combinedFile EXCEPT !.guest = g]
      BY <1>5 DEF CopyGuest
    <2> HIDE DEF g
    <2> QED BY <1>t, <2>1, <2>2
  <1>6. ASSUME NEW k \in Sessions, CopyHost(k)
        PROVE  /\ UNCHANGED <<guestFile, steady>>
               /\ combinedFile' \in [guest : GuestTrace, host : 0 .. MaxSessions]
    BY <1>t, <1>6 DEF CopyHost
  <1> QED BY <1>t, <1>1, <1>2, <1>3, <1>4, <1>5, <1>6 DEF Saver

\* The initial state satisfies the invariant.
LEMMA InitInv == Init => Inv
  <1> SUFFICES ASSUME Init PROVE Inv
    OBVIOUS
  <1>1. guestFile \in GuestFileType
    BY GuestFileAssumption DEF Init, NoGuestFile, GuestFileType, Missing
  <1>2. Unused \in SaverType
    BY FirstPollType DEF Unused, SaverType, Steps
  <1>3. NoGuest \in GuestTrace
    BY GuestFileAssumption DEF NoGuest, GuestTrace
  <1>4. savers = [k \in Sessions |-> Unused]
    BY DEF Init, Unused
  <1>5. TypeOK
    <2>1. savers \in [Sessions -> SaverType]
      BY <1>2, <1>4
    <2>2. 0 \in 0 .. MaxSessions
      BY CombinedAssumption
    <2>3. combinedFile \in [guest : GuestTrace, host : 0 .. MaxSessions]
      BY <1>3, <2>2 DEF Init
    <2> QED BY <1>1, <2>1, <2>2, <2>3 DEF Init, TypeOK
  <1>6. ThreadInv
    BY <1>4 DEF Init, ThreadInv, Unused
  <1> QED BY <1>5, <1>6 DEF Inv

\* Every step keeps the invariant.
LEMMA StepInv == Inv /\ [Next]_vars => Inv'
  <1> SUFFICES ASSUME Inv, [Next]_vars
               PROVE  Inv'
    OBVIOUS
  <1>t. /\ sessions \in 0 .. MaxSessions /\ MaxSessions \in Nat /\ sessions \in Nat
        /\ savers \in [Sessions -> SaverType]
        /\ tracingDisabled \in BOOLEAN
    BY CombinedAssumption DEF Inv, TypeOK
  <1>1. CASE EnableTracing
    <2>1. /\ sessions' = sessions + 1 /\ sessions < MaxSessions
          /\ tracingDisabled' = FALSE
          /\ alone' \in BOOLEAN
          /\ UNCHANGED <<guestFile, steady, saving, savers, hostFile, combinedFile>>
      BY <1>1 DEF EnableTracing, Saved
    <2>2. sessions' \in 0 .. MaxSessions /\ sessions' > 0
      BY <1>t, <2>1
    <2>3. TypeOK'
      BY <2>1, <2>2 DEF Inv, TypeOK
    <2>4. \A k \in Sessions : k > sessions' \/ k = sessions' => k > sessions
      BY <1>t, <2>1 DEF Sessions
    <2>5. ThreadInv'
      BY <2>1, <2>2, <2>4 DEF Inv, ThreadInv
    <2> QED BY <2>3, <2>5 DEF Inv
  <1>2. CASE DisableTracing
    <2>1. sessions \in Sessions /\ savers[sessions] = Unused
      BY <1>t, <1>2 DEF DisableTracing, Inv, ThreadInv, Sessions
    <2> DEFINE r == [Unused EXCEPT !.step = "poll"]
    <2>2. Unused \in SaverType /\ Unused.poll = FirstPoll
      BY FirstPollType DEF Unused, SaverType, Steps
    <2>3. r \in SaverType /\ r.step = "poll" /\ r.poll = FirstPoll
      BY <2>2 DEF SaverType, Steps
    <2>4. savers' = [savers EXCEPT ![sessions] = r]
      BY <1>t, <1>2, <2>1 DEF DisableTracing
    <2> HIDE DEF r
    <2>5. /\ savers' \in [Sessions -> SaverType] /\ savers'[sessions] = r
          /\ \A j \in Sessions : j # sessions => savers'[j] = savers[j]
      BY <1>t, <2>1, <2>3, <2>4
    <2>6. /\ tracingDisabled' = TRUE /\ saving' = FALSE /\ hostFile' = sessions
          /\ steady' = TRUE /\ UNCHANGED <<guestFile, sessions, combinedFile, alone>>
      BY <1>2 DEF DisableTracing
    <2>7. TypeOK'
      BY <1>t, <2>5, <2>6 DEF Inv, TypeOK
    <2>8. ThreadInv'
      <3> SUFFICES ASSUME NEW k \in Sessions
                   PROVE  /\ savers'[k].step = "poll" => ~Stable(savers'[k].poll)
                          /\ k > sessions => savers'[k] = Unused
        BY <2>6 DEF ThreadInv
      <3>1. CASE k = sessions
        BY <1>t, <2>3, <2>5, <3>1, FirstPollType
      <3>2. CASE k # sessions
        BY <2>5, <3>2 DEF Inv, ThreadInv
      <3> QED BY <3>1, <3>2
    <2> QED BY <2>7, <2>8 DEF Inv
  <1>3. ASSUME NEW k \in Sessions, Saver(k)
        PROVE  Inv'
    <2>1. /\ UNCHANGED <<tracingDisabled, sessions, hostFile, alone>>
          /\ saving' \in BOOLEAN
      BY <1>3 DEF Saver, Poll, TimeOut, OpenCombined, CopyGuest, CopyHost, Finish,
                  Inv, TypeOK
    <2>2. savers' \in [Sessions -> SaverType]
          /\ \A j \in Sessions : j # k => savers'[j] = savers[j]
      BY <1>3, SaverMoves
    <2>3. TypeOK'
      BY <1>3, <2>1, <2>2, FilesType DEF Inv, TypeOK
    <2>4. savers[k].step # "none"
      BY <1>3 DEF Saver, Poll, TimeOut, OpenCombined, CopyGuest, CopyHost, Finish
    <2>5. ~(k > sessions \/ (k = sessions /\ ~tracingDisabled))
      BY <2>4 DEF Inv, ThreadInv, Unused
    <2>6. savers'[k].step = "poll" => ~Stable(savers'[k].poll)
      <3>1. CASE Poll(k)
        <4> DEFINE p == Polled(savers[k].poll, guestFile.size)
        <4>1. savers'[k].poll = p /\ savers'[k].step = IF Stable(p) THEN "open" ELSE "poll"
          BY <1>3, <3>1, SaverMoves
        <4> HIDE DEF p
        <4> QED BY <4>1
      <3>2. CASE ~Poll(k)
        BY <1>3, <3>2, SaverMoves DEF Saver
      <3> QED BY <3>1, <3>2
    <2>7. ThreadInv'
      BY <2>1, <2>2, <2>5, <2>6 DEF Inv, ThreadInv
    <2> QED BY <2>3, <2>7 DEF Inv
  <1>4. CASE Guest
    BY <1>4, FilesType DEF Guest, Inv, TypeOK, ThreadInv
  <1>5. CASE UNCHANGED vars
    BY <1>5 DEF vars, Inv, TypeOK, ThreadInv
  <1> QED BY <1>1, <1>2, <1>3, <1>4, <1>5 DEF Next

\* The invariant holds in every reachable state.
LEMMA InvHolds == Spec => []Inv
  BY InitInv, StepInv, PTL DEF Spec

\* The types of the threads, the loop's variables and the files, whether or not
\* a session begins during a save: each session is saved by a thread of its own.
THEOREM TypeCorrect == Spec => []TypeOK
  <1>1. Inv => TypeOK
    BY DEF Inv
  <1> QED BY <1>1, InvHolds, PTL

-----------------------------------------------------------------------------
(***************************************************************************)
(* A session that begins when no save is at work                           *)
(***************************************************************************)

\* If the last session began with no save at work, the only thread that may run
\* is its own, once the session has ended.
OneSaver ==
    alone => \A k \in Sessions :
                savers[k].step # "none" => k = sessions /\ tracingDisabled

\* Every step keeps OneSaver: the thread of a session is started by its end,
\* and the next session sets alone anew.
LEMMA StepOneSaver ==
    ASSUME Inv, Inv', OneSaver, [Next]_vars
    PROVE  OneSaver'
  <1>t. savers \in [Sessions -> SaverType] /\ sessions \in Nat
    BY CombinedAssumption DEF Inv, TypeOK
  <1>1. CASE EnableTracing
    BY <1>1 DEF EnableTracing, Saved, OneSaver
  <1>2. CASE DisableTracing
    <2>1. alone => \A k \in Sessions : savers[k].step = "none"
      BY <1>2 DEF DisableTracing, OneSaver
    <2>2. \A k \in Sessions : k # sessions => savers'[k] = savers[k]
      BY <1>t, <1>2 DEF DisableTracing
    <2> QED BY <1>2, <2>1, <2>2 DEF DisableTracing, OneSaver
  <1>3. ASSUME NEW k \in Sessions, Saver(k)
        PROVE  OneSaver'
    <2>1. savers[k].step # "none"
      BY <1>3 DEF Saver, Poll, TimeOut, OpenCombined, CopyGuest, CopyHost, Finish
    <2>2. UNCHANGED <<tracingDisabled, sessions, alone>>
      BY <1>3 DEF Saver, Poll, TimeOut, OpenCombined, CopyGuest, CopyHost, Finish
    <2>3. \A j \in Sessions : j # k => savers'[j] = savers[j]
      BY <1>3, SaverMoves
    <2> QED BY <2>1, <2>2, <2>3 DEF OneSaver
  <1>4. CASE Guest \/ UNCHANGED vars
    <2>1. UNCHANGED <<savers, sessions, tracingDisabled, alone>>
      BY <1>4 DEF Guest, vars
    <2> QED BY <2>1 DEF OneSaver
  <1> QED BY <1>1, <1>2, <1>3, <1>4 DEF Next

\* A session that began alone keeps its save to itself, in every reachable
\* state.
LEMMA OneSaverHolds == Spec => [](Inv /\ OneSaver)
  <1>1. Init => OneSaver
    BY DEF Init, OneSaver, Unused
  <1>2. Inv /\ OneSaver /\ [Next]_vars => Inv' /\ OneSaver'
    BY StepInv, StepOneSaver
  <1> QED BY <1>1, <1>2, InitInv, PTL DEF Spec

-----------------------------------------------------------------------------
(***************************************************************************)
(* What a save leaves in the combined file                                 *)
(***************************************************************************)

\* The combined file is of earlier sessions.
Earlier == combinedFile.guest.sess < sessions /\ combinedFile.host < sessions

\* None of the files is newer than the last session, and while that runs they are
\* of earlier ones.  If it began with no save at work, the combined file is of
\* earlier sessions until its thread opens it, and the host's file is of the
\* session whose thread runs.
PairInv ==
    /\ Begun(guestFile)
    /\ guestFile.sess <= sessions
    /\ combinedFile.guest.sess <= sessions
    /\ combinedFile.host <= sessions
    /\ hostFile <= sessions
    /\ ~tracingDisabled => guestFile.sess < sessions /\ hostFile < sessions /\ Earlier
    /\ alone => \A k \in Sessions :
                   /\ savers[k].step # "none" => hostFile = k
                   /\ savers[k].step \in {"poll", "open"} => Earlier

WholeGuest(k) == [sess |-> k, size |-> GuestSize]

\* What the thread of session k has reached at each of its steps if its
\* transfer was steady.
SteadySaver(k) ==
    /\ savers[k].step = "poll" => SteadyLoop(guestFile, k, savers[k].poll)
    /\ savers[k].step \in {"open", "guest"} =>
          guestFile.sess = k /\ guestFile.size = GuestSize
    /\ savers[k].step = "guest" => combinedFile = [guest |-> NoGuest, host |-> 0]
    /\ savers[k].step = "host" =>
          /\ ~savers[k].broken
          /\ combinedFile = [guest |-> WholeGuest(k), host |-> 0]
    /\ savers[k].step = "done" =>
          combinedFile = [guest |-> WholeGuest(k), host |-> k]

\* Every step keeps PairInv.
LEMMA StepPairInv ==
    ASSUME Inv, Inv', OneSaver, OneSaver', PairInv, [Next]_vars
    PROVE  PairInv'
  <1>t. /\ hostFile \in Nat /\ savers \in [Sessions -> SaverType] /\ sessions \in Nat
        /\ guestFile \in GuestFileType /\ guestFile.sess \in Nat
        /\ combinedFile \in [guest : GuestTrace, host : 0 .. MaxSessions]
        /\ combinedFile.guest.sess \in Nat /\ combinedFile.host \in Nat
    BY CombinedAssumption DEF Inv, TypeOK, GuestFileType, GuestTrace
  <1>1. CASE EnableTracing
    <2>1. /\ alone' => \A k \in Sessions : savers[k].step = "none"
          /\ sessions' = sessions + 1
          /\ UNCHANGED <<guestFile, savers, hostFile, combinedFile>>
      BY <1>1 DEF EnableTracing, Saved
    <2>2. guestFile.sess < sessions' /\ hostFile < sessions' /\ Earlier'
      BY <1>t, <2>1 DEF PairInv, Earlier
    <2> QED BY <1>t, <2>1, <2>2 DEF PairInv, Earlier
  <1>2. CASE DisableTracing
    <2>1. /\ alone => \A k \in Sessions : savers[k].step = "none"
          /\ \A k \in Sessions : k # sessions => savers'[k] = savers[k]
      BY <1>t, <1>2 DEF DisableTracing, OneSaver
    <2>2. /\ tracingDisabled' /\ hostFile' = sessions
          /\ UNCHANGED <<guestFile, sessions, combinedFile, alone>>
          /\ Earlier /\ ~tracingDisabled
      BY <1>2 DEF DisableTracing, PairInv
    <2>3. Earlier'
      BY <2>2 DEF Earlier
    <2>4. alone => \A k \in Sessions : savers'[k].step # "none" => hostFile' = k
      BY <2>1, <2>2
    <2> QED BY <1>t, <2>2, <2>3, <2>4 DEF PairInv
  <1>3. ASSUME NEW k \in Sessions, Saver(k)
        PROVE  PairInv'
    <2>1. /\ savers[k].step # "none"
          /\ UNCHANGED <<tracingDisabled, sessions, hostFile, alone>>
      BY <1>3 DEF Saver, Poll, TimeOut, OpenCombined, CopyGuest, CopyHost, Finish
    <2>2. alone => k = sessions /\ hostFile = k /\ tracingDisabled
      BY <2>1 DEF OneSaver, PairInv
    <2>3. alone => \A j \in Sessions : j # k => savers'[j].step = "none"
      BY <1>3, <2>2, SaverMoves DEF OneSaver
    <2>4. guestFile'.sess = guestFile.sess /\ Begun(guestFile')
      <3>1. \/ UNCHANGED guestFile
            \/ guestFile' = [guestFile EXCEPT !.stall =
                                IF @ < MaxStall THEN @ + 1 ELSE @]
        BY <1>3 DEF Saver, Poll, SeenByPoll, TimeOut, OpenCombined, CopyGuest,
                    CopyHost, Finish
      <3>2. guestFile'.sess = guestFile.sess /\ guestFile'.size = guestFile.size
        BY <1>t, <3>1 DEF GuestFileType
      <3> QED BY <3>2 DEF PairInv, Begun
    <2>5. /\ combinedFile'.guest.sess <= sessions
          /\ combinedFile'.host <= sessions
          /\ ~tracingDisabled => Earlier'
          /\ alone /\ savers'[k].step \in {"poll", "open"} => Earlier'
      <3>0. sessions' = sessions /\ 0 \in Nat
        BY <2>1
      <3>1. CASE Poll(k)
        <4>1. UNCHANGED combinedFile /\ savers[k].step = "poll"
          BY <3>1 DEF Poll
        <4> QED BY <3>0, <4>1 DEF PairInv, Earlier
      <3>2. CASE TimeOut(k) \/ Finish(k)
        <4>1. savers'[k].step = "none" /\ UNCHANGED combinedFile
          BY <1>3, <3>2, SaverMoves DEF TimeOut, Finish
        <4> QED BY <3>0, <4>1 DEF PairInv, Earlier
      <3>3. CASE OpenCombined(k)
        <4>1. /\ savers'[k].step = "guest"
              /\ combinedFile' = [guest |-> NoGuest, host |-> 0]
          BY <1>3, <3>3, SaverMoves DEF OpenCombined
        <4>2. combinedFile'.guest.sess = 0 /\ combinedFile'.host = 0
          BY <4>1 DEF NoGuest
        <4>3. ~tracingDisabled => sessions > 0
          BY DEF Inv, ThreadInv
        <4> QED BY <1>t, <3>0, <4>1, <4>2, <4>3 DEF Earlier
      <3>4. CASE CopyGuest(k)
        <4>1. /\ savers'[k].step = "host"
              /\ \/ UNCHANGED combinedFile
                 \/ combinedFile' = [combinedFile EXCEPT !.guest =
                          [sess |-> guestFile.sess, size |-> guestFile.size]]
          BY <1>3, <3>4, SaverMoves DEF CopyGuest
        <4>2. /\ combinedFile'.guest.sess \in {combinedFile.guest.sess, guestFile.sess}
              /\ combinedFile'.host = combinedFile.host
          BY <1>t, <4>1
        <4> QED BY <3>0, <4>1, <4>2 DEF PairInv, Earlier
      <3>5. CASE CopyHost(k)
        <4>1. /\ savers'[k].step = "done"
              /\ \/ UNCHANGED combinedFile
                 \/ combinedFile' = [combinedFile EXCEPT !.host = hostFile]
          BY <1>3, <3>5, SaverMoves DEF CopyHost
        <4>2. /\ combinedFile'.guest = combinedFile.guest
              /\ combinedFile'.host \in {combinedFile.host, hostFile}
          BY <1>t, <4>1
        <4> QED BY <1>t, <3>0, <4>1, <4>2 DEF PairInv, Earlier
      <3> QED BY <1>3, <3>1, <3>2, <3>3, <3>4, <3>5 DEF Saver
    <2>6. alone => \A j \in Sessions :
                      /\ savers'[j].step # "none" => hostFile = j
                      /\ savers'[j].step \in {"poll", "open"} => Earlier'
      BY <2>2, <2>3, <2>5
    <2> QED BY <2>1, <2>4, <2>5, <2>6 DEF PairInv
  <1>4. CASE Guest
    <2>1. UNCHANGED <<tracingDisabled, savers, hostFile, combinedFile, sessions, alone>>
      BY <1>4 DEF Guest
    <2>2. CASE tracingDisabled /\ BeginTransfer(sessions)
      <3>1. guestFile'.sess = sessions /\ guestFile'.size = 0
        BY <2>2 DEF BeginTransfer
      <3> QED BY <1>t, <2>1, <2>2, <3>1 DEF PairInv, Begun, Earlier
    <2>3. CASE Transfer
      <3>1. guestFile'.sess = guestFile.sess /\ guestFile'.size >= 0
        BY <1>t, <2>3, GuestFileAssumption DEF Transfer, GuestFileType
      <3> QED BY <2>1, <3>1 DEF PairInv, Begun, Earlier
    <2> QED BY <1>4, <2>2, <2>3 DEF Guest
  <1>5. CASE UNCHANGED vars
    BY <1>5 DEF vars, PairInv, Earlier
  <1> QED BY <1>1, <1>2, <1>3, <1>4, <1>5 DEF Next

\* What the steps of the last session's thread make of a steady transfer.
LEMMA SaverSteady ==
    ASSUME GrowsInTime, Inv, PairInv, alone, NEW k \in Sessions, k = sessions,
           SteadySaver(k), steady, steady', Saver(k)
    PROVE  SteadySaver(k)'
  <1>t. /\ savers \in [Sessions -> SaverType] /\ savers[k] \in SaverType
        /\ guestFile \in GuestFileType /\ k \in Nat /\ k > 0
        /\ combinedFile \in [guest : GuestTrace, host : 0 .. MaxSessions]
        /\ Begun(guestFile)
    BY CombinedAssumption DEF Inv, TypeOK, PairInv, Sessions
  <1>1. CASE Poll(k)
    <2> DEFINE q == Polled(savers[k].poll, guestFile.size)
    <2>1. /\ savers[k].step = "poll" /\ savers[k].poll.i < kMaxIters
          /\ ~Stable(savers[k].poll)
          /\ guestFile' = [guestFile EXCEPT !.stall =
                               IF @ < MaxStall THEN @ + 1 ELSE @]
          /\ AsExpected(k)
          /\ UNCHANGED combinedFile
      BY <1>1 DEF Poll, SeenByPoll, Inv, ThreadInv
    <2>2. /\ guestFile.sess = k
          /\ guestFile.size \in 0 .. GuestSize - 1 => guestFile.stall < MaxStall
          /\ SteadyLoop(guestFile, k, savers[k].poll)
          /\ savers[k].poll \in Polls
      BY <1>t, <2>1 DEF AsExpected, SteadySaver, SaverType
    <2>3. SteadyLoop(guestFile', k, q) /\ (Stable(q) => guestFile.size = GuestSize)
      BY <1>t, <2>1, <2>2, SteadyPoll
    <2>4. savers'[k].poll = q /\ savers'[k].step = IF Stable(q) THEN "open" ELSE "poll"
      BY <1>1, SaverMoves
    <2>5. guestFile'.sess = k /\ guestFile'.size = guestFile.size
      BY <1>t, <2>1, <2>2 DEF GuestFileType
    <2> HIDE DEF q
    <2>6. CASE Stable(q)
      BY <2>3, <2>4, <2>5, <2>6 DEF SteadySaver
    <2>7. CASE ~Stable(q)
      BY <2>3, <2>4, <2>7 DEF SteadySaver
    <2> QED BY <2>6, <2>7
  <1>2. CASE TimeOut(k) \/ Finish(k)
    <2>1. savers'[k].step = "none"
      BY <1>2, SaverMoves
    <2> QED BY <2>1 DEF SteadySaver
  <1>3. CASE OpenCombined(k)
    <2>1. savers[k].step = "open" /\ savers'[k].step = "guest"
          /\ combinedFile' = [guest |-> NoGuest, host |-> 0] /\ UNCHANGED guestFile
      BY <1>3, SaverMoves DEF OpenCombined
    <2> QED BY <2>1 DEF SteadySaver
  <1>4. CASE CopyGuest(k)
    <2>1. /\ savers[k].step = "guest" /\ savers'[k].step = "host"
          /\ savers'[k].broken = ~(guestFile.size > 0)
      BY <1>4, SaverMoves DEF CopyGuest
    <2>2. /\ guestFile.sess = k /\ guestFile.size = GuestSize
          /\ combinedFile = [guest |-> NoGuest, host |-> 0]
      BY <2>1 DEF SteadySaver
    <2>3. guestFile.size > 0
      BY <2>2, GuestFileAssumption
    <2>4. combinedFile' = [combinedFile EXCEPT !.guest = WholeGuest(k)]
      BY <1>4, <2>2, <2>3 DEF CopyGuest, WholeGuest
    <2>5. combinedFile' = [guest |-> WholeGuest(k), host |-> 0]
      BY <1>t, <2>2, <2>4
    <2> QED BY <2>1, <2>3, <2>5 DEF SteadySaver
  <1>5. CASE CopyHost(k)
    <2>1. savers[k].step = "host" /\ savers'[k].step = "done"
      BY <1>5, SaverMoves DEF CopyHost
    <2>2. /\ ~savers[k].broken /\ hostFile = k
          /\ combinedFile = [guest |-> WholeGuest(k), host |-> 0]
      BY <2>1 DEF SteadySaver, PairInv
    <2>3. combinedFile' = [combinedFile EXCEPT !.host = k]
      BY <1>5, <2>2 DEF CopyHost
    <2>4. combinedFile' = [guest |-> WholeGuest(k), host |-> k]
      BY <1>t, <2>2, <2>3
    <2> QED BY <2>1, <2>4 DEF SteadySaver
  <1> QED BY <1>1, <1>2, <1>3, <1>4, <1>5 DEF Saver

\* Every step keeps what a steady transfer gives the threads, and with it the
\* combined file.
LEMMA StepSteady ==
    ASSUME GrowsInTime, Inv, Inv', OneSaver, OneSaver', PairInv, PairInv',
           steady /\ alone => (\A k \in Sessions : SteadySaver(k)) /\ WholePair,
           steady', alone', [Next]_vars
    PROVE  (\A k \in Sessions : SteadySaver(k))' /\ WholePair'
  <1>t. /\ savers \in [Sessions -> SaverType] /\ sessions \in Nat
        /\ guestFile \in GuestFileType /\ guestFile.sess \in Nat
        /\ combinedFile.guest.sess \in Nat /\ combinedFile.host \in Nat
    BY CombinedAssumption DEF Inv, TypeOK, GuestFileType, GuestTrace
  <1>i. \A k \in Sessions : savers'[k].step = "none" => SteadySaver(k)'
    BY DEF SteadySaver
  <1>1. CASE EnableTracing
    <2>1. /\ \A k \in Sessions : savers'[k].step = "none"
          /\ sessions' = sessions + 1
          /\ UNCHANGED combinedFile
      BY <1>1 DEF EnableTracing, Saved
    <2>2. sessions' \notin {combinedFile'.guest.sess, combinedFile'.host}
      BY <1>t, <2>1 DEF PairInv
    <2> QED BY <1>i, <2>1, <2>2 DEF WholePair
  <1>2. CASE DisableTracing
    <2>1. /\ savers[sessions] = Unused /\ sessions \in Sessions
          /\ guestFile.sess < sessions
          /\ \A k \in Sessions : savers[k].step = "none"
          /\ UNCHANGED guestFile
      <3>1. ~tracingDisabled /\ UNCHANGED guestFile /\ alone
        BY <1>2 DEF DisableTracing
      <3>2. sessions \in Sessions
        BY <1>t, <3>1, CombinedAssumption DEF Inv, TypeOK, ThreadInv, Sessions
      <3>3. savers[sessions] = Unused
        BY <3>1, <3>2 DEF Inv, ThreadInv
      <3> QED BY <3>1, <3>2, <3>3 DEF PairInv, OneSaver
    <2>2. /\ savers' = [savers EXCEPT ![sessions] = [Unused EXCEPT !.step = "poll"]]
      BY <1>t, <1>2, <2>1 DEF DisableTracing
    <2>3. savers'[sessions].step = "poll" /\ savers'[sessions].poll = FirstPoll
      BY <1>t, <2>1, <2>2 DEF Unused
    <2>4. SteadyLoop(guestFile', sessions, savers'[sessions].poll)
      BY <1>t, <2>1, <2>3 DEF SteadyLoop
    <2>5. \A k \in Sessions : k # sessions => savers'[k].step = "none"
      BY <1>t, <2>1, <2>2
    <2>6. ~Saved'
      BY <2>1, <2>3 DEF Saved
    <2>7. \A k \in Sessions : SteadySaver(k)'
      <3> SUFFICES ASSUME NEW k \in Sessions PROVE SteadySaver(k)'
        OBVIOUS
      <3>1. CASE k = sessions
        BY <2>3, <2>4, <3>1 DEF SteadySaver
      <3>2. CASE k # sessions
        BY <1>i, <2>5, <3>2
      <3> QED BY <3>1, <3>2
    <2> QED BY <2>6, <2>7 DEF WholePair
  <1>3. ASSUME NEW k \in Sessions, Saver(k)
        PROVE  (\A j \in Sessions : SteadySaver(j)') /\ WholePair'
    <2>1. /\ savers[k].step # "none" /\ steady /\ alone
          /\ UNCHANGED <<tracingDisabled, sessions, hostFile>>
      BY <1>3 DEF Saver, Poll, SeenByPoll, TimeOut, OpenCombined, CopyGuest,
                  CopyHost, Finish
    <2>2. k = sessions /\ tracingDisabled
      BY <2>1 DEF OneSaver
    <2>3. SteadySaver(k)'
      BY <1>3, <2>1, <2>2, SaverSteady
    <2>4. \A j \in Sessions : j # k => savers'[j].step = "none"
      BY <1>3, <2>1, <2>2, SaverMoves DEF OneSaver
    <2>5. WholePair'
      <3>1. CASE TimeOut(k)
        <4>1. Earlier /\ UNCHANGED combinedFile
          BY <3>1 DEF TimeOut, PairInv
        <4>2. sessions \notin {combinedFile.guest.sess, combinedFile.host}
          BY <1>t, <4>1 DEF Earlier
        <4> QED BY <2>1, <4>1, <4>2 DEF WholePair
      <3>2. CASE Finish(k)
        <4>1. combinedFile = [guest |-> WholeGuest(k), host |-> k]
              /\ UNCHANGED combinedFile
          BY <2>1, <3>2 DEF Finish, SteadySaver
        <4> QED BY <2>1, <2>2, <4>1 DEF WholePair, WholeGuest
      <3>3. CASE ~TimeOut(k) /\ ~Finish(k)
        <4>1. savers'[k].step # "none"
          BY <1>3, <3>3, SaverMoves DEF Saver
        <4> QED BY <4>1 DEF WholePair, Saved
      <3> QED BY <3>1, <3>2, <3>3
    <2> QED BY <1>i, <2>3, <2>4, <2>5
  <1>4. CASE Guest
    <2>1. /\ steady /\ alone
          /\ UNCHANGED <<savers, combinedFile, sessions>>
          /\ \/ guestFile.sess < sessions
                /\ guestFile' = [sess |-> sessions, size |-> 0, stall |-> 0]
             \/ guestFile.size \in 0 .. GuestSize - 1
                /\ guestFile' = [guestFile EXCEPT !.size = @ + 1, !.stall = 0]
      BY <1>4 DEF Guest, BeginTransfer, Transfer
    <2>2. WholePair'
      BY <2>1 DEF WholePair, Saved
    <2>3. ASSUME NEW k \in Sessions PROVE SteadySaver(k)'
      <3>1. CASE savers[k].step = "poll"
        <4>1. k = sessions /\ sessions > 0
          BY <1>t, <2>1, <3>1 DEF OneSaver, Sessions
        <4>2. SteadyLoop(guestFile, sessions, savers[k].poll) /\ savers[k].poll \in Polls
          BY <1>t, <2>1, <3>1, <4>1 DEF SteadySaver, SaverType
        <4>3. Begun(guestFile) /\ guestFile.sess <= sessions
          BY DEF PairInv
        <4>4. SteadyLoop(guestFile', sessions, savers[k].poll)
          BY <1>t, <2>1, <4>1, <4>2, <4>3, SteadyTransfer
        <4> QED BY <2>1, <3>1, <4>1, <4>4 DEF SteadySaver
      <3>2. CASE savers[k].step \in {"open", "guest"}
        <4>1. k = sessions /\ guestFile.sess = k /\ guestFile.size = GuestSize
          BY <2>1, <3>2 DEF OneSaver, SteadySaver
        <4> QED BY <1>t, <2>1, <4>1, GuestFileAssumption
      <3>3. CASE savers[k].step \notin {"poll", "open", "guest"}
        BY <2>1, <3>3 DEF SteadySaver
      <3> QED BY <3>1, <3>2, <3>3
    <2> QED BY <2>2, <2>3
  <1>5. CASE UNCHANGED vars
    BY <1>5 DEF vars, SteadySaver, WholePair, Saved
  <1> QED BY <1>1, <1>2, <1>3, <1>4, <1>5 DEF Next

\* If the guest's file grows as the loop counts on and the last session began
\* with no save at work, the combined file that its save leaves is the whole
\* trace of the guest followed by the host's of the same session.  The client is
\* free to start sessions while saves are at work: those before may have mixed
\* their files.
THEOREM CombinedIsWhole ==
    ASSUME GrowsInTime
    PROVE  Spec => []WholePair
  <1> DEFINE P == steady /\ alone => (\A k \in Sessions : SteadySaver(k)) /\ WholePair
             I == Inv /\ OneSaver
  <1>1. Init => PairInv /\ P
    <2> SUFFICES ASSUME Init PROVE PairInv /\ P
      OBVIOUS
    <2>1. \A k \in Sessions : savers[k].step = "none"
      BY DEF Init, Unused
    <2>2. PairInv
      BY <2>1 DEF Init, PairInv, Begun, NoGuestFile, NoGuest
    <2>3. P
      BY <2>1 DEF Init, SteadySaver, WholePair
    <2> QED BY <2>2, <2>3
  <1>2. I /\ I' /\ PairInv /\ P /\ [Next]_vars => PairInv' /\ P'
    <2> SUFFICES ASSUME I, I', PairInv, P, [Next]_vars
                 PROVE  PairInv' /\ P'
      OBVIOUS
    <2>1. PairInv'
      BY StepPairInv
    <2>2. P'
      BY <2>1, StepSteady
    <2> QED BY <2>1, <2>2
  <1>3. P => WholePair
    BY DEF WholePair
  <1> QED BY <1>1, <1>2, <1>3, OneSaverHolds, PTL DEF Spec
=============================================================================
