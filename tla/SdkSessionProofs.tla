--------------------------- MODULE SdkSessionProofs ---------------------------
(***************************************************************************)
(* Theorems about SdkSession, for every number of polls, every behaviour   *)
(* of the guest's file and every client.                                   *)
(***************************************************************************)
EXTENDS SdkSession, GuestFileProofs

Inv == TypeOK /\ OpenIsLast /\ SaverAlone

\* The empty traces are traces.
LEMMA NoTraceType ==
    /\ NoTrace \in HostTrace
    /\ NoGuest \in GuestTrace
    /\ NoCombined \in Combined
    /\ NoProgress \in [hostTrace : HostTrace, guestTrace : GuestTrace,
                       combinedTrace : Combined]
    /\ FirstPoll \in Polls
  <1>1. NoTrace \in HostTrace
    BY SessionAssumption DEF NoTrace, HostTrace
  <1>2. NoGuest \in GuestTrace
    BY GuestFileAssumption DEF NoGuest, GuestTrace
  <1>3. NoCombined \in Combined
    BY <1>1, <1>2, SessionAssumption DEF NoCombined, Combined
  <1> QED BY <1>1, <1>2, <1>3, FirstPollType DEF NoProgress

\* The initial state satisfies the invariant.
LEMMA InitInv == Init => Inv
  <1> SUFFICES ASSUME Init PROVE Inv
    OBVIOUS
  <1>1. guestFile \in GuestFileType
    BY GuestFileAssumption DEF Init, NoGuestFile, GuestFileType, Missing
  <1>2. saver \in [step : Steps, poll : Polls]
    BY NoTraceType DEF Init, Steps
  <1>3. TypeOK
    BY <1>1, <1>2, NoTraceType, SessionAssumption DEF Init, TypeOK
  <1>4. OpenIsLast /\ SaverAlone
    BY DEF Init, OpenIsLast, SaverAlone
  <1> QED BY <1>3, <1>4 DEF Inv

\* The calls of the control thread.
LEMMA ClientInv ==
    ASSUME Inv, Client
    PROVE  Inv'
  <1> USE DEF Inv
  <1>t. /\ config \in [tracingDisabled : BOOLEAN, saving : BOOLEAN,
                       filenames : BOOLEAN, guestTimeDiff : GuestDiffs]
        /\ sTracingSession \in HostTrace /\ sessions \in Nat
    BY DEF TypeOK
  <1>1. CASE SetTraceConfig
    BY <1>1, <1>t DEF SetTraceConfig, TypeOK, OpenIsLast, SaverAlone
  <1>2. ASSUME NEW d \in GuestDiffs, SetGuestTime(d)
        PROVE  Inv'
    BY <1>2, <1>t DEF SetGuestTime, TypeOK, OpenIsLast, SaverAlone
  <1>3. CASE EnableTracing
    <2> DEFINE new == [sess |-> sessions + 1, diff |-> config.guestTimeDiff]
    <2>1. /\ sTracingSession' = new /\ sessions' = sessions + 1
          /\ config' = [config EXCEPT !.tracingDisabled = FALSE]
          /\ ~config.saving
          /\ UNCHANGED <<guestFile, steady, sTraceProgress, saver, hostFile,
                         combinedFile>>
      BY <1>3 DEF EnableTracing
    <2>2. new \in HostTrace /\ new.sess = sessions + 1
      BY <1>t DEF HostTrace
    <2> HIDE DEF new
    <2>3. saver.step = "none"
      BY <2>1 DEF SaverAlone
    <2>4. /\ config' \in [tracingDisabled : BOOLEAN, saving : BOOLEAN,
                          filenames : BOOLEAN, guestTimeDiff : GuestDiffs]
          /\ ~config'.tracingDisabled /\ ~config'.saving
      BY <1>t, <2>1
    <2>5. sessions' \in Nat
      BY <1>t, <2>1
    <2>6. TypeOK'
      BY <2>1, <2>2, <2>4, <2>5 DEF TypeOK
    <2> QED BY <2>1, <2>2, <2>3, <2>4, <2>6 DEF OpenIsLast, SaverAlone
  <1>4. CASE DisableTracing
    <2>1. saver.step = "none" /\ sTracingSession.sess = sessions
      BY <1>4 DEF DisableTracing, SaverAlone, OpenIsLast
    <2>2. ~config.saving
      BY <1>4 DEF DisableTracing, OpenIsLast
    <2>3. /\ config' = [config EXCEPT !.tracingDisabled = TRUE,
                                      !.saving = config.filenames]
          /\ sTraceProgress' =
                [sTraceProgress EXCEPT !.hostTrace = sTracingSession]
          /\ sTracingSession' = NoTrace
          /\ steady' = TRUE
          /\ hostFile' \in {hostFile, sTracingSession}
          /\ \/ ~config.filenames /\ saver' = saver
             \/ config.filenames /\ saver' = [step |-> "poll", poll |-> FirstPoll]
          /\ UNCHANGED <<guestFile, combinedFile, sessions>>
      BY <1>4, <2>2 DEF DisableTracing
    <2>4. /\ config' \in [tracingDisabled : BOOLEAN, saving : BOOLEAN,
                          filenames : BOOLEAN, guestTimeDiff : GuestDiffs]
          /\ config'.tracingDisabled /\ config'.saving = config.filenames
      BY <1>t, <2>3
    <2>5. /\ sTraceProgress' \in [hostTrace : HostTrace,
                                  guestTrace : GuestTrace,
                                  combinedTrace : Combined]
          /\ sTraceProgress'.hostTrace = sTracingSession
      BY <1>t, <2>3 DEF TypeOK
    <2>6. saver' \in [step : Steps, poll : Polls]
      BY <2>3, NoTraceType DEF TypeOK, Steps
    <2>7. TypeOK'
      BY <1>t, <2>3, <2>4, <2>5, <2>6, NoTraceType DEF TypeOK
    <2>8. OpenIsLast'
      BY <2>3 DEF OpenIsLast
    <2>9. SaverAlone'
      BY <2>1, <2>3, <2>4, <2>5 DEF SaverAlone
    <2> QED BY <2>7, <2>8, <2>9
  <1> QED BY <1>1, <1>2, <1>3, <1>4 DEF Client

\* The steps of the detached thread.
LEMMA SaverInv ==
    ASSUME Inv, Saver, ~Aborted
    PROVE  Inv'
  <1> USE DEF Inv
  <1>t. /\ config \in [tracingDisabled : BOOLEAN, saving : BOOLEAN,
                       filenames : BOOLEAN, guestTimeDiff : GuestDiffs]
        /\ sTraceProgress \in [hostTrace : HostTrace, guestTrace : GuestTrace,
                               combinedTrace : Combined]
        /\ saver \in [step : Steps, poll : Polls]
        /\ guestFile \in GuestFileType
    BY DEF TypeOK
  <1>1. CASE Poll
    <2> DEFINE p == Polled(saver.poll, guestFile.size)
               s == IF Stable(p) THEN "read" ELSE "poll"
    <2>1. /\ saver' = [step |-> s, poll |-> p]
          /\ guestFile' = [guestFile EXCEPT !.stall =
                               IF @ < MaxStall THEN @ + 1 ELSE @]
          /\ steady' \in BOOLEAN
          /\ saver.step = "poll"
          /\ ~Stable(saver.poll) /\ saver.poll.i < kMaxIters
          /\ UNCHANGED <<config, sTracingSession, sTraceProgress, hostFile,
                         combinedFile, sessions>>
      BY <1>1 DEF Poll, SeenByPoll
    <2>2. p \in Polls
      BY <1>t, <2>1, PolledType DEF GuestFileType
    <2>3. s \in {"read", "poll"}
      OBVIOUS
    <2>4. guestFile' \in GuestFileType
      BY <1>t, <2>1 DEF GuestFileType
    <2> HIDE DEF p, s
    <2>5. saver' \in [step : Steps, poll : Polls] /\ saver'.step \in {"read", "poll"}
      BY <2>1, <2>2, <2>3 DEF Steps
    <2> QED BY <2>1, <2>4, <2>5 DEF TypeOK, OpenIsLast, SaverAlone
  <1>2. CASE TimeOut
    BY <1>2, <1>t, NoTraceType
    DEF TimeOut, TypeOK, OpenIsLast, SaverAlone, Steps
  <1>3. CASE ReadGuest
    <2> DEFINE g == [sess |-> guestFile.sess, size |-> guestFile.size]
    <2>1. /\ saver.step = "read" /\ saver' \in [step : Steps, poll : Polls]
          /\ saver'.step \in {"aborted", "combine"}
          /\ UNCHANGED <<guestFile, steady, config, sTracingSession,
                         hostFile, combinedFile, sessions>>
      BY <1>3, <1>t DEF ReadGuest, Steps
    <2>2. /\ sTraceProgress' \in [hostTrace : HostTrace, guestTrace : GuestTrace,
                                  combinedTrace : Combined]
          /\ sTraceProgress'.hostTrace = sTraceProgress.hostTrace
      <3>1. CASE UNCHANGED sTraceProgress
        BY <1>t, <3>1
      <3>2. CASE /\ guestFile.size # Missing
                 /\ sTraceProgress' = [sTraceProgress EXCEPT !.guestTrace = g]
        <4>1. g \in GuestTrace
          BY <1>t, <3>2, GuestFileAssumption
          DEF GuestFileType, GuestTrace, Missing
        <4> HIDE DEF g
        <4> QED BY <1>t, <3>2, <4>1
      <3> QED BY <1>3, <3>1, <3>2 DEF ReadGuest
    <2> QED BY <2>1, <2>2 DEF TypeOK, OpenIsLast, SaverAlone
  <1>4. CASE Combine
    <2> DEFINE m == [guest |-> sTraceProgress.guestTrace,
                     host |-> sTraceProgress.hostTrace,
                     diff |-> config.guestTimeDiff]
    <2>1. /\ saver.step = "combine" /\ saver' \in [step : Steps, poll : Polls]
          /\ saver'.step = "writeHost"
          /\ sTraceProgress' = [sTraceProgress EXCEPT !.combinedTrace = m]
          /\ UNCHANGED <<guestFile, steady, config, sTracingSession,
                         hostFile, combinedFile, sessions>>
      BY <1>4, <1>t DEF Combine, Steps
    <2>2. m \in Combined
      BY <1>t DEF Combined
    <2> HIDE DEF m
    <2>3. /\ sTraceProgress' \in [hostTrace : HostTrace, guestTrace : GuestTrace,
                                  combinedTrace : Combined]
          /\ sTraceProgress'.hostTrace = sTraceProgress.hostTrace
      BY <1>t, <2>1, <2>2
    <2> QED BY <2>1, <2>3 DEF TypeOK, OpenIsLast, SaverAlone
  <1>5. CASE WriteHost
    <2>1. /\ saver.step = "writeHost" /\ saver' \in [step : Steps, poll : Polls]
          /\ saver'.step = "writeCombined"
      BY <1>5, <1>t DEF WriteHost, Steps
    <2>2. TypeOK'
      BY <1>5, <1>t, <2>1, NoTraceType DEF WriteHost, TypeOK
    <2> QED BY <1>5, <2>1, <2>2 DEF WriteHost, OpenIsLast, SaverAlone
  <1>6. CASE WriteCombined
    <2>1. /\ saver.step = "writeCombined"
          /\ saver' \in [step : Steps, poll : Polls] /\ saver'.step = "done"
      BY <1>6, <1>t DEF WriteCombined, Steps
    <2>2. TypeOK'
      BY <1>6, <1>t, <2>1, NoTraceType DEF WriteCombined, TypeOK
    <2> QED BY <1>6, <2>1, <2>2 DEF WriteCombined, OpenIsLast, SaverAlone
  <1>7. CASE Finish
    BY <1>7, <1>t DEF Finish, TypeOK, OpenIsLast, SaverAlone, Steps
  <1> QED BY <1>1, <1>2, <1>3, <1>4, <1>5, <1>6, <1>7 DEF Saver

\* The guest changes its file and nothing else.
LEMMA GuestInv ==
    ASSUME Inv, Guest
    PROVE  Inv'
  <1>t. guestFile \in GuestFileType /\ sessions \in Nat
    BY DEF Inv, TypeOK
  <1>1. guestFile' \in GuestFileType
    <2>1. CASE BeginTransfer(sessions)
      BY <1>t, <2>1, GuestFileAssumption
      DEF BeginTransfer, GuestFileType, Missing
    <2>2. CASE Transfer
      <3> DEFINE size == guestFile.size + 1
      <3>1. size \in Missing .. GuestSize
        BY <1>t, <2>2, GuestFileAssumption DEF Transfer, GuestFileType, Missing
      <3>2. guestFile' = [guestFile EXCEPT !.size = size, !.stall = 0]
        BY <2>2 DEF Transfer
      <3> HIDE DEF size
      <3> QED BY <1>t, <3>1, <3>2 DEF GuestFileType
    <2> QED BY <2>1, <2>2 DEF Guest
  <1> QED BY <1>1 DEF Inv, Guest, TypeOK, OpenIsLast, SaverAlone

\* Every step keeps the invariant.
LEMMA StepInv == Inv /\ [Next]_vars => Inv'
  <1>1. ASSUME Inv, UNCHANGED vars
        PROVE  Inv'
    BY <1>1 DEF Inv, vars, TypeOK, OpenIsLast, SaverAlone
  <1> QED BY <1>1, ClientInv, SaverInv, GuestInv DEF Next

\* The invariant holds in every reachable state.
LEMMA InvHolds == Spec => []Inv
  BY InitInv, StepInv, PTL DEF Spec

\* The types of the configuration, the session, the trace in progress and the
\* files; in particular a guest trace that was read never has the size -1.
THEOREM TypeCorrect == Spec => []TypeOK
  <1>1. Inv => TypeOK
    BY DEF Inv
  <1> QED BY <1>1, InvHolds, PTL

\* The detached thread is the only one to touch the trace in progress: no
\* session is opened or closed while it runs.
THEOREM SaverIsAlone == Spec => []SaverAlone
  <1>1. Inv => SaverAlone
    BY DEF Inv
  <1> QED BY <1>1, InvHolds, PTL

\* The SDK build implements the life cycle of a session: start, trace, save,
\* and no start before the save has ended.
THEOREM SdkImplementsLifecycle == Spec => Implements
  <1>1. Init => Lifecycle!Init
    BY DEF Init, Lifecycle!Init, phase
  <1>2. ASSUME Inv, [Next]_vars
        PROVE  [Lifecycle!Next]_<<phase, sessions>>
    <2> USE DEF Lifecycle!Next, Lifecycle!Start, Lifecycle!Stop,
                Lifecycle!Saved, phase
    <2>t. /\ config \in [tracingDisabled : BOOLEAN, saving : BOOLEAN,
                         filenames : BOOLEAN, guestTimeDiff : GuestDiffs]
          /\ saver \in [step : Steps, poll : Polls]
      BY <1>2 DEF Inv, TypeOK
    <2>1. CASE EnableTracing
      <3>1. saver.step = "none"
        BY <1>2, <2>1 DEF EnableTracing, Inv, SaverAlone
      <3> QED BY <2>1, <2>t, <3>1 DEF EnableTracing
    <2>2. CASE DisableTracing
      <3>1. saver.step = "none"
        BY <1>2, <2>2 DEF DisableTracing, Inv, SaverAlone
      <3>2. ~config.tracingDisabled /\ ~config.saving
        BY <1>2, <2>2 DEF DisableTracing, Inv, OpenIsLast
      <3>3. /\ config' = [config EXCEPT !.tracingDisabled = TRUE,
                                        !.saving = config.filenames]
            /\ UNCHANGED sessions
        BY <2>2, <3>2 DEF DisableTracing
      <3>4. config'.tracingDisabled
        BY <2>t, <3>3
      <3>5. phase = "tracing" /\ phase' \in {"idle", "saving"}
        BY <3>2, <3>4
      <3> QED BY <3>3, <3>5
    <2>3. CASE SetTraceConfig \/ \E d \in GuestDiffs : SetGuestTime(d)
      BY <2>3, <2>t DEF SetTraceConfig, SetGuestTime
    <2>4. CASE Saver /\ ~Aborted
      <3>1. saver.step # "none"
        BY <2>4 DEF Saver, Poll, TimeOut, ReadGuest, Combine, WriteHost,
                    WriteCombined, Finish
      <3>2. config.tracingDisabled
        BY <1>2, <3>1 DEF Inv, SaverAlone
      <3>3. config'.tracingDisabled /\ UNCHANGED sessions
        BY <2>4, <2>t, <3>2
        DEF Saver, Poll, TimeOut, ReadGuest, Combine, WriteHost, WriteCombined,
            Finish
      <3> QED BY <3>1, <3>2, <3>3
    <2>5. CASE Guest \/ UNCHANGED vars
      BY <2>5 DEF Guest, vars
    <2> QED BY <1>2, <2>1, <2>2, <2>3, <2>4, <2>5 DEF Next, Client
  <1>3. Inv /\ [Next]_vars => [Lifecycle!Next]_<<phase, sessions>>
    BY <1>2
  <1> QED BY <1>1, <1>3, InvHolds, PTL DEF Spec, Implements, Lifecycle!Spec

-----------------------------------------------------------------------------
(***************************************************************************)
(* What a save leaves in the files                                         *)
(***************************************************************************)

\* The guest's file is never newer than the last session, and the combined
\* file is of an earlier one until the saver of the last session writes it.
SaveInv ==
    /\ Begun(guestFile)
    /\ guestFile.sess <= sessions
    /\ combinedFile.host.sess <= sessions
    /\ sTracingSession # NoTrace =>
          /\ guestFile.sess < sessions
          /\ sTracingSession.diff = config.guestTimeDiff
          /\ combinedFile.host.sess < sessions
    /\ saver.step # "none" => sessions > 0
    /\ saver.step \in {"poll", "read", "combine", "writeHost", "writeCombined"} =>
          combinedFile.host.sess < sessions
    /\ saver.step \in {"writeHost", "writeCombined"} =>
          sTraceProgress.combinedTrace.host.sess = sessions

\* The pair of traces that the save of the last session is to write.
Whole(c) ==
    /\ c.guest = [sess |-> sessions, size |-> GuestSize]
    /\ c.host.sess = sessions
    /\ c.diff = c.host.diff

\* What the saver holds at each of its steps if its transfer was steady.
SteadySaver ==
    /\ saver.step = "poll" => SteadyLoop(guestFile, sessions, saver.poll)
    /\ saver.step \in {"poll", "read", "combine"} =>
          config.guestTimeDiff = sTraceProgress.hostTrace.diff
    /\ saver.step = "read" =>
          guestFile.sess = sessions /\ guestFile.size = GuestSize
    /\ saver.step = "combine" =>
          sTraceProgress.guestTrace = [sess |-> sessions, size |-> GuestSize]
    /\ saver.step \in {"writeHost", "writeCombined"} =>
          Whole(sTraceProgress.combinedTrace)

\* The last session is in the host's file once it is written, or if nothing
\* was left to the saver.
HostKept ==
    sTracingSession = NoTrace /\ saver.step \in {"none", "writeCombined", "done"}
        => hostFile.sess = sessions

\* Every step keeps SaveInv.
LEMMA StepSaveInv ==
    ASSUME Inv, Inv', SaveInv, [Next]_vars
    PROVE  SaveInv'
  <1>t. /\ config \in [tracingDisabled : BOOLEAN, saving : BOOLEAN,
                       filenames : BOOLEAN, guestTimeDiff : GuestDiffs]
        /\ sTracingSession \in HostTrace /\ sessions \in Nat
        /\ sTraceProgress \in [hostTrace : HostTrace, guestTrace : GuestTrace,
                               combinedTrace : Combined]
        /\ saver \in [step : Steps, poll : Polls]
        /\ guestFile \in GuestFileType /\ combinedFile \in Combined
        /\ guestFile.sess \in Nat /\ combinedFile.host.sess \in Nat
    BY DEF Inv, TypeOK, GuestFileType, Combined, HostTrace
  <1>1. CASE SetTraceConfig \/ \E d \in GuestDiffs : SetGuestTime(d)
    <2>1. CASE SetTraceConfig
      BY <1>t, <2>1 DEF SetTraceConfig, SaveInv
    <2>2. CASE \E d \in GuestDiffs : SetGuestTime(d)
      <3>1. sTracingSession = NoTrace
        BY <2>2 DEF SetGuestTime, Inv, OpenIsLast
      <3> QED BY <2>2, <3>1 DEF SetGuestTime, SaveInv
    <2> QED BY <1>1, <2>1, <2>2
  <1>2. CASE EnableTracing
    <2>1. saver.step = "none"
      BY <1>2 DEF EnableTracing, Inv, SaverAlone
    <2>2. /\ sTracingSession' = [sess |-> sessions + 1, diff |-> config.guestTimeDiff]
          /\ config' = [config EXCEPT !.tracingDisabled = FALSE]
          /\ sessions' = sessions + 1
          /\ UNCHANGED <<guestFile, saver, combinedFile, sTraceProgress>>
      BY <1>2 DEF EnableTracing
    <2>3. /\ sTracingSession'.diff = config.guestTimeDiff
          /\ config'.guestTimeDiff = config.guestTimeDiff
      BY <1>t, <2>2
    <2>4. guestFile.sess < sessions' /\ combinedFile.host.sess < sessions'
      BY <1>t, <2>2 DEF SaveInv
    <2>5. Begun(guestFile')
      BY <2>2 DEF SaveInv
    <2> QED BY <1>t, <2>1, <2>2, <2>3, <2>4, <2>5 DEF SaveInv
  <1>3. CASE DisableTracing
    <2>1. saver.step = "none" /\ ~config.saving
      BY <1>3 DEF DisableTracing, Inv, SaverAlone, OpenIsLast
    <2>2. /\ sTracingSession # NoTrace /\ sTracingSession' = NoTrace
          /\ saver' = saver \/ saver'.step = "poll"
          /\ UNCHANGED <<guestFile, combinedFile, sessions>>
      BY <1>3, <2>1 DEF DisableTracing
    <2>3. guestFile.sess < sessions /\ sessions > 0
      BY <1>t, <2>2 DEF SaveInv
    <2> QED BY <2>1, <2>2, <2>3 DEF SaveInv
  <1>4. CASE Saver /\ ~Aborted
    <2>1. /\ sTracingSession = NoTrace /\ sTracingSession' = NoTrace
          /\ sessions' = sessions /\ sessions > 0
          /\ guestFile'.sess = guestFile.sess /\ guestFile'.size = guestFile.size
      <3>1. saver.step # "none"
        BY <1>4 DEF Saver, Poll, TimeOut, ReadGuest, Combine, WriteHost,
                    WriteCombined, Finish
      <3>2. /\ UNCHANGED <<sTracingSession, sessions>>
            /\ \/ UNCHANGED guestFile
               \/ guestFile' = [guestFile EXCEPT !.stall =
                                   IF @ < MaxStall THEN @ + 1 ELSE @]
        BY <1>4 DEF Saver, Poll, TimeOut, ReadGuest, Combine, WriteHost,
                    WriteCombined, Finish, SeenByPoll
      <3> QED BY <1>t, <3>1, <3>2 DEF Inv, SaverAlone, SaveInv, GuestFileType
    <2>2. Begun(guestFile')
      BY <2>1 DEF SaveInv, Begun
    <2>3. CASE Poll
      <3>1. /\ saver.step = "poll" /\ saver'.step \in {"read", "poll"}
            /\ UNCHANGED <<combinedFile, sTraceProgress>>
        BY <2>3 DEF Poll
      <3> QED BY <2>1, <2>2, <3>1 DEF SaveInv
    <2>4. CASE TimeOut
      <3>1. saver'.step = "none" /\ UNCHANGED combinedFile
        BY <1>t, <2>4 DEF TimeOut
      <3> QED BY <2>1, <2>2, <3>1 DEF SaveInv
    <2>5. CASE ReadGuest
      <3>1. /\ saver.step = "read" /\ saver'.step \in {"aborted", "combine"}
            /\ UNCHANGED combinedFile
        BY <1>t, <2>5 DEF ReadGuest
      <3> QED BY <2>1, <2>2, <3>1 DEF SaveInv
    <2>6. CASE Combine
      <3>1. /\ saver.step = "combine" /\ saver'.step = "writeHost"
            /\ UNCHANGED combinedFile
            /\ sTraceProgress'.combinedTrace.host.sess
                  = sTraceProgress.hostTrace.sess
        BY <1>t, <2>6 DEF Combine
      <3>2. sTraceProgress.hostTrace.sess = sessions
        BY <3>1 DEF Inv, SaverAlone
      <3> QED BY <2>1, <2>2, <3>1, <3>2 DEF SaveInv
    <2>7. CASE WriteHost
      <3>1. /\ saver.step = "writeHost" /\ saver'.step = "writeCombined"
            /\ UNCHANGED combinedFile
            /\ sTraceProgress'.combinedTrace = sTraceProgress.combinedTrace
        BY <1>t, <2>7 DEF WriteHost
      <3> QED BY <2>1, <2>2, <3>1 DEF SaveInv
    <2>8. CASE WriteCombined
      <3>1. /\ saver.step = "writeCombined" /\ saver'.step = "done"
            /\ combinedFile' = sTraceProgress.combinedTrace
        BY <1>t, <2>8 DEF WriteCombined
      <3> QED BY <1>t, <2>1, <2>2, <3>1 DEF SaveInv
    <2>9. CASE Finish
      <3>1. saver'.step = "none" /\ UNCHANGED combinedFile
        BY <1>t, <2>9 DEF Finish
      <3> QED BY <2>1, <2>2, <3>1 DEF SaveInv
    <2> QED BY <1>4, <2>3, <2>4, <2>5, <2>6, <2>7, <2>8, <2>9 DEF Saver
  <1>5. CASE Guest
    <2>1. UNCHANGED <<config, sTracingSession, sTraceProgress, saver, combinedFile,
                      sessions>>
      BY <1>5 DEF Guest
    <2>2. CASE config.tracingDisabled /\ BeginTransfer(sessions)
      <3>1. sTracingSession = NoTrace
        BY <2>2 DEF Inv, OpenIsLast
      <3>2. guestFile'.sess = sessions /\ guestFile'.size = 0
        BY <2>2 DEF BeginTransfer
      <3> QED BY <1>t, <2>1, <3>1, <3>2 DEF SaveInv, Begun
    <2>3. CASE Transfer
      <3>1. guestFile'.sess = guestFile.sess /\ guestFile'.size >= 0
        BY <1>t, <2>3, GuestFileAssumption DEF Transfer, GuestFileType
      <3> QED BY <2>1, <3>1 DEF SaveInv, Begun
    <2> QED BY <1>5, <2>2, <2>3 DEF Guest
  <1>6. CASE UNCHANGED vars
    BY <1>6 DEF vars, SaveInv
  <1> QED BY <1>1, <1>2, <1>3, <1>4, <1>5, <1>6 DEF Next, Client

\* The history of the files, in every reachable state.
LEMMA SaveInvHolds == Spec => [](Inv /\ SaveInv)
  <1>1. Init => SaveInv
    BY SessionAssumption
    DEF Init, SaveInv, Begun, NoGuestFile, NoTrace, NoCombined
  <1>2. Inv /\ SaveInv /\ [Next]_vars => Inv' /\ SaveInv'
    BY StepInv, StepSaveInv
  <1> QED BY <1>1, <1>2, InitInv, PTL DEF Spec

\* Every step keeps what a saver with a steady transfer holds, and with it the
\* combined file it writes.
LEMMA StepSteady ==
    ASSUME GrowsInTime, Inv, Inv', SaveInv, SaveInv',
           steady => SteadySaver /\ WholePair, steady', [Next]_vars
    PROVE  SteadySaver' /\ WholePair'
  <1>t. /\ config \in [tracingDisabled : BOOLEAN, saving : BOOLEAN,
                       filenames : BOOLEAN, guestTimeDiff : GuestDiffs]
        /\ sTracingSession \in HostTrace /\ sessions \in Nat
        /\ sTraceProgress \in [hostTrace : HostTrace, guestTrace : GuestTrace,
                               combinedTrace : Combined]
        /\ saver \in [step : Steps, poll : Polls]
        /\ guestFile \in GuestFileType /\ combinedFile \in Combined
        /\ guestFile.sess \in Nat /\ combinedFile.host.sess \in Nat
    BY DEF Inv, TypeOK, GuestFileType, Combined, HostTrace
  <1>1. CASE SetTraceConfig \/ \E d \in GuestDiffs : SetGuestTime(d)
    <2>1. steady /\ ~config.saving
          /\ UNCHANGED <<guestFile, sTraceProgress, saver, combinedFile, sessions>>
      BY <1>1 DEF SetTraceConfig, SetGuestTime
    <2>2. saver.step = "none"
      BY <2>1 DEF Inv, SaverAlone
    <2> QED BY <2>1, <2>2 DEF SteadySaver, WholePair
  <1>2. CASE EnableTracing
    <2>1. saver.step = "none"
      BY <1>2 DEF EnableTracing, Inv, SaverAlone
    <2>2. sessions' = sessions + 1 /\ UNCHANGED <<saver, combinedFile>>
      BY <1>2 DEF EnableTracing
    <2>3. combinedFile.host.sess # sessions'
      BY <1>t, <2>2 DEF SaveInv
    <2> QED BY <2>1, <2>2, <2>3 DEF SteadySaver, WholePair
  <1>3. CASE DisableTracing
    <2>1. saver.step = "none" /\ ~config.saving /\ sTracingSession # NoTrace
      BY <1>3 DEF DisableTracing, Inv, SaverAlone, OpenIsLast
    <2>2. /\ sTraceProgress' =
                [sTraceProgress EXCEPT !.hostTrace = sTracingSession]
          /\ config' = [config EXCEPT !.tracingDisabled = TRUE,
                                      !.saving = config.filenames]
          /\ saver' = saver \/ saver' = [step |-> "poll", poll |-> FirstPoll]
          /\ UNCHANGED <<guestFile, combinedFile, sessions>>
      BY <1>3, <2>1 DEF DisableTracing
    <2>3. /\ guestFile.sess < sessions
          /\ combinedFile.host.sess < sessions
          /\ sTracingSession.diff = config.guestTimeDiff
      BY <2>1 DEF SaveInv
    <2>4. WholePair'
      BY <1>t, <2>2, <2>3 DEF WholePair
    <2>5. CASE saver' = saver
      BY <2>1, <2>4, <2>5 DEF SteadySaver
    <2>6. CASE saver' = [step |-> "poll", poll |-> FirstPoll]
      <3>1. saver'.step = "poll" /\ saver'.poll = FirstPoll
        BY <2>6
      <3>2. SteadyLoop(guestFile', sessions', saver'.poll)
        BY <1>t, <2>2, <2>3, <3>1 DEF SteadyLoop
      <3>3. config'.guestTimeDiff = sTraceProgress'.hostTrace.diff
        BY <1>t, <2>2, <2>3
      <3> QED BY <2>4, <3>1, <3>2, <3>3 DEF SteadySaver
    <2> QED BY <2>2, <2>5, <2>6
  <1>4. CASE Saver /\ ~Aborted
    <2>1. steady /\ SteadySaver /\ WholePair /\ UNCHANGED sessions
      BY <1>4 DEF Saver, Poll, TimeOut, ReadGuest, Combine, WriteHost,
                  WriteCombined, Finish, SeenByPoll
    <2>2. CASE Poll
      <3> DEFINE q == Polled(saver.poll, guestFile.size)
      <3>1. /\ saver.step = "poll" /\ ~Stable(saver.poll)
            /\ saver.poll.i < kMaxIters
            /\ saver' = [step |-> IF Stable(q) THEN "read" ELSE "poll", poll |-> q]
            /\ guestFile' = [guestFile EXCEPT !.stall =
                                 IF @ < MaxStall THEN @ + 1 ELSE @]
            /\ AsExpected(sTraceProgress.hostTrace.sess)
            /\ UNCHANGED <<config, sTraceProgress, combinedFile>>
        BY <2>2 DEF Poll, SeenByPoll
      <3>2. sTraceProgress.hostTrace.sess = sessions
        BY <3>1 DEF Inv, SaverAlone
      <3>3. /\ guestFile.sess = sessions /\ sessions > 0
            /\ guestFile.size \in 0 .. GuestSize - 1 => guestFile.stall < MaxStall
            /\ Begun(guestFile)
            /\ SteadyLoop(guestFile, sessions, saver.poll)
        BY <2>1, <3>1, <3>2 DEF AsExpected, SaveInv, SteadySaver
      <3>4. saver.poll \in Polls
        BY <1>t
      <3>5. /\ SteadyLoop(guestFile', sessions, q)
            /\ Stable(q) => guestFile.size = GuestSize
        BY <1>t, <3>1, <3>3, <3>4, SteadyPoll
      <3>6. guestFile'.sess = guestFile.sess /\ guestFile'.size = guestFile.size
        BY <1>t, <3>1 DEF GuestFileType
      <3> HIDE DEF q
      <3>7. /\ saver'.poll = q /\ saver'.step \in {"read", "poll"}
            /\ saver'.step = "read" => Stable(q)
        BY <3>1
      <3> QED BY <2>1, <3>1, <3>3, <3>5, <3>6, <3>7 DEF SteadySaver, WholePair
    <2>3. CASE TimeOut \/ Finish
      <3>1. saver'.step = "none" /\ UNCHANGED combinedFile
        BY <1>t, <2>3 DEF TimeOut, Finish
      <3> QED BY <2>1, <3>1 DEF SteadySaver, WholePair
    <2>4. CASE ReadGuest
      <3>1. saver.step = "read" /\ guestFile.sess = sessions
            /\ guestFile.size = GuestSize
        BY <2>1, <2>4 DEF ReadGuest, SteadySaver
      <3>2. /\ saver'.step = "combine"
            /\ sTraceProgress' = [sTraceProgress EXCEPT !.guestTrace =
                                     [sess |-> sessions, size |-> GuestSize]]
            /\ UNCHANGED <<config, combinedFile>>
        BY <1>t, <2>4, <3>1, GuestFileAssumption DEF ReadGuest, Missing
      <3>3. /\ sTraceProgress'.guestTrace = [sess |-> sessions, size |-> GuestSize]
            /\ sTraceProgress'.hostTrace = sTraceProgress.hostTrace
        BY <1>t, <3>2
      <3>4. config.guestTimeDiff = sTraceProgress.hostTrace.diff
        BY <2>1, <3>1 DEF SteadySaver
      <3> QED BY <2>1, <3>2, <3>3, <3>4 DEF SteadySaver, WholePair
    <2>5. CASE Combine
      <3>1. /\ saver.step = "combine"
            /\ sTraceProgress.guestTrace = [sess |-> sessions, size |-> GuestSize]
            /\ config.guestTimeDiff = sTraceProgress.hostTrace.diff
        BY <2>1, <2>5 DEF Combine, SteadySaver
      <3>2. /\ saver'.step = "writeHost"
            /\ sTraceProgress'.combinedTrace =
                  [guest |-> sTraceProgress.guestTrace,
                   host |-> sTraceProgress.hostTrace,
                   diff |-> config.guestTimeDiff]
            /\ UNCHANGED combinedFile
        BY <1>t, <2>5 DEF Combine
      <3>3. sTraceProgress.hostTrace.sess = sessions
        BY <3>1 DEF Inv, SaverAlone
      <3>4. Whole(sTraceProgress.combinedTrace)'
        BY <2>1, <3>1, <3>2, <3>3 DEF Whole
      <3> QED BY <2>1, <3>2, <3>4 DEF SteadySaver, WholePair
    <2>6. CASE WriteHost
      <3>1. /\ saver.step = "writeHost" /\ saver'.step = "writeCombined"
            /\ sTraceProgress'.combinedTrace = sTraceProgress.combinedTrace
            /\ UNCHANGED combinedFile
        BY <1>t, <2>6 DEF WriteHost
      <3> QED BY <2>1, <3>1 DEF SteadySaver, WholePair, Whole
    <2>7. CASE WriteCombined
      <3>1. /\ saver.step = "writeCombined" /\ saver'.step = "done"
            /\ combinedFile' = sTraceProgress.combinedTrace
        BY <1>t, <2>7 DEF WriteCombined
      <3>2. Whole(combinedFile')
        BY <2>1, <3>1 DEF SteadySaver
      <3> QED BY <2>1, <3>1, <3>2 DEF SteadySaver, WholePair, Whole
    <2> QED BY <1>4, <2>2, <2>3, <2>4, <2>5, <2>6, <2>7 DEF Saver
  <1>5. CASE Guest
    <2>1. /\ steady /\ SteadySaver /\ WholePair
          /\ UNCHANGED <<config, sTraceProgress, saver, combinedFile, sessions>>
          /\ \/ guestFile.sess < sessions
                /\ guestFile' = [sess |-> sessions, size |-> 0, stall |-> 0]
             \/ guestFile.size \in 0 .. GuestSize - 1
                /\ guestFile' = [guestFile EXCEPT !.size = @ + 1, !.stall = 0]
      BY <1>5 DEF Guest, BeginTransfer, Transfer
    <2>2. CASE saver.step = "poll"
      <3>1. saver.poll \in Polls /\ sessions > 0 /\ Begun(guestFile)
            /\ guestFile.sess <= sessions
        BY <1>t, <2>2 DEF SaveInv
      <3>2. SteadyLoop(guestFile, sessions, saver.poll)
        BY <2>1, <2>2 DEF SteadySaver
      <3>3. SteadyLoop(guestFile', sessions, saver.poll)
        BY <1>t, <2>1, <3>1, <3>2, SteadyTransfer
      <3> QED BY <2>1, <2>2, <3>3 DEF SteadySaver, WholePair
    <2>3. CASE saver.step = "read"
      <3>1. guestFile.sess = sessions /\ guestFile.size = GuestSize
        BY <2>1, <2>3 DEF SteadySaver
      <3> QED BY <1>t, <2>1, <3>1, GuestFileAssumption
    <2>4. CASE saver.step \notin {"poll", "read"}
      BY <2>1, <2>4 DEF SteadySaver, WholePair, Whole
    <2> QED BY <2>2, <2>3, <2>4
  <1>6. CASE UNCHANGED vars
    BY <1>6 DEF vars, SteadySaver, WholePair, Whole
  <1> QED BY <1>1, <1>2, <1>3, <1>4, <1>5, <1>6 DEF Next, Client

\* If the guest's file grows as the loop counts on, the combined file of the
\* last session is the whole trace of the guest and the host's, shifted by the
\* difference set when the session started: however the guest, the client and
\* the saver interleave, and for every size of the guest's trace.
THEOREM CombinedIsWhole ==
    ASSUME GrowsInTime
    PROVE  Spec => []WholePair
  <1> DEFINE P == steady => SteadySaver /\ WholePair
  <1>1. Init => P
    BY DEF Init, SteadySaver, WholePair, NoCombined, NoTrace
  <1>2. Inv /\ SaveInv /\ Inv' /\ SaveInv' /\ P /\ [Next]_vars => P'
    BY StepSteady
  <1>3. P => WholePair
    BY DEF WholePair
  <1> QED BY <1>1, <1>2, <1>3, SaveInvHolds, PTL DEF Spec

\* The steady saver does not give up, and writes the host's file.
LEMMA StepHostKept ==
    ASSUME FitsInPolls, Inv, SaveInv, Inv',
           steady => SteadySaver /\ HostKept, steady', [Next]_vars
    PROVE  HostKept'
  <1>t. /\ sTracingSession \in HostTrace /\ sessions \in Nat
        /\ saver \in [step : Steps, poll : Polls]
        /\ guestFile \in GuestFileType
    BY DEF Inv, TypeOK
  <1>1. CASE SetTraceConfig \/ \E d \in GuestDiffs : SetGuestTime(d)
    BY <1>1 DEF SetTraceConfig, SetGuestTime, HostKept
  <1>2. CASE EnableTracing
    <2>1. sTracingSession'.sess = sessions + 1
      BY <1>2 DEF EnableTracing
    <2>2. sTracingSession' # NoTrace
      BY <1>t, <2>1 DEF NoTrace
    <2> QED BY <2>2 DEF HostKept
  <1>3. CASE DisableTracing
    <2>1. ~config.saving /\ sTracingSession.sess = sessions
      BY <1>3 DEF DisableTracing, Inv, OpenIsLast
    <2>2. \/ hostFile' = sTracingSession
          \/ saver'.step = "poll"
      BY <1>3, <2>1 DEF DisableTracing
    <2>3. UNCHANGED sessions
      BY <1>3 DEF DisableTracing
    <2> QED BY <2>1, <2>2, <2>3 DEF HostKept
  <1>4. CASE Saver /\ ~Aborted
    <2>1. steady /\ SteadySaver /\ HostKept /\ UNCHANGED <<sTracingSession, sessions>>
      BY <1>4 DEF Saver, Poll, TimeOut, ReadGuest, Combine, WriteHost,
                  WriteCombined, Finish, SeenByPoll
    <2>2. CASE Poll \/ ReadGuest \/ Combine
      <3>1. saver'.step \in {"poll", "read", "aborted", "combine", "writeHost"}
        <4>1. CASE Poll
          BY <4>1 DEF Poll
        <4>2. CASE ReadGuest \/ Combine
          BY <1>t, <4>2 DEF ReadGuest, Combine
        <4> QED BY <2>2, <4>1, <4>2
      <3> QED BY <3>1 DEF HostKept
    <2>3. CASE TimeOut
      <3>1. saver.step = "poll" /\ GaveUp(saver.poll) /\ saver.poll \in Polls
        BY <1>t, <2>3 DEF TimeOut
      <3>2. SteadyLoop(guestFile, sessions, saver.poll)
            /\ Begun(guestFile) /\ sessions > 0
        BY <2>1, <3>1 DEF SteadySaver, SaveInv
      <3> QED BY <1>t, <3>1, <3>2, SteadyLoopGoesOn
    <2>4. CASE WriteHost
      <3>1. saver.step = "writeHost" /\ hostFile' = sTraceProgress.hostTrace
        BY <2>4 DEF WriteHost
      <3>2. sTraceProgress.hostTrace.sess = sessions
        BY <3>1 DEF Inv, SaverAlone
      <3> QED BY <2>1, <3>1, <3>2 DEF HostKept
    <2>5. CASE WriteCombined \/ Finish
      <3>1. saver.step \in {"writeCombined", "done"} /\ UNCHANGED hostFile
        BY <2>5 DEF WriteCombined, Finish
      <3> QED BY <2>1, <3>1 DEF HostKept
    <2> QED BY <1>4, <2>2, <2>3, <2>4, <2>5 DEF Saver
  <1>5. CASE Guest \/ UNCHANGED vars
    BY <1>5 DEF Guest, vars, HostKept
  <1> QED BY <1>1, <1>2, <1>3, <1>4, <1>5 DEF Next, Client

\* If moreover a steady transfer fits in the loop's polls, no session of the
\* host is lost: once no session is open and no save runs, the host's file
\* holds the trace of the last one.
THEOREM HostIsSaved ==
    ASSUME GrowsInTime, FitsInPolls
    PROVE  Spec => []HostSaved
  <1> DEFINE P == steady => SteadySaver /\ WholePair
             Q == steady => HostKept
  <1>1. Init => P /\ Q
    BY DEF Init, SteadySaver, WholePair, HostKept, NoCombined, NoTrace
  <1>2. Inv /\ SaveInv /\ Inv' /\ SaveInv' /\ P /\ Q /\ [Next]_vars => P' /\ Q'
    <2>1. ASSUME Inv, SaveInv, Inv', SaveInv', P, Q, [Next]_vars
          PROVE  P'
      BY <2>1, StepSteady
    <2>2. ASSUME Inv, SaveInv, Inv', P, Q, [Next]_vars
          PROVE  Q'
      <3> SUFFICES ASSUME steady' PROVE HostKept'
        OBVIOUS
      <3>1. steady => SteadySaver /\ HostKept
        BY <2>2
      <3> QED BY <2>2, <3>1, StepHostKept
    <2> QED BY <2>1, <2>2
  <1>3. Inv /\ Q => HostSaved
    <2> SUFFICES ASSUME Inv, steady => HostKept, steady,
                        sTracingSession = NoTrace, ~config.saving
                 PROVE  hostFile.sess = sessions
      BY DEF HostSaved
    <2>1. saver.step = "none"
      BY DEF Inv, SaverAlone
    <2> QED BY <2>1 DEF HostKept
  <1> QED BY <1>1, <1>2, <1>3, SaveInvHolds, PTL DEF Spec
=============================================================================
