------------------------------ MODULE SdkSession ------------------------------
(***************************************************************************)
(* A tracing session of the SDK build (vperfetto-sdk.cpp): the calls of    *)
(* the control thread, and the detached thread that disableTracing starts  *)
(* to combine the host's trace with the guest's.                           *)
(*                                                                         *)
(* A trace is named by the number of its session.  The calls of the        *)
(* control thread are single steps: the saver, which is the only other     *)
(* writer of this state, never runs while a session is open (SaverAlone).  *)
(***************************************************************************)
EXTENDS GuestFile

CONSTANTS
    GuestDiffs,   \* values getSignedDifference gives setGuestTime
    MaxSessions   \* bound: sessions

ASSUME SessionAssumption ==
    /\ GuestDiffs \subseteq Int
    /\ 0 \in GuestDiffs
    /\ MaxSessions \in Nat

VARIABLES
    config,          \* sTraceConfig
    sTracingSession, \* NoTrace is nullptr
    sTraceProgress,
    saver,           \* the detached thread
    hostFile,        \* what the file hostFilename holds
    combinedFile,    \* what the file combinedFilename holds
    sessions         \* sessions so far (history)

vars == <<guestFile, steady, config, sTracingSession, sTraceProgress, saver,
          hostFile, combinedFile, sessions>>

-----------------------------------------------------------------------------
\* The host's trace of session sess, with the time difference that was set
\* when the session started (history).
HostTrace == [sess : Nat, diff : GuestDiffs]
NoTrace == [sess |-> 0, diff |-> 0]
NoGuest == [sess |-> 0, size |-> 0]

\* The guest's trace and the host's, shifted by diff.
Combined == [guest : GuestTrace, host : HostTrace, diff : GuestDiffs]
NoCombined == [guest |-> NoGuest, host |-> NoTrace, diff |-> 0]

Steps == {"none", "poll", "read", "combine", "writeHost", "writeCombined",
          "done", "aborted"}

TypeOK ==
    /\ guestFile \in GuestFileType
    /\ steady \in BOOLEAN
    /\ config \in [tracingDisabled : BOOLEAN, saving : BOOLEAN,
                   filenames : BOOLEAN, guestTimeDiff : GuestDiffs]
    /\ sTracingSession \in HostTrace
    /\ sTraceProgress \in [hostTrace : HostTrace, guestTrace : GuestTrace,
                           combinedTrace : Combined]
    /\ saver \in [step : Steps, poll : Polls]
    /\ hostFile \in HostTrace
    /\ combinedFile \in Combined
    /\ sessions \in Nat

NoProgress == [hostTrace |-> NoTrace, guestTrace |-> NoGuest,
               combinedTrace |-> NoCombined]

Init ==
    /\ guestFile = NoGuestFile
    /\ steady = TRUE
    /\ config = [tracingDisabled |-> TRUE, saving |-> FALSE,
                 filenames |-> FALSE, guestTimeDiff |-> 0]
    /\ sTracingSession = NoTrace
    /\ sTraceProgress = NoProgress
    /\ saver = [step |-> "none", poll |-> FirstPoll]
    /\ hostFile = NoTrace
    /\ combinedFile = NoCombined
    /\ sessions = 0

-----------------------------------------------------------------------------
(***************************************************************************)
(* The control thread                                                      *)
(***************************************************************************)

\* setTraceConfig, which asks for nothing, at any time: the names of the
\* guest's and the combined file, both or none.  disableTracing looks at them,
\* and the saver copies them as it starts.  A save counts on a client that
\* leaves them alone until it is done.
SetTraceConfig ==
    /\ config' = [config EXCEPT !.filenames = ~@]
    /\ steady' = (steady /\ ~config.saving)
    /\ UNCHANGED <<guestFile, sTracingSession, sTraceProgress, saver, hostFile,
                   combinedFile, sessions>>

\* setGuestTime, ignored while tracing.  A save counts on a client that does
\* not call it before the save is done.
SetGuestTime(d) ==
    /\ config.tracingDisabled
    /\ config' = [config EXCEPT !.guestTimeDiff = d]
    /\ steady' = (steady /\ ~config.saving)
    /\ UNCHANGED <<guestFile, sTracingSession, sTraceProgress, saver, hostFile,
                   combinedFile, sessions>>

\* Mutant: tracing is enabled during a save.
EnableWhileSaving ==
    /\ sessions < MaxSessions
    /\ config.tracingDisabled
    /\ sTracingSession = NoTrace
    /\ sTracingSession' = [sess |-> sessions + 1, diff |-> config.guestTimeDiff]
    /\ config' = [config EXCEPT !.tracingDisabled = FALSE]
    /\ sessions' = sessions + 1
    /\ UNCHANGED <<guestFile, steady, sTraceProgress, saver, hostFile, combinedFile>>

\* enableTracing with a host file name.  The call does nothing while tracing
\* is on, a save is running, or a session is open.
EnableTracing ==
    /\ sessions < MaxSessions
    /\ config.tracingDisabled
    /\ ~config.saving
    /\ sTracingSession = NoTrace
    /\ sTracingSession' = [sess |-> sessions + 1, diff |-> config.guestTimeDiff]
    /\ config' = [config EXCEPT !.tracingDisabled = FALSE]
    /\ sessions' = sessions + 1
    /\ UNCHANGED <<guestFile, steady, sTraceProgress, saver, hostFile, combinedFile>>

\* disableTracing: stops the session and reads its trace, then saves it
\* itself, or leaves the save to the detached thread if the guest's trace is
\* to be combined with it.
DisableTracing ==
    /\ sTracingSession # NoTrace
    /\ IF config.saving
       THEN /\ config' = [config EXCEPT !.tracingDisabled = TRUE]
            /\ UNCHANGED <<steady, sTracingSession, sTraceProgress, saver,
                           hostFile>>
       ELSE /\ config' = [config EXCEPT !.tracingDisabled = TRUE,
                                        !.saving = config.filenames]
            /\ sTraceProgress' =
                  [sTraceProgress EXCEPT !.hostTrace = sTracingSession]
            /\ sTracingSession' = NoTrace
            /\ steady' = TRUE
            /\ hostFile' = IF config.filenames THEN hostFile
                           ELSE sTracingSession
            /\ saver' = IF config.filenames
                        THEN [step |-> "poll", poll |-> FirstPoll] ELSE saver
    /\ UNCHANGED <<guestFile, combinedFile, sessions>>

-----------------------------------------------------------------------------
(***************************************************************************)
(* The detached thread: asyncTraceSaveFunc                                 *)
(***************************************************************************)

Poll ==
    /\ saver.step = "poll"
    /\ ~Stable(saver.poll)
    /\ saver.poll.i < kMaxIters
    /\ SeenByPoll(sTraceProgress.hostTrace.sess)
    /\ LET p == Polled(saver.poll, guestFile.size)
       IN  saver' = [step |-> IF Stable(p) THEN "read" ELSE "poll", poll |-> p]
    /\ UNCHANGED <<config, sTracingSession, sTraceProgress, hostFile,
                   combinedFile, sessions>>

\* Mutant: the early return leaves saving on.
TimeOutKeepsSaving ==
    /\ saver.step = "poll"
    /\ GaveUp(saver.poll)
    /\ sTraceProgress' = NoProgress
    /\ saver' = [saver EXCEPT !.step = "none"]
    /\ UNCHANGED <<guestFile, steady, config, sTracingSession, hostFile, combinedFile,
                   sessions>>

\* "Timed out when waiting for guest file to stabilize": all is dropped.
TimeOut ==
    /\ saver.step = "poll"
    /\ GaveUp(saver.poll)
    /\ sTraceProgress' = NoProgress
    /\ config' = [config EXCEPT !.saving = FALSE]
    /\ saver' = [saver EXCEPT !.step = "none"]
    /\ UNCHANGED <<guestFile, steady, sTracingSession, hostFile, combinedFile, sessions>>

\* Mutant: a missing file is read like any other.
ReadGuestUnchecked ==
    /\ saver.step = "read"
    /\ saver' = [saver EXCEPT !.step = "combine"]
    /\ sTraceProgress' =
          [sTraceProgress EXCEPT !.guestTrace =
              [sess |-> guestFile.sess, size |-> guestFile.size]]
    /\ UNCHANGED <<guestFile, steady, config, sTracingSession, hostFile, combinedFile,
                   sessions>>

\* The guest's file is read as it is now.  If there is none, the argument of
\* guestTrace.resize is -1: it throws, and an exception that leaves a thread
\* ends the process.
ReadGuest ==
    /\ saver.step = "read"
    /\ \/ /\ guestFile.size = Missing
          /\ saver' = [saver EXCEPT !.step = "aborted"]
          /\ UNCHANGED sTraceProgress
       \/ /\ guestFile.size # Missing
          /\ saver' = [saver EXCEPT !.step = "combine"]
          /\ sTraceProgress' =
                [sTraceProgress EXCEPT !.guestTrace =
                    [sess |-> guestFile.sess, size |-> guestFile.size]]
    /\ UNCHANGED <<guestFile, steady, config, sTracingSession, hostFile, combinedFile,
                   sessions>>

\* constructCombinedTrace, with the time difference of this moment.
Combine ==
    /\ saver.step = "combine"
    /\ sTraceProgress' =
          [sTraceProgress EXCEPT !.combinedTrace =
              [guest |-> sTraceProgress.guestTrace,
               host |-> sTraceProgress.hostTrace,
               diff |-> config.guestTimeDiff]]
    /\ saver' = [saver EXCEPT !.step = "writeHost"]
    /\ UNCHANGED <<guestFile, steady, config, sTracingSession, hostFile, combinedFile,
                   sessions>>

\* Mutant: the trace is cleared before it is written.
WriteHostLate ==
    /\ saver.step = "writeHost"
    /\ hostFile' = NoTrace
    /\ sTraceProgress' = [sTraceProgress EXCEPT !.hostTrace = NoTrace,
                                                !.guestTrace = NoGuest]
    /\ saver' = [saver EXCEPT !.step = "writeCombined"]
    /\ UNCHANGED <<guestFile, steady, config, sTracingSession, combinedFile, sessions>>

WriteHost ==
    /\ saver.step = "writeHost"
    /\ hostFile' = sTraceProgress.hostTrace
    /\ sTraceProgress' = [sTraceProgress EXCEPT !.hostTrace = NoTrace,
                                                !.guestTrace = NoGuest]
    /\ saver' = [saver EXCEPT !.step = "writeCombined"]
    /\ UNCHANGED <<guestFile, steady, config, sTracingSession, combinedFile, sessions>>

WriteCombined ==
    /\ saver.step = "writeCombined"
    /\ combinedFile' = sTraceProgress.combinedTrace
    /\ sTraceProgress' = [sTraceProgress EXCEPT !.combinedTrace = NoCombined]
    /\ saver' = [saver EXCEPT !.step = "done"]
    /\ UNCHANGED <<guestFile, steady, config, sTracingSession, hostFile, sessions>>

Finish ==
    /\ saver.step = "done"
    /\ config' = [config EXCEPT !.saving = FALSE]
    /\ saver' = [saver EXCEPT !.step = "none"]
    /\ UNCHANGED <<guestFile, steady, sTracingSession, sTraceProgress, hostFile,
                   combinedFile, sessions>>

-----------------------------------------------------------------------------
\* Once tracing has ended the guest sends its trace of the last session.
Guest ==
    /\ \/ config.tracingDisabled /\ BeginTransfer(sessions)
       \/ Transfer
    /\ UNCHANGED <<steady, config, sTracingSession, sTraceProgress, saver, hostFile,
                   combinedFile, sessions>>

Aborted == saver.step = "aborted"

Saver == Poll \/ TimeOut \/ ReadGuest \/ Combine \/ WriteHost \/ WriteCombined
         \/ Finish

Client ==
    \/ SetTraceConfig
    \/ \E d \in GuestDiffs : SetGuestTime(d)
    \/ EnableTracing
    \/ DisableTracing

Next == ~Aborted /\ (Client \/ Saver \/ Guest)

Spec == Init /\ [][Next]_vars

\* A detached thread keeps running; the client need not call anything.
FairSpec == Spec /\ WF_vars(~Aborted /\ Saver)

-----------------------------------------------------------------------------
\* The open session is the last one, and it is being traced, not saved.
OpenIsLast ==
    sTracingSession # NoTrace =>
        /\ sTracingSession.sess = sessions
        /\ ~config.tracingDisabled
        /\ ~config.saving

\* The saver owns the trace in progress: while it runs, saving is on, so that
\* no session is opened or closed, and there is a host trace to save.
SaverAlone ==
    saver.step # "none" =>
        /\ config.saving
        /\ config.tracingDisabled
        /\ sTracingSession = NoTrace
        /\ saver.step \in {"poll", "read", "combine", "writeHost"} =>
              sTraceProgress.hostTrace.sess = sessions

\* The sessions of the control thread and of the saver are those of
\* SessionLifecycle: a session starts only when nothing is left to save.
phase == IF ~config.tracingDisabled THEN "tracing"
         ELSE IF saver.step # "none" THEN "saving" ELSE "idle"
Lifecycle == INSTANCE SessionLifecycle WITH session <- sessions
Implements == Lifecycle!Spec

\* If the guest and the client did what the save of the last session counts
\* on, its combined file pairs the host's trace with the whole trace of the
\* guest of the same session, shifted by the difference that was set when the
\* session started.
WholePair ==
    steady /\ combinedFile # NoCombined /\ combinedFile.host.sess = sessions =>
        /\ combinedFile.guest = [sess |-> sessions, size |-> GuestSize]
        /\ combinedFile.diff = combinedFile.host.diff

\* "This will also trigger trace saving": when no session is open and no save
\* is running, the host's file holds the trace of the last session, unless the
\* guest let the save down.
HostSaved ==
    steady /\ sTracingSession = NoTrace /\ ~config.saving =>
        hostFile.sess = sessions

\* waitSavingDone returns: every save ends, whatever the guest's file does,
\* unless the process is gone.
SavingEnds == config.saving ~> (~config.saving \/ Aborted)
=============================================================================
