----------------------------- MODULE CombinedSave -----------------------------
(***************************************************************************)
(* The combined trace of the non-SDK build (vperfetto.cpp): disableTracing *)
(* saves the host's trace (TraceContext describes how) and, with a guest   *)
(* file name, starts a detached thread that waits for the guest's trace    *)
(* and concatenates the two files.  A trace is named by the number of its  *)
(* session.                                                                *)
(*                                                                         *)
(* saving is never set, so nothing keeps the next session, or its save,    *)
(* from beginning while the thread of an earlier one is at work.  What two *)
(* such threads write into the file at once is simplified: the part each   *)
(* of them wrote last is the one that stays.                               *)
(***************************************************************************)
EXTENDS GuestFile

CONSTANT
    MaxSessions   \* bound: sessions

ASSUME CombinedAssumption == MaxSessions \in Nat

VARIABLES
    tracingDisabled,  \* of sTraceConfig
    saving,           \* of sTraceConfig
    sessions,         \* sessions so far
    savers,           \* the detached thread of each session
    hostFile,         \* the session whose trace hostFilename holds
    combinedFile,     \* what combinedFilename holds
    alone             \* no save was at work when the last session began
                      \*   (history)

vars == <<guestFile, steady, tracingDisabled, saving, sessions, savers, hostFile,
          combinedFile, alone>>

-----------------------------------------------------------------------------
Sessions == 1 .. MaxSessions
NoGuest == [sess |-> 0, size |-> 0]
Steps == {"none", "poll", "open", "guest", "host", "done"}

\* broken is the state of a stream after an insertion that had nothing to
\* insert: the rest is not written.
SaverType == [step : Steps, poll : Polls, broken : BOOLEAN]

\* A thread that has not started, or has ended.
Unused == [step |-> "none", poll |-> FirstPoll, broken |-> FALSE]

TypeOK ==
    /\ guestFile \in GuestFileType
    /\ steady \in BOOLEAN
    /\ tracingDisabled \in BOOLEAN
    /\ saving \in BOOLEAN
    /\ sessions \in 0 .. MaxSessions
    /\ savers \in [Sessions -> SaverType]
    /\ hostFile \in 0 .. MaxSessions
    /\ combinedFile \in [guest : GuestTrace, host : 0 .. MaxSessions]
    /\ alone \in BOOLEAN

Init ==
    /\ guestFile = NoGuestFile
    /\ steady = TRUE
    /\ tracingDisabled = TRUE
    /\ saving = FALSE
    /\ sessions = 0
    /\ savers = [k \in Sessions |-> Unused]
    /\ hostFile = 0
    /\ combinedFile = [guest |-> NoGuest, host |-> 0]
    /\ alone = TRUE

Saved == \A k \in Sessions : savers[k].step = "none"

-----------------------------------------------------------------------------
\* enableTracing with a host file name.  "Don't enable if we are saving" reads a
\* flag that is never set.
EnableTracing ==
    /\ sessions < MaxSessions
    /\ tracingDisabled
    /\ ~saving
    /\ sessions' = sessions + 1
    /\ tracingDisabled' = FALSE
    /\ alone' = Saved
    /\ UNCHANGED <<guestFile, steady, saving, savers, hostFile, combinedFile>>

\* disableTracing with all file names; "Set saving on" stores false.  The
\* host's trace is on disk before the detached thread starts.
DisableTracing ==
    /\ ~tracingDisabled
    /\ tracingDisabled' = TRUE
    /\ saving' = FALSE
    /\ hostFile' = sessions
    /\ savers' = [savers EXCEPT ![sessions].step = "poll"]
    /\ steady' = TRUE
    /\ UNCHANGED <<guestFile, sessions, combinedFile, alone>>

-----------------------------------------------------------------------------
\* asyncTraceSaveFunc, as the detached thread of session k runs it.

\* Mutant: nothing ends the loop but a stable size.
PollUnbounded(k) ==
    /\ savers[k].step = "poll"
    /\ SeenByPoll(k)
    /\ LET p == Polled(savers[k].poll, guestFile.size)
       IN  savers' = [savers EXCEPT ![k].poll = p,
                                    ![k].step = IF Stable(p) THEN "open"
                                                ELSE "poll"]
    /\ UNCHANGED <<tracingDisabled, saving, sessions, hostFile, combinedFile, alone>>

Poll(k) ==
    /\ savers[k].step = "poll"
    /\ savers[k].poll.i < kMaxIters
    /\ SeenByPoll(k)
    /\ LET p == Polled(savers[k].poll, guestFile.size)
       IN  savers' = [savers EXCEPT ![k].poll = p,
                                    ![k].step = IF Stable(p) THEN "open"
                                                ELSE "poll"]
    /\ UNCHANGED <<tracingDisabled, saving, sessions, hostFile, combinedFile, alone>>

TimeOut(k) ==
    /\ savers[k].step = "poll"
    /\ GaveUp(savers[k].poll)
    /\ saving' = FALSE
    /\ savers' = [savers EXCEPT ![k] = Unused]
    /\ UNCHANGED <<guestFile, steady, tracingDisabled, sessions, hostFile,
                   combinedFile, alone>>

\* The combined file is truncated.
OpenCombined(k) ==
    /\ savers[k].step = "open"
    /\ combinedFile' = [guest |-> NoGuest, host |-> 0]
    /\ savers' = [savers EXCEPT ![k].step = "guest"]
    /\ UNCHANGED <<guestFile, steady, tracingDisabled, saving, sessions, hostFile,
                   alone>>

\* combinedFile << guestFile.rdbuf(): with no characters to insert, because
\* the file is missing or empty, the stream fails.
CopyGuest(k) ==
    /\ savers[k].step = "guest"
    /\ LET some == guestFile.size > 0
       IN  /\ savers' = [savers EXCEPT ![k].step = "host", ![k].broken = ~some]
           /\ combinedFile' =
                 IF some
                 THEN [combinedFile EXCEPT !.guest =
                          [sess |-> guestFile.sess, size |-> guestFile.size]]
                 ELSE combinedFile
    /\ UNCHANGED <<guestFile, steady, tracingDisabled, saving, sessions, hostFile,
                   alone>>

\* Mutant: the host's trace is appended only if the guest's was missing.
CopyHostSwapped(k) ==
    /\ savers[k].step = "host"
    /\ savers' = [savers EXCEPT ![k].step = "done"]
    /\ combinedFile' = IF savers[k].broken
                       THEN [combinedFile EXCEPT !.host = hostFile]
                       ELSE combinedFile
    /\ UNCHANGED <<guestFile, steady, tracingDisabled, saving, sessions, hostFile,
                   alone>>

CopyHost(k) ==
    /\ savers[k].step = "host"
    /\ savers' = [savers EXCEPT ![k].step = "done"]
    /\ combinedFile' = IF savers[k].broken THEN combinedFile
                       ELSE [combinedFile EXCEPT !.host = hostFile]
    /\ UNCHANGED <<guestFile, steady, tracingDisabled, saving, sessions, hostFile,
                   alone>>

Finish(k) ==
    /\ savers[k].step = "done"
    /\ saving' = FALSE
    /\ savers' = [savers EXCEPT ![k] = Unused]
    /\ UNCHANGED <<guestFile, steady, tracingDisabled, sessions, hostFile,
                   combinedFile, alone>>

-----------------------------------------------------------------------------
\* Once tracing has ended the guest sends its trace of the last session.
Guest ==
    /\ \/ tracingDisabled /\ BeginTransfer(sessions)
       \/ Transfer
    /\ UNCHANGED <<steady, tracingDisabled, saving, sessions, savers, hostFile,
                   combinedFile, alone>>

Saver(k) == \/ Poll(k) \/ TimeOut(k) \/ OpenCombined(k) \/ CopyGuest(k)
            \/ CopyHost(k) \/ Finish(k)

Next ==
    \/ EnableTracing
    \/ DisableTracing
    \/ \E k \in Sessions : Saver(k)
    \/ Guest

Spec == Init /\ [][Next]_vars

-----------------------------------------------------------------------------
\* If the last session began with no save at work and the guest did what its
\* save counts on, the combined file that this save wrote is the guest's whole
\* trace of that session followed by the host's, whatever the saves of earlier
\* sessions did to each other.  The library gives a client no means to wait for
\* a save: waitSavingDone returns at once.
WholePair ==
    /\ alone
    /\ Saved
    /\ steady
    /\ sessions > 0
    /\ sessions \in {combinedFile.guest.sess, combinedFile.host}
    => combinedFile = [guest |-> [sess |-> sessions, size |-> GuestSize],
                       host |-> sessions]

\* "Don't enable if we are saving" (enableTracing): while a session runs, no
\* thread still saves an earlier one.  This is what the comment says; the code
\* does not keep to it.
NotWhileSaving == ~tracingDisabled => Saved
=============================================================================
