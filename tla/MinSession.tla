------------------------------ MODULE MinSession ------------------------------
(***************************************************************************)
(* The vperfetto-min library (vperfetto-min.cpp): startTracing and         *)
(* endTracing, called by one thread of the client, on top of the tracing   *)
(* sessions of the Perfetto SDK, whose thread calls the client back.       *)
(*                                                                         *)
(* The calls post tasks to the muxer one by one and then wait for one of   *)
(* them.  A trace is named by its session.                                 *)
(***************************************************************************)
EXTENDS TracingMuxer

CONSTANTS
    Files,       \* file names, of files that can be opened and written
    Callbacks,   \* functions on_tracing_state_change
    NoFile       \* the name NULL

ASSUME MinAssumption == NoFile \notin Files

VARIABLES
    sTraceConfig,
    sOnTracingStateChange,
    sPerfettoInitialized,
    sTracingSession,   \* 0 is nullptr
    hostTrace,         \* sTraceProgress.hostTrace
    thread,            \* of the client: its call, and what it still posts
    files,             \* what the files hold
    told,              \* what each callback was told last (history)
    sessions,          \* sessions so far (history)
    named,             \* the file that the last session was started with (history)
    orderly            \* no call to startTracing while tracing, and no end of
                       \* a session of the system backend, so far (history)

clientVars == <<sTraceConfig, sOnTracingStateChange, sPerfettoInitialized,
                sTracingSession, hostTrace, thread, files, sessions, named,
                orderly>>
vars == <<muxerVars, clientVars, told>>

NoCallback == "none"
Calls == {"idle", "starting", "startingSystem", "stopping", "reading", "writing"}

TypeOK ==
    /\ MuxerTypeOK
    /\ sTraceConfig \in [tracingDisabled : BOOLEAN, saving : BOOLEAN,
                         hostFilename : Files \cup {NoFile}]
    /\ sOnTracingStateChange \in Callbacks \cup {NoCallback}
    /\ sPerfettoInitialized \in BOOLEAN
    /\ sTracingSession \in 0 .. MaxSessions
    /\ hostTrace \in Trace
    /\ thread \in [call : Calls, posts : Seq(Tasks)]
    /\ files \in [Files -> Trace]
    /\ told \in [Callbacks -> BOOLEAN]
    /\ sessions \in 0 .. MaxSessions
    /\ named \in Files \cup {NoFile}
    /\ orderly \in BOOLEAN

Init ==
    /\ MuxerInit
    /\ sTraceConfig = [tracingDisabled |-> TRUE, saving |-> FALSE,
                       hostFilename |-> NoFile]
    /\ sOnTracingStateChange = NoCallback
    /\ sPerfettoInitialized = FALSE
    /\ sTracingSession = 0
    /\ hostTrace = NoTrace
    /\ thread = [call |-> "idle", posts |-> <<>>]
    /\ files = [f \in Files |-> NoTrace]
    /\ told = [c \in Callbacks |-> FALSE]
    /\ sessions = 0
    /\ named = NoFile
    /\ orderly = TRUE

-----------------------------------------------------------------------------
(***************************************************************************)
(* The client's thread                                                     *)
(***************************************************************************)

Idle == thread.call = "idle"
Waiting(call) == thread.call = call /\ thread.posts = <<>>

\* Mutant: the data source is not registered.
InitializingOnly ==
    IF sPerfettoInitialized THEN <<>> ELSE <<Task("Initialize", 0)>>

\* initPerfetto: only the first call sets the backends.
Initializing == IF sPerfettoInitialized THEN <<>>
                ELSE <<Task("Initialize", 0), Task("RegisterDataSource", 0)>>

\* What startTracing posts for session s: NewTrace, the end of the session that
\* sTracingSession held, if any, and the calls of the new one.
Starting(s) ==
    <<Task("CreateTracingSession", s)>>
    \o If(sTracingSession # 0, "DestroyTracingSession", sTracingSession)
    \o <<Task("Setup", s), Task("SetOnStartCallback", s),
         Task("SetOnStopCallback", s), Task("StartBlocking", s)>>

\* vperfetto_min_startTracing with a valid config: system if the system backend
\* is asked for, with or without the other one.  Name and callback are taken
\* over even if tracing is on.  TrackEvent::Register succeeds: it fails only
\* when 32 other data sources are registered, and the library has this one.
StartTracing(backend, f, c) ==
    /\ Idle
    /\ sOnTracingStateChange' = c
    /\ sPerfettoInitialized' = TRUE
    /\ init_args' = IF sPerfettoInitialized THEN init_args ELSE backend
    /\ sTraceConfig' = [sTraceConfig EXCEPT !.hostFilename = f]
    /\ \/ /\ ~sTraceConfig.tracingDisabled
          /\ orderly' = FALSE
          /\ UNCHANGED <<sTracingSession, thread, sessions, named>>
       \/ /\ sTraceConfig.tracingDisabled
          /\ backend = "inProcess"
          /\ sessions < MaxSessions
          /\ sTracingSession' = sessions + 1
          /\ sessions' = sessions + 1
          /\ named' = f
          /\ thread' = [call |-> "starting",
                        posts |-> Initializing \o Starting(sessions + 1)]
          /\ UNCHANGED orderly
       \/ /\ sTraceConfig.tracingDisabled
          /\ backend = "system"
          /\ thread' = [call |-> "startingSystem", posts |-> Initializing]
          /\ UNCHANGED <<sTracingSession, sessions, named, orderly>>
    /\ UNCHANGED <<tasks, timers, muxer, consumers, service, sources, woken,
                   raw_trace, written, failed, late, hostTrace, files, told>>

Post ==
    /\ thread.posts # <<>>
    /\ tasks' = Append(tasks, Head(thread.posts))
    /\ thread' = [thread EXCEPT !.posts = Tail(@)]
    /\ UNCHANGED <<timers, init_args, muxer, consumers, service, sources, woken,
                   raw_trace, written, failed, late, sTraceConfig,
                   sOnTracingStateChange, sPerfettoInitialized, sTracingSession,
                   hostTrace, files, told, sessions, named, orderly>>

\* The end of startTracing; StartBlocking has returned.
Started ==
    /\ \/ Waiting("starting") /\ woken = "start"
       \/ Waiting("startingSystem") /\ woken = "none"
    /\ woken' = "none"
    /\ thread' = [thread EXCEPT !.call = "idle"]
    /\ sTraceConfig' = [sTraceConfig EXCEPT !.tracingDisabled = FALSE]
    /\ UNCHANGED <<tasks, timers, init_args, muxer, consumers, service, sources,
                   raw_trace, written, failed, late, sOnTracingStateChange,
                   sPerfettoInitialized, sTracingSession, hostTrace, files, told,
                   sessions, named, orderly>>

\* Mutant: the trace is read without waiting for the end of the session.
EndTracingImpatient ==
    /\ Idle
    /\ ~sTraceConfig.tracingDisabled
    /\ sTraceConfig' = [sTraceConfig EXCEPT !.tracingDisabled = TRUE,
                                            !.saving = TRUE]
    /\ \/ /\ ~sTraceConfig.saving
          /\ sTracingSession # 0
          /\ thread' = [call |-> "reading",
                        posts |-> <<Task("StopBlocking", sTracingSession),
                                    Task("ReadTrace", sTracingSession)>>]
          /\ UNCHANGED orderly
       \/ /\ sTraceConfig.saving \/ sTracingSession = 0
          /\ orderly' = FALSE
          /\ UNCHANGED thread
    /\ UNCHANGED <<muxerVars, sOnTracingStateChange, sPerfettoInitialized,
                   sTracingSession, hostTrace, files, told, sessions, named>>

\* Mutant: there is always a session to stop.
EndTracingUnchecked ==
    /\ Idle
    /\ ~sTraceConfig.tracingDisabled
    /\ sTraceConfig' = [sTraceConfig EXCEPT !.tracingDisabled = TRUE,
                                            !.saving = TRUE]
    /\ ~sTraceConfig.saving
    /\ thread' = [call |-> "stopping",
                  posts |-> <<Task("StopBlocking", sTracingSession)>>]
    /\ UNCHANGED <<muxerVars, sOnTracingStateChange, sPerfettoInitialized,
                   sTracingSession, hostTrace, files, told, sessions, named,
                   orderly>>

\* vperfetto_min_endTracing: returns at once if saving is set, which it is for
\* ever once a session of the system backend has ended.
EndTracing ==
    /\ Idle
    /\ ~sTraceConfig.tracingDisabled
    /\ sTraceConfig' = [sTraceConfig EXCEPT !.tracingDisabled = TRUE,
                                            !.saving = TRUE]
    /\ \/ /\ ~sTraceConfig.saving
          /\ sTracingSession # 0
          /\ thread' = [call |-> "stopping",
                        posts |-> <<Task("StopBlocking", sTracingSession)>>]
          /\ UNCHANGED orderly
       \/ /\ sTraceConfig.saving \/ sTracingSession = 0
          /\ orderly' = FALSE
          /\ UNCHANGED thread
    /\ UNCHANGED <<muxerVars, sOnTracingStateChange, sPerfettoInitialized,
                   sTracingSession, hostTrace, files, told, sessions, named>>

\* StopBlocking has returned; ReadTraceBlocking.
Stopped ==
    /\ Waiting("stopping")
    /\ woken = "stop"
    /\ woken' = "none"
    /\ thread' = [call |-> "reading",
                  posts |-> <<Task("ReadTrace", sTracingSession)>>]
    /\ UNCHANGED <<tasks, timers, init_args, muxer, consumers, service, sources,
                   raw_trace, written, failed, late, sTraceConfig,
                   sOnTracingStateChange, sPerfettoInitialized, sTracingSession,
                   hostTrace, files, told, sessions, named, orderly>>

\* ReadTraceBlocking has returned; sTracingSession.reset().
Read ==
    /\ Waiting("reading")
    /\ woken = "read"
    /\ woken' = "none"
    /\ hostTrace' = raw_trace
    /\ raw_trace' = NoTrace
    /\ sTracingSession' = 0
    /\ thread' = [call |-> "writing",
                  posts |-> <<Task("DestroyTracingSession", sTracingSession)>>]
    /\ UNCHANGED <<tasks, timers, init_args, muxer, consumers, service, sources,
                   written, failed, late, sTraceConfig,
                   sOnTracingStateChange, sPerfettoInitialized, files, told,
                   sessions, named, orderly>>

\* The file is written; the name NULL cannot be opened, and goes unnoticed.
Write ==
    /\ Waiting("writing")
    /\ files' = IF sTraceConfig.hostFilename = NoFile THEN files
                ELSE [files EXCEPT ![sTraceConfig.hostFilename] = hostTrace]
    /\ sTraceConfig' = [sTraceConfig EXCEPT !.saving = FALSE]
    /\ thread' = [thread EXCEPT !.call = "idle"]
    /\ UNCHANGED <<muxerVars, sOnTracingStateChange, sPerfettoInitialized,
                   sTracingSession, hostTrace, told, sessions, named, orderly>>

-----------------------------------------------------------------------------
\* The muxer's thread calls the client: whoever sOnTracingStateChange is now.
CallBack ==
    /\ \/ /\ Running("started")
          /\ told' = [told EXCEPT ![sOnTracingStateChange] = TRUE]
       \/ /\ Running("stopped")
          /\ told' = [told EXCEPT ![sOnTracingStateChange] = FALSE]
    /\ Done(<<>>)
    /\ UNCHANGED <<timers, init_args, muxer, consumers, service, sources, woken,
                   raw_trace, written, failed, late, clientVars>>

Muxer == (RunTask /\ UNCHANGED <<clientVars, told>>) \/ CallBack

Continue == Post \/ Started \/ Stopped \/ Read \/ Write

Client ==
    \/ \E c \in Callbacks :
          \/ \E f \in Files : StartTracing("inProcess", f, c)
          \/ \E f \in Files \cup {NoFile} : StartTracing("system", f, c)
    \/ EndTracing

Others ==
    /\ TraceEvent \/ \E s \in Sessions : Timeout(s)
    /\ UNCHANGED <<clientVars, told>>

Next == Client \/ Continue \/ Muxer \/ Others

\* Both threads keep running; the client need not call anything, and neither a
\* timeout nor an event is counted on.
Spec == Init /\ [][Next]_vars /\ WF_vars(Continue) /\ WF_vars(Muxer)

-----------------------------------------------------------------------------
\* What perfetto.cc asserts (PERFETTO_DCHECK) or takes for granted about the
\* session of the task it runs: there is a consumer, nobody waits twice, it is
\* connected and disabled once, and the service has something to disable.
Asserted ==
    tasks # <<>> =>
        LET c == consumers[Id]
            s == service[Id]
        IN  /\ Head(tasks).do \in {"SetOnStartCallback", "SetOnStopCallback",
                                   "StartBlocking", "StopBlocking", "ReadTrace"}
                  => c.found
            /\ Running("StartBlocking") => ~c.waitsStart /\ c.trace_config_
            /\ Running("StopBlocking") =>
                  ~c.waitsStop /\ (c.stopped_ \/ s.instance = "STARTED")
            /\ Running("OnConnect") => c.found /\ ~c.connected_
            /\ Running("OnTracingDisabled") /\ c.found => ~c.stopped_
            /\ Running("DestroyTracingSession") =>
                  s.state # "DISABLING_WAITING_STOP_ACKS"

\* The callback and the calls agree: when startTracing returns, its callback
\* has been told of the session, and when endTracing returns, of its end,
\* unless the session could not be started.
ToldOnReturn ==
    Idle /\ orderly /\ sTracingSession \notin failed =>
        \A c \in Callbacks :
            told[c] = (sTracingSession # 0 /\ c = sOnTracingStateChange)

\* sOnTracingStateChange, which has no lock, is not read by the muxer's thread
\* while the client is free to call startTracing, which sets it, unless the
\* session could not be started.
NoLateCallback ==
    Idle /\ sTracingSession \notin failed =>
        \A j \in 1 .. Len(tasks) : tasks[j].do \notin {"started", "stopped"}

\* "This will also trigger trace saving": when endTracing returns, the file
\* that the session was started with holds the events of its thread, but perhaps
\* the last one, which nothing flushes, unless the data source did not stop in
\* time.
SavedOnReturn ==
    Idle /\ orderly /\ sessions > 0 /\ sTraceConfig.tracingDisabled =>
        /\ files[named].sess = sessions
        /\ sessions \notin late => files[named].events >= written[sessions] - 1

\* Neither startTracing nor endTracing blocks for ever on the in-process
\* backend, even if a session cannot be started.
CallsReturn == (~Idle /\ init_args = "inProcess") ~> Idle

\* A session that was ended or replaced is not traced for ever.
TracingStops ==
    \A s \in Sessions :
        (s <= sessions /\ s # sTracingSession /\ init_args = "inProcess")
            ~> sources[s] = "none"
=============================================================================
