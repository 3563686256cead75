----------------------------- MODULE TracingMuxer -----------------------------
(***************************************************************************)
(* Tracing sessions of the Perfetto SDK (perfetto.cc), as vperfetto uses   *)
(* them: one thread runs the tasks of a queue, and the muxer, the consumer *)
(* of each session, the tracing service and the one data source, for track *)
(* events, all live on it.  Calls between them are direct in one direction *)
(* and posted in the other.                                                *)
(*                                                                         *)
(* The service is the one of the in-process backend.  The service of the   *)
(* system backend is another process, which is taken to be absent: the     *)
(* backend never connects.                                                 *)
(***************************************************************************)
EXTENDS Naturals, Sequences

CONSTANTS
    MaxSessions,   \* bound: sessions
    MaxEvents      \* bound: events of a session

ASSUME MuxerAssumption == MaxSessions \in Nat /\ MaxEvents \in Nat

Sessions == 1 .. MaxSessions   \* TracingSessionGlobalID
Backends == {"none", "inProcess", "system"}

VARIABLES
    tasks,      \* task_runner_: what has been posted
    timers,     \* sessions with a delayed OnDisableTracingTimeout
    init_args,  \* what Tracing::Initialize was called with first
    muxer,
    consumers,  \* of each session: ConsumerImpl and its endpoint
    service,    \* of each session: the TracingSession of the service
    sources,    \* of each session: the instance of the data source
    woken,      \* the call whose WaitableEvent has been notified
    raw_trace,  \* what ReadTraceBlocking returns
    written,    \* of each session: events that were traced (history)
    failed,     \* sessions that EnableTracing refused (history)
    late        \* sessions that did not wait for the data source (history)

muxerVars == <<tasks, timers, init_args, muxer, consumers, service, sources,
               woken, raw_trace, written, failed, late>>

-----------------------------------------------------------------------------
SessionTasks == {"CreateTracingSession", "Setup", "SetOnStartCallback",
    "SetOnStopCallback", "StartBlocking", "StopBlocking", "ReadTrace",
    "DestroyTracingSession", "OnConnect", "OnObservableEvents",
    "SetupDataSource", "StartDataSource", "StopDataSource",
    "StopDataSource_AsyncEnd", "OnTracingDisabled", "started", "stopped",
    "wakeStart", "wakeStop", "wakeRead"}
GlobalTasks == {"Initialize", "RegisterDataSource", "ProducerConnect"}
Tasks == [do : SessionTasks, id : Sessions] \cup [do : GlobalTasks, id : {0}]
Task(do, id) == [do |-> do, id |-> id]

\* onStart, onStop: the callbacks of the client; waitsStart, waitsStop: those
\* of StartBlocking and StopBlocking.  They are called once.
Consumer == [found : BOOLEAN, connected_ : BOOLEAN, trace_config_ : BOOLEAN,
             start_pending_ : BOOLEAN, stopped_ : BOOLEAN, onStart : BOOLEAN,
             onStop : BOOLEAN, waitsStart : BOOLEAN, waitsStop : BOOLEAN]
NoConsumer == [found |-> FALSE, connected_ |-> FALSE, trace_config_ |-> FALSE,
               start_pending_ |-> FALSE, stopped_ |-> FALSE, onStart |-> FALSE,
               onStop |-> FALSE, waitsStart |-> FALSE, waitsStop |-> FALSE]

\* instance: the state of the data source as the service sees it; observed: the
\* last change in observable_events_; frozen: events in the trace once it is
\* disabled.
ServiceSession ==
    [state : {"none", "STARTED", "DISABLING_WAITING_STOP_ACKS", "DISABLED"},
     instance : {"none", "STARTING", "STARTED", "STOPPING", "STOPPED"},
     observed : {"none", "stopped", "started"},
     frozen : 0 .. MaxEvents]
NoServiceSession == [state |-> "none", instance |-> "none", observed |-> "none",
                     frozen |-> 0]

Trace == [sess : 0 .. MaxSessions, events : 0 .. MaxEvents]
NoTrace == [sess |-> 0, events |-> 0]

MuxerTypeOK ==
    /\ tasks \in Seq(Tasks)
    /\ timers \subseteq Sessions
    /\ init_args \in Backends
    /\ muxer \in [backend : Backends, connected_ : BOOLEAN,
                  data_sources_ : BOOLEAN, registered : BOOLEAN]
    /\ consumers \in [Sessions -> Consumer]
    /\ service \in [Sessions -> ServiceSession]
    /\ sources \in [Sessions -> {"none", "valid", "enabled", "disabled"}]
    /\ woken \in {"none", "start", "stop", "read"}
    /\ raw_trace \in Trace
    /\ written \in [Sessions -> 0 .. MaxEvents]
    /\ failed \subseteq Sessions
    /\ late \subseteq Sessions

MuxerInit ==
    /\ tasks = <<>>
    /\ timers = {}
    /\ init_args = "none"
    /\ muxer = [backend |-> "none", connected_ |-> FALSE,
                data_sources_ |-> FALSE, registered |-> FALSE]
    /\ consumers = [s \in Sessions |-> NoConsumer]
    /\ service = [s \in Sessions |-> NoServiceSession]
    /\ sources = [s \in Sessions |-> "none"]
    /\ woken = "none"
    /\ raw_trace = NoTrace
    /\ written = [s \in Sessions |-> 0]
    /\ failed = {}
    /\ late = {}

-----------------------------------------------------------------------------
\* The task at the head of the queue runs, and posts others.
Running(do) == tasks # <<>> /\ Head(tasks).do = do
Id == Head(tasks).id
Done(posts) == tasks' = Tail(tasks) \o posts

If(condition, do, id) == IF condition THEN <<Task(do, id)>> ELSE <<>>

(***************************************************************************)
(* Backends and the data source                                            *)
(***************************************************************************)

\* The system backend is added first and is the one that sessions are given.
Initialize ==
    /\ Running("Initialize")
    /\ muxer' = [muxer EXCEPT !.backend = init_args]
    /\ Done(If(init_args = "inProcess", "ProducerConnect", 0))
    /\ UNCHANGED <<timers, init_args, consumers, service, sources, woken,
                   raw_trace, written, failed, late>>

\* ProducerImpl::OnConnect, UpdateDataSourcesOnAllBackends
ProducerConnect ==
    /\ Running("ProducerConnect")
    /\ muxer' = [muxer EXCEPT !.connected_ = TRUE,
                              !.registered = muxer.data_sources_]
    /\ Done(<<>>)
    /\ UNCHANGED <<timers, init_args, consumers, service, sources, woken,
                   raw_trace, written, failed, late>>

\* The service would start the data source for the sessions that are open.
\* There are none: the queue runs this task, and the producer's OnConnect,
\* before the OnConnect of any consumer.
RegisterDataSource ==
    /\ Running("RegisterDataSource")
    /\ muxer' = [muxer EXCEPT !.data_sources_ = TRUE,
                              !.registered = muxer.connected_]
    /\ Done(<<>>)
    /\ UNCHANGED <<timers, init_args, consumers, service, sources, woken,
                   raw_trace, written, failed, late>>

(***************************************************************************)
(* Sessions                                                                *)
(***************************************************************************)

CreateTracingSession ==
    /\ Running("CreateTracingSession")
    /\ consumers' = [consumers EXCEPT ![Id].found = TRUE]
    /\ Done(If(muxer.backend = "inProcess", "OnConnect", Id))
    /\ UNCHANGED <<timers, init_args, muxer, service, sources, woken, raw_trace,
                   written, failed, late>>

\* Setup, SetOnStartCallback, SetOnStopCallback
Configure ==
    /\ \/ /\ Running("Setup")
          /\ consumers' = [consumers EXCEPT ![Id].trace_config_ = TRUE]
       \/ /\ Running("SetOnStartCallback")
          /\ consumers' = [consumers EXCEPT ![Id].onStart = TRUE]
       \/ /\ Running("SetOnStopCallback")
          /\ consumers' = [consumers EXCEPT ![Id].onStop = TRUE]
    /\ Done(<<>>)
    /\ UNCHANGED <<timers, init_args, muxer, service, sources, woken, raw_trace,
                   written, failed, late>>

\* StartTracingSession of a connected consumer: EnableTracing sets up and
\* starts the data source, if it is registered, or fails (a buffer of 100 MB
\* cannot be had).
StartTracingSession(c) ==
    /\ consumers' = [consumers EXCEPT ![Id] = [c EXCEPT !.start_pending_ = FALSE]]
    /\ \/ /\ service' = [service EXCEPT ![Id] =
                [state |-> "STARTED",
                 instance |-> IF muxer.registered THEN "STARTING" ELSE "none",
                 observed |-> IF muxer.registered THEN "stopped" ELSE "none",
                 frozen |-> 0]]
          /\ Done(IF muxer.registered
                  THEN <<Task("OnObservableEvents", Id),
                         Task("SetupDataSource", Id),
                         Task("StartDataSource", Id)>>
                  ELSE <<>>)
          /\ UNCHANGED failed
       \/ /\ failed' = failed \cup {Id}
          /\ Done(<<Task("OnTracingDisabled", Id)>>)
          /\ UNCHANGED service

StartBlocking ==
    /\ Running("StartBlocking")
    /\ LET c == [consumers[Id] EXCEPT !.waitsStart = TRUE]
       IN  \/ c.connected_ /\ StartTracingSession(c)
           \/ /\ ~c.connected_
              /\ consumers' = [consumers EXCEPT ![Id] =
                                  [c EXCEPT !.start_pending_ = TRUE]]
              /\ Done(<<>>)
              /\ UNCHANGED <<service, failed>>
    /\ UNCHANGED <<timers, init_args, muxer, sources, woken, raw_trace, written,
                   late>>

\* ConsumerImpl::OnConnect.  No stop is ever pending: StopBlocking is called
\* after StartBlocking has returned.
OnConnect ==
    /\ Running("OnConnect")
    /\ LET c == [consumers[Id] EXCEPT !.connected_ = TRUE]
       IN  \/ c.trace_config_ /\ c.start_pending_ /\ StartTracingSession(c)
           \/ /\ ~(c.trace_config_ /\ c.start_pending_)
              /\ consumers' = [consumers EXCEPT ![Id] = c]
              /\ Done(<<>>)
              /\ UNCHANGED <<service, failed>>
    /\ UNCHANGED <<timers, init_args, muxer, sources, woken, raw_trace, written,
                   late>>

\* Mutant: the blocked call is woken first.
NotifyStartWakesFirst(c) ==
    If(c.waitsStart, "wakeStart", Id) \o If(c.onStart, "started", Id)

\* NotifyStartComplete and NotifyStopComplete, the client's callback first.
NotifyStartComplete(c) ==
    If(c.onStart, "started", Id) \o If(c.waitsStart, "wakeStart", Id)
NotifyStopComplete(c) ==
    If(c.onStop, "stopped", Id) \o If(c.waitsStop, "wakeStop", Id)

StartNotified(c) == [c EXCEPT !.onStart = FALSE, !.waitsStart = FALSE]
StopNotified(c) == [c EXCEPT !.onStop = FALSE, !.waitsStop = FALSE]

\* "Once all the data sources we know about have started we can declare
\* tracing begun."  Tasks of an endpoint that is gone do nothing.
OnObservableEvents ==
    /\ Running("OnObservableEvents")
    /\ LET c == consumers[Id]
           begun == c.found /\ service[Id].observed = "started"
       IN  /\ Done(IF begun THEN NotifyStartComplete(c) ELSE <<>>)
           /\ consumers' = [consumers EXCEPT ![Id] =
                               IF begun THEN StartNotified(c) ELSE c]
    /\ service' = [service EXCEPT ![Id].observed = "none"]
    /\ UNCHANGED <<timers, init_args, muxer, sources, woken, raw_trace, written,
                   failed, late>>

OnTracingDisabled ==
    /\ Running("OnTracingDisabled")
    /\ LET c == consumers[Id]
       IN  IF c.found
           THEN /\ Done(NotifyStartComplete(c) \o NotifyStopComplete(c))
                /\ consumers' = [consumers EXCEPT ![Id] =
                      [StopNotified(StartNotified(c)) EXCEPT !.stopped_ = TRUE]]
           ELSE Done(<<>>) /\ UNCHANGED consumers
    /\ UNCHANGED <<timers, init_args, muxer, service, sources, woken, raw_trace,
                   written, failed, late>>

\* StopTracingSession: the session has stopped already, or the service stops
\* the data source and gives it some time.
StopBlocking ==
    /\ Running("StopBlocking")
    /\ LET c == [consumers[Id] EXCEPT !.waitsStop = TRUE, !.trace_config_ = FALSE]
       IN  \/ /\ c.stopped_
              /\ Done(NotifyStopComplete(c))
              /\ consumers' = [consumers EXCEPT ![Id] = StopNotified(c)]
              /\ UNCHANGED <<service, timers>>
           \/ /\ ~c.stopped_
              /\ service[Id].state = "STARTED"
              /\ consumers' = [consumers EXCEPT ![Id] = c]
              /\ service' = [service EXCEPT
                    ![Id].instance = "STOPPING",
                    ![Id].state = "DISABLING_WAITING_STOP_ACKS"]
              /\ timers' = timers \cup {Id}
              /\ Done(<<Task("StopDataSource", Id)>>)
    /\ UNCHANGED <<init_args, muxer, sources, woken, raw_trace, written, failed,
                   late>>

ReadTrace ==
    /\ Running("ReadTrace")
    /\ raw_trace' = [sess |-> Id, events |-> service[Id].frozen]
    /\ Done(<<Task("wakeRead", Id)>>)
    /\ UNCHANGED <<timers, init_args, muxer, consumers, service, sources, woken,
                   written, failed, late>>

\* Mutant: FreeBuffers does not disable the session.
DestroyStarted ==
    /\ Running("DestroyTracingSession")
    /\ consumers' = [consumers EXCEPT ![Id] = NoConsumer]
    /\ service' = [service EXCEPT ![Id] = NoServiceSession]
    /\ Done(<<>>)
    /\ UNCHANGED <<timers, init_args, muxer, sources, woken, raw_trace, written,
                   failed, late>>

\* DestroyTracingSession, ~ConsumerEndpointImpl, FreeBuffers: what the endpoint
\* has posted is not delivered any more, not even OnTracingDisabled.
DestroyTracingSession ==
    /\ Running("DestroyTracingSession")
    /\ consumers' = [consumers EXCEPT ![Id] = NoConsumer]
    /\ service' = [service EXCEPT ![Id] = NoServiceSession]
    /\ Done(If(service[Id].state = "STARTED", "StopDataSource", Id))
    /\ UNCHANGED <<timers, init_args, muxer, sources, woken, raw_trace, written,
                   failed, late>>

Wake ==
    /\ \/ Running("wakeStart") /\ woken' = "start"
       \/ Running("wakeStop") /\ woken' = "stop"
       \/ Running("wakeRead") /\ woken' = "read"
    /\ Done(<<>>)
    /\ UNCHANGED <<timers, init_args, muxer, consumers, service, sources,
                   raw_trace, written, failed, late>>

(***************************************************************************)
(* The data source                                                         *)
(***************************************************************************)

\* AddObservableEvents: one task for all the changes until it runs.
Observing(s) == If(service[s].observed = "none", "OnObservableEvents", s)

SetupDataSource ==
    /\ Running("SetupDataSource")
    /\ sources' = [sources EXCEPT ![Id] = "valid"]
    /\ Done(<<>>)
    /\ UNCHANGED <<timers, init_args, muxer, consumers, service, woken,
                   raw_trace, written, failed, late>>

\* StartDataSource, NotifyDataSourceStarted
StartDataSource ==
    /\ Running("StartDataSource")
    /\ sources' = [sources EXCEPT ![Id] = "enabled"]
    /\ LET acked == /\ service[Id].state = "STARTED"
                    /\ service[Id].instance = "STARTING"
       IN  IF acked
           THEN /\ service' = [service EXCEPT ![Id].instance = "STARTED",
                                              ![Id].observed = "started"]
                /\ Done(Observing(Id))
           ELSE Done(<<>>) /\ UNCHANGED service
    /\ UNCHANGED <<timers, init_args, muxer, consumers, woken, raw_trace,
                   written, failed, late>>

\* StopDataSource_AsyncBegin, OnStop: the categories are disabled.
StopDataSource ==
    /\ Running("StopDataSource")
    /\ \/ /\ sources[Id] # "none"
          /\ sources' = [sources EXCEPT ![Id] = "disabled"]
          /\ Done(<<Task("StopDataSource_AsyncEnd", Id)>>)
       \/ /\ sources[Id] = "none"
          /\ Done(<<>>)
          /\ UNCHANGED sources
    /\ UNCHANGED <<timers, init_args, muxer, consumers, service, woken,
                   raw_trace, written, failed, late>>

\* ScrapeSharedMemoryBuffers: nothing has been flushed, and of a chunk that is
\* still written to, the last packet is left out.  The last event of a thread is
\* in such a chunk unless its chunk is full or the thread is gone.
Scraped(s) ==
    {written[s]} \cup (IF written[s] > 0 THEN {written[s] - 1} ELSE {})

\* DisableTracingNotifyConsumerAndFlushFile
Disabled(n) == [state |-> "DISABLED", instance |-> "STOPPED",
                observed |-> "stopped", frozen |-> n]

\* Mutant: an answer that comes after the timeout is taken for one in time.
AsyncEndUnchecked ==
    /\ Running("StopDataSource_AsyncEnd")
    /\ sources' = [sources EXCEPT ![Id] = "none"]
    /\ IF service[Id].state # "none"
       THEN /\ \E n \in Scraped(Id) :
                  service' = [service EXCEPT ![Id] = Disabled(n)]
            /\ Done(Observing(Id) \o <<Task("OnTracingDisabled", Id)>>)
       ELSE Done(<<>>) /\ UNCHANGED service
    /\ UNCHANGED <<timers, init_args, muxer, consumers, woken, raw_trace,
                   written, failed, late>>

\* StopDataSource_AsyncEnd, NotifyDataSourceStopped
StopDataSource_AsyncEnd ==
    /\ Running("StopDataSource_AsyncEnd")
    /\ sources' = [sources EXCEPT ![Id] = "none"]
    /\ IF service[Id].instance = "STOPPING"
       THEN /\ \E n \in Scraped(Id) :
                  service' = [service EXCEPT ![Id] = Disabled(n)]
            /\ Done(Observing(Id) \o <<Task("OnTracingDisabled", Id)>>)
       ELSE Done(<<>>) /\ UNCHANGED service
    /\ UNCHANGED <<timers, init_args, muxer, consumers, woken, raw_trace,
                   written, failed, late>>

\* OnDisableTracingTimeout, between two tasks.
Timeout(s) ==
    /\ s \in timers
    /\ timers' = timers \ {s}
    /\ IF service[s].state = "DISABLING_WAITING_STOP_ACKS"
       THEN /\ \E n \in Scraped(s) :
                  service' = [service EXCEPT ![s] = Disabled(n)]
            /\ tasks' = tasks \o Observing(s) \o <<Task("OnTracingDisabled", s)>>
            /\ late' = late \cup {s}
       ELSE UNCHANGED <<service, tasks, late>>
    /\ UNCHANGED <<init_args, muxer, consumers, sources, woken, raw_trace,
                   written, failed>>

\* TRACE_EVENT, by a thread of the client: an event goes to every enabled
\* instance.
TraceEvent ==
    /\ \E s \in Sessions : sources[s] = "enabled"
    /\ \A s \in Sessions : written[s] < MaxEvents
    /\ written' = [s \in Sessions |->
                      written[s] + (IF sources[s] = "enabled" THEN 1 ELSE 0)]
    /\ UNCHANGED <<tasks, timers, init_args, muxer, consumers, service, sources,
                   woken, raw_trace, failed, late>>

\* The tasks that do not call the client.
RunTask ==
    \/ Initialize \/ ProducerConnect \/ RegisterDataSource
    \/ CreateTracingSession \/ Configure \/ StartBlocking \/ OnConnect
    \/ OnObservableEvents \/ OnTracingDisabled \/ StopBlocking \/ ReadTrace
    \/ DestroyTracingSession \/ Wake
    \/ SetupDataSource \/ StartDataSource \/ StopDataSource
    \/ StopDataSource_AsyncEnd
=============================================================================
