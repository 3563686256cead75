--------------------------- MODULE MinSessionProofs ---------------------------
(***************************************************************************)
(* Theorems about MinSession, for every number of sessions and events and  *)
(* every order in which the client's thread and the muxer's thread run.    *)
(***************************************************************************)
EXTENDS MinSession, SequenceTheorems, TLAPS

\* A call that stops a session or reads its trace holds one: its tasks are of a
\* session, as the muxer takes for granted.
CallHoldsSession == thread.call \in {"stopping", "reading"} => sTracingSession # 0

Inv == TypeOK /\ CallHoldsSession

-----------------------------------------------------------------------------
(***************************************************************************)
(* The queue of tasks                                                      *)
(***************************************************************************)

\* A task is one of its session, or one of the muxer.
LEMMA TaskType ==
    /\ \A do \in SessionTasks, s \in Sessions : Task(do, s) \in Tasks
    /\ \A do \in GlobalTasks : Task(do, 0) \in Tasks
    /\ \A t \in Tasks : t.do \in SessionTasks => t.id \in Sessions
  <1>1. \A do \in SessionTasks, s \in Sessions : Task(do, s) \in Tasks
    BY DEF Task, Tasks
  <1>2. \A do \in GlobalTasks : Task(do, 0) \in Tasks
    BY DEF Task, Tasks
  <1>3. \A t \in Tasks : t.do \in SessionTasks => t.id \in Sessions
    BY DEF Tasks, SessionTasks, GlobalTasks
  <1> QED BY <1>1, <1>2, <1>3

\* The task that runs, and the queue without it.
LEMMA HeadType ==
    ASSUME MuxerTypeOK, tasks # <<>>
    PROVE  /\ Head(tasks) \in Tasks /\ Tail(tasks) \in Seq(Tasks)
           /\ Head(tasks).do \in SessionTasks => Id \in Sessions
  <1>1. tasks \in Seq(Tasks)
    BY DEF MuxerTypeOK
  <1>2. Head(tasks) \in Tasks /\ Tail(tasks) \in Seq(Tasks)
    BY <1>1
  <1> QED BY <1>2, TaskType DEF Id

\* What runs posts tasks at the end of the queue.
LEMMA DoneType ==
    ASSUME MuxerTypeOK, tasks # <<>>, NEW posts \in Seq(Tasks), Done(posts)
    PROVE  tasks' \in Seq(Tasks)
  <1>1. Tail(tasks) \in Seq(Tasks)
    BY HeadType
  <1> QED BY <1>1 DEF Done

\* Short sequences of tasks.
LEMMA PostsType ==
    /\ <<>> \in Seq(Tasks)
    /\ \A t \in Tasks : <<t>> \in Seq(Tasks)
    /\ \A t, u, v \in Tasks : <<t, u, v>> \in Seq(Tasks)
    /\ \A t, u, v, w \in Tasks : <<t, u, v, w>> \in Seq(Tasks)
    /\ \A p, q \in Seq(Tasks) : p \o q \in Seq(Tasks)
    /\ \A c, do, id : Task(do, id) \in Tasks => If(c, do, id) \in Seq(Tasks)
  <1>1. \A t \in Tasks : <<t>> \in Seq(Tasks)
    OBVIOUS
  <1>2. \A t, u, v \in Tasks : <<t, u, v>> \in Seq(Tasks)
    OBVIOUS
  <1>3. \A t, u, v, w \in Tasks : <<t, u, v, w>> \in Seq(Tasks)
    OBVIOUS
  <1>4. \A p, q \in Seq(Tasks) : p \o q \in Seq(Tasks)
    OBVIOUS
  <1>5. \A c, do, id : Task(do, id) \in Tasks => If(c, do, id) \in Seq(Tasks)
    BY <1>1 DEF If
  <1> QED BY <1>1, <1>2, <1>3, <1>4, <1>5

-----------------------------------------------------------------------------
(***************************************************************************)
(* The muxer                                                               *)
(***************************************************************************)

\* What a session's service starts and ends with, and the traces.
LEMMA RecordType ==
    /\ NoConsumer \in Consumer
    /\ NoServiceSession \in ServiceSession
    /\ NoTrace \in Trace
    /\ \A n \in 0 .. MaxEvents : Disabled(n) \in ServiceSession
    /\ \A s \in Sessions, n \in 0 .. MaxEvents : [sess |-> s, events |-> n] \in Trace
  <1>0. MaxSessions \in Nat /\ MaxEvents \in Nat
    BY MuxerAssumption
  <1>1. NoConsumer \in Consumer
    BY DEF NoConsumer, Consumer
  <1>2. NoServiceSession \in ServiceSession
    BY <1>0 DEF NoServiceSession, ServiceSession
  <1>3. NoTrace \in Trace
    BY <1>0 DEF NoTrace, Trace
  <1>4. \A n \in 0 .. MaxEvents : Disabled(n) \in ServiceSession
    BY DEF Disabled, ServiceSession
  <1>5. \A s \in Sessions, n \in 0 .. MaxEvents : [sess |-> s, events |-> n] \in Trace
    BY <1>0 DEF Sessions, Trace
  <1> QED BY <1>1, <1>2, <1>3, <1>4, <1>5

\* What a consumer is after a call or a notification.
LEMMA ConsumerType ==
    ASSUME NEW c \in Consumer
    PROVE  /\ [c EXCEPT !.found = TRUE] \in Consumer
           /\ [c EXCEPT !.trace_config_ = TRUE] \in Consumer
           /\ [c EXCEPT !.onStart = TRUE] \in Consumer
           /\ [c EXCEPT !.onStop = TRUE] \in Consumer
           /\ [c EXCEPT !.waitsStart = TRUE] \in Consumer
           /\ [c EXCEPT !.start_pending_ = TRUE] \in Consumer
           /\ [c EXCEPT !.start_pending_ = FALSE] \in Consumer
           /\ [c EXCEPT !.connected_ = TRUE] \in Consumer
           /\ [c EXCEPT !.stopped_ = TRUE] \in Consumer
           /\ [c EXCEPT !.waitsStop = TRUE, !.trace_config_ = FALSE] \in Consumer
           /\ StartNotified(c) \in Consumer
           /\ StopNotified(c) \in Consumer
  BY DEF Consumer, StartNotified, StopNotified

\* The scraped buffers hold no more than was written.
LEMMA ScrapedType ==
    ASSUME MuxerTypeOK, NEW s \in Sessions
    PROVE  Scraped(s) \subseteq 0 .. MaxEvents
  <1>1. written[s] \in 0 .. MaxEvents /\ MaxEvents \in Nat
    BY MuxerAssumption DEF MuxerTypeOK
  <1> QED BY <1>1 DEF Scraped

\* The notifications of a session are tasks.
LEMMA NotifyType ==
    ASSUME tasks # <<>>, Id \in Sessions
    PROVE  /\ \A c : NotifyStartComplete(c) \in Seq(Tasks)
           /\ \A c : NotifyStopComplete(c) \in Seq(Tasks)
  <1>1. \A do \in {"started", "wakeStart", "stopped", "wakeStop"} : Task(do, Id) \in Tasks
    BY TaskType DEF SessionTasks
  <1>2. \A c, do : do \in {"started", "wakeStart", "stopped", "wakeStop"}
                      => If(c, do, Id) \in Seq(Tasks)
    BY <1>1, PostsType
  <1> QED BY <1>2, PostsType DEF NotifyStartComplete, NotifyStopComplete

\* A session starts, or fails to.
LEMMA StartType ==
    ASSUME MuxerTypeOK, tasks # <<>>, Id \in Sessions, NEW c \in Consumer,
           StartTracingSession(c)
    PROVE  /\ tasks' \in Seq(Tasks)
           /\ consumers' \in [Sessions -> Consumer]
           /\ service' \in [Sessions -> ServiceSession]
           /\ failed' \subseteq Sessions
  <1>t. /\ consumers \in [Sessions -> Consumer] /\ failed \subseteq Sessions
        /\ service \in [Sessions -> ServiceSession]
    BY DEF MuxerTypeOK
  <1>1. consumers' \in [Sessions -> Consumer]
    BY <1>t, ConsumerType DEF StartTracingSession
  <1>2. \A do \in {"OnObservableEvents", "SetupDataSource", "StartDataSource",
                   "OnTracingDisabled"} : Task(do, Id) \in Tasks
    BY TaskType DEF SessionTasks
  <1>3. CASE failed' = failed \cup {Id} /\ Done(<<Task("OnTracingDisabled", Id)>>)
             /\ UNCHANGED service
    BY <1>t, <1>1, <1>2, <1>3, DoneType, PostsType
  <1>4. CASE /\ service' = [service EXCEPT ![Id] =
                [state |-> "STARTED",
                 instance |-> IF muxer.registered THEN "STARTING" ELSE "none",
                 observed |-> IF muxer.registered THEN "stopped" ELSE "none",
                 frozen |-> 0]]
             /\ Done(IF muxer.registered
                     THEN <<Task("OnObservableEvents", Id),
                            Task("SetupDataSource", Id),
                            Task("StartDataSource", Id)>>
                     ELSE <<>>)
             /\ UNCHANGED failed
    <2>1. service' \in [Sessions -> ServiceSession]
      BY <1>t, <1>4, MuxerAssumption DEF ServiceSession
    <2>2. tasks' \in Seq(Tasks)
      <3>1. CASE muxer.registered
        BY <1>2, <1>4, <3>1, DoneType, PostsType
      <3>2. CASE ~muxer.registered
        BY <1>4, <3>2, DoneType, PostsType
      <3> QED BY <3>1, <3>2
    <2> QED BY <1>t, <1>1, <1>4, <2>1, <2>2
  <1> QED BY <1>3, <1>4 DEF StartTracingSession

\* The tasks keep the types of the muxer, the consumers and the service.
LEMMA RunTaskType ==
    ASSUME MuxerTypeOK, RunTask
    PROVE  MuxerTypeOK'
  <1>q. tasks # <<>>
    BY DEF RunTask, Initialize, ProducerConnect, RegisterDataSource,
       CreateTracingSession, Configure, StartBlocking, OnConnect,
       OnObservableEvents, OnTracingDisabled, StopBlocking, ReadTrace,
       DestroyTracingSession, Wake, SetupDataSource, StartDataSource,
       StopDataSource, StopDataSource_AsyncEnd, Running
  <1>t. /\ consumers \in [Sessions -> Consumer] /\ failed \subseteq Sessions
        /\ service \in [Sessions -> ServiceSession] /\ timers \subseteq Sessions
        /\ sources \in [Sessions -> {"none", "valid", "enabled", "disabled"}]
        /\ muxer \in [backend : Backends, connected_ : BOOLEAN,
                      data_sources_ : BOOLEAN, registered : BOOLEAN]
        /\ init_args \in Backends
    BY DEF MuxerTypeOK
  <1>h. \A do : Running(do) /\ do \in SessionTasks =>
            /\ Id \in Sessions /\ consumers[Id] \in Consumer
            /\ service[Id] \in ServiceSession
            /\ \A d \in SessionTasks : Task(d, Id) \in Tasks
            /\ \A c : \A d \in SessionTasks : If(c, d, Id) \in Seq(Tasks)
    <2> SUFFICES ASSUME NEW do \in SessionTasks, Running(do)
                 PROVE  /\ Id \in Sessions /\ consumers[Id] \in Consumer
                        /\ service[Id] \in ServiceSession
                        /\ \A d \in SessionTasks : Task(d, Id) \in Tasks
                        /\ \A c : \A d \in SessionTasks : If(c, d, Id) \in Seq(Tasks)
      OBVIOUS
    <2>1. Id \in Sessions
      BY <1>q, HeadType DEF Running
    <2>2. \A d \in SessionTasks : Task(d, Id) \in Tasks
      BY <2>1, TaskType
    <2>3. \A c : \A d \in SessionTasks : If(c, d, Id) \in Seq(Tasks)
      BY <2>2, PostsType
    <2> QED BY <1>t, <2>1, <2>2, <2>3
  <1>d. \A posts \in Seq(Tasks) : Done(posts) => tasks' \in Seq(Tasks)
    BY <1>q, DoneType
  <1>s. {"CreateTracingSession", "Setup", "SetOnStartCallback",
         "SetOnStopCallback", "StartBlocking", "StopBlocking", "ReadTrace",
         "DestroyTracingSession", "OnConnect", "OnObservableEvents",
         "SetupDataSource", "StartDataSource", "StopDataSource",
         "StopDataSource_AsyncEnd", "OnTracingDisabled", "started", "stopped",
         "wakeStart", "wakeStop", "wakeRead"} = SessionTasks
    BY DEF SessionTasks
  <1>1. CASE Initialize
    <2>1. If(init_args = "inProcess", "ProducerConnect", 0) \in Seq(Tasks)
      BY TaskType, PostsType DEF GlobalTasks
    <2>2. tasks' \in Seq(Tasks)
      BY <1>1, <1>d, <2>1 DEF Initialize
    <2>3. muxer' \in [backend : Backends, connected_ : BOOLEAN,
                      data_sources_ : BOOLEAN, registered : BOOLEAN]
      BY <1>1, <1>t DEF Initialize
    <2> QED BY <1>1, <2>2, <2>3 DEF Initialize, MuxerTypeOK
  <1>2. CASE ProducerConnect
    <2>1. tasks' \in Seq(Tasks)
      BY <1>2, <1>d, PostsType DEF ProducerConnect
    <2>2. muxer' \in [backend : Backends, connected_ : BOOLEAN,
                      data_sources_ : BOOLEAN, registered : BOOLEAN]
      BY <1>2, <1>t DEF ProducerConnect
    <2> QED BY <1>2, <2>1, <2>2 DEF ProducerConnect, MuxerTypeOK
  <1>3. CASE RegisterDataSource
    <2>1. tasks' \in Seq(Tasks)
      BY <1>3, <1>d, PostsType DEF RegisterDataSource
    <2>2. muxer' \in [backend : Backends, connected_ : BOOLEAN,
                      data_sources_ : BOOLEAN, registered : BOOLEAN]
      BY <1>3, <1>t DEF RegisterDataSource
    <2> QED BY <1>3, <2>1, <2>2 DEF RegisterDataSource, MuxerTypeOK
  <1>4. CASE CreateTracingSession
    <2>1. /\ Id \in Sessions /\ consumers[Id] \in Consumer
          /\ If(muxer.backend = "inProcess", "OnConnect", Id) \in Seq(Tasks)
      BY <1>4, <1>h, <1>s DEF CreateTracingSession
    <2>2. tasks' \in Seq(Tasks)
      BY <1>4, <1>d, <2>1 DEF CreateTracingSession
    <2>3. consumers' \in [Sessions -> Consumer]
      BY <1>4, <1>t, <2>1, ConsumerType DEF CreateTracingSession
    <2> QED BY <1>4, <2>2, <2>3 DEF CreateTracingSession, MuxerTypeOK
  <1>5. CASE Configure
    <2>1. Id \in Sessions /\ consumers[Id] \in Consumer
      BY <1>5, <1>h, <1>s DEF Configure
    <2>2. tasks' \in Seq(Tasks)
      BY <1>5, <1>d, PostsType DEF Configure
    <2>3. \E c \in Consumer : consumers' = [consumers EXCEPT ![Id] = c]
      <3>1. /\ [consumers[Id] EXCEPT !.trace_config_ = TRUE] \in Consumer
            /\ [consumers[Id] EXCEPT !.onStart = TRUE] \in Consumer
            /\ [consumers[Id] EXCEPT !.onStop = TRUE] \in Consumer
        BY <2>1, ConsumerType
      <3> QED BY <1>5, <1>t, <2>1, <3>1 DEF Configure
    <2>4. consumers' \in [Sessions -> Consumer]
      BY <1>t, <2>3
    <2> QED BY <1>5, <2>2, <2>4 DEF Configure, MuxerTypeOK
  <1>6. CASE StartBlocking
    <2> DEFINE c == [consumers[Id] EXCEPT !.waitsStart = TRUE]
    <2>1. Id \in Sessions /\ consumers[Id] \in Consumer
      BY <1>6, <1>h, <1>s DEF StartBlocking
    <2>2. c \in Consumer /\ [c EXCEPT !.start_pending_ = TRUE] \in Consumer
      BY <2>1, ConsumerType
    <2>3. \/ StartTracingSession(c)
          \/ /\ consumers' = [consumers EXCEPT ![Id] =
                                 [c EXCEPT !.start_pending_ = TRUE]]
             /\ Done(<<>>)
             /\ UNCHANGED <<service, failed>>
      BY <1>6 DEF StartBlocking
    <2> HIDE DEF c
    <2>4. /\ tasks' \in Seq(Tasks) /\ consumers' \in [Sessions -> Consumer]
          /\ service' \in [Sessions -> ServiceSession] /\ failed' \subseteq Sessions
      <3>1. CASE StartTracingSession(c)
        BY <1>q, <2>1, <2>2, <3>1, StartType
      <3>2. CASE /\ consumers' = [consumers EXCEPT ![Id] =
                                     [c EXCEPT !.start_pending_ = TRUE]]
                 /\ Done(<<>>)
                 /\ UNCHANGED <<service, failed>>
        <4>1. tasks' \in Seq(Tasks)
          BY <1>d, <3>2, PostsType
        <4> QED BY <1>t, <2>1, <2>2, <3>2, <4>1
      <3> QED BY <2>3, <3>1, <3>2
    <2> QED BY <1>6, <2>4 DEF StartBlocking, MuxerTypeOK
  <1>7. CASE OnConnect
    <2> DEFINE c == [consumers[Id] EXCEPT !.connected_ = TRUE]
    <2>1. Id \in Sessions /\ consumers[Id] \in Consumer
      BY <1>7, <1>h, <1>s DEF OnConnect
    <2>2. c \in Consumer
      BY <2>1, ConsumerType
    <2>3. \/ StartTracingSession(c)
          \/ /\ consumers' = [consumers EXCEPT ![Id] = c]
             /\ Done(<<>>)
             /\ UNCHANGED <<service, failed>>
      BY <1>7 DEF OnConnect
    <2> HIDE DEF c
    <2>4. /\ tasks' \in Seq(Tasks) /\ consumers' \in [Sessions -> Consumer]
          /\ service' \in [Sessions -> ServiceSession] /\ failed' \subseteq Sessions
      <3>1. CASE StartTracingSession(c)
        BY <1>q, <2>1, <2>2, <3>1, StartType
      <3>2. CASE /\ consumers' = [consumers EXCEPT ![Id] = c]
                 /\ Done(<<>>)
                 /\ UNCHANGED <<service, failed>>
        <4>1. tasks' \in Seq(Tasks)
          BY <1>d, <3>2, PostsType
        <4> QED BY <1>t, <2>1, <2>2, <3>2, <4>1
      <3> QED BY <2>3, <3>1, <3>2
    <2> QED BY <1>7, <2>4 DEF OnConnect, MuxerTypeOK
  <1>8. CASE OnObservableEvents
    <2>1. /\ Id \in Sessions /\ consumers[Id] \in Consumer
          /\ service[Id] \in ServiceSession
      BY <1>8, <1>h, <1>s DEF OnObservableEvents
    <2>2. /\ NotifyStartComplete(consumers[Id]) \in Seq(Tasks)
          /\ StartNotified(consumers[Id]) \in Consumer
      BY <1>q, <2>1, NotifyType, ConsumerType
    <2>3. tasks' \in Seq(Tasks)
      BY <1>8, <1>d, <2>2, PostsType DEF OnObservableEvents
    <2>4. consumers' \in [Sessions -> Consumer]
      BY <1>8, <1>t, <2>1, <2>2 DEF OnObservableEvents
    <2>5. service' \in [Sessions -> ServiceSession]
      BY <1>8, <1>t, <2>1 DEF OnObservableEvents, ServiceSession
    <2> QED BY <1>8, <2>3, <2>4, <2>5 DEF OnObservableEvents, MuxerTypeOK
  <1>9. CASE OnTracingDisabled
    <2> DEFINE c == consumers[Id]
    <2>1. Id \in Sessions /\ c \in Consumer
      BY <1>9, <1>h, <1>s DEF OnTracingDisabled
    <2>2. /\ NotifyStartComplete(c) \o NotifyStopComplete(c) \in Seq(Tasks)
          /\ [StopNotified(StartNotified(c)) EXCEPT !.stopped_ = TRUE] \in Consumer
      BY <1>q, <2>1, NotifyType, PostsType, ConsumerType
    <2>3. tasks' \in Seq(Tasks)
      BY <1>9, <1>d, <2>2, PostsType DEF OnTracingDisabled
    <2>4. consumers' \in [Sessions -> Consumer]
      BY <1>9, <1>t, <2>1, <2>2 DEF OnTracingDisabled
    <2> QED BY <1>9, <2>3, <2>4 DEF OnTracingDisabled, MuxerTypeOK
  <1>10. CASE StopBlocking
    <2> DEFINE c == [consumers[Id] EXCEPT !.waitsStop = TRUE, !.trace_config_ = FALSE]
    <2>1. /\ Id \in Sessions /\ consumers[Id] \in Consumer
          /\ service[Id] \in ServiceSession
          /\ Task("StopDataSource", Id) \in Tasks
      BY <1>10, <1>h, <1>s DEF StopBlocking
    <2>2. c \in Consumer /\ StopNotified(c) \in Consumer
      BY <2>1, ConsumerType
    <2>3. NotifyStopComplete(c) \in Seq(Tasks)
      BY <1>q, <2>1, NotifyType
    <2>4. \/ /\ Done(NotifyStopComplete(c))
             /\ consumers' = [consumers EXCEPT ![Id] = StopNotified(c)]
             /\ UNCHANGED <<service, timers>>
          \/ /\ consumers' = [consumers EXCEPT ![Id] = c]
             /\ service' = [service EXCEPT
                   ![Id].instance = "STOPPING",
                   ![Id].state = "DISABLING_WAITING_STOP_ACKS"]
             /\ timers' = timers \cup {Id}
             /\ Done(<<Task("StopDataSource", Id)>>)
      BY <1>10 DEF StopBlocking
    <2> HIDE DEF c
    <2>5. tasks' \in Seq(Tasks)
      BY <1>d, <2>1, <2>3, <2>4, PostsType
    <2>6. consumers' \in [Sessions -> Consumer] /\ timers' \subseteq Sessions
      BY <1>t, <2>1, <2>2, <2>4
    <2>7. service' \in [Sessions -> ServiceSession]
      BY <1>t, <2>1, <2>4 DEF ServiceSession
    <2> QED BY <1>10, <2>5, <2>6, <2>7 DEF StopBlocking, MuxerTypeOK
  <1>11. CASE ReadTrace
    <2>1. /\ Id \in Sessions /\ service[Id] \in ServiceSession
          /\ Task("wakeRead", Id) \in Tasks
      BY <1>11, <1>h, <1>s DEF ReadTrace
    <2>2. service[Id].frozen \in 0 .. MaxEvents
      BY <2>1 DEF ServiceSession
    <2>3. raw_trace' \in Trace
      BY <1>11, <2>1, <2>2, RecordType DEF ReadTrace
    <2>4. tasks' \in Seq(Tasks)
      BY <1>11, <1>d, <2>1, PostsType DEF ReadTrace
    <2> QED BY <1>11, <2>3, <2>4 DEF ReadTrace, MuxerTypeOK
  <1>12. CASE DestroyTracingSession
    <2>1. /\ Id \in Sessions
          /\ If(service[Id].state = "STARTED", "StopDataSource", Id) \in Seq(Tasks)
      BY <1>12, <1>h, <1>s DEF DestroyTracingSession
    <2>2. tasks' \in Seq(Tasks)
      BY <1>12, <1>d, <2>1 DEF DestroyTracingSession
    <2>3. /\ consumers' \in [Sessions -> Consumer]
          /\ service' \in [Sessions -> ServiceSession]
      BY <1>12, <1>t, <2>1, RecordType DEF DestroyTracingSession
    <2> QED BY <1>12, <2>2, <2>3 DEF DestroyTracingSession, MuxerTypeOK
  <1>13. CASE Wake
    <2>1. tasks' \in Seq(Tasks)
      BY <1>13, <1>d, PostsType DEF Wake
    <2> QED BY <1>13, <2>1 DEF Wake, MuxerTypeOK
  <1>14. CASE SetupDataSource
    <2>1. tasks' \in Seq(Tasks)
      BY <1>14, <1>d, PostsType DEF SetupDataSource
    <2> QED BY <1>14, <2>1 DEF SetupDataSource, MuxerTypeOK
  <1>15. CASE StartDataSource
    <2>1. /\ Id \in Sessions /\ service[Id] \in ServiceSession
          /\ Observing(Id) \in Seq(Tasks)
      BY <1>15, <1>h, <1>s DEF StartDataSource, Observing
    <2>2. tasks' \in Seq(Tasks)
      BY <1>15, <1>d, <2>1, PostsType DEF StartDataSource
    <2>3. service' \in [Sessions -> ServiceSession]
      BY <1>15, <1>t, <2>1 DEF StartDataSource, ServiceSession
    <2> QED BY <1>15, <2>2, <2>3 DEF StartDataSource, MuxerTypeOK
  <1>16. CASE StopDataSource
    <2>1. Task("StopDataSource_AsyncEnd", Id) \in Tasks
      BY <1>16, <1>h, <1>s DEF StopDataSource
    <2>2. tasks' \in Seq(Tasks)
      BY <1>16, <1>d, <2>1, PostsType DEF StopDataSource
    <2> QED BY <1>16, <2>2 DEF StopDataSource, MuxerTypeOK
  <1>17. CASE StopDataSource_AsyncEnd
    <2>1. /\ Id \in Sessions /\ Observing(Id) \in Seq(Tasks)
          /\ Task("OnTracingDisabled", Id) \in Tasks
      BY <1>17, <1>h, <1>s DEF StopDataSource_AsyncEnd, Observing
    <2>2. Observing(Id) \o <<Task("OnTracingDisabled", Id)>> \in Seq(Tasks)
      BY <2>1, PostsType
    <2>3. tasks' \in Seq(Tasks)
      BY <1>17, <1>d, <2>2, PostsType DEF StopDataSource_AsyncEnd
    <2>4. \A n \in Scraped(Id) : Disabled(n) \in ServiceSession
      BY <2>1, ScrapedType, RecordType
    <2>5. service' \in [Sessions -> ServiceSession]
      BY <1>17, <1>t, <2>1, <2>4 DEF StopDataSource_AsyncEnd
    <2> QED BY <1>17, <2>3, <2>5 DEF StopDataSource_AsyncEnd, MuxerTypeOK
  <1> QED BY <1>1, <1>2, <1>3, <1>4, <1>5, <1>6, <1>7, <1>8, <1>9, <1>10, <1>11,
             <1>12, <1>13, <1>14, <1>15, <1>16, <1>17 DEF RunTask

\* A timeout and a trace event keep the types too.
LEMMA OthersType ==
    ASSUME MuxerTypeOK, TraceEvent \/ \E s \in Sessions : Timeout(s)
    PROVE  MuxerTypeOK'
  <1>t. /\ tasks \in Seq(Tasks) /\ timers \subseteq Sessions /\ late \subseteq Sessions
        /\ service \in [Sessions -> ServiceSession]
        /\ written \in [Sessions -> 0 .. MaxEvents]
    BY DEF MuxerTypeOK
  <1>1. CASE TraceEvent
    <2>1. \A s \in Sessions : written[s] \in 0 .. MaxEvents /\ written[s] < MaxEvents
      BY <1>1, <1>t DEF TraceEvent
    <2>2. \A s \in Sessions :
             written[s] + (IF sources[s] = "enabled" THEN 1 ELSE 0) \in 0 .. MaxEvents
      BY <2>1, MuxerAssumption
    <2>3. written' \in [Sessions -> 0 .. MaxEvents]
      BY <1>1, <2>2 DEF TraceEvent
    <2> QED BY <1>1, <2>3 DEF TraceEvent, MuxerTypeOK
  <1>2. ASSUME NEW s \in Sessions, Timeout(s)
        PROVE  MuxerTypeOK'
    <2>1. \A n \in Scraped(s) : Disabled(n) \in ServiceSession
      BY ScrapedType, RecordType
    <2>2. service' \in [Sessions -> ServiceSession]
      BY <1>2, <1>t, <2>1, SMTT(30) DEF Timeout
    <2>3. tasks \o Observing(s) \o <<Task("OnTracingDisabled", s)>> \in Seq(Tasks)
      <3>1. /\ Task("OnTracingDisabled", s) \in Tasks
            /\ Task("OnObservableEvents", s) \in Tasks
        BY TaskType DEF SessionTasks
      <3>2. Observing(s) \in Seq(Tasks)
        BY <3>1, PostsType DEF Observing
      <3> QED BY <1>t, <3>1, <3>2, PostsType
    <2>4. tasks' \in Seq(Tasks)
      BY <1>2, <1>t, <2>3 DEF Timeout
    <2>5. timers' \subseteq Sessions /\ late' \subseteq Sessions
      BY <1>2, <1>t DEF Timeout
    <2> QED BY <1>2, <2>2, <2>4, <2>5 DEF Timeout, MuxerTypeOK
  <1> QED BY <1>1, <1>2

-----------------------------------------------------------------------------
(***************************************************************************)
(* The client                                                              *)
(***************************************************************************)

\* The initial state satisfies the invariant.
LEMMA InitInv == Init => Inv
  <1> SUFFICES ASSUME Init PROVE Inv
    OBVIOUS
  <1>0. MaxSessions \in Nat /\ MaxEvents \in Nat
    BY MuxerAssumption
  <1>1. MuxerTypeOK
    BY <1>0, RecordType, PostsType DEF Init, MuxerInit, MuxerTypeOK, Backends
  <1>2. thread \in [call : Calls, posts : Seq(Tasks)]
    BY PostsType DEF Init, Calls
  <1>3. /\ files \in [Files -> Trace] /\ told \in [Callbacks -> BOOLEAN]
        /\ sTraceConfig \in [tracingDisabled : BOOLEAN, saving : BOOLEAN,
                             hostFilename : Files \cup {NoFile}]
    BY RecordType DEF Init
  <1>4. /\ sTracingSession \in 0 .. MaxSessions /\ sessions \in 0 .. MaxSessions
        /\ hostTrace \in Trace /\ named \in Files \cup {NoFile}
    BY <1>0, RecordType DEF Init
  <1>5. /\ sOnTracingStateChange \in Callbacks \cup {NoCallback}
        /\ sPerfettoInitialized \in BOOLEAN /\ orderly \in BOOLEAN
    BY DEF Init
  <1>6. TypeOK
    BY <1>1, <1>2, <1>3, <1>4, <1>5 DEF TypeOK
  <1> QED BY <1>6 DEF Inv, Init, CallHoldsSession

\* What startTracing posts are tasks.
LEMMA StartingType ==
    ASSUME TypeOK, NEW s \in Sessions
    PROVE  Initializing \in Seq(Tasks) /\ Starting(s) \in Seq(Tasks)
  <1>1. Initializing \in Seq(Tasks)
    <2>1. Task("Initialize", 0) \in Tasks /\ Task("RegisterDataSource", 0) \in Tasks
      BY TaskType DEF GlobalTasks
    <2>2. <<Task("Initialize", 0), Task("RegisterDataSource", 0)>> \in Seq(Tasks)
      BY <2>1
    <2> QED BY <2>2, PostsType DEF Initializing
  <1>2. Starting(s) \in Seq(Tasks)
    <2>1. \A do \in SessionTasks : Task(do, s) \in Tasks
      BY TaskType
    <2>2. /\ Task("CreateTracingSession", s) \in Tasks /\ Task("Setup", s) \in Tasks
          /\ Task("SetOnStartCallback", s) \in Tasks
          /\ Task("SetOnStopCallback", s) \in Tasks /\ Task("StartBlocking", s) \in Tasks
      BY <2>1 DEF SessionTasks
    <2>3. If(sTracingSession # 0, "DestroyTracingSession", sTracingSession) \in Seq(Tasks)
      <3>1. CASE sTracingSession = 0
        BY <3>1, PostsType DEF If
      <3>2. CASE sTracingSession # 0
        <4>1. sTracingSession \in Sessions
          BY <3>2, MuxerAssumption DEF TypeOK, Sessions
        <4>2. Task("DestroyTracingSession", sTracingSession) \in Tasks
          BY <4>1, TaskType DEF SessionTasks
        <4> QED BY <4>2, PostsType
      <3> QED BY <3>1, <3>2
    <2> QED BY <2>2, <2>3, PostsType DEF Starting
  <1> QED BY <1>1, <1>2

\* startTracing keeps the invariant.
LEMMA StartTracingInv ==
    ASSUME Inv, NEW backend \in {"inProcess", "system"}, NEW f \in Files \cup {NoFile},
           NEW c \in Callbacks, StartTracing(backend, f, c)
    PROVE  Inv'
  <1>t. /\ sTraceConfig \in [tracingDisabled : BOOLEAN, saving : BOOLEAN,
                             hostFilename : Files \cup {NoFile}]
        /\ sessions \in 0 .. MaxSessions /\ MaxSessions \in Nat /\ TypeOK
        /\ init_args \in Backends /\ MuxerTypeOK
    BY MuxerAssumption DEF Inv, TypeOK, MuxerTypeOK
  <1>1. init_args' \in Backends
    BY <1>t DEF StartTracing, Backends
  <1>2. MuxerTypeOK'
    BY <1>t, <1>1 DEF StartTracing, MuxerTypeOK
  <1>3. /\ sTraceConfig' \in [tracingDisabled : BOOLEAN, saving : BOOLEAN,
                              hostFilename : Files \cup {NoFile}]
        /\ sOnTracingStateChange' \in Callbacks \cup {NoCallback}
        /\ sPerfettoInitialized' \in BOOLEAN
        /\ UNCHANGED <<hostTrace, files, told>>
    BY <1>t DEF StartTracing
  <1>4. CASE UNCHANGED <<sTracingSession, thread, sessions, named>> /\ orderly' = FALSE
    BY <1>2, <1>3, <1>4 DEF Inv, TypeOK, CallHoldsSession
  <1>5. CASE /\ sessions < MaxSessions
             /\ sTracingSession' = sessions + 1
             /\ sessions' = sessions + 1
             /\ named' = f
             /\ thread' = [call |-> "starting",
                           posts |-> Initializing \o Starting(sessions + 1)]
             /\ UNCHANGED orderly
    <2>1. sessions + 1 \in Sessions /\ sessions + 1 \in 0 .. MaxSessions
      BY <1>t, <1>5 DEF Sessions
    <2>2. Initializing \o Starting(sessions + 1) \in Seq(Tasks)
      BY <1>t, <2>1, StartingType, PostsType
    <2>3. thread' \in [call : Calls, posts : Seq(Tasks)] /\ thread'.call = "starting"
      BY <1>5, <2>2 DEF Calls
    <2> QED BY <1>2, <1>3, <1>5, <2>1, <2>3 DEF Inv, TypeOK, CallHoldsSession
  <1>6. CASE /\ thread' = [call |-> "startingSystem", posts |-> Initializing]
             /\ UNCHANGED <<sTracingSession, sessions, named, orderly>>
    <2>1. Initializing \in Seq(Tasks)
      <3>1. Task("Initialize", 0) \in Tasks /\ Task("RegisterDataSource", 0) \in Tasks
        BY TaskType DEF GlobalTasks
      <3>2. <<Task("Initialize", 0), Task("RegisterDataSource", 0)>> \in Seq(Tasks)
        BY <3>1
      <3> QED BY <3>2, PostsType DEF Initializing
    <2>2. thread' \in [call : Calls, posts : Seq(Tasks)]
          /\ thread'.call = "startingSystem"
      BY <1>6, <2>1 DEF Calls
    <2> QED BY <1>2, <1>3, <1>6, <2>2 DEF Inv, TypeOK, CallHoldsSession
  <1> QED BY <1>4, <1>5, <1>6 DEF StartTracing

\* endTracing, its steps, and those of startTracing keep the invariant.
LEMMA CallInv ==
    ASSUME Inv, EndTracing \/ Continue
    PROVE  Inv'
  <1>t. /\ sTraceConfig \in [tracingDisabled : BOOLEAN, saving : BOOLEAN,
                             hostFilename : Files \cup {NoFile}]
        /\ thread \in [call : Calls, posts : Seq(Tasks)]
        /\ MuxerTypeOK /\ tasks \in Seq(Tasks)
        /\ \A do \in SessionTasks :
              sTracingSession # 0 => <<Task(do, sTracingSession)>> \in Seq(Tasks)
    <2>1. sTracingSession # 0 => sTracingSession \in Sessions
      BY MuxerAssumption DEF Inv, TypeOK, Sessions
    <2> QED BY <2>1, TaskType, PostsType DEF Inv, TypeOK, MuxerTypeOK
  <1>1. CASE EndTracing
    <2>1. /\ sTraceConfig' \in [tracingDisabled : BOOLEAN, saving : BOOLEAN,
                                hostFilename : Files \cup {NoFile}]
          /\ UNCHANGED <<muxerVars, sOnTracingStateChange, sPerfettoInitialized,
                         sTracingSession, hostTrace, files, told, sessions, named>>
      BY <1>1, <1>t DEF EndTracing
    <2>2. MuxerTypeOK'
      BY <1>t, <2>1 DEF muxerVars, MuxerTypeOK
    <2>3. \/ UNCHANGED thread /\ orderly' = FALSE
          \/ /\ sTracingSession # 0
             /\ thread' = [call |-> "stopping",
                           posts |-> <<Task("StopBlocking", sTracingSession)>>]
             /\ UNCHANGED orderly
      BY <1>1 DEF EndTracing
    <2>4. thread' \in [call : Calls, posts : Seq(Tasks)] /\ orderly' \in BOOLEAN
      <3>1. sTracingSession # 0
               => <<Task("StopBlocking", sTracingSession)>> \in Seq(Tasks)
        BY <1>t DEF SessionTasks
      <3>2. orderly' \in BOOLEAN
        <4>1. orderly' = FALSE \/ orderly' = orderly
          BY <2>3
        <4>2. orderly \in BOOLEAN
          BY DEF Inv, TypeOK
        <4> QED BY <4>1, <4>2, Zenon
      <3>3. thread' \in [call : Calls, posts : Seq(Tasks)]
        <4>1. CASE UNCHANGED thread
          BY <1>t, <4>1
        <4>2. CASE /\ sTracingSession # 0
                   /\ thread' = [call |-> "stopping",
                                 posts |-> <<Task("StopBlocking", sTracingSession)>>]
          BY <3>1, <4>2 DEF Calls
        <4> QED BY <2>3, <4>1, <4>2
      <3> QED BY <3>2, <3>3
    <2>5. TypeOK'
      BY <2>1, <2>2, <2>4 DEF Inv, TypeOK
    <2>6. CallHoldsSession'
      BY <2>1, <2>3 DEF Inv, CallHoldsSession
    <2> QED BY <2>5, <2>6 DEF Inv
  <1>2. CASE Post
    <2>1. /\ tasks' \in Seq(Tasks)
          /\ thread' \in [call : Calls, posts : Seq(Tasks)]
          /\ thread'.call = thread.call
      <3>1. thread.posts \in Seq(Tasks) /\ thread.posts # <<>>
        BY <1>2, <1>t DEF Post
      <3>2. Head(thread.posts) \in Tasks /\ Tail(thread.posts) \in Seq(Tasks)
        BY <3>1
      <3>3. tasks' = Append(tasks, Head(thread.posts))
            /\ thread' = [thread EXCEPT !.posts = Tail(thread.posts)]
        BY <1>2 DEF Post
      <3>4. tasks' \in Seq(Tasks)
        BY <1>t, <3>2, <3>3
      <3> QED BY <1>t, <3>2, <3>3, <3>4
    <2>2. MuxerTypeOK'
      BY <1>2, <1>t, <2>1 DEF Post, MuxerTypeOK
    <2> QED BY <1>2, <2>1, <2>2 DEF Post, Inv, TypeOK, CallHoldsSession
  <1>3. CASE Started
    <2>1. /\ thread' \in [call : Calls, posts : Seq(Tasks)] /\ thread'.call = "idle"
          /\ sTraceConfig' \in [tracingDisabled : BOOLEAN, saving : BOOLEAN,
                                hostFilename : Files \cup {NoFile}]
      BY <1>3, <1>t DEF Started, Calls
    <2>2. MuxerTypeOK'
      BY <1>3, <1>t DEF Started, MuxerTypeOK
    <2> QED BY <1>3, <2>1, <2>2 DEF Started, Inv, TypeOK, CallHoldsSession
  <1>4. CASE Stopped
    <2>1. sTracingSession # 0
      BY <1>4 DEF Stopped, Waiting, Inv, CallHoldsSession
    <2>2. thread' \in [call : Calls, posts : Seq(Tasks)]
      BY <1>4, <1>t, <2>1 DEF Stopped, Calls, SessionTasks
    <2>3. MuxerTypeOK'
      BY <1>4, <1>t DEF Stopped, MuxerTypeOK
    <2> QED BY <1>4, <2>1, <2>2, <2>3 DEF Stopped, Inv, TypeOK, CallHoldsSession
  <1>5. CASE Read
    <2>1. sTracingSession # 0
      BY <1>5 DEF Read, Waiting, Inv, CallHoldsSession
    <2>2. thread' \in [call : Calls, posts : Seq(Tasks)] /\ thread'.call = "writing"
      BY <1>5, <1>t, <2>1 DEF Read, Calls, SessionTasks
    <2>3. MuxerTypeOK'
      BY <1>5, <1>t, RecordType DEF Read, MuxerTypeOK
    <2>4. hostTrace' \in Trace /\ sTracingSession' \in 0 .. MaxSessions
      BY <1>5, <1>t, MuxerAssumption DEF Read, MuxerTypeOK
    <2> QED BY <1>5, <2>2, <2>3, <2>4 DEF Read, Inv, TypeOK, CallHoldsSession
  <1>6. CASE Write
    <2>1. /\ thread' \in [call : Calls, posts : Seq(Tasks)] /\ thread'.call = "idle"
          /\ sTraceConfig' \in [tracingDisabled : BOOLEAN, saving : BOOLEAN,
                                hostFilename : Files \cup {NoFile}]
      BY <1>6, <1>t DEF Write, Calls
    <2>2. files' \in [Files -> Trace]
      BY <1>6, <1>t DEF Write, Inv, TypeOK
    <2>3. MuxerTypeOK'
      BY <1>6, <1>t DEF Write, muxerVars, MuxerTypeOK
    <2> QED BY <1>6, <2>1, <2>2, <2>3 DEF Write, Inv, TypeOK, CallHoldsSession
  <1> QED BY <1>1, <1>2, <1>3, <1>4, <1>5, <1>6 DEF Continue

\* The muxer's thread, timeouts and events keep the invariant.
LEMMA MuxerInv ==
    ASSUME Inv, Muxer \/ Others
    PROVE  Inv'
  <1>t. MuxerTypeOK
    BY DEF Inv, TypeOK
  <1>1. CASE CallBack
    <2>1. tasks # <<>> /\ Done(<<>>)
      BY <1>1 DEF CallBack, Running
    <2>2. tasks' \in Seq(Tasks)
      BY <1>t, <2>1, DoneType, PostsType
    <2>3. MuxerTypeOK'
      BY <1>1, <1>t, <2>2 DEF CallBack, MuxerTypeOK
    <2>4. told' \in [Callbacks -> BOOLEAN]
      BY <1>1 DEF CallBack, Inv, TypeOK
    <2> QED BY <1>1, <2>3, <2>4 DEF CallBack, clientVars, Inv, TypeOK, CallHoldsSession
  <1>2. CASE UNCHANGED <<clientVars, told>> /\ MuxerTypeOK'
    BY <1>2 DEF clientVars, Inv, TypeOK, CallHoldsSession
  <1>3. CASE RunTask /\ UNCHANGED <<clientVars, told>>
    BY <1>t, <1>2, <1>3, RunTaskType
  <1>4. CASE Others
    BY <1>t, <1>2, <1>4, OthersType DEF Others
  <1> QED BY <1>1, <1>3, <1>4 DEF Muxer

\* Every step keeps the invariant.
LEMMA NextInv == Inv /\ [Next]_vars => Inv'
  <1> SUFFICES ASSUME Inv, [Next]_vars PROVE Inv'
    OBVIOUS
  <1>1. CASE UNCHANGED vars
    BY <1>1 DEF vars, muxerVars, clientVars, Inv, TypeOK, MuxerTypeOK, CallHoldsSession
  <1>2. CASE Client
    <2>1. CASE EndTracing
      BY <2>1, CallInv
    <2>2. ASSUME NEW c \in Callbacks, NEW f \in Files, StartTracing("inProcess", f, c)
          PROVE  Inv'
      BY <2>2, StartTracingInv
    <2>3. ASSUME NEW c \in Callbacks, NEW f \in Files \cup {NoFile},
                 StartTracing("system", f, c)
          PROVE  Inv'
      BY <2>3, StartTracingInv
    <2> QED BY <1>2, <2>1, <2>2, <2>3 DEF Client
  <1> QED BY <1>1, <1>2, CallInv, MuxerInv DEF Next

\* The library and the muxer keep their types, whatever the two threads do: no
\* call posts a task of the session nullptr, and no trace has more events than
\* can have been written.
THEOREM TypeCorrect == Spec => []TypeOK
  <1>1. Inv => TypeOK
    BY DEF Inv
  <1> QED BY <1>1, InitInv, NextInv, PTL DEF Spec

-----------------------------------------------------------------------------
(***************************************************************************)
(* What is in the queue                                                    *)
(*                                                                         *)
(* The muxer's thread runs the tasks of all sessions from one queue, and   *)
(* the client posts its tasks one by one, so that those of the muxer come  *)
(* in between.  What the queue holds is described as a set, and only where *)
(* it matters as an order.                                                 *)
(***************************************************************************)

Queued == {tasks[j] : j \in 1 .. Len(tasks)}
Posted == {thread.posts[j] : j \in 1 .. Len(thread.posts)}

\* A task of a session waits in the queue, or is still to be posted.
Has(do, s) == Task(do, s) \in Queued
Due(do, s) == Task(do, s) \in Queued \/ Task(do, s) \in Posted

\* The pairs of tasks of which the first, if it is there, will run before the
\* second.
Precede ==
    {p \in Tasks \X Tasks :
        /\ \A j, k \in 1 .. Len(tasks) : tasks[j] = p[1] /\ tasks[k] = p[2] => j < k
        /\ \A j, k \in 1 .. Len(thread.posts) :
              thread.posts[j] = p[1] /\ thread.posts[k] = p[2] => j < k
        /\ ~(p[1] \in Posted /\ p[2] \in Queued)}
Before(t, u) == <<t, u>> \in Precede

\* No task of a session is there twice.
Once ==
    /\ \A j, k \in 1 .. Len(tasks) : tasks[j] = tasks[k] /\ tasks[j].id # 0 => j = k
    /\ \A j, k \in 1 .. Len(thread.posts) :
          thread.posts[j] = thread.posts[k] /\ thread.posts[j].id # 0 => j = k
    /\ \A t \in Queued \cap Posted : t.id = 0

\* Two tasks are the same if they do the same for the same session.
LEMMA TaskSame ==
    \A a, b, s, r : /\ Task(a, s) = Task(b, r) <=> a = b /\ s = r
                    /\ Task(a, s).do = a /\ Task(a, s).id = s
  BY DEF Task

\* The task that runs is the one of its name and session.
LEMMA HeadTask ==
    ASSUME MuxerTypeOK, tasks # <<>>
    PROVE  /\ Head(tasks) = Task(Head(tasks).do, Id) /\ Head(tasks) = tasks[1]
           /\ Head(tasks) \in Queued /\ 1 \in 1 .. Len(tasks)
  <1>1. tasks \in Seq(Tasks)
    BY DEF MuxerTypeOK
  <1>2. 1 \in 1 .. Len(tasks) /\ Head(tasks) = tasks[1]
    BY <1>1
  <1>3. Head(tasks) \in Tasks
    BY <1>1
  <1>4. Head(tasks) = Task(Head(tasks).do, Id)
    BY <1>3 DEF Tasks, Task, Id
  <1> QED BY <1>2, <1>4 DEF Queued

\* No other task has to run before the one that runs.
LEMMA HeadFirst ==
    ASSUME MuxerTypeOK, tasks # <<>>, NEW t, Before(t, Head(tasks))
    PROVE  t \notin Queued /\ t \notin Posted
  <1>1. /\ Head(tasks) = tasks[1] /\ Head(tasks) \in Queued /\ 1 \in 1 .. Len(tasks)
    BY HeadTask
  <1>2. /\ \A j, k \in 1 .. Len(tasks) : tasks[j] = t /\ tasks[k] = Head(tasks) => j < k
        /\ ~(t \in Posted /\ Head(tasks) \in Queued)
    BY DEF Before, Precede
  <1>3. \A j \in 1 .. Len(tasks) : tasks[j] # t
    BY <1>1, <1>2
  <1> QED BY <1>1, <1>2, <1>3 DEF Queued

\* What is in the queue after its first d tasks have gone and others have been
\* posted, those of sessions for the first time.
LEMMA QueueChange ==
    ASSUME TypeOK, Once, UNCHANGED thread, NEW d \in {0, 1},
           NEW new \in Seq(Tasks), d <= Len(tasks), tasks' \in Seq(Tasks),
           Len(tasks') = (Len(tasks) - d) + Len(new),
           \A j \in 1 .. Len(tasks) - d : tasks'[j] = tasks[j + d],
           \A j \in 1 .. Len(new) : tasks'[(Len(tasks) - d) + j] = new[j],
           \A j, k \in 1 .. Len(new) : new[j] = new[k] /\ new[j].id # 0 => j = k,
           \A j \in 1 .. Len(new) : new[j].id # 0 => new[j] \notin Queued \cup Posted
    PROVE  /\ Queued' = {tasks[j] : j \in 1 + d .. Len(tasks)}
                        \cup {new[j] : j \in 1 .. Len(new)}
           /\ Posted' = Posted
           /\ Once'
           /\ \A t, u : /\ Before(t, u)
                        /\ \A j \in 1 .. Len(new) : new[j] # t /\ new[j] # u
                        => Before(t, u)'
           /\ \A j, k \in 1 .. Len(new) :
                 j < k /\ new[j].id # 0 /\ new[k].id # 0 => Before(new[j], new[k])'
  <1> DEFINE M == {new[j] : j \in 1 .. Len(new)}
             n == Len(tasks)
             m == Len(new)
             b == n - d
             posts == thread.posts
  <1>1. /\ tasks \in Seq(Tasks) /\ n \in Nat /\ m \in Nat /\ b \in Nat /\ n = b + d
        /\ d \in Nat
    BY DEF TypeOK, MuxerTypeOK
  <1>2. /\ Len(tasks') = b + m
        /\ \A j \in 1 .. b : tasks'[j] = tasks[j + d] /\ j + d \in 1 .. n
        /\ \A j \in 1 .. b + m :
              j > b => tasks'[j] = new[j - b] /\ j - b \in 1 .. m
    <2>1. \A j \in 1 .. b + m : j > b => j - b \in 1 .. m /\ b + (j - b) = j
      BY <1>1
    <2>2. \A j \in 1 .. b : j + d \in 1 .. n
      BY <1>1
    <2>3. /\ Len(tasks') = b + m
          /\ \A j \in 1 .. b : tasks'[j] = tasks[j + d]
          /\ \A j \in 1 .. m : tasks'[b + j] = new[j]
      OBVIOUS
    <2>4. \A j \in 1 .. b + m : j > b => tasks'[j] = new[j - b]
      BY <2>1, <2>3
    <2> QED BY <2>1, <2>2, <2>3, <2>4
  <1>m. \A j \in 1 .. m : new[j] \in M
    OBVIOUS
  <1>5. \A t \in M : t.id # 0 => t \notin Queued /\ t \notin Posted
    OBVIOUS
  <1> HIDE DEF M, b
  <1>6. Queued' = {tasks[j] : j \in 1 + d .. n} \cup M
    <2>1. ASSUME NEW t \in Queued' PROVE t \in {tasks[j] : j \in 1 + d .. n} \cup M
      <3>1. PICK j \in 1 .. b + m : tasks'[j] = t
        BY <1>2, <2>1 DEF Queued
      <3>2. CASE j <= b
        <4>1. t = tasks[j + d] /\ j + d \in 1 + d .. n
          BY <1>1, <1>2, <3>1, <3>2
        <4> QED BY <4>1
      <3>3. CASE j > b
        BY <1>2, <1>m, <3>1, <3>3
      <3> QED BY <1>1, <3>2, <3>3
    <2>2. ASSUME NEW j \in 1 + d .. n PROVE tasks[j] \in Queued'
      <3>1. j - d \in 1 .. b /\ (j - d) + d = j /\ j - d \in 1 .. Len(tasks')
        BY <1>1, <1>2
      <3>2. tasks'[j - d] = tasks[j]
        BY <1>2, <3>1
      <3> QED BY <3>1, <3>2 DEF Queued
    <2>3. ASSUME NEW j \in 1 .. m PROVE new[j] \in Queued'
      <3>1. /\ b + j \in 1 .. Len(tasks') /\ b + j > b
            /\ (b + j) - b = j
        BY <1>1, <1>2
      <3>2. tasks'[b + j] = new[j]
        BY <1>2, <3>1
      <3> QED BY <3>1, <3>2 DEF Queued
    <2> QED BY <2>1, <2>2, <2>3 DEF M
  <1>7. Posted' = Posted
    BY DEF Posted
  <1>q. \A j \in 1 + d .. n : tasks[j] \in Queued
    <2>1. \A j \in 1 + d .. n : j \in 1 .. n
      BY <1>1
    <2> QED BY <2>1 DEF Queued
  <1>8. Once'
    <2>1. ASSUME NEW j \in 1 .. Len(tasks'), NEW k \in 1 .. Len(tasks'),
                 tasks'[j] = tasks'[k], tasks'[j].id # 0
          PROVE  j = k
      <3>1. CASE j <= b /\ k <= b
        <4>1. /\ tasks[j + d] = tasks[k + d] /\ tasks[j + d].id # 0
              /\ j + d \in 1 .. n /\ k + d \in 1 .. n
          BY <1>1, <1>2, <2>1, <3>1
        <4>2. j + d = k + d
          BY <4>1 DEF Once
        <4> QED BY <1>1, <1>2, <4>2
      <3>2. CASE j > b /\ k > b
        <4>1. /\ new[j - b] = new[k - b] /\ new[j - b].id # 0
              /\ j - b \in 1 .. m /\ k - b \in 1 .. m
          BY <1>1, <1>2, <2>1, <3>2
        <4>2. j - b = k - b
          BY <4>1
        <4> QED BY <1>1, <1>2, <4>2
      <3>3. ASSUME NEW x \in 1 .. Len(tasks'), NEW y \in 1 .. Len(tasks'),
                   x <= b, y > b, tasks'[y].id # 0
            PROVE  tasks'[x] # tasks'[y]
        <4>1. /\ tasks'[x] = tasks[x + d] /\ x + d \in 1 .. n
              /\ tasks'[y] = new[y - b] /\ y - b \in 1 .. m
          BY <1>1, <1>2, <3>3
        <4>2. tasks'[x] \in Queued /\ tasks'[y] \in M
          BY <1>m, <4>1 DEF Queued
        <4> QED BY <1>5, <3>3, <4>2
      <3> QED BY <1>1, <1>2, <2>1, <3>1, <3>2, <3>3
    <2>2. \A t \in Queued' \cap Posted' : t.id = 0
      BY <1>5, <1>6, <1>7, <1>q DEF Once
    <2> QED BY <2>1, <2>2 DEF Once
  <1>9. ASSUME NEW t, NEW u, Before(t, u), \A j \in 1 .. m : new[j] # t /\ new[j] # u
        PROVE  Before(t, u)'
    <2>1. /\ t \in Tasks /\ u \in Tasks
          /\ \A j, k \in 1 .. n : tasks[j] = t /\ tasks[k] = u => j < k
          /\ \A j, k \in 1 .. Len(posts) : posts[j] = t /\ posts[k] = u => j < k
          /\ ~(t \in Posted /\ u \in Queued)
      BY <1>9 DEF Before, Precede
    <2>2. ASSUME NEW j \in 1 .. Len(tasks'), NEW k \in 1 .. Len(tasks'),
                 tasks'[j] = t, tasks'[k] = u
          PROVE  j < k
      <3>1. j <= b /\ k <= b
        <4>1. /\ j > b => t = new[j - b] /\ j - b \in 1 .. m
              /\ k > b => u = new[k - b] /\ k - b \in 1 .. m
          BY <1>1, <1>2, <2>2
        <4>2. ~(j > b) /\ ~(k > b)
          BY <1>9, <4>1
        <4>3. j \in Nat /\ k \in Nat /\ b \in Nat
          BY <1>1
        <4> QED BY <4>2, <4>3
      <3>3. /\ tasks[j + d] = t /\ tasks[k + d] = u
            /\ j + d \in 1 .. n /\ k + d \in 1 .. n
        BY <1>1, <1>2, <2>2, <3>1
      <3>4. j + d < k + d
        BY <2>1, <3>3
      <3> QED BY <1>1, <1>2, <3>4
    <2>3. u \notin M
      BY <1>9 DEF M
    <2>4. ~(t \in Posted' /\ u \in Queued')
      BY <1>6, <1>7, <1>q, <2>1, <2>3
    <2> QED BY <2>1, <2>2, <2>4 DEF Before, Precede
  <1>10. ASSUME NEW x \in 1 .. m, NEW y \in 1 .. m, x < y, new[x].id # 0, new[y].id # 0
         PROVE  Before(new[x], new[y])'
    <2>1. new[x] \in M /\ new[y] \in M /\ new[x] \in Tasks /\ new[y] \in Tasks
      BY <1>m
    <2>2. ASSUME NEW j \in 1 .. Len(tasks'), NEW z \in 1 .. m, tasks'[j] = new[z],
                 new[z].id # 0
          PROVE  j = z + b
      <3>1. j > b
        <4> SUFFICES ASSUME j <= b PROVE FALSE
          BY <1>1, <1>2
        <4>1. tasks[j + d] = new[z] /\ j + d \in 1 .. n
          BY <1>1, <1>2, <2>2
        <4>2. tasks[j + d] \in Queued /\ new[z] \in M
          BY <1>m, <4>1 DEF Queued
        <4> QED BY <1>5, <2>2, <4>1, <4>2
      <3>2. new[j - b] = new[z] /\ j - b \in 1 .. m
        BY <1>1, <1>2, <2>2, <3>1
      <3>3. j - b = z
        BY <2>2, <3>2
      <3> QED BY <1>1, <1>2, <3>3
    <2>3. \A j, k \in 1 .. Len(tasks') :
             tasks'[j] = new[x] /\ tasks'[k] = new[y] => j < k
      BY <1>1, <1>2, <1>10, <2>2
    <2>4. \A j \in 1 .. Len(posts) : posts[j] # new[x]
      BY <1>5, <1>10, <2>1, SMTT(30) DEF Posted
    <2>5. new[x] \notin Posted'
      BY <1>5, <1>7, <1>10, <2>1
    <2> QED BY <2>1, <2>3, <2>4, <2>5 DEF Before, Precede
  <1> QED BY <1>6, <1>7, <1>8, <1>9, <1>10 DEF M

\* The sequence new holds the tasks of session i named in N, each once, and none
\* of them is there yet.
Names(new, i, N) ==
    /\ {new[j] : j \in 1 .. Len(new)} = {Task(do, i) : do \in N}
    /\ \A j, k \in 1 .. Len(new) : new[j] = new[k] => j = k
    /\ \A do \in N : ~Due(do, i)

\* Posted together, they run in this order.
InTurn(new) == \A j, k \in 1 .. Len(new) : j < k => Before(new[j], new[k])'

\* The task that ran is gone, and the ones in N are there.
Leaves(i, N) ==
    /\ \A do : Has(do, i)' <=> (Has(do, i) /\ do # Head(tasks).do) \/ do \in N
    /\ \A do, s : s # i => (Has(do, s)' <=> Has(do, s))
    /\ Posted' = Posted
    /\ Once'
    /\ \A t, u : /\ Before(t, u)
                 /\ t \notin {Task(do, i) : do \in N}
                 /\ u \notin {Task(do, i) : do \in N}
                 => Before(t, u)'

\* Where the elements of two sequences are in their concatenation.
LEMMA ConcatAt ==
    ASSUME NEW S, NEW r \in Seq(S), NEW new \in Seq(S)
    PROVE  /\ r \o new \in Seq(S) /\ Len(r \o new) = Len(r) + Len(new)
           /\ \A j \in 1 .. Len(r) : (r \o new)[j] = r[j]
           /\ \A j \in 1 .. Len(new) : (r \o new)[Len(r) + j] = new[j]
  <1>1. /\ r \o new \in Seq(S) /\ Len(r \o new) = Len(r) + Len(new)
        /\ \A j \in 1 .. Len(r) + Len(new) :
              (r \o new)[j] = IF j <= Len(r) THEN r[j] ELSE new[j - Len(r)]
    BY ConcatProperties
  <1>2. Len(r) \in Nat /\ Len(new) \in Nat
    OBVIOUS
  <1>3. \A j \in 1 .. Len(r) : j \in 1 .. Len(r) + Len(new) /\ j <= Len(r)
    BY <1>2
  <1>4. \A j \in 1 .. Len(new) :
           /\ Len(r) + j \in 1 .. Len(r) + Len(new) /\ ~(Len(r) + j <= Len(r))
           /\ (Len(r) + j) - Len(r) = j
    BY <1>2
  <1> QED BY <1>1, <1>3, <1>4

\* The positions of the queue after a task that posts the sequence new.
LEMMA DonePositions ==
    ASSUME MuxerTypeOK, tasks # <<>>, NEW new \in Seq(Tasks), Done(new)
    PROVE  /\ Len(tasks') = (Len(tasks) - 1) + Len(new)
           /\ \A j \in 1 .. Len(tasks) - 1 : tasks'[j] = tasks[j + 1]
           /\ \A j \in 1 .. Len(new) : tasks'[(Len(tasks) - 1) + j] = new[j]
           /\ tasks' \in Seq(Tasks)
  <1>0. tasks \in Seq(Tasks) /\ Len(tasks) \in Nat /\ Len(tasks) >= 1
    BY DEF MuxerTypeOK
  <1> DEFINE r == Tail(tasks)
  <1>1. r \in Seq(Tasks) /\ Len(r) = Len(tasks) - 1 /\ Len(r) \in Nat /\ Len(new) \in Nat
    BY <1>0
  <1>2. \A j \in 1 .. Len(r) : r[j] = tasks[j + 1]
    BY <1>0, <1>1
  <1>3. tasks' = r \o new
    BY DEF Done
  <1> HIDE DEF r
  <1>4. /\ Len(tasks') = Len(r) + Len(new) /\ tasks' \in Seq(Tasks)
        /\ \A j \in 1 .. Len(r) : tasks'[j] = r[j]
        /\ \A j \in 1 .. Len(new) : tasks'[Len(r) + j] = new[j]
    BY <1>1, <1>3, ConcatAt, SMTT(30)
  <1> QED BY <1>1, <1>2, <1>4

\* What a task leaves in the queue that posts tasks of its own session (those
\* with names in N) that are not there yet.
LEMMA DoneQueue ==
    ASSUME TypeOK, Once, tasks # <<>>, NEW i, i = Id, i # 0, UNCHANGED thread,
           NEW new \in Seq(Tasks), NEW N, Done(new), Names(new, i, N)
    PROVE  Leaves(i, N) /\ InTurn(new)
  <1> DEFINE M == {Task(do, i) : do \in N}
  <1>1. MuxerTypeOK /\ tasks \in Seq(Tasks) /\ Len(tasks) \in Nat /\ Len(tasks) >= 1
    BY DEF TypeOK, MuxerTypeOK
  <1>2. /\ Len(tasks') = (Len(tasks) - 1) + Len(new)
        /\ \A j \in 1 .. Len(tasks) - 1 : tasks'[j] = tasks[j + 1]
        /\ \A j \in 1 .. Len(new) : tasks'[(Len(tasks) - 1) + j] = new[j]
        /\ tasks' \in Seq(Tasks)
    BY <1>1, DonePositions
  <1>3. Head(tasks) = tasks[1] /\ tasks[1].id # 0 /\ Head(tasks) = Task(Head(tasks).do, Id)
    BY <1>1, HeadTask DEF Id
  <1>4. \A t \in M : t.id # 0 /\ t \notin Queued \cup Posted
    BY TaskSame DEF Due, Names
  <1>n. {new[j] : j \in 1 .. Len(new)} = M
    BY DEF Names
  <1>m. \A j \in 1 .. Len(new) : new[j] \in M
    BY <1>n
  <1>5. /\ Queued' = {tasks[j] : j \in 1 + 1 .. Len(tasks)} \cup M
        /\ Posted' = Posted
        /\ Once'
        /\ \A t, u : /\ Before(t, u)
                     /\ \A j \in 1 .. Len(new) : new[j] # t /\ new[j] # u
                     => Before(t, u)'
        /\ \A j, k \in 1 .. Len(new) :
              j < k /\ new[j].id # 0 /\ new[k].id # 0 => Before(new[j], new[k])'
    <2>1. /\ \A j, k \in 1 .. Len(new) : new[j] = new[k] /\ new[j].id # 0 => j = k
          /\ \A j \in 1 .. Len(new) : new[j].id # 0 => new[j] \notin Queued \cup Posted
          /\ 1 \in {0, 1} /\ 1 <= Len(tasks)
      BY <1>1, <1>4, <1>m DEF Names
    <2> HIDE DEF M
    <2> QED BY <1>2, <1>n, <2>1, QueueChange
  <1>6. {tasks[j] : j \in 1 + 1 .. Len(tasks)} = Queued \ {Head(tasks)}
    <2>1. \A j \in 1 .. Len(tasks) : tasks[j] = tasks[1] => j = 1
      BY <1>1, <1>3 DEF Once
    <2>2. \A j \in 1 .. Len(tasks) : j \in 1 + 1 .. Len(tasks) <=> j # 1
      BY <1>1
    <2>3. 1 + 1 .. Len(tasks) \subseteq 1 .. Len(tasks)
      BY <1>1
    <2> QED BY <1>3, <2>1, <2>2, <2>3 DEF Queued
  <1>7. \A do, s : Task(do, s) \in Queued' <=>
            \/ Task(do, s) \in Queued /\ ~(do = Head(tasks).do /\ s = i)
            \/ Task(do, s) \in M
    <2>1. Queued' = (Queued \ {Head(tasks)}) \cup M
      BY <1>5, <1>6
    <2>2. \A do, s : Task(do, s) = Head(tasks) <=> do = Head(tasks).do /\ s = i
      BY <1>3, TaskSame
    <2> QED BY <2>1, <2>2
  <1>8. \A do, s : Task(do, s) \in M <=> do \in N /\ s = i
    BY TaskSame
  <1>9. \A t, u : Before(t, u) /\ t \notin M /\ u \notin M => Before(t, u)'
    BY <1>5, <1>m
  <1>10. \A j, k \in 1 .. Len(new) : j < k => Before(new[j], new[k])'
    BY <1>4, <1>5, <1>m
  <1>11. \A do : Task(do, i) \in Queued' <=>
             (Task(do, i) \in Queued /\ do # Head(tasks).do) \/ do \in N
    BY <1>7, <1>8
  <1>12. \A do, s : s # i => (Task(do, s) \in Queued' <=> Task(do, s) \in Queued)
    BY <1>7, <1>8
  <1> QED BY <1>5, <1>9, <1>10, <1>11, <1>12 DEF Has, Leaves, InTurn

-----------------------------------------------------------------------------
(***************************************************************************)
(* The invariant of the queue                                              *)
(*                                                                         *)
(* A session is new, current (held by sTracingSession) or past.  A current *)
(* one goes through its stages in order: StartBlocking is due, it waits    *)
(* for the connection, for the data source, and has begun.                 *)
(***************************************************************************)

ClientTasks == {"CreateTracingSession", "Setup", "SetOnStartCallback",
    "SetOnStopCallback", "StartBlocking", "StopBlocking", "ReadTrace",
    "DestroyTracingSession"}
MuxerTasks == {"OnConnect", "OnObservableEvents", "SetupDataSource",
    "StartDataSource", "StopDataSource", "StopDataSource_AsyncEnd",
    "OnTracingDisabled", "started", "stopped", "wakeStart", "wakeStop", "wakeRead"}

\* The client posts its own tasks, and has posted them all when a call returns.
PostsInv ==
    /\ \A t \in Posted : t.do \in ClientTasks \cup GlobalTasks
    /\ Idle => thread.posts = <<>>

\* Who is woken, and which calls hold a session.
WokenInv ==
    /\ woken = "start" => thread.call = "starting"
    /\ woken = "stop" => thread.call = "stopping"
    /\ woken = "read" => thread.call = "reading"
    /\ thread.call \in {"starting", "stopping", "reading"} => sTracingSession # 0
    /\ thread.call = "writing" => sTracingSession = 0
    /\ sTracingSession \in {0, sessions}

New(s) ==
    /\ \A do \in SessionTasks : ~Due(do, s)
    /\ consumers[s] = NoConsumer /\ service[s] = NoServiceSession
    /\ s \notin failed

\* Of a session that was ended or replaced, nothing is left but its end and,
\* if it could not be started, a callback that runs before the next session.
Past(s) ==
    /\ \A do \in {"CreateTracingSession", "Setup", "SetOnStartCallback",
                  "SetOnStopCallback", "StartBlocking", "StopBlocking",
                  "ReadTrace"} : ~Due(do, s)
    /\ \A do \in {"OnConnect", "StartDataSource", "OnTracingDisabled", "started",
                  "wakeStart", "wakeStop", "wakeRead"} : ~Has(do, s)
    /\ Has("stopped", s) =>
          /\ thread.call = "starting"
          /\ Due("CreateTracingSession", sTracingSession)
          /\ Before(Task("stopped", s), Task("CreateTracingSession", sTracingSession))
    /\ Due("DestroyTracingSession", s) =>
          /\ ~consumers[s].onStart /\ ~consumers[s].waitsStart
          /\ service[s].state # "DISABLING_WAITING_STOP_ACKS"
          /\ service[s].instance # "STOPPING"
          /\ service[s].state = "STARTED" =>
                ~Has("StopDataSource", s) /\ ~Has("StopDataSource_AsyncEnd", s)
    /\ ~Due("DestroyTracingSession", s) =>
          consumers[s] = NoConsumer /\ service[s] = NoServiceSession

\* The tasks of startTracing run in the order in which they were posted.
Ordered(s) ==
    /\ Due("CreateTracingSession", s) => Due("Setup", s)
    /\ Due("Setup", s) => Due("SetOnStartCallback", s)
    /\ Due("SetOnStartCallback", s) => Due("SetOnStopCallback", s)
    /\ Due("SetOnStopCallback", s) => Due("StartBlocking", s)
    /\ Before(Task("CreateTracingSession", s), Task("Setup", s))
    /\ Before(Task("Setup", s), Task("SetOnStartCallback", s))
    /\ Before(Task("SetOnStartCallback", s), Task("SetOnStopCallback", s))
    /\ Before(Task("SetOnStopCallback", s), Task("StartBlocking", s))

\* StartBlocking is due.
Unstarted(s) ==
    LET c == consumers[s]
    IN  /\ thread.call = "starting" /\ woken = "none"
        /\ Due("CreateTracingSession", s) => c = NoConsumer /\ ~Has("OnConnect", s)
        /\ ~Due("CreateTracingSession", s) => c.found
        /\ ~Due("Setup", s) => c.trace_config_
        /\ ~Due("SetOnStartCallback", s) => c.onStart
        /\ ~Due("SetOnStopCallback", s) => c.onStop
        /\ ~c.waitsStart /\ ~c.waitsStop /\ ~c.start_pending_ /\ ~c.stopped_
        /\ Has("OnConnect", s) => ~c.connected_
        /\ \A do \in MuxerTasks \ {"OnConnect"} : ~Has(do, s)
        /\ service[s] = NoServiceSession /\ s \notin failed

\* StartBlocking waits for the connection.
Pending(s) ==
    LET c == consumers[s]
    IN  /\ thread.call = "starting" /\ woken = "none"
        /\ c.found /\ c.trace_config_ /\ c.waitsStart /\ c.onStart /\ c.onStop
        /\ ~c.connected_ /\ ~c.waitsStop /\ ~c.stopped_
        /\ \A do \in MuxerTasks \ {"OnConnect"} : ~Has(do, s)
        /\ service[s] = NoServiceSession /\ s \notin failed

\* The service has been asked: it starts the data source, or has refused.
Enabling(s) ==
    LET c == consumers[s]
        v == service[s]
    IN  /\ thread.call = "starting" /\ woken = "none"
        /\ c.found /\ c.onStart /\ c.onStop /\ ~c.waitsStop /\ ~c.stopped_
        /\ \A do \in {"OnConnect", "started", "stopped", "wakeStart", "wakeStop",
                      "wakeRead", "StopDataSource", "StopDataSource_AsyncEnd"} :
              ~Has(do, s)
        /\ s \in failed =>
              /\ v = NoServiceSession
              /\ ~Has("StartDataSource", s) /\ ~Has("OnObservableEvents", s)
        /\ s \notin failed =>
              /\ ~Has("OnTracingDisabled", s)
              /\ v.state = "STARTED" /\ v.instance \in {"none", "STARTING", "STARTED"}
              /\ Has("StartDataSource", s) <=> v.instance = "STARTING"
              /\ v.observed = "started" => v.instance = "STARTED"

\* Started or refused, and not stopped yet.
Runs(s) ==
    LET c == consumers[s]
        v == service[s]
    IN  /\ ~c.waitsStop
        /\ \A do \in {"OnTracingDisabled", "wakeStop", "StopDataSource",
                      "StopDataSource_AsyncEnd"} : ~Has(do, s)
        /\ s \in failed => v = NoServiceSession /\ c.stopped_ /\ ~c.onStop
        /\ s \notin failed =>
              /\ ~c.stopped_ /\ c.onStop
              /\ v.state = "STARTED" /\ v.instance = "STARTED"
              /\ ~Has("stopped", s)

\* StopBlocking waits for the data source.
Stopping(s) ==
    LET c == consumers[s]
        v == service[s]
    IN  /\ c.onStop /\ ~c.stopped_ /\ woken = "none"
        /\ ~Has("stopped", s) /\ ~Has("wakeStop", s)
        /\ \/ /\ v.state = "DISABLING_WAITING_STOP_ACKS" /\ v.instance = "STOPPING"
              /\ ~Has("OnTracingDisabled", s)
           \/ /\ v.state = "DISABLED" /\ v.instance = "STOPPED"
              /\ Has("OnTracingDisabled", s)

\* The session is over: nothing more is told to the client.
Over(s) ==
    LET c == consumers[s]
        v == service[s]
    IN  /\ ~c.onStop /\ c.stopped_ /\ ~c.waitsStop
        /\ ~Has("OnTracingDisabled", s)
        /\ v.state \in {"DISABLED", "none"} /\ v.instance \in {"STOPPED", "none"}

Begun(s) ==
    LET c == consumers[s]
    IN  /\ c.found /\ ~c.onStart
        /\ ~Has("StartDataSource", s) /\ ~Has("OnConnect", s)
        /\ thread.call = "starting" =>
              /\ Has("wakeStart", s) <=> woken = "none"
              /\ Has("started", s) => Has("wakeStart", s)
              /\ Before(Task("started", s), Task("wakeStart", s))
        /\ thread.call # "starting" => ~Has("started", s) /\ ~Has("wakeStart", s)
        /\ thread.call # "reading" => ~Due("ReadTrace", s) /\ ~Has("wakeRead", s)
        /\ thread.call # "stopping" => ~Due("StopBlocking", s) /\ ~Has("wakeStop", s)
        /\ thread.call \notin {"stopping", "reading"} => Runs(s)
        /\ thread.call = "stopping" /\ Due("StopBlocking", s) =>
              /\ Runs(s) /\ woken = "none"
              /\ Before(Task("stopped", s), Task("StopBlocking", s))
        /\ thread.call = "stopping" /\ ~Due("StopBlocking", s) =>
              IF c.waitsStop THEN Stopping(s)
              ELSE /\ Over(s)
                   /\ Has("wakeStop", s) => woken = "none"
                   /\ Has("stopped", s) => Has("wakeStop", s)
                   /\ Before(Task("stopped", s), Task("wakeStop", s))
        /\ thread.call = "reading" =>
              /\ Over(s) /\ ~Has("stopped", s)
              /\ Due("ReadTrace", s) => ~Has("wakeRead", s) /\ woken = "none"
              /\ Has("wakeRead", s) => woken = "none"

Current(s) ==
    /\ ~Due("DestroyTracingSession", s)
    /\ Ordered(s)
    /\ thread.call = "starting" => ~Due("StopBlocking", s) /\ ~Due("ReadTrace", s)
    /\ IF Due("StartBlocking", s) THEN Unstarted(s)
       ELSE IF consumers[s].start_pending_ THEN Pending(s)
       ELSE IF consumers[s].waitsStart THEN Enabling(s)
       ELSE Begun(s)

\* What keeps tasks of the service from being posted twice.
Single(s) ==
    /\ Has("OnObservableEvents", s) =>
          service[s].observed # "none" \/ service[s].state = "none"
    /\ ~(Has("StopDataSource", s) /\ Has("StopDataSource_AsyncEnd", s))

SessionInv(s) ==
    /\ s > sessions => New(s)
    /\ s = sTracingSession => Current(s)
    /\ s <= sessions /\ s # sTracingSession => Past(s)
    /\ Single(s)

QueueInv == Inv /\ Once /\ PostsInv /\ WokenInv /\ \A s \in Sessions : SessionInv(s)

\* The tasks of sessions are those of the client and those of the muxer.
LEMMA TaskKinds == SessionTasks = ClientTasks \cup MuxerTasks
  BY DEF SessionTasks, ClientTasks, MuxerTasks

\* Of session s nothing changes that its invariant is about.
Same(s) ==
    /\ \A do \in SessionTasks : Due(do, s)' <=> Due(do, s)
    /\ \A do \in MuxerTasks : Has(do, s)' <=> Has(do, s)
    /\ \A a, b \in SessionTasks :
          Before(Task(a, s), Task(b, s)) => Before(Task(a, s), Task(b, s))'
    /\ consumers'[s] = consumers[s] /\ service'[s] = service[s]
    /\ s \in failed' <=> s \in failed

\* A current session that nothing happens to stays in its stage.
LEMMA CurrentKept ==
    ASSUME NEW s, Same(s), Current(s), thread'.call = thread.call, woken' = woken
    PROVE  Current(s)'
  <1>1. /\ \A do \in ClientTasks \cup MuxerTasks : Due(do, s)' <=> Due(do, s)
        /\ \A do \in MuxerTasks : Has(do, s)' <=> Has(do, s)
        /\ \A a, b \in ClientTasks \cup MuxerTasks :
              Before(Task(a, s), Task(b, s)) => Before(Task(a, s), Task(b, s))'
        /\ consumers'[s] = consumers[s] /\ service'[s] = service[s]
        /\ s \in failed' <=> s \in failed
    BY TaskKinds DEF Same
  <1> USE DEF ClientTasks, MuxerTasks
  <1>2. Ordered(s) => Ordered(s)'
    BY <1>1 DEF Ordered
  <1>3. Unstarted(s) => Unstarted(s)'
    BY <1>1 DEF Unstarted
  <1>4. Pending(s) => Pending(s)'
    BY <1>1 DEF Pending
  <1>5. Enabling(s) => Enabling(s)'
    BY <1>1 DEF Enabling
  <1>6. Runs(s) => Runs(s)'
    BY <1>1 DEF Runs
  <1>7. Stopping(s) => Stopping(s)'
    BY <1>1 DEF Stopping
  <1>8. Over(s) => Over(s)'
    BY <1>1 DEF Over
  <1>9. Begun(s) => Begun(s)'
    BY <1>1, <1>6, <1>7, <1>8 DEF Begun
  <1> QED BY <1>1, <1>2, <1>3, <1>4, <1>5, <1>9 DEF Current

-----------------------------------------------------------------------------
(***************************************************************************)
(* A task runs                                                             *)
(***************************************************************************)

\* Task d of session i has run and has posted the tasks of i named in N.
Ran(i, d, N) ==
    /\ \A do \in SessionTasks :
          /\ Has(do, i)' <=> (Has(do, i) /\ do # d) \/ do \in N
          /\ Due(do, i)' <=> (Due(do, i) /\ do # d) \/ do \in N
    /\ \A s \in Sessions \ {i} : \A do \in SessionTasks :
          (Has(do, s)' <=> Has(do, s)) /\ (Due(do, s)' <=> Due(do, s))
    /\ \A a, b \in SessionTasks, s, r \in Sessions :
          /\ Before(Task(a, s), Task(b, r))
          /\ ~(s = i /\ a \in N) /\ ~(r = i /\ b \in N)
          => Before(Task(a, s), Task(b, r))'
    /\ Once'

\* What holds of a session's task that runs.
LEMMA Heading ==
    ASSUME QueueInv, NEW d \in SessionTasks, Running(d)
    PROVE  /\ tasks # <<>> /\ Id \in Sessions /\ Id # 0
           /\ Has(d, Id) /\ Due(d, Id) /\ Head(tasks) = Task(d, Id)
           /\ \A a : Before(Task(a, Id), Task(d, Id)) => ~Due(a, Id)
           /\ SessionInv(Id) /\ Id <= sessions
           /\ consumers[Id] \in Consumer /\ service[Id] \in ServiceSession
  <1>1. MuxerTypeOK /\ TypeOK /\ tasks # <<>> /\ Head(tasks).do = d
    BY DEF QueueInv, Inv, TypeOK, Running
  <1>2. Id \in Sessions /\ Id # 0
    BY <1>1, HeadType, MuxerAssumption DEF Sessions
  <1>3. Head(tasks) = Task(d, Id) /\ Head(tasks) \in Queued
    BY <1>1, HeadTask
  <1>4. \A a : Before(Task(a, Id), Task(d, Id)) => ~Due(a, Id)
    BY <1>1, <1>3, HeadFirst DEF Due
  <1>5. Has(d, Id) /\ Due(d, Id)
    BY <1>3 DEF Has, Due
  <1>6. SessionInv(Id)
    BY <1>2 DEF QueueInv
  <1>7. Id <= sessions
    <2>1. ~(Id > sessions)
      BY <1>5, <1>6 DEF SessionInv, New
    <2>2. Id \in Nat /\ sessions \in Nat
      BY <1>1, <1>2, MuxerAssumption DEF Sessions, TypeOK
    <2> QED BY <2>1, <2>2
  <1>8. consumers[Id] \in Consumer /\ service[Id] \in ServiceSession
    BY <1>1, <1>2 DEF MuxerTypeOK
  <1> QED BY <1>1, <1>2, <1>3, <1>4, <1>5, <1>6, <1>7, <1>8

\* The queue after a task that posts a sequence of tasks of its session.
LEMMA RanPosts ==
    ASSUME QueueInv, NEW d \in SessionTasks, Running(d), NEW i, i = Id,
           UNCHANGED thread, NEW new \in Seq(Tasks), NEW N, Done(new),
           Names(new, i, N)
    PROVE  Ran(i, d, N) /\ InTurn(new)
  <1>1. TypeOK /\ Once /\ tasks # <<>> /\ i # 0 /\ Head(tasks) = Task(d, i) /\ Has(d, i)
    BY Heading DEF QueueInv, Inv
  <1>2. /\ \A do : Has(do, i)' <=> (Has(do, i) /\ do # Head(tasks).do) \/ do \in N
        /\ \A do, s : s # i => (Has(do, s)' <=> Has(do, s))
        /\ Posted' = Posted
        /\ Once'
        /\ \A t, u : /\ Before(t, u)
                     /\ t \notin {Task(do, i) : do \in N}
                     /\ u \notin {Task(do, i) : do \in N}
                     => Before(t, u)'
        /\ InTurn(new)
    BY <1>1, DoneQueue DEF Leaves
  <1>3. Head(tasks).do = d
    BY DEF Running
  <1>4. Task(d, i) \notin Posted
    BY <1>1, TaskSame DEF Has, Once
  <1>5. \A a, s : Task(a, s) \in {Task(do, i) : do \in N} <=> s = i /\ a \in N
    BY TaskSame
  <1>6. \A do : Due(do, i)' <=> (Due(do, i) /\ do # d) \/ do \in N
    BY <1>2, <1>3, <1>4 DEF Due, Has
  <1>7. \A do, s : s # i => (Due(do, s)' <=> Due(do, s))
    BY <1>2 DEF Due, Has
  <1>8. \A a, b, s, r :
           /\ Before(Task(a, s), Task(b, r))
           /\ ~(s = i /\ a \in N) /\ ~(r = i /\ b \in N)
           => Before(Task(a, s), Task(b, r))'
    BY <1>2, <1>5
  <1> QED BY <1>2, <1>3, <1>6, <1>7, <1>8 DEF Ran

\* The queue after a task that posts nothing.
LEMMA RanNone ==
    ASSUME QueueInv, NEW d \in SessionTasks, Running(d), NEW i, i = Id,
           UNCHANGED thread, Done(<<>>)
    PROVE  Ran(i, d, {})
  <1>1. /\ <<>> \in Seq(Tasks) /\ 1 .. Len(<<>>) = {}
    OBVIOUS
  <1>2. Names(<<>>, i, {})
    BY <1>1 DEF Names
  <1> QED BY <1>1, <1>2, RanPosts

\* The queue after a task that posts one.
LEMMA RanOne ==
    ASSUME QueueInv, NEW d \in SessionTasks, Running(d), NEW i, i = Id,
           UNCHANGED thread, NEW a \in SessionTasks, Done(<<Task(a, i)>>), ~Due(a, i)
    PROVE  Ran(i, d, {a})
  <1> DEFINE new == <<Task(a, i)>>
  <1>1. new \in Seq(Tasks) /\ Len(new) = 1 /\ new[1] = Task(a, i)
    BY Heading, TaskType
  <1> HIDE DEF new
  <1>2. 1 .. Len(new) = {1}
    BY <1>1
  <1>3. {new[j] : j \in 1 .. Len(new)} = {Task(do, i) : do \in {a}}
    BY <1>1, <1>2
  <1>4. Done(new)
    BY DEF new
  <1>5. \A j, k \in 1 .. Len(new) : new[j] = new[k] => j = k
    BY <1>2
  <1>6. Names(new, i, {a})
    BY <1>3, <1>5 DEF Names
  <1> QED BY <1>1, <1>4, <1>6, RanPosts

\* The queue after a task that posts two.
LEMMA RanTwo ==
    ASSUME QueueInv, NEW d \in SessionTasks, Running(d), NEW i, i = Id,
           UNCHANGED thread, NEW a \in SessionTasks, NEW b \in SessionTasks, a # b,
           Done(<<Task(a, i), Task(b, i)>>), ~Due(a, i), ~Due(b, i)
    PROVE  Ran(i, d, {a, b}) /\ Before(Task(a, i), Task(b, i))'
  <1> DEFINE new == <<Task(a, i), Task(b, i)>>
  <1>1. new \in Seq(Tasks) /\ Len(new) = 2 /\ new[1] = Task(a, i) /\ new[2] = Task(b, i)
    BY Heading, TaskType
  <1> HIDE DEF new
  <1>2. 1 .. Len(new) = {1, 2}
    BY <1>1
  <1>3. {new[j] : j \in 1 .. Len(new)} = {Task(do, i) : do \in {a, b}}
    BY <1>1, <1>2
  <1>4. Done(new)
    BY DEF new
  <1>5. \A j, k \in 1 .. Len(new) : new[j] = new[k] => j = k
    BY <1>1, <1>2, TaskSame
  <1>f. \A do \in {a, b} : ~Due(do, i)
    OBVIOUS
  <1>g. Names(new, i, {a, b})
    BY <1>3, <1>5, <1>f DEF Names
  <1>6. /\ Ran(i, d, {a, b})
        /\ \A j, k \in 1 .. Len(new) : j < k => Before(new[j], new[k])'
    BY <1>1, <1>4, <1>g, RanPosts DEF InTurn
  <1>7. 1 \in 1 .. Len(new) /\ 2 \in 1 .. Len(new) /\ 1 < 2
    BY <1>2
  <1>8. Before(new[1], new[2])'
    BY <1>6, <1>7
  <1> QED BY <1>1, <1>6, <1>8

\* The queue after a task that posts three.
LEMMA RanThree ==
    ASSUME QueueInv, NEW d \in SessionTasks, Running(d), NEW i, i = Id,
           UNCHANGED thread, NEW a \in SessionTasks, NEW b \in SessionTasks,
           NEW c \in SessionTasks, a # b, b # c, a # c,
           Done(<<Task(a, i), Task(b, i), Task(c, i)>>),
           ~Due(a, i), ~Due(b, i), ~Due(c, i)
    PROVE  /\ Ran(i, d, {a, b, c})
           /\ Before(Task(a, i), Task(b, i))' /\ Before(Task(a, i), Task(c, i))'
  <1> DEFINE new == <<Task(a, i), Task(b, i), Task(c, i)>>
  <1>1. /\ new \in Seq(Tasks) /\ Len(new) = 3 /\ new[1] = Task(a, i)
        /\ new[2] = Task(b, i) /\ new[3] = Task(c, i)
    BY Heading, TaskType
  <1> HIDE DEF new
  <1>2. 1 .. Len(new) = {1, 2, 3}
    BY <1>1
  <1>3. {new[j] : j \in 1 .. Len(new)} = {Task(do, i) : do \in {a, b, c}}
    BY <1>1, <1>2
  <1>4. Done(new)
    BY DEF new
  <1>5. \A j, k \in 1 .. Len(new) : new[j] = new[k] => j = k
    BY <1>1, <1>2, TaskSame
  <1>f. \A do \in {a, b, c} : ~Due(do, i)
    OBVIOUS
  <1>g. Names(new, i, {a, b, c})
    BY <1>3, <1>5, <1>f DEF Names
  <1>6. /\ Ran(i, d, {a, b, c})
        /\ \A j, k \in 1 .. Len(new) : j < k => Before(new[j], new[k])'
    BY <1>1, <1>4, <1>g, RanPosts DEF InTurn
  <1>7. 1 \in 1 .. Len(new) /\ 2 \in 1 .. Len(new) /\ 3 \in 1 .. Len(new) /\ 1 < 2 /\ 1 < 3
    BY <1>2
  <1>8. Before(new[1], new[2])' /\ Before(new[1], new[3])'
    BY <1>6, <1>7
  <1> QED BY <1>1, <1>6, <1>8

\* A session that nothing happens to keeps its invariant.
LEMMA SessionKept ==
    ASSUME QueueInv, NEW s \in Sessions, Same(s), thread'.call = thread.call,
           UNCHANGED <<sessions, sTracingSession>>,
           s = sTracingSession => woken' = woken,
           Has("stopped", s) /\ s # sTracingSession /\ sTracingSession # 0
              /\ Due("CreateTracingSession", sTracingSession)
              /\ Before(Task("stopped", s), Task("CreateTracingSession", sTracingSession))
              => /\ Due("CreateTracingSession", sTracingSession)'
                 /\ Before(Task("stopped", s),
                           Task("CreateTracingSession", sTracingSession))'
    PROVE  SessionInv(s)'
  <1>1. SessionInv(s) /\ WokenInv
    BY DEF QueueInv
  <1>2. /\ \A do \in ClientTasks \cup MuxerTasks : Due(do, s)' <=> Due(do, s)
        /\ \A do \in MuxerTasks : Has(do, s)' <=> Has(do, s)
        /\ consumers'[s] = consumers[s] /\ service'[s] = service[s]
        /\ s \in failed' <=> s \in failed
    BY TaskKinds DEF Same
  <1>3. s > sessions' => New(s)'
    BY <1>1, <1>2, TaskKinds DEF SessionInv, New
  <1>4. s = sTracingSession' => Current(s)'
    BY <1>1, CurrentKept DEF SessionInv
  <1>5. s <= sessions' /\ s # sTracingSession' => Past(s)'
    <2> SUFFICES ASSUME s <= sessions, s # sTracingSession PROVE Past(s)'
      OBVIOUS
    <2>1. Past(s)
      BY <1>1 DEF SessionInv
    <2>2. /\ \A do \in {"CreateTracingSession", "Setup", "SetOnStartCallback",
                        "SetOnStopCallback", "StartBlocking", "StopBlocking",
                        "ReadTrace"} : ~Due(do, s)'
          /\ \A do \in {"OnConnect", "StartDataSource", "OnTracingDisabled", "started",
                        "wakeStart", "wakeStop", "wakeRead"} : ~Has(do, s)'
      BY <1>2, <2>1 DEF Past, ClientTasks, MuxerTasks
    <2>3. Has("stopped", s)' =>
             /\ thread'.call = "starting"
             /\ Due("CreateTracingSession", sTracingSession)'
             /\ Before(Task("stopped", s), Task("CreateTracingSession", sTracingSession))'
      <3> SUFFICES ASSUME Has("stopped", s)'
                   PROVE  /\ thread'.call = "starting"
                          /\ Due("CreateTracingSession", sTracingSession)'
                          /\ Before(Task("stopped", s),
                                    Task("CreateTracingSession", sTracingSession))'
        OBVIOUS
      <3>1. Has("stopped", s)
        BY <1>2 DEF MuxerTasks
      <3>2. /\ thread.call = "starting"
            /\ Due("CreateTracingSession", sTracingSession)
            /\ Before(Task("stopped", s), Task("CreateTracingSession", sTracingSession))
        BY <2>1, <3>1 DEF Past
      <3>3. sTracingSession # 0
        BY <1>1, <3>2 DEF WokenInv
      <3> QED BY <3>1, <3>2, <3>3
    <2>4. /\ Due("DestroyTracingSession", s)' <=> Due("DestroyTracingSession", s)
          /\ Has("StopDataSource", s)' <=> Has("StopDataSource", s)
          /\ Has("StopDataSource_AsyncEnd", s)' <=> Has("StopDataSource_AsyncEnd", s)
      BY <1>2 DEF ClientTasks, MuxerTasks
    <2> QED BY <1>2, <2>1, <2>2, <2>3, <2>4 DEF Past
  <1>6. Single(s)'
    BY <1>1, <1>2 DEF SessionInv, Single, MuxerTasks
  <1> QED BY <1>3, <1>4, <1>5, <1>6 DEF SessionInv

\* A task of session i leaves the other sessions alone.
LEMMA RanInv ==
    ASSUME QueueInv, Inv', NEW i \in Sessions, NEW d, d \in SessionTasks => Running(d) /\ Id = i,
           NEW N \in SUBSET MuxerTasks, Ran(i, d, N),
           UNCHANGED <<thread, sessions, sTracingSession>>,
           woken' = woken \/ i = sTracingSession, WokenInv',
           \A s \in Sessions \ {i} : /\ consumers'[s] = consumers[s]
                                     /\ service'[s] = service[s]
                                     /\ s \in failed' <=> s \in failed,
           SessionInv(i)'
    PROVE  QueueInv'
  <1>1. ASSUME NEW s \in Sessions, s # i PROVE SessionInv(s)'
    <2>1. Same(s)
      <3>1. /\ \A do \in SessionTasks :
                  (Has(do, s)' <=> Has(do, s)) /\ (Due(do, s)' <=> Due(do, s))
            /\ \A a, b \in SessionTasks :
                  Before(Task(a, s), Task(b, s)) => Before(Task(a, s), Task(b, s))'
        BY <1>1 DEF Ran
      <3>2. MuxerTasks \subseteq SessionTasks
        BY TaskKinds
      <3> QED BY <1>1, <3>1, <3>2 DEF Same
    <2>2. ASSUME Has("stopped", s), s # sTracingSession, sTracingSession # 0,
                 Due("CreateTracingSession", sTracingSession),
                 Before(Task("stopped", s), Task("CreateTracingSession", sTracingSession))
          PROVE  /\ Due("CreateTracingSession", sTracingSession)'
                 /\ Before(Task("stopped", s),
                           Task("CreateTracingSession", sTracingSession))'
      <3> DEFINE r == sTracingSession
      <3>0. r \in Sessions /\ r' = r
        BY <2>2, MuxerAssumption DEF QueueInv, Inv, TypeOK, Sessions
      <3>a. "CreateTracingSession" \in SessionTasks /\ "stopped" \in SessionTasks
            /\ "CreateTracingSession" \notin N
        BY DEF SessionTasks, MuxerTasks
      <3>1. ~(r = i /\ d = "CreateTracingSession")
        <4> SUFFICES ASSUME r = i, d = "CreateTracingSession" PROVE FALSE
          OBVIOUS
        <4>1. MuxerTypeOK /\ tasks # <<>> /\ Head(tasks) = Task("CreateTracingSession", r)
          BY <3>a, Heading DEF QueueInv, Inv, TypeOK
        <4>2. Task("stopped", s) \notin Queued
          BY <2>2, <4>1, HeadFirst
        <4> QED BY <2>2, <4>2 DEF Has
      <3>3. Task("CreateTracingSession", r) \in Queued' \/ Task("CreateTracingSession", r) \in Posted'
        BY <2>2, <3>0, <3>1, <3>a DEF Ran, Due
      <3>4. <<Task("stopped", s), Task("CreateTracingSession", r)>> \in Precede'
        BY <1>1, <2>2, <3>0, <3>a DEF Ran, Before
      <3> QED BY <3>0, <3>3, <3>4 DEF Due, Before
    <2> QED BY <1>1, <2>1, <2>2, SessionKept
  <1>2. PostsInv'
    BY DEF QueueInv, PostsInv, Posted, Idle
  <1>3. Once'
    BY DEF Ran
  <1> QED BY <1>1, <1>2, <1>3 DEF QueueInv

-----------------------------------------------------------------------------
(***************************************************************************)
(* The start of a session                                                  *)
(***************************************************************************)

\* The tasks of startTracing stay in order, whichever of them runs.
LEMMA OrderedKept ==
    ASSUME QueueInv, NEW i \in Sessions, Ordered(i), NEW d,
           d \in SessionTasks => Running(d) /\ Id = i,
           NEW N \in SUBSET MuxerTasks, Ran(i, d, N)
    PROVE  Ordered(i)'
  <1>1. /\ \A do \in ClientTasks : Due(do, i)' <=> Due(do, i) /\ do # d
        /\ \A a, b \in ClientTasks :
              Before(Task(a, i), Task(b, i)) => Before(Task(a, i), Task(b, i))'
    <2>1. /\ \A do \in ClientTasks : do \notin N /\ do \in SessionTasks
      BY TaskKinds DEF ClientTasks, MuxerTasks
    <2> QED BY <2>1 DEF Ran
  <1>2. d \in SessionTasks => \A a : Before(Task(a, i), Task(d, i)) => ~Due(a, i)
    BY Heading
  <1>a. d \in ClientTasks => d \in SessionTasks
    BY TaskKinds
  <1>3. /\ Due("CreateTracingSession", i)' => Due("Setup", i)'
        /\ Due("Setup", i)' => Due("SetOnStartCallback", i)'
        /\ Due("SetOnStartCallback", i)' => Due("SetOnStopCallback", i)'
        /\ Due("SetOnStopCallback", i)' => Due("StartBlocking", i)'
    BY <1>1, <1>2, <1>a DEF Ordered, ClientTasks
  <1>4. /\ Before(Task("CreateTracingSession", i), Task("Setup", i))'
        /\ Before(Task("Setup", i), Task("SetOnStartCallback", i))'
        /\ Before(Task("SetOnStartCallback", i), Task("SetOnStopCallback", i))'
        /\ Before(Task("SetOnStopCallback", i), Task("StartBlocking", i))'
    BY <1>1 DEF Ordered, ClientTasks
  <1> QED BY <1>3, <1>4 DEF Ordered

\* The call that waits is the same if nobody is woken.
LEMMA WokenKept ==
    ASSUME WokenInv, UNCHANGED <<thread, woken, sessions, sTracingSession>>
    PROVE  WokenInv'
  BY DEF WokenInv

\* The session of a task of startTracing is current, and StartBlocking is due.
LEMMA StartTask ==
    ASSUME QueueInv, NEW d \in {"CreateTracingSession", "Setup", "SetOnStartCallback",
                                "SetOnStopCallback", "StartBlocking"}, Running(d)
    PROVE  /\ Id = sTracingSession /\ Current(Id) /\ Ordered(Id) /\ Unstarted(Id)
           /\ Due("StartBlocking", Id) /\ ~Due("DestroyTracingSession", Id)
           /\ ~Due("StopBlocking", Id) /\ ~Due("ReadTrace", Id)
           /\ d # "CreateTracingSession" => ~Due("CreateTracingSession", Id)
           /\ d \notin {"CreateTracingSession", "Setup"} => ~Due("Setup", Id)
           /\ d \notin {"CreateTracingSession", "Setup", "SetOnStartCallback"}
                 => ~Due("SetOnStartCallback", Id)
           /\ d = "StartBlocking" => ~Due("SetOnStopCallback", Id)
  <1>1. d \in SessionTasks
    BY DEF SessionTasks
  <1>2. /\ SessionInv(Id) /\ Id <= sessions /\ Due(d, Id)
        /\ \A a : Before(Task(a, Id), Task(d, Id)) => ~Due(a, Id)
    BY <1>1, Heading
  <1>3. Id = sTracingSession
    BY <1>2 DEF SessionInv, Past
  <1>4. Current(Id)
    BY <1>2, <1>3 DEF SessionInv
  <1>5. Ordered(Id) /\ Due("StartBlocking", Id) /\ ~Due("DestroyTracingSession", Id)
    BY <1>2, <1>4 DEF Current, Ordered
  <1>6. Unstarted(Id)
    BY <1>4, <1>5 DEF Current
  <1>7. ~Due("StopBlocking", Id) /\ ~Due("ReadTrace", Id)
    BY <1>4, <1>6 DEF Current, Unstarted
  <1>8. /\ d # "CreateTracingSession" => ~Due("CreateTracingSession", Id)
        /\ d \notin {"CreateTracingSession", "Setup"} => ~Due("Setup", Id)
        /\ d \notin {"CreateTracingSession", "Setup", "SetOnStartCallback"}
              => ~Due("SetOnStartCallback", Id)
        /\ d = "StartBlocking" => ~Due("SetOnStopCallback", Id)
    BY <1>2, <1>5 DEF Ordered
  <1> QED BY <1>3, <1>4, <1>5, <1>6, <1>7, <1>8

\* A session that waits for StartBlocking still does after another task of its.
LEMMA UnstartedKept ==
    ASSUME QueueInv, Inv', NEW i \in Sessions, i = sTracingSession,
           Current(i), Unstarted(i), Due("StartBlocking", i),
           NEW d \in SessionTasks, d # "StartBlocking", Running(d), Id = i,
           NEW N \in SUBSET {"OnConnect"}, Ran(i, d, N),
           UNCHANGED <<thread, woken, sessions, sTracingSession, service, failed>>,
           \A s \in Sessions \ {i} : consumers'[s] = consumers[s],
           Unstarted(i)'
    PROVE  QueueInv'
  <1>1. N \in SUBSET MuxerTasks
    BY DEF MuxerTasks
  <1>2. WokenInv'
    BY WokenKept DEF QueueInv
  <1>3. /\ \A do \in ClientTasks : Due(do, i)' <=> Due(do, i) /\ do # d
        /\ \A do \in MuxerTasks \ {"OnConnect"} : Has(do, i)' => Has(do, i)
    <2>1. /\ \A do \in ClientTasks : do \notin N /\ do \in SessionTasks
          /\ \A do \in MuxerTasks \ {"OnConnect"} : do \notin N /\ do \in SessionTasks
      BY TaskKinds DEF ClientTasks, MuxerTasks
    <2> QED BY <2>1 DEF Ran
  <1>4. Ordered(i)'
    BY <1>1, OrderedKept DEF Current
  <1>5. Current(i)'
    BY <1>3, <1>4 DEF Current, ClientTasks
  <1>6. Single(i)'
    BY <1>3 DEF Single, Unstarted, MuxerTasks
  <1>7. SessionInv(i)'
    <2>1. i <= sessions /\ i \in Nat /\ sessions \in Nat
      BY Heading, MuxerAssumption DEF QueueInv, Inv, TypeOK, Sessions
    <2>2. ~(i > sessions)
      BY <2>1
    <2> QED BY <1>5, <1>6, <2>2 DEF SessionInv
  <1> QED BY <1>1, <1>2, <1>7, RanInv

\* CreateTracingSession, whose connection comes later.
LEMMA CreateKeeps ==
    ASSUME QueueInv, CreateTracingSession, UNCHANGED <<clientVars, told>>
    PROVE  QueueInv'
  <1> DEFINE d == "CreateTracingSession"
  <1>0. PICK i \in Sessions : i = Id
    BY Heading DEF CreateTracingSession, SessionTasks
  <1>1. /\ d \in SessionTasks /\ Running(d) /\ Inv'
        /\ UNCHANGED <<thread, woken, sessions, sTracingSession, service, failed>>
    BY MuxerInv DEF CreateTracingSession, SessionTasks, clientVars, QueueInv, Muxer, RunTask
  <1>2. /\ i = sTracingSession /\ Current(i) /\ Unstarted(i) /\ Due("StartBlocking", i)
        /\ Due(d, i) /\ consumers[i] = NoConsumer /\ consumers[i] \in Consumer
    BY <1>0, <1>1, StartTask, Heading DEF Unstarted
  <1>3. PICK N \in SUBSET {"OnConnect"} : Ran(i, d, N)
    <2>1. ~Due("OnConnect", i)
      BY <1>2, TaskSame DEF Unstarted, Due, Has, QueueInv, PostsInv, ClientTasks, GlobalTasks
    <2>2. CASE muxer.backend = "inProcess"
      <3>1. Done(<<Task("OnConnect", i)>>)
        BY <1>0, <2>2 DEF CreateTracingSession, If
      <3>2. "OnConnect" \in SessionTasks
        BY DEF SessionTasks
      <3> QED BY <1>0, <1>1, <2>1, <3>1, <3>2, RanOne
    <2>3. CASE muxer.backend # "inProcess"
      <3>1. Done(<<>>)
        BY <2>3 DEF CreateTracingSession, If
      <3> QED BY <1>0, <1>1, <3>1, RanNone
    <2> QED BY <2>2, <2>3
  <1>4. consumers \in [Sessions -> Consumer]
    BY DEF QueueInv, Inv, TypeOK, MuxerTypeOK
  <1>5. /\ consumers'[i] = [NoConsumer EXCEPT !.found = TRUE]
        /\ \A s \in Sessions \ {i} : consumers'[s] = consumers[s]
    BY <1>0, <1>2, <1>4 DEF CreateTracingSession
  <1>6. Unstarted(i)'
    <2>1. /\ \A do \in ClientTasks : Due(do, i)' <=> Due(do, i) /\ do # d
          /\ \A do \in MuxerTasks \ {"OnConnect"} : Has(do, i)' => Has(do, i)
      <3>1. /\ \A do \in ClientTasks : do \notin N /\ do \in SessionTasks
            /\ \A do \in MuxerTasks \ {"OnConnect"} : do \notin N /\ do \in SessionTasks
        BY TaskKinds DEF ClientTasks, MuxerTasks
      <3> QED BY <1>3, <3>1 DEF Ran
    <2>2. /\ Due("Setup", i) /\ Due("SetOnStartCallback", i) /\ Due("SetOnStopCallback", i)
      BY <1>2 DEF Current, Ordered
    <2>3. /\ Due("Setup", i)' /\ Due("SetOnStartCallback", i)'
          /\ Due("SetOnStopCallback", i)' /\ ~Due("CreateTracingSession", i)'
      BY <2>1, <2>2 DEF ClientTasks
    <2>4. /\ consumers'[i].found /\ ~consumers'[i].waitsStart /\ ~consumers'[i].waitsStop
          /\ ~consumers'[i].start_pending_ /\ ~consumers'[i].stopped_
          /\ ~consumers'[i].connected_
      BY <1>5 DEF NoConsumer
    <2> QED BY <1>1, <1>2, <2>1, <2>3, <2>4 DEF Unstarted
  <1> QED BY <1>0, <1>1, <1>2, <1>3, <1>5, <1>6, UnstartedKept

\* Setup and the callbacks.
LEMMA ConfigureKeeps ==
    ASSUME QueueInv, Configure, UNCHANGED <<clientVars, told>>
    PROVE  QueueInv'
  <1>1. /\ Done(<<>>) /\ Inv'
        /\ UNCHANGED <<thread, woken, sessions, sTracingSession, service, failed>>
    BY MuxerInv DEF Configure, clientVars, QueueInv, Muxer, RunTask
  <1>2. PICK d \in {"Setup", "SetOnStartCallback", "SetOnStopCallback"} :
           /\ Running(d)
           /\ d = "Setup" => consumers' = [consumers EXCEPT ![Id].trace_config_ = TRUE]
           /\ d = "SetOnStartCallback" => consumers' = [consumers EXCEPT ![Id].onStart = TRUE]
           /\ d = "SetOnStopCallback" => consumers' = [consumers EXCEPT ![Id].onStop = TRUE]
    BY DEF Configure
  <1>3. d \in SessionTasks
    BY DEF SessionTasks
  <1>0. PICK i \in Sessions : i = Id
    BY <1>2, <1>3, Heading
  <1>4. /\ i = sTracingSession /\ Current(i) /\ Unstarted(i) /\ Due("StartBlocking", i)
        /\ ~Due("CreateTracingSession", i) /\ consumers[i] \in Consumer
        /\ d # "Setup" => ~Due("Setup", i)
        /\ d = "SetOnStopCallback" => ~Due("SetOnStartCallback", i)
    BY <1>0, <1>2, <1>3, StartTask, Heading
  <1>5. Ran(i, d, {})
    BY <1>0, <1>1, <1>2, <1>3, RanNone
  <1>6. consumers \in [Sessions -> Consumer]
    BY DEF QueueInv, Inv, TypeOK, MuxerTypeOK
  <1>7. \A s \in Sessions \ {i} : consumers'[s] = consumers[s]
    BY <1>0, <1>2, <1>6
  <1>8. /\ d = "Setup" => consumers'[i] = [consumers[i] EXCEPT !.trace_config_ = TRUE]
        /\ d = "SetOnStartCallback" => consumers'[i] = [consumers[i] EXCEPT !.onStart = TRUE]
        /\ d = "SetOnStopCallback" => consumers'[i] = [consumers[i] EXCEPT !.onStop = TRUE]
    BY <1>0, <1>2, <1>6
  <1>9. Unstarted(i)'
    <2> DEFINE c == consumers[i]
               e == consumers'[i]
    <2>1. /\ \A do \in ClientTasks : Due(do, i)' <=> Due(do, i) /\ do # d
          /\ \A do \in MuxerTasks : Has(do, i)' <=> Has(do, i)
      <3>1. /\ \A do \in ClientTasks : do \in SessionTasks
            /\ \A do \in MuxerTasks : do # d /\ do \in SessionTasks
        BY <1>2, TaskKinds DEF ClientTasks, MuxerTasks
      <3> QED BY <1>5, <3>1 DEF Ran
    <2>2. /\ e.found = c.found /\ e.connected_ = c.connected_
          /\ e.waitsStart = c.waitsStart /\ e.waitsStop = c.waitsStop
          /\ e.start_pending_ = c.start_pending_ /\ e.stopped_ = c.stopped_
          /\ d # "Setup" => e.trace_config_ = c.trace_config_
          /\ d # "SetOnStartCallback" => e.onStart = c.onStart
          /\ d # "SetOnStopCallback" => e.onStop = c.onStop
          /\ d = "Setup" => e.trace_config_ = TRUE
          /\ d = "SetOnStartCallback" => e.onStart = TRUE
          /\ d = "SetOnStopCallback" => e.onStop = TRUE
      BY <1>4, <1>8 DEF Consumer
    <2> HIDE DEF c, e
    <2>3. /\ thread.call = "starting" /\ woken = "none" /\ c.found
          /\ ~Due("Setup", i) => c.trace_config_
          /\ ~Due("SetOnStartCallback", i) => c.onStart
          /\ ~Due("SetOnStopCallback", i) => c.onStop
          /\ ~c.waitsStart /\ ~c.waitsStop /\ ~c.start_pending_ /\ ~c.stopped_
          /\ Has("OnConnect", i) => ~c.connected_
          /\ \A do \in MuxerTasks \ {"OnConnect"} : ~Has(do, i)
          /\ service[i] = NoServiceSession /\ i \notin failed
      BY <1>4 DEF Unstarted, c
    <2>4. /\ ~Due("CreateTracingSession", i)'
          /\ Due("Setup", i)' <=> Due("Setup", i) /\ "Setup" # d
          /\ Due("SetOnStartCallback", i)' <=> Due("SetOnStartCallback", i) /\ "SetOnStartCallback" # d
          /\ Due("SetOnStopCallback", i)' <=> Due("SetOnStopCallback", i) /\ "SetOnStopCallback" # d
          /\ Has("OnConnect", i)' <=> Has("OnConnect", i)
          /\ \A do \in MuxerTasks \ {"OnConnect"} : ~Has(do, i)'
      BY <1>4, <2>1, <2>3 DEF ClientTasks, MuxerTasks
    <2>5. /\ ~Due("Setup", i)' => e.trace_config_
          /\ ~Due("SetOnStartCallback", i)' => e.onStart
          /\ ~Due("SetOnStopCallback", i)' => e.onStop
      BY <2>2, <2>3, <2>4
    <2>6. /\ e.found /\ ~e.waitsStart /\ ~e.waitsStop /\ ~e.start_pending_ /\ ~e.stopped_
          /\ Has("OnConnect", i)' => ~e.connected_
      BY <2>2, <2>3, <2>4
    <2> QED BY <1>1, <2>3, <2>4, <2>5, <2>6 DEF Unstarted, e
  <1> QED BY <1>0, <1>1, <1>2, <1>3, <1>4, <1>5, <1>7, <1>9, UnstartedKept

\* The client posts no task of the muxer.
LEMMA MuxerDue ==
    ASSUME QueueInv
    PROVE  \A do \in MuxerTasks : \A s : Due(do, s) <=> Has(do, s)
  <1>1. \A t \in Posted : t.do \notin MuxerTasks
    BY DEF QueueInv, PostsInv, ClientTasks, GlobalTasks, MuxerTasks
  <1> QED BY <1>1, TaskSame DEF Due, Has

\* A task of the current session keeps the invariant if the session's own
\* invariant is kept.
LEMMA CurrentStep ==
    ASSUME QueueInv, Inv', NEW i \in Sessions, i = sTracingSession,
           NEW d, d \in SessionTasks => Running(d) /\ Id = i,
           NEW N \in SUBSET MuxerTasks, Ran(i, d, N),
           UNCHANGED <<thread, sessions, sTracingSession>>, WokenInv',
           \A s \in Sessions \ {i} : /\ consumers'[s] = consumers[s]
                                     /\ service'[s] = service[s]
                                     /\ s \in failed' <=> s \in failed,
           Current(i)', Single(i)'
    PROVE  QueueInv'
  <1>1. i = sessions /\ i \in Nat
    BY MuxerAssumption DEF QueueInv, WokenInv, Inv, TypeOK, Sessions
  <1>2. ~(i > sessions)
    BY <1>1
  <1>3. SessionInv(i)'
    BY <1>2 DEF SessionInv
  <1> QED BY <1>3, RanInv

\* So does a task of a past one.
LEMMA PastStep ==
    ASSUME QueueInv, Inv', NEW i \in Sessions, i # sTracingSession,
           NEW d \in SessionTasks, Running(d), Id = i,
           NEW N \in SUBSET MuxerTasks, Ran(i, d, N),
           UNCHANGED <<thread, woken, sessions, sTracingSession>>,
           \A s \in Sessions \ {i} : /\ consumers'[s] = consumers[s]
                                     /\ service'[s] = service[s]
                                     /\ s \in failed' <=> s \in failed,
           Past(i)', Single(i)'
    PROVE  QueueInv'
  <1>1. i <= sessions /\ i \in Nat /\ sessions \in Nat
    BY Heading, MuxerAssumption DEF QueueInv, Inv, TypeOK, Sessions
  <1>2. ~(i > sessions)
    BY <1>1
  <1>3. SessionInv(i)'
    BY <1>2 DEF SessionInv
  <1>4. WokenInv'
    BY WokenKept DEF QueueInv
  <1> QED BY <1>3, <1>4, RanInv

\* EnableTracing: the data source is set up and started, or the session fails.
LEMMA EnableKeeps ==
    ASSUME QueueInv, Inv', NEW i \in Sessions, i = sTracingSession, i = Id,
           NEW d \in {"StartBlocking", "OnConnect"}, Running(d), Current(i),
           \A do \in MuxerTasks \ {"OnConnect"} : ~Has(do, i),
           d # "OnConnect" => ~Has("OnConnect", i),
           Due("StartBlocking", i) => d = "StartBlocking",
           service[i] = NoServiceSession, i \notin failed,
           thread.call = "starting", woken = "none",
           NEW c \in Consumer, c.found, c.onStart, c.onStop, c.waitsStart,
           ~c.waitsStop, ~c.stopped_, StartTracingSession(c),
           UNCHANGED <<thread, woken, sessions, sTracingSession>>
    PROVE  QueueInv'
  <1>1. /\ d \in SessionTasks /\ {"OnObservableEvents", "SetupDataSource",
           "StartDataSource", "OnTracingDisabled"} \subseteq SessionTasks
        /\ {"OnObservableEvents", "SetupDataSource", "StartDataSource",
            "OnTracingDisabled"} \subseteq MuxerTasks
    BY DEF SessionTasks, MuxerTasks
  <1>2. \A do \in MuxerTasks \ {"OnConnect"} : ~Due(do, i)
    BY MuxerDue
  <1>t. consumers \in [Sessions -> Consumer] /\ service \in [Sessions -> ServiceSession]
    BY DEF QueueInv, Inv, TypeOK, MuxerTypeOK
  <1>3. /\ consumers'[i] = [c EXCEPT !.start_pending_ = FALSE]
        /\ \A s \in Sessions \ {i} : consumers'[s] = consumers[s]
    BY <1>t DEF StartTracingSession
  <1>4. /\ consumers'[i].found /\ consumers'[i].onStart /\ consumers'[i].onStop
        /\ consumers'[i].waitsStart /\ ~consumers'[i].waitsStop
        /\ ~consumers'[i].stopped_ /\ ~consumers'[i].start_pending_
    BY <1>3 DEF Consumer
  <1>w. WokenInv'
    BY WokenKept DEF QueueInv
  <1>5. ASSUME NEW N \in SUBSET {"OnObservableEvents", "SetupDataSource",
                                 "StartDataSource", "OnTracingDisabled"},
               Ran(i, d, N)
        PROVE  /\ N \in SUBSET MuxerTasks
               /\ \A do \in {"OnConnect", "started", "stopped", "wakeStart", "wakeStop",
                      "wakeRead", "StopDataSource", "StopDataSource_AsyncEnd"} :
                     ~Has(do, i)'
               /\ \A do \in {"OnObservableEvents", "SetupDataSource",
                             "StartDataSource", "OnTracingDisabled"} :
                     Has(do, i)' <=> do \in N
               /\ ~Due("StartBlocking", i)' /\ ~Due("DestroyTracingSession", i)'
               /\ ~Due("StopBlocking", i)' /\ ~Due("ReadTrace", i)'
               /\ Ordered(i)'
    <2>1. N \in SUBSET MuxerTasks
      BY <1>1
    <2>2. Ordered(i)'
      BY <1>1, <1>5, <2>1, OrderedKept DEF Current
    <2>3. /\ \A do \in {"OnConnect", "started", "stopped", "wakeStart", "wakeStop",
                        "wakeRead", "StopDataSource", "StopDataSource_AsyncEnd"} :
                /\ do \in SessionTasks /\ do \notin N
                /\ ~(Has(do, i) /\ do # d)
      BY DEF SessionTasks, MuxerTasks
    <2>4. /\ \A do \in {"OnObservableEvents", "SetupDataSource",
                        "StartDataSource", "OnTracingDisabled"} :
                do \in SessionTasks /\ ~Has(do, i)
      BY <1>1
    <2>5. \A do \in {"StartBlocking", "DestroyTracingSession", "StopBlocking",
                     "ReadTrace"} :
             /\ do \in SessionTasks /\ do \notin N
             /\ ~(Due(do, i) /\ do # d)
      BY DEF SessionTasks, Current
    <2> QED BY <1>5, <2>1, <2>2, <2>3, <2>4, <2>5 DEF Ran
  <1>6. CASE /\ failed' = failed \cup {Id} /\ UNCHANGED service
             /\ Done(<<Task("OnTracingDisabled", Id)>>)
    <2>1. Ran(i, d, {"OnTracingDisabled"})
      BY <1>1, <1>2, <1>6, RanOne
    <2>2. Current(i)'
      <3>1. Enabling(i)'
        BY <1>4, <1>5, <1>6, <2>1 DEF Enabling
      <3> QED BY <1>4, <1>5, <2>1, <3>1 DEF Current
    <2>3. Single(i)'
      BY <1>5, <1>6, <2>1 DEF Single
    <2>4. \A s \in Sessions \ {i} : /\ consumers'[s] = consumers[s]
                                    /\ service'[s] = service[s]
                                    /\ s \in failed' <=> s \in failed
      BY <1>3, <1>6
    <2> QED BY <1>1, <1>5, <1>w, <2>1, <2>2, <2>3, <2>4, CurrentStep
  <1>7. CASE /\ service' = [service EXCEPT ![Id] =
                [state |-> "STARTED",
                 instance |-> IF muxer.registered THEN "STARTING" ELSE "none",
                 observed |-> IF muxer.registered THEN "stopped" ELSE "none",
                 frozen |-> 0]]
             /\ Done(IF muxer.registered
                     THEN <<Task("OnObservableEvents", Id),
                            Task("SetupDataSource", Id),
                            Task("StartDataSource", Id)>>
                     ELSE <<>>)
             /\ UNCHANGED failed
    <2>1. \A s \in Sessions \ {i} : /\ consumers'[s] = consumers[s]
                                    /\ service'[s] = service[s]
                                    /\ s \in failed' <=> s \in failed
      BY <1>3, <1>7, <1>t
    <2>2. CASE muxer.registered
      <3>1. Ran(i, d, {"OnObservableEvents", "SetupDataSource", "StartDataSource"})
        <4>1. Done(<<Task("OnObservableEvents", i), Task("SetupDataSource", i),
                     Task("StartDataSource", i)>>)
          BY <1>7, <2>2
        <4>2. ~Due("OnObservableEvents", i) /\ ~Due("SetupDataSource", i)
              /\ ~Due("StartDataSource", i)
          BY <1>1, <1>2
        <4> QED BY <1>1, <4>1, <4>2, RanThree
      <3>2. /\ service'[i].state = "STARTED" /\ service'[i].instance = "STARTING"
            /\ service'[i].observed = "stopped"
        BY <1>7, <1>t, <2>2
      <3>3. Current(i)'
        <4>1. Enabling(i)'
          BY <1>4, <1>5, <1>7, <3>1, <3>2 DEF Enabling
        <4> QED BY <1>4, <1>5, <3>1, <4>1 DEF Current
      <3>4. Single(i)'
        BY <1>5, <3>1, <3>2 DEF Single
      <3> QED BY <1>1, <1>5, <1>w, <2>1, <3>1, <3>3, <3>4, CurrentStep
    <2>3. CASE ~muxer.registered
      <3>1. Ran(i, d, {})
        BY <1>1, <1>7, <2>3, RanNone
      <3>2. /\ service'[i].state = "STARTED" /\ service'[i].instance = "none"
            /\ service'[i].observed = "none"
        BY <1>7, <1>t, <2>3
      <3>3. Current(i)'
        <4>1. Enabling(i)'
          BY <1>4, <1>5, <1>7, <3>1, <3>2 DEF Enabling
        <4> QED BY <1>4, <1>5, <3>1, <4>1 DEF Current
      <3>4. Single(i)'
        BY <1>5, <3>1, <3>2 DEF Single
      <3> QED BY <1>1, <1>5, <1>w, <2>1, <3>1, <3>3, <3>4, CurrentStep
    <2> QED BY <2>2, <2>3
  <1> QED BY <1>6, <1>7 DEF StartTracingSession

\* StartBlocking starts the session, or waits for its connection.
LEMMA StartBlockingKeeps ==
    ASSUME QueueInv, StartBlocking, UNCHANGED <<clientVars, told>>
    PROVE  QueueInv'
  <1> DEFINE d == "StartBlocking"
  <1>0. PICK i \in Sessions : i = Id
    BY Heading DEF StartBlocking, SessionTasks
  <1>1. /\ d \in SessionTasks /\ Running(d) /\ Inv'
        /\ UNCHANGED <<thread, woken, sessions, sTracingSession>>
    BY MuxerInv DEF StartBlocking, SessionTasks, clientVars, QueueInv, Muxer, RunTask
  <1>2. /\ i = sTracingSession /\ Current(i) /\ Ordered(i) /\ Unstarted(i)
        /\ Due("StartBlocking", i) /\ ~Due("DestroyTracingSession", i)
        /\ ~Due("StopBlocking", i) /\ ~Due("ReadTrace", i)
        /\ ~Due("CreateTracingSession", i) /\ ~Due("Setup", i)
        /\ ~Due("SetOnStartCallback", i) /\ ~Due("SetOnStopCallback", i)
    BY <1>0, <1>1, StartTask
  <1>t. consumers \in [Sessions -> Consumer] /\ consumers[i] \in Consumer
    BY DEF QueueInv, Inv, TypeOK, MuxerTypeOK
  <1> DEFINE c == [consumers[i] EXCEPT !.waitsStart = TRUE]
  <1>3. c \in Consumer
    BY <1>t, ConsumerType
  <1>4. /\ c.found /\ c.onStart /\ c.onStop /\ c.waitsStart /\ c.trace_config_
        /\ ~c.waitsStop /\ ~c.stopped_ /\ c.connected_ = consumers[i].connected_
    BY <1>2, <1>t DEF Unstarted, Consumer
  <1>5. /\ thread.call = "starting" /\ woken = "none"
        /\ \A do \in MuxerTasks \ {"OnConnect"} : ~Has(do, i)
        /\ Has("OnConnect", i) => ~consumers[i].connected_
        /\ service[i] = NoServiceSession /\ i \notin failed
    BY <1>2 DEF Unstarted
  <1>6. \/ c.connected_ /\ StartTracingSession(c)
        \/ /\ ~c.connected_
           /\ consumers' = [consumers EXCEPT ![i] = [c EXCEPT !.start_pending_ = TRUE]]
           /\ Done(<<>>)
           /\ UNCHANGED <<service, failed>>
    BY <1>0 DEF StartBlocking
  <1> HIDE DEF c
  <1>7. CASE c.connected_ /\ StartTracingSession(c)
    <2>1. ~Has("OnConnect", i)
      BY <1>4, <1>5, <1>7
    <2> QED BY <1>0, <1>1, <1>2, <1>3, <1>4, <1>5, <1>7, <2>1, EnableKeeps
  <1>8. CASE /\ ~c.connected_
             /\ consumers' = [consumers EXCEPT ![i] = [c EXCEPT !.start_pending_ = TRUE]]
             /\ Done(<<>>)
             /\ UNCHANGED <<service, failed>>
    <2>1. Ran(i, d, {})
      BY <1>0, <1>1, <1>8, RanNone
    <2>2. /\ \A s \in Sessions \ {i} : consumers'[s] = consumers[s]
          /\ consumers'[i] = [c EXCEPT !.start_pending_ = TRUE]
      BY <1>8, <1>t
    <2>3. /\ consumers'[i].found /\ consumers'[i].onStart /\ consumers'[i].onStop
          /\ consumers'[i].trace_config_ /\ consumers'[i].start_pending_
          /\ consumers'[i].waitsStart /\ ~consumers'[i].waitsStop
          /\ ~consumers'[i].stopped_ /\ ~consumers'[i].connected_
      BY <1>3, <1>4, <1>8, <2>2 DEF Consumer
    <2>4. /\ ~Due("StartBlocking", i)' /\ ~Due("DestroyTracingSession", i)'
          /\ ~Due("StopBlocking", i)' /\ ~Due("ReadTrace", i)'
          /\ \A do \in MuxerTasks \ {"OnConnect"} : ~Has(do, i)'
      <3>1. /\ {"StartBlocking", "DestroyTracingSession", "StopBlocking", "ReadTrace"}
                  \subseteq SessionTasks
            /\ MuxerTasks \subseteq SessionTasks
        BY TaskKinds DEF ClientTasks
      <3> QED BY <1>2, <1>5, <2>1, <3>1 DEF Ran
    <2>5. Ordered(i)'
      BY <1>0, <1>1, <1>2, <2>1, OrderedKept
    <2>6. Current(i)'
      <3>1. Pending(i)'
        BY <1>1, <1>5, <1>8, <2>3, <2>4 DEF Pending
      <3> QED BY <2>3, <2>4, <2>5, <3>1 DEF Current
    <2>7. Single(i)'
      BY <2>4 DEF Single, MuxerTasks
    <2>8. WokenInv'
      BY <1>1, WokenKept DEF QueueInv
    <2> QED BY <1>0, <1>1, <1>2, <1>8, <2>1, <2>2, <2>6, <2>7, <2>8, CurrentStep
  <1> QED BY <1>6, <1>7, <1>8

\* OnConnect starts a session that waits for it.
LEMMA OnConnectKeeps ==
    ASSUME QueueInv, OnConnect, UNCHANGED <<clientVars, told>>
    PROVE  QueueInv'
  <1> DEFINE d == "OnConnect"
  <1>0. PICK i \in Sessions : i = Id
    BY Heading DEF OnConnect, SessionTasks
  <1>1. /\ d \in SessionTasks /\ Running(d) /\ Inv'
        /\ UNCHANGED <<thread, woken, sessions, sTracingSession>>
    BY MuxerInv DEF OnConnect, SessionTasks, clientVars, QueueInv, Muxer, RunTask
  <1>2. SessionInv(i) /\ i <= sessions /\ Has(d, i)
    BY <1>0, <1>1, Heading
  <1>3. i = sTracingSession /\ Current(i)
    BY <1>2 DEF SessionInv, Past
  <1>t. consumers \in [Sessions -> Consumer] /\ consumers[i] \in Consumer
    BY DEF QueueInv, Inv, TypeOK, MuxerTypeOK
  <1> DEFINE c == [consumers[i] EXCEPT !.connected_ = TRUE]
  <1>4. c \in Consumer
    BY <1>t, ConsumerType
  <1>5. \/ c.trace_config_ /\ c.start_pending_ /\ StartTracingSession(c)
        \/ /\ ~(c.trace_config_ /\ c.start_pending_)
           /\ consumers' = [consumers EXCEPT ![i] = c]
           /\ Done(<<>>)
           /\ UNCHANGED <<service, failed>>
    BY <1>0 DEF OnConnect
  <1>6. /\ c.found = consumers[i].found /\ c.trace_config_ = consumers[i].trace_config_
        /\ c.start_pending_ = consumers[i].start_pending_
        /\ c.stopped_ = consumers[i].stopped_ /\ c.onStart = consumers[i].onStart
        /\ c.onStop = consumers[i].onStop /\ c.waitsStart = consumers[i].waitsStart
        /\ c.waitsStop = consumers[i].waitsStop
    BY <1>t DEF Consumer
  <1> HIDE DEF c
  <1>7. CASE Due("StartBlocking", i)
    <2>1. Unstarted(i)
      BY <1>3, <1>7 DEF Current
    <2>2. ~c.start_pending_
      BY <1>6, <2>1 DEF Unstarted
    <2>3. /\ consumers' = [consumers EXCEPT ![i] = c] /\ Done(<<>>)
          /\ UNCHANGED <<service, failed>>
      BY <1>5, <2>2
    <2>4. Ran(i, d, {})
      BY <1>0, <1>1, <2>3, RanNone
    <2>5. /\ \A s \in Sessions \ {i} : consumers'[s] = consumers[s]
          /\ consumers'[i] = c
      BY <1>t, <2>3
    <2>6. /\ \A do \in ClientTasks : Due(do, i)' <=> Due(do, i)
          /\ \A do \in MuxerTasks \ {"OnConnect"} : Has(do, i)' <=> Has(do, i)
          /\ ~Has("OnConnect", i)'
      <3>1. /\ \A do \in ClientTasks : do # d /\ do \in SessionTasks
            /\ \A do \in MuxerTasks : do \in SessionTasks
        BY TaskKinds DEF ClientTasks, MuxerTasks
      <3> QED BY <1>1, <2>4, <3>1 DEF Ran
    <2>7. ~Due("CreateTracingSession", i)
      BY <1>2, <2>1 DEF Unstarted
    <2>8. Unstarted(i)'
      BY <1>1, <1>6, <2>1, <2>3, <2>5, <2>6, <2>7 DEF Unstarted, ClientTasks
    <2> QED BY <1>0, <1>1, <1>3, <1>7, <2>1, <2>3, <2>4, <2>5, <2>8, UnstartedKept
  <1>8. CASE ~Due("StartBlocking", i)
    <2>1. consumers[i].start_pending_ /\ Pending(i)
      BY <1>2, <1>3, <1>8 DEF Current, Enabling, Begun
    <2>2. /\ c.found /\ c.onStart /\ c.onStop /\ c.waitsStart /\ c.trace_config_
          /\ ~c.waitsStop /\ ~c.stopped_ /\ c.start_pending_
      BY <1>6, <2>1 DEF Pending
    <2>3. StartTracingSession(c)
      BY <1>5, <2>2
    <2>4. /\ thread.call = "starting" /\ woken = "none"
          /\ \A do \in MuxerTasks \ {"OnConnect"} : ~Has(do, i)
          /\ service[i] = NoServiceSession /\ i \notin failed
      BY <2>1 DEF Pending
    <2> QED BY <1>0, <1>1, <1>3, <1>4, <1>8, <2>2, <2>3, <2>4, EnableKeeps
  <1> QED BY <1>7, <1>8

-----------------------------------------------------------------------------
(***************************************************************************)
(* The life of a session                                                   *)
(***************************************************************************)

\* What is not there precedes everything.
LEMMA AbsentBefore ==
    ASSUME NEW t \in Tasks, NEW u \in Tasks, t \notin Queued', t \notin Posted'
    PROVE  Before(t, u)'
  <1>1. \A j \in 1 .. Len(tasks') : tasks'[j] # t
    BY DEF Queued
  <1>2. \A j \in 1 .. Len(thread'.posts) : thread'.posts[j] # t
    BY DEF Posted
  <1> QED BY <1>1, <1>2 DEF Before, Precede

\* A last callback of a past session still runs before the next session.
LEMMA PastStopped ==
    ASSUME QueueInv, NEW i \in Sessions, i # sTracingSession, Past(i), NEW d, NEW N,
           "stopped" \notin N, Ran(i, d, N), UNCHANGED <<thread, sTracingSession>>
    PROVE  Has("stopped", i)' =>
              /\ thread'.call = "starting"
              /\ Due("CreateTracingSession", sTracingSession)'
              /\ Before(Task("stopped", i), Task("CreateTracingSession", sTracingSession))'
  <1> SUFFICES ASSUME Has("stopped", i)'
               PROVE  /\ thread'.call = "starting"
                      /\ Due("CreateTracingSession", sTracingSession)'
                      /\ Before(Task("stopped", i),
                                Task("CreateTracingSession", sTracingSession))'
    OBVIOUS
  <1> DEFINE r == sTracingSession
  <1>1. "CreateTracingSession" \in SessionTasks /\ "stopped" \in SessionTasks
    BY DEF SessionTasks
  <1>2. Has("stopped", i)
    BY <1>1 DEF Ran
  <1>3. /\ thread.call = "starting" /\ Due("CreateTracingSession", r)
        /\ Before(Task("stopped", i), Task("CreateTracingSession", r))
    BY <1>2 DEF Past
  <1>4. r \in Sessions /\ r' = r /\ r # i
    BY <1>3, MuxerAssumption DEF QueueInv, WokenInv, Inv, TypeOK, Sessions
  <1>5. Task("CreateTracingSession", r) \in Queued' \/ Task("CreateTracingSession", r) \in Posted'
    BY <1>1, <1>3, <1>4 DEF Ran, Due
  <1>6. <<Task("stopped", i), Task("CreateTracingSession", r)>> \in Precede'
    BY <1>1, <1>3, <1>4 DEF Ran, Before
  <1> QED BY <1>3, <1>4, <1>5, <1>6 DEF Due, Before

\* Some tasks of a session end without changing its stage: those of the data
\* source, the events of the service that are not news, and the callbacks.
LEMMA QuietKept ==
    ASSUME QueueInv, Inv', NEW i \in Sessions, Id = i,
           NEW d \in {"SetupDataSource", "OnObservableEvents", "StopDataSource",
                      "StopDataSource_AsyncEnd", "started", "stopped"},
           Running(d), NEW N \in SUBSET {"StopDataSource_AsyncEnd"}, Ran(i, d, N),
           N # {} => d = "StopDataSource",
           UNCHANGED <<thread, woken, sessions, sTracingSession, failed>>,
           \A s \in Sessions : consumers'[s] = consumers[s],
           \A s \in Sessions \ {i} : service'[s] = service[s],
           \/ service'[i] = service[i]
           \/ /\ d = "OnObservableEvents"
              /\ service'[i] = [service[i] EXCEPT !.observed = "none"]
    PROVE  QueueInv'
  <1>1. d \in SessionTasks /\ N \in SUBSET MuxerTasks
    BY DEF SessionTasks, MuxerTasks
  <1>2. /\ SessionInv(i) /\ i <= sessions /\ Has(d, i) /\ service[i] \in ServiceSession
    BY <1>1, Heading
  <1>3. /\ \A do \in ClientTasks : Due(do, i)' <=> Due(do, i)
        /\ \A do \in MuxerTasks \ {d, "StopDataSource_AsyncEnd"} : Has(do, i)' <=> Has(do, i)
        /\ ~Has(d, i)'
        /\ Has("StopDataSource_AsyncEnd", i)' =>
              Has("StopDataSource_AsyncEnd", i) \/ d = "StopDataSource"
    <2>1. /\ \A do \in ClientTasks : do # d /\ do \in SessionTasks /\ do \notin N
          /\ \A do \in MuxerTasks : do \in SessionTasks
          /\ \A do \in MuxerTasks \ {"StopDataSource_AsyncEnd"} : do \notin N
          /\ d \notin N
      BY TaskKinds DEF ClientTasks, MuxerTasks
    <2> QED BY <1>1, <2>1 DEF Ran, MuxerTasks
  <1>4. /\ service'[i].state = service[i].state
        /\ service'[i].instance = service[i].instance
        /\ service'[i].observed \in {"none", service[i].observed}
        /\ service'[i].observed # service[i].observed => d = "OnObservableEvents"
        /\ service[i] = NoServiceSession => service'[i] = NoServiceSession
    BY <1>2 DEF ServiceSession, NoServiceSession
  <1>5. Single(i)'
    <2>1. Single(i)
      BY <1>2 DEF SessionInv
    <2> QED BY <1>3, <1>4, <2>1 DEF Single, MuxerTasks
  <1>6. CASE i = sTracingSession
    <2>1. Current(i)
      BY <1>2, <1>6 DEF SessionInv
    <2>2. Ordered(i)'
      BY <1>1, <2>1, OrderedKept DEF Current
    <2>3. ~Unstarted(i) /\ ~Pending(i)
      BY <1>2 DEF Unstarted, Pending, MuxerTasks
    <2>4. Enabling(i) => Enabling(i)'
      BY <1>2, <1>3, <1>4, <1>6 DEF Enabling, MuxerTasks
    <2>5. Runs(i) => Runs(i)'
      BY <1>2, <1>3, <1>4, <1>6 DEF Runs, MuxerTasks
    <2>6. Stopping(i) => Stopping(i)'
      BY <1>2, <1>3, <1>4, <1>6 DEF Stopping, MuxerTasks
    <2>7. Over(i) => Over(i)'
      BY <1>2, <1>3, <1>4, <1>6 DEF Over, MuxerTasks
    <2>8. /\ Before(Task("started", i), Task("wakeStart", i))
                => Before(Task("started", i), Task("wakeStart", i))'
          /\ Before(Task("stopped", i), Task("StopBlocking", i))
                => Before(Task("stopped", i), Task("StopBlocking", i))'
          /\ Before(Task("stopped", i), Task("wakeStop", i))
                => Before(Task("stopped", i), Task("wakeStop", i))'
      <3>1. \A do \in {"started", "wakeStart", "stopped", "StopBlocking", "wakeStop"} :
               do \in SessionTasks /\ do \notin N
        BY DEF SessionTasks
      <3> QED BY <3>1 DEF Ran
    <2>9. Begun(i) => Begun(i)'
      <3> SUFFICES ASSUME Begun(i) PROVE Begun(i)'
        OBVIOUS
      <3>1. /\ \A do \in {"OnConnect", "StartDataSource", "wakeStart", "wakeStop", "wakeRead"} :
                  Has(do, i)' <=> Has(do, i)
            /\ \A do \in {"started", "stopped"} : Has(do, i)' => Has(do, i)
            /\ \A do \in {"ReadTrace", "StopBlocking"} : Due(do, i)' <=> Due(do, i)
        BY <1>3 DEF MuxerTasks, ClientTasks
      <3> QED BY <1>6, <2>5, <2>6, <2>7, <2>8, <3>1 DEF Begun
    <2>10. Current(i)'
      BY <1>3, <1>6, <2>1, <2>2, <2>3, <2>4, <2>9 DEF Current, ClientTasks
    <2>11. WokenInv'
      BY WokenKept DEF QueueInv
    <2> QED BY <1>1, <1>5, <1>6, <2>10, <2>11, CurrentStep
  <1>7. CASE i # sTracingSession
    <2>1. Past(i)
      BY <1>2, <1>7 DEF SessionInv
    <2>2. Has("stopped", i)' =>
             /\ thread'.call = "starting"
             /\ Due("CreateTracingSession", sTracingSession)'
             /\ Before(Task("stopped", i), Task("CreateTracingSession", sTracingSession))'
      BY <1>7, <2>1, PastStopped
    <2>3. /\ \A do \in {"CreateTracingSession", "Setup", "SetOnStartCallback",
                        "SetOnStopCallback", "StartBlocking", "StopBlocking",
                        "ReadTrace"} : ~Due(do, i)'
          /\ \A do \in {"OnConnect", "StartDataSource", "OnTracingDisabled", "started",
                        "wakeStart", "wakeStop", "wakeRead"} : ~Has(do, i)'
      BY <1>3, <2>1 DEF Past, ClientTasks, MuxerTasks
    <2>4. Due("DestroyTracingSession", i)' <=> Due("DestroyTracingSession", i)
      BY <1>3 DEF ClientTasks
    <2>5. service'[i].state = "STARTED" /\ Due("DestroyTracingSession", i) =>
             ~Has("StopDataSource", i)' /\ ~Has("StopDataSource_AsyncEnd", i)'
      BY <1>2, <1>3, <1>4, <2>1 DEF Past, MuxerTasks
    <2>6. Past(i)'
      BY <1>4, <2>1, <2>2, <2>3, <2>4, <2>5 DEF Past
    <2> QED BY <1>1, <1>5, <1>7, <2>6, PastStep
  <1> QED BY <1>6, <1>7

\* SetupDataSource and StopDataSource.
LEMMA SourceKeeps ==
    ASSUME QueueInv, SetupDataSource \/ StopDataSource, UNCHANGED <<clientVars, told>>
    PROVE  QueueInv'
  <1>1. PICK d \in {"SetupDataSource", "StopDataSource"} :
           /\ Running(d)
           /\ d = "SetupDataSource" => Done(<<>>)
           /\ d = "StopDataSource" =>
                 Done(<<Task("StopDataSource_AsyncEnd", Id)>>) \/ Done(<<>>)
    BY DEF SetupDataSource, StopDataSource
  <1>2. /\ Inv' /\ UNCHANGED <<thread, woken, sessions, sTracingSession, failed,
                               consumers, service>>
    BY MuxerInv DEF SetupDataSource, StopDataSource, clientVars, QueueInv, Muxer, RunTask
  <1>3. d \in SessionTasks /\ "StopDataSource_AsyncEnd" \in SessionTasks
    BY DEF SessionTasks
  <1>4. PICK i \in Sessions : i = Id
    BY <1>1, <1>3, Heading
  <1>5. Has(d, i) /\ SessionInv(i)
    BY <1>1, <1>3, <1>4, Heading
  <1>6. PICK N \in SUBSET {"StopDataSource_AsyncEnd"} :
           Ran(i, d, N) /\ (N # {} => d = "StopDataSource")
    <2>1. CASE Done(<<>>)
      BY <1>1, <1>2, <1>3, <1>4, <2>1, RanNone
    <2>2. CASE d = "StopDataSource" /\ Done(<<Task("StopDataSource_AsyncEnd", Id)>>)
      <3>1. ~Due("StopDataSource_AsyncEnd", i)
        BY <1>5, <2>2, MuxerDue DEF SessionInv, Single, MuxerTasks
      <3>2. Ran(i, d, {"StopDataSource_AsyncEnd"})
        BY <1>1, <1>2, <1>3, <1>4, <2>2, <3>1, RanOne
      <3> QED BY <2>2, <3>2
    <2> QED BY <1>1, <2>1, <2>2
  <1> QED BY <1>1, <1>2, <1>4, <1>6, QuietKept

\* The callbacks of the client.
LEMMA CallBackKeeps ==
    ASSUME QueueInv, CallBack
    PROVE  QueueInv'
  <1>1. PICK d \in {"started", "stopped"} : Running(d)
    BY DEF CallBack
  <1>2. /\ Inv' /\ Done(<<>>)
        /\ UNCHANGED <<thread, woken, sessions, sTracingSession, failed,
                       consumers, service>>
    BY MuxerInv DEF CallBack, clientVars, QueueInv, Muxer
  <1>3. d \in SessionTasks
    BY DEF SessionTasks
  <1>4. PICK i \in Sessions : i = Id
    BY <1>1, <1>3, Heading
  <1>5. Ran(i, d, {})
    BY <1>1, <1>2, <1>3, <1>4, RanNone
  <1> QED BY <1>1, <1>2, <1>4, <1>5, QuietKept

\* Short sequences put together.
LEMMA Concat ==
    ASSUME NEW S, NEW a \in S, NEW b \in S, NEW c \in S
    PROVE  /\ <<>> \o <<>> = <<>>
           /\ <<a>> \o <<>> = <<a>> /\ <<>> \o <<a>> = <<a>>
           /\ <<a>> \o <<b>> = <<a, b>>
           /\ <<a, b>> \o <<>> = <<a, b>> /\ <<>> \o <<a, b>> = <<a, b>>
           /\ <<a, b>> \o <<c>> = <<a, b, c>>
  <1>1. <<>> \o <<>> = <<>>
    OBVIOUS
  <1>2. <<a>> \o <<>> = <<a>>
    OBVIOUS
  <1>3. <<>> \o <<a>> = <<a>>
    OBVIOUS
  <1>4. <<a, b>> \o <<>> = <<a, b>>
    OBVIOUS
  <1>7. <<>> \o <<a, b>> = <<a, b>>
    OBVIOUS
  <1>5. <<a>> \o <<b>> = <<a, b>>
    <2> DEFINE u == <<a>> \o <<b>>
               v == <<a, b>>
    <2>1. /\ u \in Seq(S) /\ v \in Seq(S) /\ Len(u) = 2 /\ Len(v) = 2
          /\ u[1] = v[1] /\ u[2] = v[2]
      OBVIOUS
    <2> HIDE DEF u, v
    <2>2. \A j \in 1 .. 2 : u[j] = v[j]
      BY <2>1
    <2>3. u = v
      BY <2>1, <2>2
    <2> QED BY <2>3 DEF u, v
  <1>6. <<a, b>> \o <<c>> = <<a, b, c>>
    <2> DEFINE u == <<a, b>> \o <<c>>
               v == <<a, b, c>>
    <2>1. /\ u \in Seq(S) /\ v \in Seq(S) /\ Len(u) = 3 /\ Len(v) = 3
          /\ u[1] = v[1] /\ u[2] = v[2] /\ u[3] = v[3]
      OBVIOUS
    <2> HIDE DEF u, v
    <2>2. \A j \in 1 .. 3 : u[j] = v[j]
      BY <2>1
    <2>3. u = v
      BY <2>1, <2>2
    <2> QED BY <2>3 DEF u, v
  <1> QED BY <1>1, <1>2, <1>3, <1>4, <1>5, <1>6, <1>7

\* What NotifyStartComplete and NotifyStopComplete post for a session.
LEMMA NotifyPosts ==
    ASSUME NEW c, NEW i \in Sessions, i = Id
    PROVE  /\ c.onStart /\ c.waitsStart =>
                 NotifyStartComplete(c) = <<Task("started", i), Task("wakeStart", i)>>
           /\ ~c.onStart /\ ~c.waitsStart => NotifyStartComplete(c) = <<>>
           /\ c.onStop /\ c.waitsStop =>
                 NotifyStopComplete(c) = <<Task("stopped", i), Task("wakeStop", i)>>
           /\ c.onStop /\ ~c.waitsStop => NotifyStopComplete(c) = <<Task("stopped", i)>>
           /\ ~c.onStop /\ c.waitsStop => NotifyStopComplete(c) = <<Task("wakeStop", i)>>
  <1>1. /\ Task("started", i) \in Tasks /\ Task("wakeStart", i) \in Tasks
        /\ Task("stopped", i) \in Tasks /\ Task("wakeStop", i) \in Tasks
    BY TaskType DEF SessionTasks
  <1>2. /\ If(c.onStart, "started", Id) =
              (IF c.onStart THEN <<Task("started", i)>> ELSE <<>>)
        /\ If(c.waitsStart, "wakeStart", Id) =
              (IF c.waitsStart THEN <<Task("wakeStart", i)>> ELSE <<>>)
        /\ If(c.onStop, "stopped", Id) =
              (IF c.onStop THEN <<Task("stopped", i)>> ELSE <<>>)
        /\ If(c.waitsStop, "wakeStop", Id) =
              (IF c.waitsStop THEN <<Task("wakeStop", i)>> ELSE <<>>)
    BY DEF If
  <1>3. /\ <<Task("started", i)>> \o <<Task("wakeStart", i)>> =
              <<Task("started", i), Task("wakeStart", i)>>
        /\ <<>> \o <<>> = <<>>
        /\ <<Task("stopped", i)>> \o <<Task("wakeStop", i)>> =
              <<Task("stopped", i), Task("wakeStop", i)>>
        /\ <<Task("stopped", i)>> \o <<>> = <<Task("stopped", i)>>
        /\ <<>> \o <<Task("wakeStop", i)>> = <<Task("wakeStop", i)>>
    BY <1>1, Concat, ZenonT(30)
  <1>4. c.onStart /\ c.waitsStart =>
           NotifyStartComplete(c) = <<Task("started", i), Task("wakeStart", i)>>
    BY <1>2, <1>3 DEF NotifyStartComplete
  <1>5. ~c.onStart /\ ~c.waitsStart => NotifyStartComplete(c) = <<>>
    BY <1>2, <1>3 DEF NotifyStartComplete
  <1>6. c.onStop /\ c.waitsStop =>
           NotifyStopComplete(c) = <<Task("stopped", i), Task("wakeStop", i)>>
    BY <1>2, <1>3 DEF NotifyStopComplete
  <1>7. c.onStop /\ ~c.waitsStop => NotifyStopComplete(c) = <<Task("stopped", i)>>
    BY <1>2, <1>3 DEF NotifyStopComplete
  <1>8. ~c.onStop /\ c.waitsStop => NotifyStopComplete(c) = <<Task("wakeStop", i)>>
    BY <1>2, <1>3 DEF NotifyStopComplete
  <1> QED BY <1>4, <1>5, <1>6, <1>7, <1>8

\* OnObservableEvents: the first news of the data source begins the session.
LEMMA OnObservableEventsKeeps ==
    ASSUME QueueInv, OnObservableEvents, UNCHANGED <<clientVars, told>>
    PROVE  QueueInv'
  <1> DEFINE d == "OnObservableEvents"
  <1>0. PICK i \in Sessions : i = Id
    BY Heading DEF OnObservableEvents, SessionTasks
  <1>1. /\ d \in SessionTasks /\ Running(d) /\ Inv'
        /\ UNCHANGED <<thread, woken, sessions, sTracingSession, failed>>
    BY MuxerInv DEF OnObservableEvents, SessionTasks, clientVars, QueueInv, Muxer, RunTask
  <1>2. SessionInv(i) /\ i <= sessions /\ Has(d, i)
    BY <1>0, <1>1, Heading
  <1>t. /\ consumers \in [Sessions -> Consumer] /\ consumers[i] \in Consumer
        /\ service \in [Sessions -> ServiceSession] /\ service[i] \in ServiceSession
    BY DEF QueueInv, Inv, TypeOK, MuxerTypeOK
  <1> DEFINE c == consumers[i]
             begun == c.found /\ service[i].observed = "started"
  <1>3. /\ begun => Done(NotifyStartComplete(c))
        /\ ~begun => Done(<<>>)
        /\ begun => consumers' = [consumers EXCEPT ![i] = StartNotified(c)]
        /\ ~begun => consumers' = [consumers EXCEPT ![i] = c]
        /\ service' = [service EXCEPT ![i].observed = "none"]
    BY <1>0 DEF OnObservableEvents
  <1>4. /\ service'[i] = [service[i] EXCEPT !.observed = "none"]
        /\ \A s \in Sessions \ {i} : /\ service'[s] = service[s]
                                     /\ consumers'[s] = consumers[s]
    BY <1>3, <1>t
  <1>5. CASE /\ i = sTracingSession /\ ~Due("StartBlocking", i) /\ ~c.start_pending_
             /\ c.waitsStart /\ begun
    <2>1. Current(i) /\ Enabling(i)
      BY <1>2, <1>5 DEF SessionInv, Current
    <2>2. i \notin failed
      BY <1>5, <2>1 DEF Enabling, NoServiceSession
    <2>3. /\ thread.call = "starting" /\ woken = "none"
          /\ c.found /\ c.onStart /\ c.onStop /\ ~c.waitsStop /\ ~c.stopped_
          /\ \A do \in {"OnConnect", "started", "stopped", "wakeStart", "wakeStop",
                        "wakeRead", "StopDataSource", "StopDataSource_AsyncEnd"} :
                ~Has(do, i)
          /\ ~Has("OnTracingDisabled", i) /\ ~Has("StartDataSource", i)
          /\ service[i].state = "STARTED" /\ service[i].instance = "STARTED"
      BY <1>5, <2>1, <2>2 DEF Enabling
    <2>4. Done(<<Task("started", i), Task("wakeStart", i)>>)
      BY <1>0, <1>3, <1>5, <2>3, NotifyPosts
    <2>5. Ran(i, d, {"started", "wakeStart"})
          /\ Before(Task("started", i), Task("wakeStart", i))'
      <3>1. ~Due("started", i) /\ ~Due("wakeStart", i)
        BY <2>3, MuxerDue DEF MuxerTasks
      <3>2. "started" \in SessionTasks /\ "wakeStart" \in SessionTasks
        BY DEF SessionTasks
      <3> QED BY <1>0, <1>1, <2>4, <3>1, <3>2, RanTwo
    <2>6. consumers'[i] = StartNotified(c)
      BY <1>3, <1>5, <1>t
    <2>7. /\ consumers'[i].found /\ ~consumers'[i].onStart /\ ~consumers'[i].waitsStart
          /\ consumers'[i].onStop /\ ~consumers'[i].waitsStop /\ ~consumers'[i].stopped_
          /\ ~consumers'[i].start_pending_
      BY <1>5, <1>t, <2>3, <2>6 DEF StartNotified, Consumer
    <2>8. /\ service'[i].state = "STARTED" /\ service'[i].instance = "STARTED"
      BY <1>4, <1>t, <2>3 DEF ServiceSession
    <2>9. /\ \A do \in {"OnConnect", "stopped", "wakeStop", "wakeRead", "StopDataSource",
                        "StopDataSource_AsyncEnd", "OnTracingDisabled",
                        "StartDataSource", "OnObservableEvents"} : ~Has(do, i)'
          /\ Has("started", i)' /\ Has("wakeStart", i)'
          /\ \A do \in {"StartBlocking", "DestroyTracingSession", "StopBlocking",
                        "ReadTrace"} : ~Due(do, i)'
      <3>1. /\ \A do \in {"OnConnect", "stopped", "wakeStop", "wakeRead", "StopDataSource",
                          "StopDataSource_AsyncEnd", "OnTracingDisabled",
                          "StartDataSource", "OnObservableEvents"} :
                  /\ do \in SessionTasks /\ do \notin {"started", "wakeStart"}
                  /\ ~(Has(do, i) /\ do # d)
            /\ "started" \in SessionTasks /\ "wakeStart" \in SessionTasks
        BY <2>3 DEF SessionTasks
      <3>2. \A do \in {"StartBlocking", "DestroyTracingSession", "StopBlocking",
                       "ReadTrace"} :
               /\ do \in SessionTasks /\ do \notin {"started", "wakeStart"} /\ ~Due(do, i)
        BY <1>5, <2>1, <2>3 DEF SessionTasks, Current
      <3> QED BY <2>5, <3>1, <3>2 DEF Ran
    <2>10. Ordered(i)'
      <3>1. {"started", "wakeStart"} \in SUBSET MuxerTasks
        BY DEF MuxerTasks
      <3> QED BY <1>0, <1>1, <2>1, <2>5, <3>1, OrderedKept DEF Current
    <2>11. Runs(i)'
      BY <1>1, <2>2, <2>7, <2>8, <2>9 DEF Runs
    <2>12. Begun(i)'
      BY <1>1, <2>3, <2>5, <2>7, <2>9, <2>11 DEF Begun
    <2>13. Current(i)'
      BY <2>7, <2>9, <2>10, <2>12 DEF Current
    <2>14. Single(i)'
      BY <2>9 DEF Single
    <2>15. WokenInv'
      BY <1>1, WokenKept DEF QueueInv
    <2>16. {"started", "wakeStart"} \in SUBSET MuxerTasks
      BY DEF MuxerTasks
    <2> QED BY <1>0, <1>1, <1>4, <1>5, <2>5, <2>13, <2>14, <2>15, <2>16, CurrentStep
  <1>6. CASE ~(/\ i = sTracingSession /\ ~Due("StartBlocking", i) /\ ~c.start_pending_
               /\ c.waitsStart /\ begun)
    <2>1. begun => ~c.onStart /\ ~c.waitsStart
      <3> SUFFICES ASSUME begun PROVE ~c.onStart /\ ~c.waitsStart
        OBVIOUS
      <3>1. CASE i = sTracingSession
        <4>1. Current(i)
          BY <1>2, <3>1 DEF SessionInv
        <4>2. ~Unstarted(i) /\ ~Pending(i)
          BY <1>2 DEF Unstarted, Pending, MuxerTasks
        <4>3. ~c.waitsStart /\ Begun(i)
          BY <1>6, <3>1, <4>1, <4>2 DEF Current
        <4> QED BY <4>3 DEF Begun
      <3>2. CASE i # sTracingSession
        <4>1. Past(i)
          BY <1>2, <3>2 DEF SessionInv
        <4> QED BY <4>1 DEF Past, NoConsumer
      <3> QED BY <3>1, <3>2
    <2>2. Done(<<>>)
      BY <1>0, <1>3, <2>1, NotifyPosts
    <2>3. consumers'[i] = c
      <3>1. CASE begun
        <4>1. ~c.onStart /\ ~c.waitsStart /\ consumers'[i] = StartNotified(c)
          BY <1>3, <1>t, <2>1, <3>1
        <4>2. StartNotified(c) = c
          BY <1>t, <4>1 DEF StartNotified, Consumer
        <4> QED BY <4>1, <4>2
      <3>2. CASE ~begun
        BY <1>3, <1>t, <3>2
      <3> QED BY <3>1, <3>2
    <2>4. Ran(i, d, {})
      BY <1>0, <1>1, <2>2, RanNone
    <2>5. \A s \in Sessions : consumers'[s] = consumers[s]
      BY <1>4, <2>3
    <2> QED BY <1>0, <1>1, <1>4, <2>4, <2>5, QuietKept
  <1> QED BY <1>5, <1>6

\* OnTracingDisabled: the session could not be started, or it is over.
LEMMA OnTracingDisabledKeeps ==
    ASSUME QueueInv, OnTracingDisabled, UNCHANGED <<clientVars, told>>
    PROVE  QueueInv'
  <1> DEFINE d == "OnTracingDisabled"
  <1>0. PICK i \in Sessions : i = Id
    BY Heading DEF OnTracingDisabled, SessionTasks
  <1>1. /\ d \in SessionTasks /\ Running(d) /\ Inv'
        /\ UNCHANGED <<thread, woken, sessions, sTracingSession, failed, service>>
    BY MuxerInv DEF OnTracingDisabled, SessionTasks, clientVars, QueueInv, Muxer, RunTask
  <1>2. SessionInv(i) /\ i <= sessions /\ Has(d, i)
    BY <1>0, <1>1, Heading
  <1>t. consumers \in [Sessions -> Consumer] /\ consumers[i] \in Consumer
    BY DEF QueueInv, Inv, TypeOK, MuxerTypeOK
  <1> DEFINE c == consumers[i]
             e == [StopNotified(StartNotified(c)) EXCEPT !.stopped_ = TRUE]
  <1>3. c.found => /\ Done(NotifyStartComplete(c) \o NotifyStopComplete(c))
                   /\ consumers' = [consumers EXCEPT ![i] = e]
    BY <1>0 DEF OnTracingDisabled
  <1>4. i = sTracingSession
    BY <1>2 DEF SessionInv, Past
  <1>5. Current(i)
    BY <1>2, <1>4 DEF SessionInv
  <1>6. ~Unstarted(i) /\ ~Pending(i)
    BY <1>2 DEF Unstarted, Pending, MuxerTasks
  <1>7. /\ e.found = c.found /\ e.start_pending_ = c.start_pending_ /\ e.stopped_
        /\ ~e.onStart /\ ~e.onStop /\ ~e.waitsStart /\ ~e.waitsStop
    BY <1>t DEF StopNotified, StartNotified, Consumer
  <1> HIDE DEF e
  <1>8. WokenInv'
    BY <1>1, WokenKept DEF QueueInv
  <1>9. /\ "started" \in SessionTasks /\ "wakeStart" \in SessionTasks
        /\ "stopped" \in SessionTasks /\ "wakeStop" \in SessionTasks
        /\ Task("started", i) \in Tasks /\ Task("wakeStart", i) \in Tasks
        /\ Task("stopped", i) \in Tasks /\ Task("wakeStop", i) \in Tasks
    BY TaskType DEF SessionTasks
  <1>10. \A N \in SUBSET MuxerTasks :
            /\ Ran(i, d, N) /\ Current(i)' /\ Single(i)'
            /\ \A s \in Sessions \ {i} : consumers'[s] = consumers[s]
            => QueueInv'
    BY <1>0, <1>1, <1>4, <1>8, CurrentStep
  <1>11. CASE Enabling(i) /\ c.waitsStart /\ ~c.start_pending_
    <2>1. /\ i \in failed /\ thread.call = "starting" /\ woken = "none"
          /\ c.found /\ c.onStart /\ c.onStop /\ ~c.waitsStop /\ ~c.stopped_
          /\ \A do \in {"OnConnect", "started", "stopped", "wakeStart", "wakeStop",
                        "wakeRead", "StopDataSource", "StopDataSource_AsyncEnd",
                        "StartDataSource", "OnObservableEvents"} : ~Has(do, i)
          /\ service[i] = NoServiceSession
      BY <1>2, <1>11 DEF Enabling
    <2>2. NotifyStartComplete(c) \o NotifyStopComplete(c) =
             <<Task("started", i), Task("wakeStart", i), Task("stopped", i)>>
      <3>1. /\ NotifyStartComplete(c) = <<Task("started", i), Task("wakeStart", i)>>
            /\ NotifyStopComplete(c) = <<Task("stopped", i)>>
        BY <1>0, <1>11, <2>1, NotifyPosts
      <3> QED BY <1>9, <3>1, Concat, ZenonT(30)
    <2>3. Done(<<Task("started", i), Task("wakeStart", i), Task("stopped", i)>>)
      BY <1>3, <2>1, <2>2
    <2> DEFINE N == {"started", "wakeStart", "stopped"}
    <2>4. Ran(i, d, N) /\ Before(Task("started", i), Task("wakeStart", i))'
      <3>1. ~Due("started", i) /\ ~Due("wakeStart", i) /\ ~Due("stopped", i)
        BY <2>1, MuxerDue DEF MuxerTasks
      <3> QED BY <1>0, <1>1, <1>9, <2>3, <3>1, RanThree
    <2>5. consumers'[i] = e /\ \A s \in Sessions \ {i} : consumers'[s] = consumers[s]
      BY <1>3, <1>t, <2>1
    <2>6. /\ \A do \in {"OnConnect", "wakeStop", "wakeRead", "StopDataSource",
                        "StopDataSource_AsyncEnd", "StartDataSource",
                        "OnObservableEvents", "OnTracingDisabled"} : ~Has(do, i)'
          /\ Has("started", i)' /\ Has("wakeStart", i)'
          /\ \A do \in {"StartBlocking", "DestroyTracingSession", "StopBlocking",
                        "ReadTrace"} : ~Due(do, i)'
      <3>1. /\ \A do \in {"OnConnect", "wakeStop", "wakeRead", "StopDataSource",
                          "StopDataSource_AsyncEnd", "StartDataSource",
                          "OnObservableEvents", "OnTracingDisabled"} :
                  do \in SessionTasks /\ do \notin N /\ ~(Has(do, i) /\ do # d)
        BY <2>1 DEF SessionTasks
      <3>2. ~Due("StartBlocking", i)
        BY <1>5, <1>6 DEF Current
      <3>3. \A do \in {"StartBlocking", "DestroyTracingSession", "StopBlocking",
                       "ReadTrace"} :
               do \in SessionTasks /\ do \notin N /\ ~Due(do, i)
        BY <1>5, <2>1, <3>2 DEF SessionTasks, Current
      <3> QED BY <1>9, <2>4, <3>1, <3>3 DEF Ran
    <2>7. N \in SUBSET MuxerTasks
      BY DEF MuxerTasks
    <2>8. Ordered(i)'
      BY <1>0, <1>1, <1>5, <2>4, <2>7, OrderedKept DEF Current
    <2>9. Runs(i)'
      BY <1>1, <1>7, <2>1, <2>5, <2>6 DEF Runs
    <2>10. Begun(i)'
      BY <1>1, <1>7, <2>1, <2>4, <2>5, <2>6, <2>9 DEF Begun
    <2>11. Current(i)'
      BY <1>7, <1>11, <2>5, <2>6, <2>8, <2>10 DEF Current
    <2>12. Single(i)'
      BY <2>6 DEF Single
    <2> QED BY <1>10, <2>4, <2>5, <2>7, <2>11, <2>12
  <1>12. CASE Begun(i) /\ ~c.waitsStart /\ ~c.start_pending_
    <2>1. ~Runs(i) /\ ~Over(i)
      BY <1>2 DEF Runs, Over
    <2>2. /\ thread.call = "stopping" /\ ~Due("StopBlocking", i)
          /\ c.waitsStop /\ Stopping(i)
      BY <1>12, <2>1 DEF Begun
    <2>3. /\ c.found /\ ~c.onStart /\ c.onStop /\ woken = "none"
          /\ service[i].state = "DISABLED" /\ service[i].instance = "STOPPED"
          /\ \A do \in {"StartDataSource", "OnConnect", "started", "wakeStart",
                        "wakeRead", "stopped", "wakeStop"} : ~Has(do, i)
          /\ ~Due("ReadTrace", i)
      BY <1>2, <1>12, <2>2 DEF Begun, Stopping
    <2>4. NotifyStartComplete(c) \o NotifyStopComplete(c) =
             <<Task("stopped", i), Task("wakeStop", i)>>
      <3>1. /\ NotifyStartComplete(c) = <<>>
            /\ NotifyStopComplete(c) = <<Task("stopped", i), Task("wakeStop", i)>>
        BY <1>0, <1>12, <2>2, <2>3, NotifyPosts
      <3> QED BY <1>9, <3>1, Concat
    <2>5. Done(<<Task("stopped", i), Task("wakeStop", i)>>)
      BY <1>3, <2>3, <2>4
    <2> DEFINE N == {"stopped", "wakeStop"}
    <2>6. Ran(i, d, N) /\ Before(Task("stopped", i), Task("wakeStop", i))'
      <3>1. ~Due("wakeStop", i) /\ ~Due("stopped", i)
        BY <2>3, MuxerDue DEF MuxerTasks
      <3> QED BY <1>0, <1>1, <1>9, <2>5, <3>1, RanTwo
    <2>7. consumers'[i] = e /\ \A s \in Sessions \ {i} : consumers'[s] = consumers[s]
      BY <1>3, <1>t, <2>3
    <2>8. /\ \A do \in {"OnConnect", "wakeRead", "StartDataSource", "started",
                        "wakeStart", "OnTracingDisabled"} : ~Has(do, i)'
          /\ Has("stopped", i)' /\ Has("wakeStop", i)'
          /\ \A do \in {"StartBlocking", "DestroyTracingSession", "StopBlocking",
                        "ReadTrace"} : ~Due(do, i)'
          /\ \A do \in {"StopDataSource", "StopDataSource_AsyncEnd",
                        "OnObservableEvents"} : Has(do, i)' => Has(do, i)
      <3>1. /\ \A do \in {"OnConnect", "wakeRead", "StartDataSource", "started",
                          "wakeStart", "OnTracingDisabled"} :
                  do \in SessionTasks /\ do \notin N /\ ~(Has(do, i) /\ do # d)
            /\ \A do \in {"StopDataSource", "StopDataSource_AsyncEnd",
                          "OnObservableEvents"} : do \in SessionTasks /\ do \notin N
        BY <2>3 DEF SessionTasks
      <3>2. ~Due("StartBlocking", i)
        BY <1>5, <1>6 DEF Current
      <3>3. \A do \in {"StartBlocking", "DestroyTracingSession", "StopBlocking",
                       "ReadTrace"} :
               do \in SessionTasks /\ do \notin N /\ ~Due(do, i)
        BY <1>5, <2>2, <2>3, <3>2 DEF SessionTasks, Current
      <3> QED BY <1>9, <2>6, <3>1, <3>3 DEF Ran
    <2>9. N \in SUBSET MuxerTasks
      BY DEF MuxerTasks
    <2>10. Ordered(i)'
      BY <1>0, <1>1, <1>5, <2>6, <2>9, OrderedKept DEF Current
    <2>11. Over(i)'
      BY <1>1, <1>7, <2>3, <2>7, <2>8 DEF Over
    <2>12. Begun(i)'
      BY <1>1, <1>7, <2>2, <2>3, <2>6, <2>7, <2>8, <2>11 DEF Begun
    <2>13. Current(i)'
      BY <1>1, <1>7, <1>12, <2>2, <2>7, <2>8, <2>10, <2>12 DEF Current
    <2>14. Single(i)'
      <3>1. Single(i)
        BY <1>2 DEF SessionInv
      <3> QED BY <1>1, <2>8, <3>1 DEF Single
    <2> QED BY <1>10, <2>6, <2>7, <2>9, <2>13, <2>14
  <1> QED BY <1>5, <1>6, <1>11, <1>12 DEF Current

\* StopBlocking: the session has stopped already, or the data source is asked.
LEMMA StopBlockingKeeps ==
    ASSUME QueueInv, StopBlocking, UNCHANGED <<clientVars, told>>
    PROVE  QueueInv'
  <1> DEFINE d == "StopBlocking"
  <1>0. PICK i \in Sessions : i = Id
    BY Heading DEF StopBlocking, SessionTasks
  <1>1. /\ d \in SessionTasks /\ Running(d) /\ Inv'
        /\ UNCHANGED <<thread, woken, sessions, sTracingSession, failed>>
    BY MuxerInv DEF StopBlocking, SessionTasks, clientVars, QueueInv, Muxer, RunTask
  <1>2. /\ SessionInv(i) /\ i <= sessions /\ Due(d, i)
        /\ \A a : Before(Task(a, i), Task(d, i)) => ~Due(a, i)
    BY <1>0, <1>1, Heading
  <1>t. /\ consumers \in [Sessions -> Consumer] /\ consumers[i] \in Consumer
        /\ service \in [Sessions -> ServiceSession] /\ service[i] \in ServiceSession
    BY DEF QueueInv, Inv, TypeOK, MuxerTypeOK
  <1> DEFINE c == consumers[i]
             e == [c EXCEPT !.waitsStop = TRUE, !.trace_config_ = FALSE]
  <1>4. i = sTracingSession
    BY <1>2 DEF SessionInv, Past
  <1>5. Current(i) /\ thread.call # "starting"
    BY <1>2, <1>4 DEF SessionInv, Current
  <1>6. /\ ~Due("StartBlocking", i) /\ ~c.start_pending_ /\ ~c.waitsStart /\ Begun(i)
    BY <1>5 DEF Current, Unstarted, Pending, Enabling
  <1>7. /\ thread.call = "stopping" /\ Runs(i) /\ woken = "none"
        /\ Before(Task("stopped", i), Task("StopBlocking", i))
        /\ c.found /\ ~c.onStart
        /\ \A do \in {"StartDataSource", "OnConnect", "started", "wakeStart",
                      "wakeRead"} : ~Has(do, i)
        /\ ~Due("ReadTrace", i)
    BY <1>2, <1>6 DEF Begun
  <1>8. ~Due("stopped", i) /\ ~Has("stopped", i)
    BY <1>2, <1>7 DEF Due, Has
  <1>9. /\ \A do \in {"OnTracingDisabled", "wakeStop", "StopDataSource",
                      "StopDataSource_AsyncEnd"} : ~Has(do, i)
        /\ i \in failed => service[i] = NoServiceSession /\ c.stopped_ /\ ~c.onStop
        /\ i \notin failed =>
              /\ ~c.stopped_ /\ c.onStop
              /\ service[i].state = "STARTED" /\ service[i].instance = "STARTED"
    BY <1>7 DEF Runs
  <1>10. /\ e.found = c.found /\ e.start_pending_ = c.start_pending_
         /\ e.stopped_ = c.stopped_ /\ e.onStart = c.onStart /\ e.onStop = c.onStop
         /\ e.waitsStart = c.waitsStart /\ e.waitsStop /\ e \in Consumer
    BY <1>t DEF Consumer
  <1>11. \/ /\ e.stopped_ /\ Done(NotifyStopComplete(e))
            /\ consumers' = [consumers EXCEPT ![i] = StopNotified(e)]
            /\ UNCHANGED service
         \/ /\ ~e.stopped_ /\ Done(<<Task("StopDataSource", i)>>)
            /\ consumers' = [consumers EXCEPT ![i] = e]
            /\ service' = [service EXCEPT
                  ![i].instance = "STOPPING",
                  ![i].state = "DISABLING_WAITING_STOP_ACKS"]
    BY <1>0 DEF StopBlocking
  <1> HIDE DEF e
  <1>12. WokenInv'
    BY <1>1, WokenKept DEF QueueInv
  <1>13. \A s \in Sessions \ {i} : consumers'[s] = consumers[s] /\ service'[s] = service[s]
    BY <1>11, <1>t
  <1>14. ASSUME NEW N \in SUBSET {"wakeStop", "StopDataSource"}, Ran(i, d, N)
         PROVE  /\ \A do \in {"OnConnect", "wakeRead", "StartDataSource", "started",
                              "wakeStart", "OnTracingDisabled", "stopped",
                              "StopDataSource_AsyncEnd"} : ~Has(do, i)'
                /\ Has("OnObservableEvents", i)' => Has("OnObservableEvents", i)
                /\ \A do \in {"StartBlocking", "DestroyTracingSession", "StopBlocking",
                              "ReadTrace", "stopped"} : ~Due(do, i)'
                /\ N \in SUBSET MuxerTasks
                /\ Ordered(i)'
    <2>1. /\ \A do \in {"OnConnect", "wakeRead", "StartDataSource", "started",
                        "wakeStart", "OnTracingDisabled", "stopped",
                        "StopDataSource_AsyncEnd"} :
                do \in SessionTasks /\ do \notin N /\ ~Has(do, i)
          /\ "OnObservableEvents" \in SessionTasks /\ "OnObservableEvents" \notin N
      BY <1>7, <1>8, <1>9 DEF SessionTasks
    <2>2. \A do \in {"StartBlocking", "DestroyTracingSession", "StopBlocking",
                     "ReadTrace", "stopped"} :
             do \in SessionTasks /\ do \notin N /\ ~(Due(do, i) /\ do # d)
      BY <1>5, <1>6, <1>7, <1>8 DEF SessionTasks, Current
    <2>3. N \in SUBSET MuxerTasks
      BY DEF MuxerTasks
    <2>4. Ordered(i)'
      BY <1>0, <1>1, <1>5, <1>14, <2>3, OrderedKept DEF Current
    <2> QED BY <1>14, <2>1, <2>2, <2>3, <2>4 DEF Ran
  <1>15. CASE i \in failed
    <2>1. /\ Done(<<Task("wakeStop", i)>>) /\ consumers'[i] = StopNotified(e)
          /\ service'[i] = service[i]
      <3>1. NotifyStopComplete(e) = <<Task("wakeStop", i)>>
        BY <1>0, <1>9, <1>10, <1>15, NotifyPosts
      <3> QED BY <1>9, <1>10, <1>11, <1>15, <1>t, <3>1
    <2> DEFINE N == {"wakeStop"}
    <2>2. Ran(i, d, N)
      <3>1. ~Due("wakeStop", i) /\ "wakeStop" \in SessionTasks
        BY <1>9, MuxerDue DEF MuxerTasks, SessionTasks
      <3> QED BY <1>0, <1>1, <2>1, <3>1, RanOne
    <2>3. /\ consumers'[i].found /\ ~consumers'[i].onStart /\ ~consumers'[i].onStop
          /\ consumers'[i].stopped_ /\ ~consumers'[i].waitsStop
          /\ ~consumers'[i].waitsStart /\ ~consumers'[i].start_pending_
      BY <1>6, <1>7, <1>9, <1>10, <1>15, <2>1 DEF StopNotified, Consumer
    <2>4. /\ \A do \in {"OnConnect", "wakeRead", "StartDataSource", "started",
                        "wakeStart", "OnTracingDisabled", "stopped",
                        "StopDataSource_AsyncEnd"} : ~Has(do, i)'
          /\ Has("OnObservableEvents", i)' => Has("OnObservableEvents", i)
          /\ \A do \in {"StartBlocking", "DestroyTracingSession", "StopBlocking",
                        "ReadTrace", "stopped"} : ~Due(do, i)'
          /\ N \in SUBSET MuxerTasks
          /\ Ordered(i)'
      BY <1>14, <2>2
    <2>5. Before(Task("stopped", i), Task("wakeStop", i))'
      <3>1. Task("stopped", i) \in Tasks /\ Task("wakeStop", i) \in Tasks
        BY TaskType DEF SessionTasks
      <3>2. Task("stopped", i) \notin Queued' /\ Task("stopped", i) \notin Posted'
        BY <2>4 DEF Due
      <3> QED BY <3>1, <3>2, AbsentBefore
    <2>6. Over(i)'
      BY <1>9, <1>15, <2>1, <2>3, <2>4 DEF Over, NoServiceSession
    <2>7. Begun(i)'
      BY <1>1, <1>7, <2>3, <2>4, <2>5, <2>6 DEF Begun
    <2>8. Current(i)'
      BY <1>1, <1>7, <2>3, <2>4, <2>7 DEF Current
    <2>9. Single(i)'
      BY <1>9, <1>15, <2>1, <2>4 DEF Single, NoServiceSession
    <2> QED BY <1>0, <1>1, <1>4, <1>12, <1>13, <2>2, <2>4, <2>8, <2>9, CurrentStep
  <1>16. CASE i \notin failed
    <2>1. /\ Done(<<Task("StopDataSource", i)>>) /\ consumers'[i] = e
          /\ service'[i] = [service[i] EXCEPT
                               !.instance = "STOPPING",
                               !.state = "DISABLING_WAITING_STOP_ACKS"]
      BY <1>9, <1>10, <1>11, <1>16, <1>t
    <2> DEFINE N == {"StopDataSource"}
    <2>2. Ran(i, d, N)
      <3>1. ~Due("StopDataSource", i) /\ "StopDataSource" \in SessionTasks
        BY <1>9, MuxerDue DEF MuxerTasks, SessionTasks
      <3> QED BY <1>0, <1>1, <2>1, <3>1, RanOne
    <2>3. /\ \A do \in {"OnConnect", "wakeRead", "StartDataSource", "started",
                        "wakeStart", "OnTracingDisabled", "stopped",
                        "StopDataSource_AsyncEnd"} : ~Has(do, i)'
          /\ Has("OnObservableEvents", i)' => Has("OnObservableEvents", i)
          /\ \A do \in {"StartBlocking", "DestroyTracingSession", "StopBlocking",
                        "ReadTrace", "stopped"} : ~Due(do, i)'
          /\ N \in SUBSET MuxerTasks
          /\ Ordered(i)'
      BY <1>14, <2>2
    <2>4. ~Has("wakeStop", i)'
      <3>1. "wakeStop" \in SessionTasks /\ "wakeStop" \notin N
        BY DEF SessionTasks
      <3> QED BY <1>9, <2>2, <3>1 DEF Ran
    <2>5. /\ service'[i].instance = "STOPPING"
          /\ service'[i].state = "DISABLING_WAITING_STOP_ACKS"
          /\ service'[i].observed = service[i].observed
      BY <1>t, <2>1 DEF ServiceSession
    <2>6. Stopping(i)'
      BY <1>1, <1>7, <1>9, <1>10, <1>16, <2>1, <2>3, <2>4, <2>5 DEF Stopping
    <2>7. Begun(i)'
      BY <1>1, <1>7, <1>10, <2>1, <2>3, <2>6 DEF Begun
    <2>8. Current(i)'
      BY <1>1, <1>6, <1>7, <1>10, <2>1, <2>3, <2>7 DEF Current
    <2>9. Single(i)'
      <3>1. Single(i)
        BY <1>2 DEF SessionInv
      <3> QED BY <1>9, <1>16, <2>3, <2>5, <3>1 DEF Single
    <2> QED BY <1>0, <1>1, <1>4, <1>12, <1>13, <2>2, <2>3, <2>8, <2>9, CurrentStep
  <1> QED BY <1>15, <1>16

\* ReadTrace, of a session that is over.
LEMMA ReadTraceKeeps ==
    ASSUME QueueInv, ReadTrace, UNCHANGED <<clientVars, told>>
    PROVE  QueueInv'
  <1> DEFINE d == "ReadTrace"
             N == {"wakeRead"}
  <1>0. PICK i \in Sessions : i = Id
    BY Heading DEF ReadTrace, SessionTasks
  <1>1. /\ d \in SessionTasks /\ Running(d) /\ Inv'
        /\ UNCHANGED <<thread, woken, sessions, sTracingSession, failed, consumers,
                       service>>
    BY MuxerInv DEF ReadTrace, SessionTasks, clientVars, QueueInv, Muxer, RunTask
  <1>2. SessionInv(i) /\ i <= sessions /\ Due(d, i)
    BY <1>0, <1>1, Heading
  <1> DEFINE c == consumers[i]
  <1>4. i = sTracingSession
    BY <1>2 DEF SessionInv, Past
  <1>5. Current(i) /\ thread.call # "starting"
    BY <1>2, <1>4 DEF SessionInv, Current
  <1>6. /\ ~Due("StartBlocking", i) /\ ~c.start_pending_ /\ ~c.waitsStart /\ Begun(i)
    BY <1>5 DEF Current, Unstarted, Pending, Enabling
  <1>7. /\ thread.call = "reading" /\ Over(i) /\ ~Has("stopped", i) /\ woken = "none"
        /\ c.found /\ ~c.onStart
        /\ \A do \in {"StartDataSource", "OnConnect", "started", "wakeStart",
                      "wakeStop", "wakeRead"} : ~Has(do, i)
        /\ ~Due("StopBlocking", i)
    BY <1>2, <1>6 DEF Begun
  <1>8. Ran(i, d, N)
    <2>1. ~Due("wakeRead", i) /\ "wakeRead" \in SessionTasks
      BY <1>7, MuxerDue DEF MuxerTasks, SessionTasks
    <2>2. Done(<<Task("wakeRead", i)>>)
      BY <1>0 DEF ReadTrace
    <2> QED BY <1>0, <1>1, <2>1, <2>2, RanOne
  <1>9. /\ \A do \in {"StartDataSource", "OnConnect", "started", "wakeStart",
                      "wakeStop", "stopped"} : ~Has(do, i)'
        /\ \A do \in {"OnObservableEvents", "OnTracingDisabled", "StopDataSource",
                      "StopDataSource_AsyncEnd"} : Has(do, i)' <=> Has(do, i)
        /\ \A do \in {"StartBlocking", "DestroyTracingSession", "StopBlocking",
                      "ReadTrace"} : ~Due(do, i)'
    <2>1. /\ \A do \in {"StartDataSource", "OnConnect", "started", "wakeStart",
                        "wakeStop", "stopped"} :
                do \in SessionTasks /\ do \notin N /\ ~Has(do, i)
          /\ \A do \in {"OnObservableEvents", "OnTracingDisabled", "StopDataSource",
                        "StopDataSource_AsyncEnd"} :
                do \in SessionTasks /\ do \notin N /\ do # d
      BY <1>7 DEF SessionTasks
    <2>2. \A do \in {"StartBlocking", "DestroyTracingSession", "StopBlocking",
                     "ReadTrace"} :
             do \in SessionTasks /\ do \notin N /\ ~(Due(do, i) /\ do # d)
      BY <1>5, <1>6, <1>7 DEF SessionTasks, Current
    <2> QED BY <1>8, <2>1, <2>2 DEF Ran
  <1>10. N \in SUBSET MuxerTasks
    BY DEF MuxerTasks
  <1>11. Ordered(i)'
    BY <1>0, <1>1, <1>5, <1>8, <1>10, OrderedKept DEF Current
  <1>12. Over(i)'
    BY <1>1, <1>7, <1>9 DEF Over
  <1>13. Begun(i)'
    BY <1>1, <1>7, <1>9, <1>12 DEF Begun
  <1>14. Current(i)'
    BY <1>1, <1>6, <1>7, <1>9, <1>11, <1>13 DEF Current
  <1>15. Single(i)'
    <2>1. Single(i)
      BY <1>2 DEF SessionInv
    <2> QED BY <1>1, <1>9, <2>1 DEF Single
  <1>16. WokenInv'
    BY <1>1, WokenKept DEF QueueInv
  <1> QED BY <1>0, <1>1, <1>4, <1>8, <1>10, <1>14, <1>15, <1>16, CurrentStep

\* DestroyTracingSession, of a past session.
LEMMA DestroyKeeps ==
    ASSUME QueueInv, DestroyTracingSession, UNCHANGED <<clientVars, told>>
    PROVE  QueueInv'
  <1> DEFINE d == "DestroyTracingSession"
  <1>0. PICK i \in Sessions : i = Id
    BY Heading DEF DestroyTracingSession, SessionTasks
  <1>1. /\ d \in SessionTasks /\ Running(d) /\ Inv'
        /\ UNCHANGED <<thread, woken, sessions, sTracingSession, failed>>
    BY MuxerInv DEF DestroyTracingSession, SessionTasks, clientVars, QueueInv, Muxer,
                    RunTask
  <1>2. SessionInv(i) /\ i <= sessions /\ Due(d, i)
    BY <1>0, <1>1, Heading
  <1>3. i # sTracingSession
    BY <1>2 DEF SessionInv, Current
  <1>4. Past(i)
    BY <1>2, <1>3 DEF SessionInv
  <1>5. /\ consumers'[i] = NoConsumer /\ service'[i] = NoServiceSession
        /\ \A s \in Sessions \ {i} : consumers'[s] = consumers[s] /\ service'[s] = service[s]
    <2>1. consumers \in [Sessions -> Consumer] /\ service \in [Sessions -> ServiceSession]
      BY DEF QueueInv, Inv, TypeOK, MuxerTypeOK
    <2>2. /\ consumers' = [consumers EXCEPT ![i] = NoConsumer]
          /\ service' = [service EXCEPT ![i] = NoServiceSession]
      BY <1>0 DEF DestroyTracingSession
    <2> QED BY <2>1, <2>2
  <1>6. PICK N \in SUBSET {"StopDataSource"} :
           /\ Ran(i, d, N)
           /\ N # {} => ~Has("StopDataSource_AsyncEnd", i)
    <2>1. CASE service[i].state = "STARTED"
      <3>1. Done(<<Task("StopDataSource", i)>>)
        BY <1>0, <2>1 DEF DestroyTracingSession, If
      <3>2. ~Has("StopDataSource", i) /\ ~Has("StopDataSource_AsyncEnd", i)
        BY <1>2, <1>4, <2>1 DEF Past
      <3>3. ~Due("StopDataSource", i) /\ "StopDataSource" \in SessionTasks
        BY <3>2, MuxerDue DEF MuxerTasks, SessionTasks
      <3>4. Ran(i, d, {"StopDataSource"})
        BY <1>0, <1>1, <3>1, <3>3, RanOne
      <3> QED BY <3>2, <3>4
    <2>2. CASE service[i].state # "STARTED"
      <3>1. Done(<<>>)
        BY <1>0, <2>2 DEF DestroyTracingSession, If
      <3>2. Ran(i, d, {})
        BY <1>0, <1>1, <3>1, RanNone
      <3> QED BY <3>2
    <2> QED BY <2>1, <2>2
  <1>7. N \in SUBSET MuxerTasks
    BY DEF MuxerTasks
  <1>8. /\ \A do \in {"CreateTracingSession", "Setup", "SetOnStartCallback",
                      "SetOnStopCallback", "StartBlocking", "StopBlocking",
                      "ReadTrace", "DestroyTracingSession"} : ~Due(do, i)'
        /\ \A do \in {"OnConnect", "StartDataSource", "OnTracingDisabled", "started",
                      "wakeStart", "wakeStop", "wakeRead"} : ~Has(do, i)'
    <2>1. /\ \A do \in {"CreateTracingSession", "Setup", "SetOnStartCallback",
                        "SetOnStopCallback", "StartBlocking", "StopBlocking",
                        "ReadTrace", "DestroyTracingSession"} :
                do \in SessionTasks /\ do \notin N /\ ~(Due(do, i) /\ do # d)
          /\ \A do \in {"OnConnect", "StartDataSource", "OnTracingDisabled", "started",
                        "wakeStart", "wakeStop", "wakeRead"} :
                do \in SessionTasks /\ do \notin N /\ ~Has(do, i)
      BY <1>4 DEF Past, SessionTasks
    <2> QED BY <1>6, <2>1 DEF Ran
  <1>9. Past(i)'
    <2>1. Has("stopped", i)' =>
             /\ thread'.call = "starting"
             /\ Due("CreateTracingSession", sTracingSession)'
             /\ Before(Task("stopped", i), Task("CreateTracingSession", sTracingSession))'
      BY <1>1, <1>3, <1>4, <1>6, PastStopped
    <2> QED BY <1>5, <1>8, <2>1 DEF Past
  <1>10. Single(i)'
    <2>1. Single(i)
      BY <1>2 DEF SessionInv
    <2>2. /\ "StopDataSource_AsyncEnd" \in SessionTasks /\ "StopDataSource" \in SessionTasks
          /\ "StopDataSource_AsyncEnd" \notin N
      BY DEF SessionTasks
    <2>3. /\ Has("StopDataSource_AsyncEnd", i)' => Has("StopDataSource_AsyncEnd", i)
          /\ Has("StopDataSource", i)' => Has("StopDataSource", i) \/ N # {}
      BY <1>6, <2>2 DEF Ran
    <2> QED BY <1>5, <1>6, <2>1, <2>3 DEF Single, NoServiceSession
  <1> QED BY <1>0, <1>1, <1>3, <1>5, <1>6, <1>7, <1>9, <1>10, PastStep

\* The blocked call is woken, after the callbacks that were posted before.
LEMMA WakeKeeps ==
    ASSUME QueueInv, Wake, UNCHANGED <<clientVars, told>>
    PROVE  QueueInv'
  <1>1. PICK d \in {"wakeStart", "wakeStop", "wakeRead"} :
           /\ Running(d)
           /\ d = "wakeStart" => woken' = "start"
           /\ d = "wakeStop" => woken' = "stop"
           /\ d = "wakeRead" => woken' = "read"
    BY DEF Wake
  <1>2. /\ Inv' /\ Done(<<>>) /\ d \in SessionTasks
        /\ UNCHANGED <<thread, sessions, sTracingSession, failed, consumers, service>>
    BY MuxerInv DEF Wake, clientVars, QueueInv, Muxer, RunTask, SessionTasks
  <1>3. PICK i \in Sessions : i = Id
    BY <1>1, <1>2, Heading
  <1>4. /\ SessionInv(i) /\ i <= sessions /\ Has(d, i)
        /\ \A a : Before(Task(a, i), Task(d, i)) => ~Due(a, i)
    BY <1>1, <1>2, <1>3, Heading
  <1>5. i = sTracingSession
    BY <1>4 DEF SessionInv, Past
  <1>6. Current(i)
    BY <1>4, <1>5 DEF SessionInv
  <1> DEFINE c == consumers[i]
  <1>7. /\ ~Due("StartBlocking", i) /\ ~c.start_pending_ /\ ~c.waitsStart /\ Begun(i)
    BY <1>4, <1>6 DEF Current, Unstarted, Pending, Enabling, MuxerTasks
  <1>8. Ran(i, d, {})
    BY <1>1, <1>2, <1>3, RanNone
  <1>9. /\ \A do \in SessionTasks : /\ Has(do, i)' <=> Has(do, i) /\ do # d
                                    /\ Due(do, i)' <=> Due(do, i) /\ do # d
        /\ \A a, b \in SessionTasks :
              Before(Task(a, i), Task(b, i)) => Before(Task(a, i), Task(b, i))'
    BY <1>8 DEF Ran
  <1>10. /\ \A do \in {"OnConnect", "StartDataSource", "OnTracingDisabled", "started",
                       "stopped", "wakeStart", "wakeStop", "wakeRead", "StopDataSource",
                       "StopDataSource_AsyncEnd", "OnObservableEvents"} :
               Has(do, i)' <=> Has(do, i) /\ do # d
         /\ \A do \in {"StartBlocking", "DestroyTracingSession", "StopBlocking",
                       "ReadTrace"} : Due(do, i)' <=> Due(do, i)
         /\ Before(Task("started", i), Task("wakeStart", i)) =>
               Before(Task("started", i), Task("wakeStart", i))'
         /\ Before(Task("stopped", i), Task("wakeStop", i)) =>
               Before(Task("stopped", i), Task("wakeStop", i))'
    BY <1>9 DEF SessionTasks
  <1>11. /\ Runs(i) => Runs(i)'
         /\ Over(i) => Over(i)'
    BY <1>2, <1>10 DEF Runs, Over
  <1>12. Begun(i)' /\ WokenInv'
    <2>1. CASE d = "wakeStart"
      <3>1. /\ thread.call = "starting" /\ woken' = "start" /\ Runs(i)
            /\ Before(Task("started", i), Task("wakeStart", i))
        BY <1>1, <1>4, <1>7, <2>1 DEF Begun
      <3>2. ~Has("started", i)
        BY <1>4, <2>1, <3>1 DEF Due, Has
      <3>3. Begun(i)'
        BY <1>2, <1>7, <1>10, <1>11, <2>1, <3>1, <3>2 DEF Begun
      <3> QED BY <1>2, <3>1, <3>3 DEF QueueInv, WokenInv
    <2>2. CASE d = "wakeStop"
      <3>1. ~Runs(i) /\ ~Stopping(i)
        BY <1>4, <2>2 DEF Runs, Stopping
      <3>2. /\ thread.call = "stopping" /\ woken' = "stop" /\ ~Due("StopBlocking", i)
            /\ ~c.waitsStop /\ Over(i)
            /\ Before(Task("stopped", i), Task("wakeStop", i))
        BY <1>1, <1>4, <1>7, <2>2, <3>1 DEF Begun
      <3>3. ~Has("stopped", i)
        BY <1>4, <2>2, <3>2 DEF Due, Has
      <3>4. Begun(i)'
        BY <1>2, <1>7, <1>10, <1>11, <2>2, <3>2, <3>3 DEF Begun
      <3> QED BY <1>2, <3>2, <3>4 DEF QueueInv, WokenInv
    <2>3. CASE d = "wakeRead"
      <3>1. thread.call = "reading" /\ woken' = "read" /\ ~Due("ReadTrace", i) /\ Over(i)
        BY <1>1, <1>4, <1>7, <2>3 DEF Begun
      <3>2. Begun(i)'
        BY <1>2, <1>7, <1>10, <1>11, <2>3, <3>1 DEF Begun
      <3> QED BY <1>2, <3>1, <3>2 DEF QueueInv, WokenInv
    <2> QED BY <2>1, <2>2, <2>3
  <1>13. Ordered(i)'
    BY <1>1, <1>2, <1>3, <1>6, <1>8, OrderedKept DEF Current
  <1>14. Current(i)'
    BY <1>2, <1>6, <1>7, <1>10, <1>12, <1>13 DEF Current
  <1>15. Single(i)'
    <2>1. Single(i)
      BY <1>4 DEF SessionInv
    <2> QED BY <1>2, <1>10, <2>1 DEF Single
  <1> QED BY <1>1, <1>2, <1>3, <1>5, <1>8, <1>12, <1>14, <1>15, CurrentStep

\* StartDataSource answers the service, which tells the consumer.
LEMMA StartDataSourceKeeps ==
    ASSUME QueueInv, StartDataSource, UNCHANGED <<clientVars, told>>
    PROVE  QueueInv'
  <1> DEFINE d == "StartDataSource"
  <1>0. PICK i \in Sessions : i = Id
    BY Heading DEF StartDataSource, SessionTasks
  <1>1. /\ d \in SessionTasks /\ Running(d) /\ Inv'
        /\ UNCHANGED <<thread, woken, sessions, sTracingSession, failed, consumers>>
    BY MuxerInv DEF StartDataSource, SessionTasks, clientVars, QueueInv, Muxer, RunTask
  <1>2. SessionInv(i) /\ i <= sessions /\ Has(d, i)
    BY <1>0, <1>1, Heading
  <1>t. service \in [Sessions -> ServiceSession] /\ service[i] \in ServiceSession
    BY DEF QueueInv, Inv, TypeOK, MuxerTypeOK
  <1> DEFINE c == consumers[i]
             v == service[i]
  <1>3. i = sTracingSession
    BY <1>2 DEF SessionInv, Past
  <1>4. Current(i) /\ Single(i)
    BY <1>2, <1>3 DEF SessionInv
  <1>5. /\ ~Due("StartBlocking", i) /\ ~c.start_pending_ /\ c.waitsStart /\ Enabling(i)
    BY <1>2, <1>4 DEF Current, Unstarted, Pending, Begun, MuxerTasks
  <1>6. /\ i \notin failed /\ v.state = "STARTED" /\ v.instance = "STARTING"
        /\ ~Has("OnTracingDisabled", i)
        /\ \A do \in {"OnConnect", "started", "stopped", "wakeStart", "wakeStop",
                      "wakeRead", "StopDataSource", "StopDataSource_AsyncEnd"} :
              ~Has(do, i)
    BY <1>2, <1>5 DEF Enabling
  <1>7. /\ service' = [service EXCEPT ![i].instance = "STARTED", ![i].observed = "started"]
        /\ Done(Observing(i))
    BY <1>0, <1>6 DEF StartDataSource
  <1>8. /\ service'[i].state = "STARTED" /\ service'[i].instance = "STARTED"
        /\ service'[i].observed = "started"
        /\ \A s \in Sessions \ {i} : service'[s] = service[s]
    BY <1>6, <1>7, <1>t DEF ServiceSession
  <1>9. PICK N \in SUBSET {"OnObservableEvents"} : Ran(i, d, N)
    <2>1. CASE v.observed = "none"
      <3>1. Done(<<Task("OnObservableEvents", i)>>)
        BY <1>7, <2>1 DEF Observing, If
      <3>2. ~Due("OnObservableEvents", i) /\ "OnObservableEvents" \in SessionTasks
        BY <1>4, <1>6, <2>1, MuxerDue DEF Single, MuxerTasks, SessionTasks
      <3>3. Ran(i, d, {"OnObservableEvents"})
        BY <1>0, <1>1, <3>1, <3>2, RanOne
      <3> QED BY <3>3
    <2>2. CASE v.observed # "none"
      <3>1. Done(<<>>)
        BY <1>7, <2>2 DEF Observing, If
      <3>2. Ran(i, d, {})
        BY <1>0, <1>1, <3>1, RanNone
      <3> QED BY <3>2
    <2> QED BY <2>1, <2>2
  <1>10. /\ \A do \in {"OnConnect", "started", "stopped", "wakeStart", "wakeStop",
                       "wakeRead", "StopDataSource", "StopDataSource_AsyncEnd",
                       "StartDataSource", "OnTracingDisabled"} : ~Has(do, i)'
         /\ \A do \in {"StartBlocking", "DestroyTracingSession", "StopBlocking",
                       "ReadTrace"} : Due(do, i)' <=> Due(do, i)
    <2>1. /\ \A do \in {"OnConnect", "started", "stopped", "wakeStart", "wakeStop",
                        "wakeRead", "StopDataSource", "StopDataSource_AsyncEnd",
                        "StartDataSource", "OnTracingDisabled"} :
                do \in SessionTasks /\ do \notin N /\ ~(Has(do, i) /\ do # d)
          /\ \A do \in {"StartBlocking", "DestroyTracingSession", "StopBlocking",
                        "ReadTrace"} : do \in SessionTasks /\ do \notin N /\ do # d
      BY <1>6 DEF SessionTasks
    <2> QED BY <1>9, <2>1 DEF Ran
  <1>11. N \in SUBSET MuxerTasks
    BY DEF MuxerTasks
  <1>12. Ordered(i)'
    BY <1>0, <1>1, <1>4, <1>9, <1>11, OrderedKept DEF Current
  <1>13. Enabling(i)'
    BY <1>1, <1>5, <1>6, <1>8, <1>10 DEF Enabling
  <1>14. Current(i)'
    BY <1>1, <1>4, <1>5, <1>10, <1>12, <1>13 DEF Current
  <1>15. Single(i)'
    BY <1>8, <1>10 DEF Single
  <1>16. WokenInv'
    BY <1>1, WokenKept DEF QueueInv
  <1> QED BY <1>0, <1>1, <1>3, <1>8, <1>9, <1>11, <1>14, <1>15, <1>16, CurrentStep

\* A session that is being stopped is the current one, in StopBlocking.
LEMMA StoppingNow ==
    ASSUME QueueInv, NEW i \in Sessions,
           \/ service[i].instance = "STOPPING"
           \/ service[i].state = "DISABLING_WAITING_STOP_ACKS"
    PROVE  /\ i = sTracingSession /\ Current(i) /\ Single(i) /\ Begun(i) /\ Stopping(i)
           /\ consumers[i].waitsStop /\ ~consumers[i].waitsStart
           /\ ~consumers[i].start_pending_
           /\ thread.call = "stopping" /\ ~Due("StopBlocking", i)
           /\ ~Due("StartBlocking", i)
           /\ service[i].state = "DISABLING_WAITING_STOP_ACKS"
           /\ ~Has("OnTracingDisabled", i)
  <1>1. SessionInv(i) /\ service[i] # NoServiceSession
    BY DEF QueueInv, NoServiceSession
  <1>2. i <= sessions
    <2>1. i \in Nat /\ sessions \in Nat
      BY MuxerAssumption DEF QueueInv, Inv, TypeOK, Sessions
    <2>2. ~(i > sessions)
      BY <1>1 DEF SessionInv, New
    <2> QED BY <2>1, <2>2
  <1>3. ~Past(i)
    BY <1>1 DEF Past
  <1>4. i = sTracingSession /\ Current(i) /\ Single(i)
    BY <1>1, <1>2, <1>3 DEF SessionInv
  <1>5. ~Unstarted(i) /\ ~Pending(i) /\ ~Enabling(i)
    BY <1>1 DEF Unstarted, Pending, Enabling
  <1>6. /\ ~Due("StartBlocking", i) /\ ~consumers[i].start_pending_
        /\ ~consumers[i].waitsStart /\ Begun(i)
    BY <1>4, <1>5 DEF Current
  <1>7. ~Runs(i) /\ ~Over(i)
    BY <1>1 DEF Runs, Over
  <1>8. /\ thread.call = "stopping" /\ ~Due("StopBlocking", i)
        /\ consumers[i].waitsStop /\ Stopping(i)
    BY <1>6, <1>7 DEF Begun
  <1>9. /\ service[i].state = "DISABLING_WAITING_STOP_ACKS"
        /\ ~Has("OnTracingDisabled", i)
    BY <1>8 DEF Stopping
  <1> QED BY <1>4, <1>6, <1>8, <1>9

\* The session is disabled, by the answer of the data source or by the timeout
\* (then d is no task).
LEMMA DisabledKeeps ==
    ASSUME QueueInv, Inv', NEW i \in Sessions,
           \/ service[i].instance = "STOPPING"
           \/ service[i].state = "DISABLING_WAITING_STOP_ACKS",
           NEW d \in {"StopDataSource_AsyncEnd", "none"},
           d = "StopDataSource_AsyncEnd" => Running(d) /\ Id = i,
           NEW N \in SUBSET {"OnObservableEvents", "OnTracingDisabled"},
           "OnTracingDisabled" \in N, Ran(i, d, N),
           service'[i].state = "DISABLED", service'[i].instance = "STOPPED",
           service'[i].observed = "stopped",
           \A s \in Sessions \ {i} : service'[s] = service[s],
           UNCHANGED <<thread, woken, sessions, sTracingSession, failed, consumers>>
    PROVE  QueueInv'
  <1>1. /\ i = sTracingSession /\ Current(i) /\ Single(i) /\ Begun(i) /\ Stopping(i)
        /\ consumers[i].waitsStop /\ ~consumers[i].waitsStart
        /\ ~consumers[i].start_pending_
        /\ thread.call = "stopping" /\ ~Due("StopBlocking", i)
        /\ ~Due("StartBlocking", i)
    BY StoppingNow
  <1>2. d \in SessionTasks => Running(d) /\ Id = i
    BY DEF SessionTasks
  <1>3. N \in SUBSET MuxerTasks
    BY DEF MuxerTasks
  <1>4. /\ \A do \in {"StartDataSource", "OnConnect", "started", "wakeStart",
                      "wakeRead", "stopped", "wakeStop", "StopDataSource",
                      "StopDataSource_AsyncEnd"} : Has(do, i)' => Has(do, i)
        /\ Has("OnTracingDisabled", i)'
        /\ \A do \in {"StartBlocking", "DestroyTracingSession", "StopBlocking",
                      "ReadTrace"} : Due(do, i)' <=> Due(do, i)
    <2>1. /\ \A do \in {"StartDataSource", "OnConnect", "started", "wakeStart",
                        "wakeRead", "stopped", "wakeStop", "StopDataSource",
                        "StopDataSource_AsyncEnd"} : do \in SessionTasks /\ do \notin N
          /\ "OnTracingDisabled" \in SessionTasks
          /\ \A do \in {"StartBlocking", "DestroyTracingSession", "StopBlocking",
                        "ReadTrace"} : do \in SessionTasks /\ do \notin N /\ do # d
      BY DEF SessionTasks
    <2> QED BY <2>1 DEF Ran
  <1>5. Ordered(i)'
    BY <1>1, <1>2, <1>3, OrderedKept DEF Current
  <1>6. Stopping(i)'
    BY <1>1, <1>4 DEF Stopping
  <1>7. Begun(i)'
    BY <1>1, <1>4, <1>6 DEF Begun
  <1>8. Current(i)'
    BY <1>1, <1>4, <1>5, <1>7 DEF Current
  <1>9. Single(i)'
    BY <1>1, <1>4 DEF Single
  <1>10. WokenInv'
    BY WokenKept DEF QueueInv
  <1> QED BY <1>1, <1>2, <1>3, <1>8, <1>9, <1>10, CurrentStep

\* The queue after the timeout of a session has posted tasks.
LEMMA PostedQueue ==
    ASSUME QueueInv, NEW i \in Sessions, UNCHANGED thread, NEW new \in Seq(Tasks),
           NEW N, tasks' = tasks \o new, Names(new, i, N)
    PROVE  Ran(i, "none", N)
  <1> DEFINE M == {Task(do, i) : do \in N}
  <1>1. /\ TypeOK /\ Once /\ tasks \in Seq(Tasks) /\ Len(tasks) \in Nat /\ Len(new) \in Nat
        /\ i # 0
    BY MuxerAssumption, SMTT(30) DEF QueueInv, Inv, TypeOK, MuxerTypeOK, Sessions
  <1>2. /\ Len(tasks') = Len(tasks) + Len(new) /\ tasks' \in Seq(Tasks)
        /\ \A j \in 1 .. Len(tasks) : tasks'[j] = tasks[j]
        /\ \A j \in 1 .. Len(new) : tasks'[Len(tasks) + j] = new[j]
    BY <1>1, ConcatAt
  <1>3. /\ Len(tasks) - 0 = Len(tasks) /\ 1 + 0 = 1 /\ 0 <= Len(tasks) /\ 0 \in {0, 1}
        /\ \A j \in 1 .. Len(tasks) : j + 0 = j
    BY <1>1
  <1>4. \A t \in M : t.id # 0 /\ t \notin Queued \cup Posted
    BY <1>1, TaskSame DEF Due, Names
  <1>5. {new[j] : j \in 1 .. Len(new)} = M
    BY DEF Names
  <1>6. \A j \in 1 .. Len(new) : new[j] \in M
    BY <1>5
  <1>7. /\ Queued' = Queued \cup M
        /\ Posted' = Posted
        /\ Once'
        /\ \A t, u : /\ Before(t, u)
                     /\ \A j \in 1 .. Len(new) : new[j] # t /\ new[j] # u
                     => Before(t, u)'
    <2>1. /\ \A j, k \in 1 .. Len(new) : new[j] = new[k] /\ new[j].id # 0 => j = k
          /\ \A j \in 1 .. Len(new) : new[j].id # 0 => new[j] \notin Queued \cup Posted
      BY <1>4, <1>6 DEF Names
    <2>2. /\ Len(tasks') = (Len(tasks) - 0) + Len(new) /\ tasks' \in Seq(Tasks)
          /\ \A j \in 1 .. Len(tasks) - 0 : tasks'[j] = tasks[j + 0]
          /\ \A j \in 1 .. Len(new) : tasks'[(Len(tasks) - 0) + j] = new[j]
      BY <1>2, <1>3
    <2>3. {tasks[j] : j \in 1 + 0 .. Len(tasks)} = Queued
      BY <1>3 DEF Queued
    <2> HIDE DEF M
    <2>4. /\ Queued' = {tasks[j] : j \in 1 + 0 .. Len(tasks)}
                       \cup {new[j] : j \in 1 .. Len(new)}
          /\ Posted' = Posted
          /\ Once'
          /\ \A t, u : /\ Before(t, u)
                       /\ \A j \in 1 .. Len(new) : new[j] # t /\ new[j] # u
                       => Before(t, u)'
      BY <1>1, <1>3, <2>1, <2>2, QueueChange
    <2> QED BY <1>5, <2>3, <2>4
  <1>8. \A do, s : Task(do, s) \in M <=> s = i /\ do \in N
    BY TaskSame
  <1>9. \A do, s : Task(do, s) \in Queued' <=>
                      Task(do, s) \in Queued \/ (s = i /\ do \in N)
    BY <1>7, <1>8
  <1>10. \A a, b, s, r :
            /\ Before(Task(a, s), Task(b, r))
            /\ ~(s = i /\ a \in N) /\ ~(r = i /\ b \in N)
            => Before(Task(a, s), Task(b, r))'
    BY <1>6, <1>7, <1>8
  <1>11. "none" \notin SessionTasks
    BY DEF SessionTasks
  <1>12. /\ \A do \in SessionTasks :
               /\ Has(do, i)' <=> (Has(do, i) /\ do # "none") \/ do \in N
               /\ Due(do, i)' <=> (Due(do, i) /\ do # "none") \/ do \in N
         /\ \A s \in Sessions \ {i} : \A do \in SessionTasks :
               (Has(do, s)' <=> Has(do, s)) /\ (Due(do, s)' <=> Due(do, s))
    BY <1>7, <1>9, <1>11 DEF Has, Due
  <1> QED BY <1>7, <1>10, <1>12 DEF Ran

\* What the end of a session posts.
LEMMA DisabledPosts ==
    ASSUME QueueInv, NEW i \in Sessions,
           \/ service[i].instance = "STOPPING"
           \/ service[i].state = "DISABLING_WAITING_STOP_ACKS"
    PROVE  \E N \in SUBSET {"OnObservableEvents", "OnTracingDisabled"} :
              /\ "OnTracingDisabled" \in N
              /\ Names(Observing(i) \o <<Task("OnTracingDisabled", i)>>, i, N)
              /\ Observing(i) \o <<Task("OnTracingDisabled", i)>> \in Seq(Tasks)
  <1> DEFINE o == Task("OnObservableEvents", i)
             t == Task("OnTracingDisabled", i)
  <1>1. o \in Tasks /\ t \in Tasks /\ o # t
    BY TaskType, TaskSame DEF SessionTasks
  <1>2. ~Due("OnTracingDisabled", i) /\ (Has("OnObservableEvents", i) => service[i].observed # "none")
    BY StoppingNow, MuxerDue DEF MuxerTasks, Single
  <1>3. CASE service[i].observed = "none"
    <2> DEFINE new == <<o, t>>
               N == {"OnObservableEvents", "OnTracingDisabled"}
    <2>1. Observing(i) \o <<t>> = new
      BY <1>1, <1>3, Concat DEF Observing, If
    <2>2. ~Due("OnObservableEvents", i)
      BY <1>2, <1>3, MuxerDue DEF MuxerTasks
    <2>3. new \in Seq(Tasks) /\ Len(new) = 2 /\ new[1] = o /\ new[2] = t
      BY <1>1
    <2> HIDE DEF new
    <2>4. 1 .. Len(new) = {1, 2}
      BY <2>3
    <2>5. {new[j] : j \in 1 .. Len(new)} = {Task(do, i) : do \in N}
      BY <2>3, <2>4
    <2>6. \A j, k \in 1 .. Len(new) : new[j] = new[k] => j = k
      BY <1>1, <2>3, <2>4
    <2>7. \A do \in N : ~Due(do, i)
      BY <1>2, <2>2
    <2>8. Names(new, i, N)
      BY <2>5, <2>6, <2>7 DEF Names
    <2> QED BY <2>1, <2>3, <2>8
  <1>4. CASE service[i].observed # "none"
    <2> DEFINE new == <<t>>
               N == {"OnTracingDisabled"}
    <2>1. Observing(i) \o <<t>> = new
      BY <1>1, <1>4, Concat DEF Observing, If
    <2>2. new \in Seq(Tasks) /\ Len(new) = 1 /\ new[1] = t
      BY <1>1
    <2> HIDE DEF new
    <2>3. 1 .. Len(new) = {1}
      BY <2>2
    <2>4. {new[j] : j \in 1 .. Len(new)} = {Task(do, i) : do \in N}
      BY <2>2, <2>3
    <2>5. \A j, k \in 1 .. Len(new) : new[j] = new[k] => j = k
      BY <2>3
    <2>6. Names(new, i, N)
      BY <1>2, <2>4, <2>5 DEF Names
    <2> QED BY <2>1, <2>2, <2>6
  <1> QED BY <1>3, <1>4

\* StopDataSource_AsyncEnd: the answer that the service waits for, or one that
\* comes too late.
LEMMA AsyncEndKeeps ==
    ASSUME QueueInv, StopDataSource_AsyncEnd, UNCHANGED <<clientVars, told>>
    PROVE  QueueInv'
  <1> DEFINE d == "StopDataSource_AsyncEnd"
  <1>0. PICK i \in Sessions : i = Id
    BY Heading DEF StopDataSource_AsyncEnd, SessionTasks
  <1>1. /\ d \in SessionTasks /\ Running(d) /\ Inv'
        /\ UNCHANGED <<thread, woken, sessions, sTracingSession, failed, consumers>>
    BY MuxerInv DEF StopDataSource_AsyncEnd, SessionTasks, clientVars, QueueInv, Muxer,
                    RunTask
  <1>2. CASE service[i].instance = "STOPPING"
    <2> DEFINE new == Observing(i) \o <<Task("OnTracingDisabled", i)>>
    <2>1. PICK N \in SUBSET {"OnObservableEvents", "OnTracingDisabled"} :
             "OnTracingDisabled" \in N /\ Names(new, i, N) /\ new \in Seq(Tasks)
      BY <1>2, DisabledPosts
    <2>2. Done(new)
      BY <1>0, <1>2 DEF StopDataSource_AsyncEnd
    <2> HIDE DEF new
    <2>3. Ran(i, d, N)
      BY <1>0, <1>1, <2>1, <2>2, RanPosts
    <2>4. PICK n \in Scraped(i) : service' = [service EXCEPT ![i] = Disabled(n)]
      BY <1>0, <1>2 DEF StopDataSource_AsyncEnd
    <2>5. /\ service'[i] = Disabled(n)
          /\ \A s \in Sessions \ {i} : service'[s] = service[s]
      BY <2>4 DEF QueueInv, Inv, TypeOK, MuxerTypeOK
    <2>6. /\ service'[i].state = "DISABLED" /\ service'[i].instance = "STOPPED"
          /\ service'[i].observed = "stopped"
      BY <2>5 DEF Disabled
    <2> QED BY <1>0, <1>1, <1>2, <2>1, <2>3, <2>5, <2>6, DisabledKeeps
  <1>3. CASE service[i].instance # "STOPPING"
    <2>1. Done(<<>>) /\ UNCHANGED service
      BY <1>0, <1>3 DEF StopDataSource_AsyncEnd
    <2>2. Ran(i, d, {})
      BY <1>0, <1>1, <2>1, RanNone
    <2> QED BY <1>0, <1>1, <2>1, <2>2, QuietKept
  <1> QED BY <1>2, <1>3

\* If neither the queue nor the sessions change, nor does what is said of them.
LEMMA NothingKeeps ==
    ASSUME QueueInv, Inv', UNCHANGED <<tasks, thread, woken, sessions, sTracingSession,
                                       failed, consumers, service>>
    PROVE  QueueInv'
  <1>1. Queued' = Queued /\ Posted' = Posted /\ Precede' = Precede
    BY DEF Queued, Posted, Precede
  <1>2. Once' /\ PostsInv' /\ WokenInv'
    BY <1>1 DEF QueueInv, Once, PostsInv, WokenInv, Idle
  <1>3. ASSUME NEW s \in Sessions PROVE SessionInv(s)'
    <2>1. Same(s)
      BY <1>1 DEF Same, Has, Due, Before
    <2>2. /\ Due("CreateTracingSession", sTracingSession)' <=>
                Due("CreateTracingSession", sTracingSession)
          /\ Before(Task("stopped", s), Task("CreateTracingSession", sTracingSession)) =>
                Before(Task("stopped", s), Task("CreateTracingSession", sTracingSession))'
      BY <1>1 DEF Due, Before
    <2> QED BY <2>1, <2>2, SessionKept
  <1> QED BY <1>2, <1>3 DEF QueueInv

\* The steps that no task takes: an event is traced, a timeout passes.
LEMMA OthersKeeps ==
    ASSUME QueueInv, Others
    PROVE  QueueInv'
  <1>1. Inv'
    BY MuxerInv DEF QueueInv
  <1>2. UNCHANGED <<thread, sessions, sTracingSession>>
    BY DEF Others, clientVars
  <1>3. CASE TraceEvent
    BY <1>1, <1>2, <1>3, NothingKeeps DEF TraceEvent
  <1>4. ASSUME NEW i \in Sessions, Timeout(i) PROVE QueueInv'
    <2>1. UNCHANGED <<woken, failed, consumers>>
      BY <1>4 DEF Timeout
    <2>2. CASE service[i].state = "DISABLING_WAITING_STOP_ACKS"
      <3> DEFINE post == Observing(i)
                 last == <<Task("OnTracingDisabled", i)>>
                 new == post \o last
      <3>1. PICK N \in SUBSET {"OnObservableEvents", "OnTracingDisabled"} :
               "OnTracingDisabled" \in N /\ Names(new, i, N) /\ new \in Seq(Tasks)
        BY <2>2, DisabledPosts
      <3>2. tasks' = tasks \o new
        <4>1. tasks' = (tasks \o post) \o last
          BY <1>4, <2>2 DEF Timeout
        <4>2. Task("OnTracingDisabled", i) \in Tasks /\ Task("OnObservableEvents", i) \in Tasks
          BY TaskType DEF SessionTasks
        <4>3. tasks \in Seq(Tasks) /\ post \in Seq(Tasks) /\ last \in Seq(Tasks)
          BY <4>2, PostsType DEF QueueInv, Inv, TypeOK, MuxerTypeOK, Observing
        <4> HIDE DEF post, last
        <4>4. (tasks \o post) \o last = tasks \o (post \o last)
          BY <4>3, ConcatAssociative
        <4> QED BY <4>1, <4>4
      <3> HIDE DEF new
      <3>3. Ran(i, "none", N)
        BY <1>2, <3>1, <3>2, PostedQueue
      <3>4. PICK n \in Scraped(i) : service' = [service EXCEPT ![i] = Disabled(n)]
        BY <1>4, <2>2 DEF Timeout
      <3>5. /\ service'[i] = Disabled(n)
            /\ \A s \in Sessions \ {i} : service'[s] = service[s]
        BY <3>4 DEF QueueInv, Inv, TypeOK, MuxerTypeOK
      <3>6. /\ service'[i].state = "DISABLED" /\ service'[i].instance = "STOPPED"
            /\ service'[i].observed = "stopped"
        BY <3>5 DEF Disabled
      <3> QED BY <1>1, <1>2, <2>1, <2>2, <3>1, <3>3, <3>5, <3>6, DisabledKeeps
    <2>3. CASE service[i].state # "DISABLING_WAITING_STOP_ACKS"
      <3>1. UNCHANGED <<service, tasks>>
        BY <1>4, <2>3 DEF Timeout
      <3> QED BY <1>1, <1>2, <2>1, <3>1, NothingKeeps
    <2> QED BY <2>2, <2>3
  <1> QED BY <1>3, <1>4 DEF Others

\* Initialize, ProducerConnect and RegisterDataSource, which are of no session.
LEMMA GlobalKeeps ==
    ASSUME QueueInv, Initialize \/ ProducerConnect \/ RegisterDataSource,
           UNCHANGED <<clientVars, told>>
    PROVE  QueueInv'
  <1>1. /\ Inv' /\ tasks # <<>> /\ Head(tasks).do \in GlobalTasks
        /\ UNCHANGED <<thread, woken, sessions, sTracingSession, failed, consumers,
                       service>>
    BY MuxerInv DEF Initialize, ProducerConnect, RegisterDataSource, Running, GlobalTasks,
                    clientVars, QueueInv, Muxer, RunTask
  <1>2. /\ TypeOK /\ Once /\ tasks \in Seq(Tasks) /\ Len(tasks) \in Nat /\ Len(tasks) >= 1
        /\ MuxerTypeOK
    BY <1>1 DEF QueueInv, Inv, TypeOK, MuxerTypeOK
  <1> DEFINE t == Task("ProducerConnect", 0)
  <1>3. PICK new \in Seq(Tasks) : Done(new) /\ \A j \in 1 .. Len(new) : new[j] = t
    <2>1. /\ <<>> \in Seq(Tasks) /\ 1 .. Len(<<>>) = {}
      OBVIOUS
    <2>2. t \in Tasks
      BY TaskType DEF GlobalTasks
    <2> HIDE DEF t
    <2>3. <<t>> \in Seq(Tasks) /\ \A j \in 1 .. Len(<<t>>) : <<t>>[j] = t
      BY <2>2
    <2>4. Done(<<>>) \/ Done(<<t>>)
      BY DEF Initialize, ProducerConnect, RegisterDataSource, If, t
    <2>5. CASE Done(<<>>)
      BY <2>1, <2>5
    <2>6. CASE Done(<<t>>)
      BY <2>3, <2>6
    <2> QED BY <2>4, <2>5, <2>6
  <1>4. t.id = 0 /\ \A do : \A s \in Sessions : Task(do, s) # t
    BY TaskSame, MuxerAssumption DEF Sessions
  <1>5. Head(tasks).id = 0 /\ Head(tasks) = tasks[1] /\ \A do : \A s \in Sessions : Task(do, s) # Head(tasks)
    <2>1. Head(tasks) \in Tasks
      BY <1>1, <1>2
    <2>2. Head(tasks).id = 0
      BY <1>1, <2>1 DEF Tasks, SessionTasks, GlobalTasks
    <2> QED BY <1>1, <1>2, <2>2, HeadTask, TaskSame, MuxerAssumption DEF Sessions
  <1> HIDE DEF t
  <1>6. /\ Len(tasks') = (Len(tasks) - 1) + Len(new)
        /\ \A j \in 1 .. Len(tasks) - 1 : tasks'[j] = tasks[j + 1]
        /\ \A j \in 1 .. Len(new) : tasks'[(Len(tasks) - 1) + j] = new[j]
        /\ tasks' \in Seq(Tasks)
    BY <1>1, <1>2, <1>3, DonePositions
  <1>7. /\ Queued' = {tasks[j] : j \in 1 + 1 .. Len(tasks)}
                     \cup {new[j] : j \in 1 .. Len(new)}
        /\ Posted' = Posted
        /\ Once'
        /\ \A a, b : /\ Before(a, b)
                     /\ \A j \in 1 .. Len(new) : new[j] # a /\ new[j] # b
                     => Before(a, b)'
    <2>1. /\ \A j, k \in 1 .. Len(new) : new[j] = new[k] /\ new[j].id # 0 => j = k
          /\ \A j \in 1 .. Len(new) : new[j].id # 0 => new[j] \notin Queued \cup Posted
          /\ 1 \in {0, 1} /\ 1 <= Len(tasks)
      BY <1>2, <1>3, <1>4
    <2> QED BY <1>1, <1>2, <1>3, <1>6, <2>1, QueueChange
  <1>8. \A do : \A s \in Sessions : Task(do, s) \in Queued' <=> Task(do, s) \in Queued
    <2>1. ASSUME NEW x, x # t, x # Head(tasks) PROVE x \in Queued' <=> x \in Queued
      <3>1. \A j \in 1 .. Len(new) : new[j] # x
        BY <1>3, <2>1
      <3>2. \A j \in 1 .. Len(tasks) : j \in 1 + 1 .. Len(tasks) <=> j # 1
        BY <1>2
      <3>3. 1 + 1 .. Len(tasks) \subseteq 1 .. Len(tasks)
        BY <1>2
      <3> QED BY <1>5, <1>7, <2>1, <3>1, <3>2, <3>3 DEF Queued
    <2> QED BY <1>4, <1>5, <2>1
  <1>9. \A do, do2 : \A s, r \in Sessions :
           Before(Task(do, s), Task(do2, r)) => Before(Task(do, s), Task(do2, r))'
    BY <1>3, <1>4, <1>7
  <1>10. ASSUME NEW s \in Sessions PROVE SessionInv(s)'
    <2>1. Same(s)
      BY <1>1, <1>7, <1>8, <1>9 DEF Same, Has, Due
    <2>2. ASSUME Has("stopped", s), s # sTracingSession, sTracingSession # 0,
                 Due("CreateTracingSession", sTracingSession),
                 Before(Task("stopped", s), Task("CreateTracingSession", sTracingSession))
          PROVE  /\ Due("CreateTracingSession", sTracingSession)'
                 /\ Before(Task("stopped", s),
                           Task("CreateTracingSession", sTracingSession))'
      <3> DEFINE r == sTracingSession
      <3>1. r \in Sessions /\ r' = r
        BY <1>1, <2>2, MuxerAssumption DEF QueueInv, Inv, TypeOK, Sessions
      <3>2. Task("CreateTracingSession", r) \in Queued' \/ Task("CreateTracingSession", r) \in Posted'
        BY <1>7, <1>8, <2>2, <3>1 DEF Due
      <3>3. <<Task("stopped", s), Task("CreateTracingSession", r)>> \in Precede'
        BY <1>9, <2>2, <3>1 DEF Before
      <3> QED BY <3>1, <3>2, <3>3 DEF Due, Before
    <2> QED BY <1>1, <2>1, <2>2, SessionKept
  <1>11. PostsInv' /\ WokenInv'
    BY <1>1, <1>7 DEF QueueInv, PostsInv, WokenInv, Idle
  <1> QED BY <1>1, <1>7, <1>10, <1>11 DEF QueueInv

\* The muxer's thread keeps the invariant.
LEMMA MuxerKeeps ==
    ASSUME QueueInv, Muxer
    PROVE  QueueInv'
  <1>1. CASE CallBack
    BY <1>1, CallBackKeeps
  <1>2. CASE RunTask /\ UNCHANGED <<clientVars, told>>
    <2>1. CASE Initialize \/ ProducerConnect \/ RegisterDataSource
      BY <1>2, <2>1, GlobalKeeps
    <2>2. CASE CreateTracingSession
      BY <1>2, <2>2, CreateKeeps
    <2>3. CASE Configure
      BY <1>2, <2>3, ConfigureKeeps
    <2>4. CASE StartBlocking
      BY <1>2, <2>4, StartBlockingKeeps
    <2>5. CASE OnConnect
      BY <1>2, <2>5, OnConnectKeeps
    <2>6. CASE OnObservableEvents
      BY <1>2, <2>6, OnObservableEventsKeeps
    <2>7. CASE OnTracingDisabled
      BY <1>2, <2>7, OnTracingDisabledKeeps
    <2>8. CASE StopBlocking
      BY <1>2, <2>8, StopBlockingKeeps
    <2>9. CASE ReadTrace
      BY <1>2, <2>9, ReadTraceKeeps
    <2>10. CASE DestroyTracingSession
      BY <1>2, <2>10, DestroyKeeps
    <2>11. CASE Wake
      BY <1>2, <2>11, WakeKeeps
    <2>12. CASE SetupDataSource \/ StopDataSource
      BY <1>2, <2>12, SourceKeeps
    <2>13. CASE StartDataSource
      BY <1>2, <2>13, StartDataSourceKeeps
    <2>14. CASE StopDataSource_AsyncEnd
      BY <1>2, <2>14, AsyncEndKeeps
    <2> QED BY <1>2, <2>1, <2>2, <2>3, <2>4, <2>5, <2>6, <2>7, <2>8, <2>9, <2>10, <2>11,
               <2>12, <2>13, <2>14 DEF RunTask
  <1> QED BY <1>1, <1>2 DEF Muxer

-----------------------------------------------------------------------------
(***************************************************************************)
(* The client's calls                                                      *)
(***************************************************************************)

\* A call with no tasks left to post goes on with the tasks of the sequence p.
LEMMA NewPosts ==
    ASSUME QueueInv, thread.posts = <<>>, UNCHANGED tasks,
           NEW p \in Seq(Tasks), thread'.posts = p,
           \A j, k \in 1 .. Len(p) : p[j] = p[k] /\ p[j].id # 0 => j = k,
           \A j \in 1 .. Len(p) : p[j].id # 0 => p[j] \notin Queued
    PROVE  /\ Queued' = Queued /\ Posted = {}
           /\ Posted' = {p[j] : j \in 1 .. Len(p)}
           /\ Once'
           /\ \A t, u : Before(t, u) /\ t \notin Posted' /\ u \notin Posted' => Before(t, u)'
           /\ \A t, u \in Tasks : t \notin Posted' /\ u \notin Queued => Before(t, u)'
           /\ \A j, k \in 1 .. Len(p) :
                 j < k /\ p[j].id # 0 /\ p[k].id # 0 => Before(p[j], p[k])'
  <1>1. /\ Queued' = Queued /\ Posted' = {p[j] : j \in 1 .. Len(p)}
    BY DEF Queued, Posted
  <1>2. Posted = {}
    <2>1. 1 .. Len(<<>>) = {}
      OBVIOUS
    <2> QED BY <2>1 DEF Posted
  <1>3. Once'
    BY <1>1 DEF QueueInv, Once
  <1>4. ASSUME NEW t, NEW u, Before(t, u), t \notin Posted', u \notin Posted'
        PROVE  Before(t, u)'
    <2>1. <<t, u>> \in Tasks \X Tasks
          /\ \A j, k \in 1 .. Len(tasks) : tasks[j] = t /\ tasks[k] = u => j < k
      BY <1>4 DEF Before, Precede
    <2>2. \A j \in 1 .. Len(p) : p[j] # t
      BY <1>1, <1>4
    <2> QED BY <1>4, <2>1, <2>2 DEF Before, Precede
  <1>5. ASSUME NEW t \in Tasks, NEW u \in Tasks, t \notin Posted', u \notin Queued
        PROVE  Before(t, u)'
    <2>1. /\ \A j \in 1 .. Len(p) : p[j] # t
          /\ \A j \in 1 .. Len(tasks) : tasks[j] # u
      BY <1>1, <1>5 DEF Queued
    <2> QED BY <1>5, <2>1 DEF Before, Precede
  <1>6. ASSUME NEW x \in 1 .. Len(p), NEW y \in 1 .. Len(p), x < y,
               p[x].id # 0, p[y].id # 0
        PROVE  Before(p[x], p[y])'
    <2>1. p[x] \in Tasks /\ p[y] \in Tasks /\ Len(p) \in Nat
      BY ElementOfSeq
    <2>2. \A j, k \in 1 .. Len(p) : p[j] = p[x] /\ p[k] = p[y] => j < k
      BY <1>6
    <2>3. p[x] \notin Queued /\ p[y] \notin Queued
      BY <1>6
    <2>4. \A j \in 1 .. Len(tasks) : tasks[j] # p[x]
      BY <2>3 DEF Queued
    <2>5. p[y] \notin Queued'
      BY <1>1, <2>3
    <2> QED BY <2>1, <2>2, <2>4, <2>5 DEF Before, Precede
  <1> QED BY <1>1, <1>2, <1>3, <1>4, <1>5, <1>6

\* A session none of whose tasks is posted then is the same.
LEMMA OthersSame ==
    ASSUME QueueInv, NEW s \in Sessions, Queued' = Queued, Posted = {},
           \A t \in Posted' : t.id # s,
           \A t, u : Before(t, u) /\ t \notin Posted' /\ u \notin Posted' => Before(t, u)',
           UNCHANGED <<consumers, service, failed>>
    PROVE  Same(s)
  <1>1. \A do : Task(do, s) \notin Posted' /\ Task(do, s) \notin Posted
    BY TaskSame
  <1> QED BY <1>1 DEF Same, Has, Due

\* A session that is not the current one, and has no callback left.
LEMMA OtherKept ==
    ASSUME QueueInv, NEW s \in Sessions, Same(s), ~Has("stopped", s),
           s # sTracingSession, s # sTracingSession',
           s > sessions' => s > sessions, s <= sessions' => s <= sessions
    PROVE  SessionInv(s)'
  <1>1. SessionInv(s)
    BY DEF QueueInv
  <1>2. /\ \A do \in ClientTasks \cup MuxerTasks : Due(do, s)' <=> Due(do, s)
        /\ \A do \in MuxerTasks : Has(do, s)' <=> Has(do, s)
        /\ consumers'[s] = consumers[s] /\ service'[s] = service[s]
        /\ s \in failed' <=> s \in failed
    BY TaskKinds DEF Same
  <1>3. s > sessions' => New(s)'
    BY <1>1, <1>2, TaskKinds DEF SessionInv, New
  <1>4. s <= sessions' => Past(s)'
    <2> SUFFICES ASSUME s <= sessions' PROVE Past(s)'
      OBVIOUS
    <2>1. Past(s)
      BY <1>1 DEF SessionInv
    <2>2. /\ \A do \in {"CreateTracingSession", "Setup", "SetOnStartCallback",
                        "SetOnStopCallback", "StartBlocking", "StopBlocking",
                        "ReadTrace"} : ~Due(do, s)'
          /\ \A do \in {"OnConnect", "StartDataSource", "OnTracingDisabled", "started",
                        "wakeStart", "wakeStop", "wakeRead", "stopped"} : ~Has(do, s)'
      BY <1>2, <2>1 DEF Past, ClientTasks, MuxerTasks
    <2>3. /\ Due("DestroyTracingSession", s)' <=> Due("DestroyTracingSession", s)
          /\ Has("StopDataSource", s)' <=> Has("StopDataSource", s)
          /\ Has("StopDataSource_AsyncEnd", s)' <=> Has("StopDataSource_AsyncEnd", s)
      BY <1>2 DEF ClientTasks, MuxerTasks
    <2> QED BY <1>2, <2>1, <2>2, <2>3 DEF Past
  <1>5. Single(s)'
    BY <1>1, <1>2 DEF SessionInv, Single, MuxerTasks
  <1> QED BY <1>3, <1>4, <1>5 DEF SessionInv

\* Outside startTracing no callback of a past session is left.
LEMMA NoStopped ==
    ASSUME QueueInv, NEW s \in Sessions, s # sTracingSession, thread.call # "starting"
    PROVE  ~Has("stopped", s)
  <1>1. SessionInv(s) /\ s \in Nat /\ sessions \in Nat
    BY MuxerAssumption DEF QueueInv, Inv, TypeOK, Sessions
  <1>2. s > sessions \/ s <= sessions
    BY <1>1
  <1>3. "stopped" \in SessionTasks
    BY DEF SessionTasks
  <1> QED BY <1>1, <1>2, <1>3 DEF SessionInv, New, Past, Due, Has

\* The current session has begun, unless it is being started.
LEMMA HasBegun ==
    ASSUME QueueInv, sTracingSession # 0,
           thread.call # "starting" \/ woken # "none"
    PROVE  LET i == sTracingSession
           IN  /\ i \in Sessions /\ i = sessions /\ Current(i) /\ Single(i) /\ Begun(i)
               /\ ~Due("StartBlocking", i) /\ ~consumers[i].start_pending_
               /\ ~consumers[i].waitsStart /\ ~Due("DestroyTracingSession", i)
               /\ Ordered(i)
               /\ \A do \in {"CreateTracingSession", "Setup", "SetOnStartCallback",
                             "SetOnStopCallback"} : ~Due(do, i)
  <1> DEFINE i == sTracingSession
  <1>1. i \in Sessions /\ i = sessions
    BY MuxerAssumption DEF QueueInv, WokenInv, Inv, TypeOK, Sessions
  <1>2. Current(i) /\ Single(i)
    BY <1>1 DEF QueueInv, SessionInv
  <1>3. ~Unstarted(i) /\ ~Pending(i) /\ ~Enabling(i)
    BY DEF Unstarted, Pending, Enabling
  <1>4. /\ ~Due("StartBlocking", i) /\ ~consumers[i].start_pending_ /\ Ordered(i)
        /\ ~consumers[i].waitsStart /\ Begun(i) /\ ~Due("DestroyTracingSession", i)
    BY <1>2, <1>3 DEF Current
  <1>5. \A do \in {"CreateTracingSession", "Setup", "SetOnStartCallback",
                   "SetOnStopCallback"} : ~Due(do, i)
    BY <1>4 DEF Ordered
  <1> QED BY <1>1, <1>2, <1>4, <1>5

\* A session that has begun stays so while no call uses it.
LEMMA RestKept ==
    ASSUME NEW i, Same(i), Current(i), Begun(i),
           ~Due("StartBlocking", i), ~consumers[i].start_pending_, ~consumers[i].waitsStart,
           thread.call \in {"idle", "startingSystem"} \/ (thread.call = "starting" /\ woken # "none"),
           thread'.call \in {"idle", "startingSystem"}
    PROVE  Current(i)'
  <1>1. /\ \A do \in ClientTasks \cup MuxerTasks : Due(do, i)' <=> Due(do, i)
        /\ \A do \in MuxerTasks : Has(do, i)' <=> Has(do, i)
        /\ \A a, b \in ClientTasks \cup MuxerTasks :
              Before(Task(a, i), Task(b, i)) => Before(Task(a, i), Task(b, i))'
        /\ consumers'[i] = consumers[i] /\ service'[i] = service[i]
        /\ i \in failed' <=> i \in failed
    BY TaskKinds DEF Same
  <1> USE DEF ClientTasks, MuxerTasks
  <1>2. Ordered(i)'
    BY <1>1 DEF Ordered, Current
  <1>3. Runs(i) /\ (Runs(i) => Runs(i)')
    BY <1>1 DEF Runs, Begun
  <1>4. /\ ~Has("started", i) /\ ~Has("wakeStart", i) /\ ~Due("ReadTrace", i)
        /\ ~Has("wakeRead", i) /\ ~Due("StopBlocking", i) /\ ~Has("wakeStop", i)
    BY DEF Begun
  <1>5. Begun(i)'
    BY <1>1, <1>3, <1>4 DEF Begun
  <1> QED BY <1>1, <1>2, <1>5 DEF Current

\* One task of the call goes from what is still to be posted into the queue.
LEMMA PostQueue ==
    ASSUME QueueInv, Post
    PROVE  LET h == Head(thread.posts)
           IN  Queued' = Queued \cup {h} /\ Posted' \cup {h} = Posted
  <1> DEFINE p == thread.posts
             h == Head(p)
             q == thread'.posts
  <1>1. /\ Inv' /\ p # <<>> /\ tasks' = Append(tasks, h) /\ q = Tail(p)
        /\ thread'.call = thread.call
        /\ UNCHANGED <<woken, sessions, sTracingSession, failed, consumers, service>>
    <2>1. Inv'
      BY CallInv DEF QueueInv, Continue
    <2>2. thread \in [call : Calls, posts : Seq(Tasks)]
      BY DEF QueueInv, Inv, TypeOK
    <2> QED BY <2>1, <2>2 DEF Post
  <1>2. tasks \in Seq(Tasks) /\ p \in Seq(Tasks)
    BY DEF QueueInv, Inv, TypeOK, MuxerTypeOK
  <1>3. /\ Len(tasks) \in Nat /\ Len(p) \in Nat /\ Len(p) >= 1 /\ h = p[1]
        /\ Len(tasks') = Len(tasks) + 1
        /\ \A j \in 1 .. Len(tasks) : tasks'[j] = tasks[j]
        /\ tasks'[Len(tasks) + 1] = h
    BY <1>1, <1>2
  <1>4. /\ q \in Seq(Tasks) /\ Len(q) = Len(p) - 1
        /\ \A j \in 1 .. Len(q) : q[j] = p[j + 1] /\ j + 1 \in 1 .. Len(p)
    BY <1>1, <1>2, <1>3
  <1> HIDE DEF p, h, q
  <1>5. /\ \A j \in 1 .. Len(tasks') :
              \/ j \in 1 .. Len(tasks) /\ tasks'[j] = tasks[j]
              \/ j = Len(tasks) + 1 /\ tasks'[j] = h
        /\ 1 \in 1 .. Len(p) /\ Len(q) \in Nat
    BY <1>3, <1>4
  <1>6. /\ Posted = {p[j] : j \in 1 .. Len(p)} /\ Posted' = {q[j] : j \in 1 .. Len(q)}
    BY DEF Posted, p, q
  <1>7. Queued' = Queued \cup {h}
    <2>1. ASSUME NEW t \in Queued' PROVE t \in Queued \cup {h}
      BY <1>5, <2>1 DEF Queued
    <2>2. ASSUME NEW t \in Queued PROVE t \in Queued'
      <3>1. PICK j \in 1 .. Len(tasks) : t = tasks[j]
        BY <2>2 DEF Queued
      <3>2. j \in 1 .. Len(tasks') /\ tasks'[j] = t
        BY <1>3, <3>1
      <3> QED BY <3>2 DEF Queued
    <2>3. h \in Queued'
      <3>1. Len(tasks) + 1 \in 1 .. Len(tasks')
        BY <1>3
      <3> QED BY <1>3, <3>1 DEF Queued
    <2> QED BY <2>1, <2>2, <2>3
  <1>8. Posted' \cup {h} = Posted
    <2>1. \A j \in 1 .. Len(p) : j = 1 \/ (j - 1 \in 1 .. Len(q) /\ q[j - 1] = p[j])
      <3>1. \A j \in 1 .. Len(p) : j = 1 \/ (j - 1 \in 1 .. Len(q) /\ (j - 1) + 1 = j)
        BY <1>3, <1>4
      <3> QED BY <1>4, <3>1
    <2>2. ASSUME NEW t \in Posted PROVE t \in Posted' \cup {h}
      BY <1>3, <1>6, <2>1, <2>2, SMTT(30)
    <2>3. ASSUME NEW t \in Posted' PROVE t \in Posted
      BY <1>4, <1>6, <2>3
    <2>4. h \in Posted
      BY <1>3, <1>5, <1>6
    <2> QED BY <2>2, <2>3, <2>4
  <1> QED BY <1>7, <1>8 DEF h, p

\* One task of the call is posted.
LEMMA PostKeeps ==
    ASSUME QueueInv, Post
    PROVE  QueueInv'
  <1> DEFINE p == thread.posts
             h == Head(p)
             q == thread'.posts
  <1>1. /\ Inv' /\ p # <<>> /\ tasks' = Append(tasks, h) /\ q = Tail(p)
        /\ thread'.call = thread.call
        /\ UNCHANGED <<woken, sessions, sTracingSession, failed, consumers, service>>
    <2>1. Inv'
      BY CallInv DEF QueueInv, Continue
    <2>2. thread \in [call : Calls, posts : Seq(Tasks)]
      BY DEF QueueInv, Inv, TypeOK
    <2> QED BY <2>1, <2>2 DEF Post
  <1>2. tasks \in Seq(Tasks) /\ p \in Seq(Tasks)
    BY DEF QueueInv, Inv, TypeOK, MuxerTypeOK
  <1>3. /\ Len(tasks) \in Nat /\ Len(p) \in Nat /\ Len(p) >= 1 /\ h = p[1]
        /\ Len(tasks') = Len(tasks) + 1
        /\ \A j \in 1 .. Len(tasks) : tasks'[j] = tasks[j]
        /\ tasks'[Len(tasks) + 1] = h
    BY <1>1, <1>2
  <1>4. /\ q \in Seq(Tasks) /\ Len(q) = Len(p) - 1
        /\ \A j \in 1 .. Len(q) : q[j] = p[j + 1] /\ j + 1 \in 1 .. Len(p)
    BY <1>1, <1>2, <1>3
  <1> HIDE DEF p, h, q
  <1>5. /\ \A j \in 1 .. Len(tasks') :
              \/ j \in 1 .. Len(tasks) /\ tasks'[j] = tasks[j]
              \/ j = Len(tasks) + 1 /\ tasks'[j] = h
        /\ 1 \in 1 .. Len(p) /\ Len(q) \in Nat
    BY <1>3, <1>4
  <1>6. /\ Posted = {p[j] : j \in 1 .. Len(p)} /\ Posted' = {q[j] : j \in 1 .. Len(q)}
    BY DEF Posted, p, q
  <1>7. Queued' = Queued \cup {h} /\ Posted' \cup {h} = Posted
    BY PostQueue DEF h, p
  <1>8. Posted' \cup {h} = Posted
    BY <1>7
  <1>9. \A do, s : Due(do, s)' <=> Due(do, s)
    BY <1>7, <1>8 DEF Due
  <1>10. \A do \in MuxerTasks : \A s : Has(do, s)' <=> Has(do, s)
    <2>1. h.do \notin MuxerTasks
      BY <1>8 DEF QueueInv, PostsInv, ClientTasks, GlobalTasks, MuxerTasks
    <2> QED BY <1>7, <2>1, TaskSame DEF Has
  <1>o. /\ \A j, k \in 1 .. Len(tasks) : tasks[j] = tasks[k] /\ tasks[j].id # 0 => j = k
        /\ \A j, k \in 1 .. Len(p) : p[j] = p[k] /\ p[j].id # 0 => j = k
        /\ \A t \in Queued \cap Posted : t.id = 0
    BY DEF QueueInv, Once, p
  <1>11. Once'
    <2>1. h.id # 0 => \A j \in 1 .. Len(tasks) : tasks[j] # h
      BY <1>8, <1>o DEF Queued
    <2>2. \A j, k \in 1 .. Len(tasks') : tasks'[j] = tasks'[k] /\ tasks'[j].id # 0 => j = k
      BY <1>5, <1>o, <2>1
    <2>3. \A j, k \in 1 .. Len(q) : q[j] = q[k] /\ q[j].id # 0 => j = k
      <3>1. SUFFICES ASSUME NEW j \in 1 .. Len(q), NEW k \in 1 .. Len(q),
                            q[j] = q[k], q[j].id # 0
                     PROVE  j = k
        OBVIOUS
      <3>2. /\ j + 1 \in 1 .. Len(p) /\ k + 1 \in 1 .. Len(p)
            /\ p[j + 1] = p[k + 1] /\ p[j + 1].id # 0
        BY <1>4, <3>1
      <3>3. j + 1 = k + 1
        BY <1>o, <3>2
      <3> QED BY <3>3
    <2>4. h.id # 0 => h \notin Posted'
      <3>1. \A j \in 1 .. Len(q) : j + 1 # 1
        BY <1>5
      <3> QED BY <1>3, <1>4, <1>5, <1>6, <1>o, <3>1
    <2>5. \A t \in Queued' \cap Posted' : t.id = 0
      BY <1>7, <1>8, <1>o, <2>4
    <2> QED BY <2>2, <2>3, <2>5 DEF Once, q
  <1>12. ASSUME NEW t, NEW u, Before(t, u) PROVE Before(t, u)'
    <2>1. /\ <<t, u>> \in Tasks \X Tasks
          /\ \A j, k \in 1 .. Len(tasks) : tasks[j] = t /\ tasks[k] = u => j < k
          /\ \A j, k \in 1 .. Len(p) : p[j] = t /\ p[k] = u => j < k
          /\ ~(t \in Posted /\ u \in Queued)
      BY <1>12 DEF Before, Precede, p
    <2>2. ASSUME NEW j \in 1 .. Len(tasks'), NEW k \in 1 .. Len(tasks'),
                 tasks'[j] = t, tasks'[k] = u
          PROVE  j < k
      <3>1. CASE j \in 1 .. Len(tasks) /\ tasks[j] = t
        <4>1. CASE k \in 1 .. Len(tasks) /\ tasks[k] = u
          BY <2>1, <3>1, <4>1
        <4>2. CASE k = Len(tasks) + 1
          BY <1>3, <3>1, <4>2
        <4> QED BY <1>5, <2>2, <4>1, <4>2
      <3>2. CASE t = h
        <4>1. t \in Posted
          BY <1>8, <3>2
        <4>2. u \notin Queued
          BY <2>1, <4>1
        <4>3. u = h
          BY <1>5, <2>2, <4>2 DEF Queued
        <4>4. 1 < 1
          BY <1>3, <1>5, <2>1, <3>2, <4>3
        <4> QED BY <4>4
      <3> QED BY <1>5, <2>2, <3>1, <3>2
    <2>3. \A j, k \in 1 .. Len(q) : q[j] = t /\ q[k] = u => j < k
      <3>1. \A j, k \in 1 .. Len(q) : q[j] = t /\ q[k] = u => j + 1 < k + 1
        BY <1>4, <2>1, SMTT(30)
      <3>2. \A j, k \in 1 .. Len(q) : j + 1 < k + 1 => j < k
        BY <1>5
      <3> QED BY <3>1, <3>2
    <2>4. ~(t \in Posted' /\ u \in Queued')
      <3> SUFFICES ASSUME t \in Posted', u \in Queued' PROVE FALSE
        OBVIOUS
      <3>1. t \in Posted
        BY <1>8
      <3>2. u = h
        BY <1>7, <2>1, <3>1
      <3>3. PICK j \in 1 .. Len(q) : t = q[j]
        BY <1>6
      <3>4. j + 1 \in 1 .. Len(p) /\ p[j + 1] = t
        BY <1>4, <3>3
      <3>5. j + 1 < 1
        BY <1>3, <1>5, <2>1, <3>2, <3>4
      <3> QED BY <1>5, <3>5
    <2> QED BY <2>1, <2>2, <2>3, <2>4 DEF Before, Precede, q
  <1>13. ASSUME NEW s \in Sessions PROVE SessionInv(s)'
    <2>1. Same(s)
      BY <1>1, <1>9, <1>10, <1>12 DEF Same
    <2>2. ASSUME Due("CreateTracingSession", sTracingSession),
                 Before(Task("stopped", s), Task("CreateTracingSession", sTracingSession))
          PROVE  /\ Due("CreateTracingSession", sTracingSession)'
                 /\ Before(Task("stopped", s),
                           Task("CreateTracingSession", sTracingSession))'
      <3> DEFINE r == sTracingSession
      <3>1. r' = r
        BY <1>1
      <3>2. Task("CreateTracingSession", r) \in Queued' \/ Task("CreateTracingSession", r) \in Posted'
        BY <1>9, <2>2 DEF Due
      <3>3. <<Task("stopped", s), Task("CreateTracingSession", r)>> \in Precede'
        BY <1>12, <2>2 DEF Before
      <3> QED BY <3>1, <3>2, <3>3 DEF Due, Before
    <2> QED BY <1>1, <2>1, <2>2, SessionKept
  <1>14. PostsInv' /\ WokenInv'
    <2>1. ~Idle'
      BY <1>1 DEF QueueInv, PostsInv, Idle, p
    <2> QED BY <1>1, <1>8, <2>1 DEF QueueInv, PostsInv, WokenInv
  <1> QED BY <1>1, <1>11, <1>13, <1>14 DEF QueueInv

\* The call that waits is the one that is woken.
LEMMA CallWoken ==
    ASSUME QueueInv
    PROVE  /\ thread \in [call : Calls, posts : Seq(Tasks)]
           /\ woken \in {"none", "start", "stop", "read"}
           /\ thread.call \notin {"starting", "stopping", "reading"} => woken = "none"
           /\ sTracingSession # 0 => sTracingSession \in Sessions /\ sTracingSession = sessions
           /\ sessions \in Nat /\ 0 \notin Sessions /\ Sessions \subseteq Nat
  <1>1. /\ thread \in [call : Calls, posts : Seq(Tasks)]
        /\ woken \in {"none", "start", "stop", "read"} /\ WokenInv
        /\ sTracingSession \in 0 .. MaxSessions /\ sessions \in 0 .. MaxSessions
    BY DEF QueueInv, Inv, TypeOK, MuxerTypeOK
  <1>2. thread.call \notin {"starting", "stopping", "reading"} => woken = "none"
    BY <1>1 DEF WokenInv
  <1>3. sTracingSession # 0 => sTracingSession \in Sessions /\ sTracingSession = sessions
    BY <1>1, MuxerAssumption DEF WokenInv, Sessions
  <1>4. sessions \in Nat /\ 0 \notin Sessions /\ Sessions \subseteq Nat
    BY <1>1, MuxerAssumption DEF Sessions
  <1> QED BY <1>1, <1>2, <1>3, <1>4

\* startTracing returns.
LEMMA StartedKeeps ==
    ASSUME QueueInv, Started
    PROVE  QueueInv'
  <1>1. /\ Inv' /\ thread.posts = <<>> /\ thread'.posts = <<>> /\ woken' = "none"
        /\ thread'.call = "idle"
        /\ \/ thread.call = "starting" /\ woken = "start"
           \/ thread.call = "startingSystem" /\ woken = "none"
        /\ UNCHANGED <<tasks, sessions, sTracingSession, failed, consumers, service>>
    <2>1. Inv'
      BY CallInv DEF QueueInv, Continue
    <2> QED BY <2>1, CallWoken DEF Started, Waiting
  <1>2. Queued' = Queued /\ Posted' = Posted /\ Precede' = Precede
    BY <1>1 DEF Queued, Posted, Precede
  <1>3. Once' /\ PostsInv' /\ WokenInv'
    BY <1>1, <1>2 DEF QueueInv, Once, PostsInv, WokenInv, Idle
  <1>4. ASSUME NEW s \in Sessions PROVE SessionInv(s)'
    <2>1. Same(s)
      BY <1>1, <1>2 DEF Same, Has, Due, Before
    <2>2. CASE s = sTracingSession
      <3>1. /\ s = sessions /\ s \in Nat /\ Current(s) /\ Single(s) /\ Begun(s)
            /\ ~Due("StartBlocking", s) /\ ~consumers[s].start_pending_
            /\ ~consumers[s].waitsStart
        BY <1>1, <2>2, HasBegun, CallWoken
      <3>2. Current(s)'
        BY <1>1, <2>1, <3>1, RestKept
      <3>3. Single(s)'
        BY <2>1, <3>1 DEF Same, Single, MuxerTasks
      <3>4. ~(s > sessions)
        BY <3>1
      <3> QED BY <1>1, <2>2, <3>2, <3>3, <3>4 DEF SessionInv
    <2>3. CASE s # sTracingSession
      <3>1. ~Has("stopped", s)
        <4>1. CASE thread.call # "starting"
          BY <2>3, <4>1, NoStopped
        <4>2. CASE thread.call = "starting"
          <5>1. sTracingSession # 0 /\ woken # "none"
            BY <1>1, <4>2 DEF QueueInv, WokenInv
          <5>2. ~Due("CreateTracingSession", sTracingSession)
            BY <5>1, HasBegun
          <5>3. SessionInv(s) /\ (s > sessions \/ s <= sessions)
            BY CallWoken DEF QueueInv
          <5>4. "stopped" \in SessionTasks
            BY DEF SessionTasks
          <5> QED BY <2>3, <5>2, <5>3, <5>4 DEF SessionInv, New, Past, Has, Due
        <4> QED BY <4>1, <4>2
      <3> QED BY <1>1, <2>1, <2>3, <3>1, OtherKept
    <2> QED BY <2>2, <2>3
  <1> QED BY <1>1, <1>3, <1>4 DEF QueueInv

\* endTracing writes the file, and returns.
LEMMA WriteKeeps ==
    ASSUME QueueInv, Write
    PROVE  QueueInv'
  <1>1. /\ Inv' /\ thread.posts = <<>> /\ thread'.posts = <<>>
        /\ thread.call = "writing" /\ thread'.call = "idle" /\ sTracingSession = 0
        /\ UNCHANGED <<tasks, woken, sessions, sTracingSession, failed, consumers, service>>
    <2>1. Inv'
      BY CallInv DEF QueueInv, Continue
    <2>2. thread.call = "writing" => sTracingSession = 0
      BY DEF QueueInv, WokenInv
    <2> QED BY <2>1, <2>2, CallWoken DEF Write, Waiting, muxerVars
  <1>2. Queued' = Queued /\ Posted' = Posted /\ Precede' = Precede
    BY <1>1 DEF Queued, Posted, Precede
  <1>3. Once' /\ PostsInv' /\ WokenInv'
    BY <1>1, <1>2 DEF QueueInv, Once, PostsInv, WokenInv, Idle
  <1>4. ASSUME NEW s \in Sessions PROVE SessionInv(s)'
    <2>1. Same(s)
      BY <1>1, <1>2 DEF Same, Has, Due, Before
    <2>2. s # sTracingSession
      BY <1>1, CallWoken
    <2>3. ~Has("stopped", s)
      BY <1>1, <2>2, NoStopped
    <2> QED BY <1>1, <2>1, <2>2, <2>3, OtherKept
  <1> QED BY <1>1, <1>3, <1>4 DEF QueueInv

\* What a call changes that goes on with one task of the current session.
LEMMA PostsOne ==
    ASSUME QueueInv, thread.posts = <<>>, UNCHANGED <<tasks, consumers, service, failed>>,
           NEW i \in Sessions, NEW a \in ClientTasks, ~Due(a, i),
           thread'.posts = <<Task(a, i)>>
    PROVE  /\ Queued' = Queued /\ Once'
           /\ \A t \in Posted' : t.do \in ClientTasks
           /\ \A s \in Sessions \ {i} : Same(s)
           /\ \A do : Has(do, i)' <=> Has(do, i)
           /\ \A do : Due(do, i)' <=> Due(do, i) \/ do = a
           /\ \A x, y \in SessionTasks :
                 /\ Before(Task(x, i), Task(y, i)) /\ x # a /\ y # a
                 => Before(Task(x, i), Task(y, i))'
           /\ \A x \in SessionTasks : x # a => Before(Task(x, i), Task(a, i))'
  <1> DEFINE p == <<Task(a, i)>>
  <1>1. Task(a, i) \in Tasks /\ \A do \in SessionTasks : Task(do, i) \in Tasks
    BY TaskType, TaskKinds
  <1>2. p \in Seq(Tasks) /\ Len(p) = 1 /\ p[1] = Task(a, i) /\ thread'.posts = p
    BY <1>1
  <1> HIDE DEF p
  <1>3. 1 .. Len(p) = {1}
    BY <1>2
  <1>4. Task(a, i) \notin Queued
    BY DEF Due
  <1>5. /\ Queued' = Queued /\ Posted = {}
        /\ Posted' = {p[j] : j \in 1 .. Len(p)}
        /\ Once'
        /\ \A t, u : Before(t, u) /\ t \notin Posted' /\ u \notin Posted' => Before(t, u)'
        /\ \A t, u \in Tasks : t \notin Posted' /\ u \notin Queued => Before(t, u)'
    <2>1. /\ \A j, k \in 1 .. Len(p) : p[j] = p[k] /\ p[j].id # 0 => j = k
          /\ \A j \in 1 .. Len(p) : p[j].id # 0 => p[j] \notin Queued
      BY <1>2, <1>3, <1>4
    <2> QED BY <1>2, <2>1, NewPosts
  <1>6. Posted' = {Task(a, i)}
    BY <1>2, <1>3, <1>5
  <1>7. \A t \in Posted' : t.do \in ClientTasks /\ t.id = i
    BY <1>6, TaskSame
  <1>8. \A s \in Sessions \ {i} : Same(s)
    BY <1>5, <1>7, OthersSame
  <1>9. \A do : (Has(do, i)' <=> Has(do, i)) /\ (Due(do, i)' <=> Due(do, i) \/ do = a)
    BY <1>5, <1>6, TaskSame DEF Has, Due
  <1>10. \A x, y \in SessionTasks :
            /\ Before(Task(x, i), Task(y, i)) /\ x # a /\ y # a
            => Before(Task(x, i), Task(y, i))'
    <2>1. \A x : x # a => Task(x, i) \notin Posted'
      BY <1>6, TaskSame
    <2> QED BY <1>5, <2>1
  <1>11. \A x \in SessionTasks : x # a => Before(Task(x, i), Task(a, i))'
    <2>1. \A x : x # a => Task(x, i) \notin Posted'
      BY <1>6, TaskSame
    <2> QED BY <1>1, <1>4, <1>5, <2>1
  <1> QED BY <1>5, <1>7, <1>8, <1>9, <1>10, <1>11

\* The sessions but the current one, when a call other than startTracing goes on.
LEMMA RestOfSessions ==
    ASSUME QueueInv, thread.call # "starting", UNCHANGED sessions,
           \A s \in Sessions : s # sTracingSession => Same(s) /\ s # sTracingSession'
    PROVE  \A s \in Sessions : s # sTracingSession => SessionInv(s)'
  <1> SUFFICES ASSUME NEW s \in Sessions, s # sTracingSession PROVE SessionInv(s)'
    OBVIOUS
  <1>1. ~Has("stopped", s)
    BY NoStopped
  <1> QED BY <1>1, OtherKept

\* endTracing begins.
LEMMA EndTracingKeeps ==
    ASSUME QueueInv, EndTracing
    PROVE  QueueInv'
  <1>1. /\ Inv' /\ Idle /\ thread.posts = <<>>
        /\ UNCHANGED <<tasks, woken, sessions, sTracingSession, failed, consumers, service>>
    <2>1. Inv'
      BY CallInv DEF QueueInv
    <2> QED BY <2>1 DEF EndTracing, QueueInv, PostsInv, muxerVars
  <1>2. CASE UNCHANGED thread
    BY <1>1, <1>2, NothingKeeps
  <1>3. CASE /\ sTracingSession # 0
             /\ thread' = [call |-> "stopping",
                           posts |-> <<Task("StopBlocking", sTracingSession)>>]
    <2> DEFINE a == "StopBlocking"
    <2>1. PICK i \in Sessions : i = sTracingSession
      BY <1>3, CallWoken
    <2>2. thread.call = "idle" /\ woken = "none"
      BY <1>1, CallWoken DEF Idle
    <2>3. /\ i = sessions /\ Current(i) /\ Single(i) /\ Begun(i) /\ Ordered(i)
          /\ ~Due("StartBlocking", i) /\ ~consumers[i].start_pending_
          /\ ~consumers[i].waitsStart /\ ~Due("DestroyTracingSession", i)
          /\ \A do \in {"CreateTracingSession", "Setup", "SetOnStartCallback",
                        "SetOnStopCallback"} : ~Due(do, i)
      BY <1>3, <2>1, <2>2, HasBegun
    <2>4. /\ Runs(i) /\ ~Due("StopBlocking", i) /\ ~Due("ReadTrace", i)
          /\ consumers[i].found /\ ~consumers[i].onStart
          /\ \A do \in {"StartDataSource", "OnConnect", "started", "wakeStart",
                        "wakeRead"} : ~Has(do, i)
      BY <2>2, <2>3 DEF Begun
    <2>5. /\ thread'.call = "stopping" /\ thread'.posts = <<Task("StopBlocking", i)>>
          /\ a \in ClientTasks
      BY <1>3, <2>1 DEF ClientTasks
    <2>6. /\ Queued' = Queued /\ Once'
          /\ \A t \in Posted' : t.do \in ClientTasks
          /\ \A s \in Sessions \ {i} : Same(s)
          /\ \A do : Has(do, i)' <=> Has(do, i)
          /\ \A do : Due(do, i)' <=> Due(do, i) \/ do = a
          /\ \A x, y \in SessionTasks :
                /\ Before(Task(x, i), Task(y, i)) /\ x # a /\ y # a
                => Before(Task(x, i), Task(y, i))'
          /\ \A x \in SessionTasks : x # a => Before(Task(x, i), Task(a, i))'
      BY <1>1, <2>4, <2>5, PostsOne
    <2>7. /\ Before(Task("stopped", i), Task("StopBlocking", i))'
      <3>1. "stopped" \in SessionTasks /\ "stopped" # a
        BY DEF SessionTasks
      <3> QED BY <2>6, <3>1
    <2>8. Ordered(i)'
      BY <2>3, <2>6 DEF Ordered, SessionTasks
    <2>9. Runs(i)'
      BY <1>1, <2>4, <2>6 DEF Runs
    <2>10. Begun(i)'
      BY <1>1, <2>2, <2>4, <2>5, <2>6, <2>7, <2>9 DEF Begun
    <2>11. Current(i)'
      BY <1>1, <2>3, <2>5, <2>6, <2>8, <2>10 DEF Current
    <2>12. Single(i)'
      BY <1>1, <2>3, <2>6 DEF Single
    <2>13. SessionInv(i)'
      BY <1>1, <2>1, <2>3, <2>11, <2>12, CallWoken DEF SessionInv
    <2>14. \A s \in Sessions : s # i => SessionInv(s)'
      BY <1>1, <2>1, <2>2, <2>6, RestOfSessions
    <2>15. PostsInv' /\ WokenInv'
      BY <1>1, <2>2, <2>1, <2>5, <2>6, CallWoken DEF QueueInv, PostsInv, WokenInv, Idle
    <2> QED BY <1>1, <2>6, <2>13, <2>14, <2>15 DEF QueueInv
  <1> QED BY <1>2, <1>3 DEF EndTracing

\* endTracing reads the trace of the session that has stopped.
LEMMA StoppedKeeps ==
    ASSUME QueueInv, Stopped
    PROVE  QueueInv'
  <1>1. /\ Inv' /\ thread.posts = <<>> /\ thread.call = "stopping" /\ woken = "stop"
        /\ woken' = "none"
        /\ thread' = [call |-> "reading", posts |-> <<Task("ReadTrace", sTracingSession)>>]
        /\ UNCHANGED <<tasks, sessions, sTracingSession, failed, consumers, service>>
    <2>1. Inv'
      BY CallInv DEF QueueInv, Continue
    <2> QED BY <2>1 DEF Stopped, Waiting
  <1> DEFINE a == "ReadTrace"
  <1>2. sTracingSession # 0
    BY <1>1 DEF QueueInv, WokenInv
  <1>3. PICK i \in Sessions : i = sTracingSession
    BY <1>2, CallWoken
  <1>4. /\ i = sessions /\ Current(i) /\ Single(i) /\ Begun(i) /\ Ordered(i)
        /\ ~Due("StartBlocking", i) /\ ~consumers[i].start_pending_
        /\ ~consumers[i].waitsStart /\ ~Due("DestroyTracingSession", i)
        /\ \A do \in {"CreateTracingSession", "Setup", "SetOnStartCallback",
                      "SetOnStopCallback"} : ~Due(do, i)
    BY <1>1, <1>2, <1>3, HasBegun
  <1>5. ~Stopping(i)
    BY <1>1 DEF Stopping
  <1>6. /\ Over(i) /\ ~Due("StopBlocking", i) /\ ~Due("ReadTrace", i)
        /\ consumers[i].found /\ ~consumers[i].onStart
        /\ \A do \in {"StartDataSource", "OnConnect", "started", "wakeStart",
                      "wakeRead", "wakeStop", "stopped"} : ~Has(do, i)
    BY <1>1, <1>4, <1>5 DEF Begun
  <1>7. /\ thread'.call = "reading" /\ thread'.posts = <<Task("ReadTrace", i)>>
        /\ a \in ClientTasks
    BY <1>1, <1>3 DEF ClientTasks
  <1>8. /\ Queued' = Queued /\ Once'
        /\ \A t \in Posted' : t.do \in ClientTasks
        /\ \A s \in Sessions \ {i} : Same(s)
        /\ \A do : Has(do, i)' <=> Has(do, i)
        /\ \A do : Due(do, i)' <=> Due(do, i) \/ do = a
        /\ \A x, y \in SessionTasks :
              /\ Before(Task(x, i), Task(y, i)) /\ x # a /\ y # a
              => Before(Task(x, i), Task(y, i))'
    BY <1>1, <1>6, <1>7, PostsOne
  <1>9. Ordered(i)'
    BY <1>4, <1>8 DEF Ordered, SessionTasks
  <1>10. Over(i)'
    BY <1>1, <1>6, <1>8 DEF Over
  <1>11. Begun(i)'
    BY <1>1, <1>6, <1>7, <1>8, <1>10 DEF Begun
  <1>12. Current(i)'
    BY <1>1, <1>4, <1>7, <1>8, <1>9, <1>11 DEF Current
  <1>13. Single(i)'
    BY <1>1, <1>4, <1>8 DEF Single
  <1>14. SessionInv(i)'
    BY <1>1, <1>3, <1>4, <1>12, <1>13, CallWoken DEF SessionInv
  <1>15. \A s \in Sessions : s # i => SessionInv(s)'
    BY <1>1, <1>3, <1>8, RestOfSessions
  <1>16. PostsInv' /\ WokenInv'
    <2>1. sTracingSession \in {0, sessions}
      BY DEF QueueInv, WokenInv
    <2> QED BY <1>1, <1>2, <1>7, <1>8, <2>1 DEF PostsInv, WokenInv, Idle
  <1> QED BY <1>1, <1>8, <1>14, <1>15, <1>16 DEF QueueInv

\* endTracing lets the session go.
LEMMA ReadKeeps ==
    ASSUME QueueInv, Read
    PROVE  QueueInv'
  <1>1. /\ Inv' /\ thread.posts = <<>> /\ thread.call = "reading" /\ woken = "read"
        /\ woken' = "none" /\ sTracingSession' = 0
        /\ thread' = [call |-> "writing",
                      posts |-> <<Task("DestroyTracingSession", sTracingSession)>>]
        /\ UNCHANGED <<tasks, sessions, failed, consumers, service>>
    <2>1. Inv'
      BY CallInv DEF QueueInv, Continue
    <2> QED BY <2>1 DEF Read, Waiting
  <1> DEFINE a == "DestroyTracingSession"
  <1>2. sTracingSession # 0
    BY <1>1 DEF QueueInv, WokenInv
  <1>3. PICK i \in Sessions : i = sTracingSession
    BY <1>2, CallWoken
  <1>4. /\ i = sessions /\ Current(i) /\ Single(i) /\ Begun(i) /\ Ordered(i)
        /\ ~Due("StartBlocking", i) /\ ~consumers[i].start_pending_
        /\ ~consumers[i].waitsStart /\ ~Due("DestroyTracingSession", i)
        /\ \A do \in {"CreateTracingSession", "Setup", "SetOnStartCallback",
                      "SetOnStopCallback"} : ~Due(do, i)
    BY <1>1, <1>2, <1>3, HasBegun
  <1>5. /\ Over(i) /\ ~Due("StopBlocking", i) /\ ~Due("ReadTrace", i)
        /\ ~consumers[i].onStart
        /\ \A do \in {"StartDataSource", "OnConnect", "started", "wakeStart",
                      "wakeRead", "wakeStop", "stopped"} : ~Has(do, i)
    BY <1>1, <1>4 DEF Begun
  <1>6. /\ thread'.call = "writing" /\ thread'.posts = <<Task("DestroyTracingSession", i)>>
        /\ a \in ClientTasks
    BY <1>1, <1>3 DEF ClientTasks
  <1>7. /\ Queued' = Queued /\ Once'
        /\ \A t \in Posted' : t.do \in ClientTasks
        /\ \A s \in Sessions \ {i} : Same(s)
        /\ \A do : Has(do, i)' <=> Has(do, i)
        /\ \A do : Due(do, i)' <=> Due(do, i) \/ do = a
    BY <1>1, <1>4, <1>6, PostsOne
  <1>8. /\ ~Has("OnTracingDisabled", i)
        /\ service[i].state \in {"DISABLED", "none"}
        /\ service[i].instance \in {"STOPPED", "none"}
    BY <1>5 DEF Over
  <1>9. Past(i)'
    BY <1>1, <1>4, <1>5, <1>7, <1>8 DEF Past
  <1>10. Single(i)'
    BY <1>1, <1>4, <1>7 DEF Single
  <1>11. SessionInv(i)'
    BY <1>1, <1>3, <1>4, <1>9, <1>10, CallWoken DEF SessionInv
  <1>12. \A s \in Sessions : s # i => SessionInv(s)'
    BY <1>1, <1>3, <1>7, RestOfSessions, CallWoken
  <1>13. PostsInv' /\ WokenInv'
    BY <1>1, <1>6, <1>7 DEF PostsInv, WokenInv, Idle
  <1> QED BY <1>1, <1>7, <1>11, <1>12, <1>13 DEF QueueInv

\* What initPerfetto posts is of no session.
LEMMA InitializingPosts ==
    \E k \in {0, 2} :
       /\ Initializing \in Seq(Tasks) /\ Len(Initializing) = k
       /\ \A j \in 1 .. k : Initializing[j].id = 0 /\ Initializing[j].do \in GlobalTasks
  <1> DEFINE I == Initializing
  <1>1. CASE sPerfettoInitialized
    <2>1. I \in Seq(Tasks) /\ Len(I) = 0 /\ 1 .. 0 = {}
      BY <1>1 DEF Initializing
    <2> QED BY <2>1
  <1>2. CASE ~sPerfettoInitialized
    <2>1. I = <<Task("Initialize", 0), Task("RegisterDataSource", 0)>>
      BY <1>2 DEF Initializing
    <2>2. Len(I) = 2 /\ I[1] = Task("Initialize", 0) /\ I[2] = Task("RegisterDataSource", 0)
      BY <2>1
    <2>3. 1 .. 2 = {1, 2}
      OBVIOUS
    <2>4. \A j \in 1 .. 2 : I[j].id = 0 /\ I[j].do \in GlobalTasks
      BY <2>2, <2>3, TaskSame DEF GlobalTasks
    <2>5. Task("Initialize", 0) \in Tasks /\ Task("RegisterDataSource", 0) \in Tasks
      BY TaskType DEF GlobalTasks
    <2>6. I \in Seq(Tasks)
      BY <2>1, <2>5
    <2> HIDE DEF I
    <2>7. \E k \in {0, 2} : /\ I \in Seq(Tasks) /\ Len(I) = k
                            /\ \A j \in 1 .. k : I[j].id = 0 /\ I[j].do \in GlobalTasks
      BY <2>2, <2>4, <2>6
    <2> QED BY <2>7 DEF I
  <1> QED BY <1>1, <1>2

\* Where the tasks of startTracing are in what it posts for session n: after the
\* k tasks that initialise the muxer, with m tasks that end session o.
StartsAt(p, n, o, k, m) ==
    /\ p \in Seq(Tasks) /\ Len(p) = (k + m) + 5
    /\ \A j \in 1 .. k : p[j].id = 0 /\ p[j].do \in GlobalTasks
    /\ m = 0 <=> o = 0
    /\ p[k + 1] = Task("CreateTracingSession", n)
    /\ m = 1 => p[k + 2] = Task("DestroyTracingSession", o)
    /\ p[(k + m) + 2] = Task("Setup", n)
    /\ p[(k + m) + 3] = Task("SetOnStartCallback", n)
    /\ p[(k + m) + 4] = Task("SetOnStopCallback", n)
    /\ p[(k + m) + 5] = Task("StartBlocking", n)

\* startTracing posts such tasks.
LEMMA StartingPosts ==
    ASSUME TypeOK, NEW n \in Sessions, NEW o, o = sTracingSession,
           NEW p, p = Initializing \o Starting(n)
    PROVE  \E k \in {0, 2}, m \in {0, 1} : StartsAt(p, n, o, k, m)
  <1> DEFINE I == Initializing
             C == <<Task("CreateTracingSession", n)>>
             D == If(sTracingSession # 0, "DestroyTracingSession", sTracingSession)
             E == <<Task("Setup", n), Task("SetOnStartCallback", n),
                    Task("SetOnStopCallback", n), Task("StartBlocking", n)>>
             F == C \o D
             S == F \o E
  <1>1. I \in Seq(Tasks) /\ p = I \o S
    BY StartingType DEF Starting
  <1>2. PICK k \in {0, 2} : Len(I) = k /\ \A j \in 1 .. k : I[j].id = 0 /\ I[j].do \in GlobalTasks
    BY InitializingPosts
  <1>3. /\ \A do \in {"CreateTracingSession", "Setup", "SetOnStartCallback",
                      "SetOnStopCallback", "StartBlocking"} : Task(do, n) \in Tasks
        /\ o # 0 => Task("DestroyTracingSession", o) \in Tasks
    <2>1. o # 0 => o \in Sessions
      BY MuxerAssumption DEF TypeOK, Sessions
    <2> QED BY <2>1, TaskType DEF SessionTasks
  <1>4. C \in Seq(Tasks) /\ Len(C) = 1 /\ C[1] = Task("CreateTracingSession", n)
    BY <1>3
  <1>5. PICK m \in {0, 1} : /\ D \in Seq(Tasks) /\ Len(D) = m /\ (m = 0 <=> o = 0)
                            /\ m = 1 => D[1] = Task("DestroyTracingSession", o)
    <2>1. CASE o = 0
      <3>1. D = <<>>
        BY <2>1 DEF If
      <3> HIDE DEF D
      <3>2. D \in Seq(Tasks) /\ Len(D) = 0
        BY <3>1
      <3> QED BY <2>1, <3>2
    <2>2. CASE o # 0
      <3>1. D = <<Task("DestroyTracingSession", o)>>
        BY <2>2 DEF If
      <3> HIDE DEF D
      <3>2. D \in Seq(Tasks) /\ Len(D) = 1 /\ D[1] = Task("DestroyTracingSession", o)
        BY <1>3, <2>2, <3>1
      <3> QED BY <2>2, <3>2
    <2> QED BY <2>1, <2>2
  <1>6. /\ E \in Seq(Tasks) /\ Len(E) = 4
        /\ E[1] = Task("Setup", n) /\ E[2] = Task("SetOnStartCallback", n)
        /\ E[3] = Task("SetOnStopCallback", n) /\ E[4] = Task("StartBlocking", n)
    BY <1>3
  <1> HIDE DEF C, D, E, I
  <1>7. /\ F \in Seq(Tasks) /\ Len(F) = 1 + m /\ F[1] = Task("CreateTracingSession", n)
        /\ m = 1 => F[2] = Task("DestroyTracingSession", o)
    <2>0. C \in Seq(Tasks) /\ D \in Seq(Tasks)
      BY <1>4, <1>5
    <2>1. /\ F \in Seq(Tasks) /\ Len(F) = Len(C) + Len(D)
          /\ \A j \in 1 .. Len(C) : F[j] = C[j]
          /\ \A j \in 1 .. Len(D) : F[Len(C) + j] = D[j]
      BY <2>0, ConcatAt
    <2>2. 1 \in 1 .. Len(C) /\ (m = 1 => 1 \in 1 .. Len(D)) /\ Len(C) + 1 = 2
      BY <1>4, <1>5
    <2> QED BY <1>4, <1>5, <2>1, <2>2
  <1> HIDE DEF F
  <1>8. /\ S \in Seq(Tasks) /\ Len(S) = m + 5 /\ S[1] = Task("CreateTracingSession", n)
        /\ m = 1 => S[2] = Task("DestroyTracingSession", o)
        /\ S[m + 2] = Task("Setup", n) /\ S[m + 3] = Task("SetOnStartCallback", n)
        /\ S[m + 4] = Task("SetOnStopCallback", n) /\ S[m + 5] = Task("StartBlocking", n)
    <2>0. E \in Seq(Tasks) /\ F \in Seq(Tasks)
      BY <1>6, <1>7
    <2>1. /\ S \in Seq(Tasks) /\ Len(S) = Len(F) + Len(E)
          /\ \A j \in 1 .. Len(F) : S[j] = F[j]
          /\ \A j \in 1 .. Len(E) : S[Len(F) + j] = E[j]
      BY <2>0, ConcatAt
    <2>2. /\ 1 \in 1 .. Len(F) /\ (m = 1 => 2 \in 1 .. Len(F))
          /\ 1 \in 1 .. Len(E) /\ 2 \in 1 .. Len(E) /\ 3 \in 1 .. Len(E) /\ 4 \in 1 .. Len(E)
          /\ Len(F) + 1 = m + 2 /\ Len(F) + 2 = m + 3 /\ Len(F) + 3 = m + 4
          /\ Len(F) + 4 = m + 5
      BY <1>6, <1>7
    <2>3. /\ S[1] = F[1] /\ (m = 1 => S[2] = F[2]) /\ S[m + 2] = E[1] /\ S[m + 3] = E[2]
          /\ S[m + 4] = E[3] /\ S[m + 5] = E[4] /\ Len(S) = m + 5
      BY <1>6, <2>1, <2>2
    <2> QED BY <1>6, <1>7, <2>1, <2>3
  <1> HIDE DEF S
  <1>9. /\ p \in Seq(Tasks) /\ Len(p) = Len(I) + Len(S)
        /\ \A j \in 1 .. Len(I) : p[j] = I[j]
        /\ \A j \in 1 .. Len(S) : p[Len(I) + j] = S[j]
    BY <1>1, <1>8, ConcatAt
  <1>10. /\ 1 \in 1 .. Len(S) /\ 2 \in 1 .. Len(S) /\ m + 2 \in 1 .. Len(S)
         /\ m + 3 \in 1 .. Len(S) /\ m + 4 \in 1 .. Len(S) /\ m + 5 \in 1 .. Len(S)
         /\ k + (m + 2) = (k + m) + 2 /\ k + (m + 3) = (k + m) + 3
         /\ k + (m + 4) = (k + m) + 4 /\ k + (m + 5) = (k + m) + 5
    BY <1>8
  <1>11. /\ Len(p) = (k + m) + 5 /\ p[k + 1] = S[1] /\ p[k + 2] = S[2]
         /\ p[(k + m) + 2] = S[m + 2] /\ p[(k + m) + 3] = S[m + 3]
         /\ p[(k + m) + 4] = S[m + 4] /\ p[(k + m) + 5] = S[m + 5]
         /\ \A j \in 1 .. k : p[j] = I[j]
    BY <1>2, <1>8, <1>9, <1>10
  <1>12. \A j \in 1 .. k : p[j].id = 0 /\ p[j].do \in GlobalTasks
    BY <1>2, <1>11
  <1>13. StartsAt(p, n, o, k, m)
    BY <1>5, <1>8, <1>9, <1>11, <1>12 DEF StartsAt
  <1> QED BY <1>13

\* startTracing starts a session, and ends the one that it takes the place of.
LEMMA NewSessionKeeps ==
    ASSUME QueueInv, Inv', Idle, UNCHANGED <<tasks, woken, failed, consumers, service>>,
           sessions < MaxSessions, sTracingSession' = sessions + 1,
           sessions' = sessions + 1,
           thread' = [call |-> "starting",
                      posts |-> Initializing \o Starting(sessions + 1)]
    PROVE  QueueInv'
  <1> DEFINE StartNames == {"CreateTracingSession", "Setup", "SetOnStartCallback",
                            "SetOnStopCallback", "StartBlocking"}
  <1>p. PICK p : p = Initializing \o Starting(sessions + 1)
    OBVIOUS
  <1>1. /\ TypeOK /\ thread.posts = <<>> /\ thread.call = "idle" /\ woken = "none"
        /\ sessions \in Nat /\ 0 \notin Sessions /\ Sessions \subseteq Nat
    BY CallWoken DEF QueueInv, Inv, PostsInv, Idle
  <1>2. PICK n \in Sessions : n = sessions + 1
    BY <1>1, MuxerAssumption DEF Sessions
  <1>3. PICK o \in 0 .. MaxSessions : o = sTracingSession
    BY DEF QueueInv, Inv, TypeOK
  <1>4. n # 0 /\ n # o /\ n > sessions
    BY <1>1, <1>2, <1>3, CallWoken
  <1>5. New(n) /\ Single(n)
    BY <1>4 DEF QueueInv, SessionInv
  <1>0. PICK k \in {0, 2}, m \in {0, 1} : StartsAt(p, n, o, k, m)
    <2>1. p = Initializing \o Starting(n)
      BY <1>2, <1>p
    <2>2. TypeOK /\ n \in Sessions /\ o = sTracingSession
      BY <1>1, <1>3
    <2>3. \E k \in {0, 2}, m \in {0, 1} : StartsAt(p, n, o, k, m)
      BY <2>1, <2>2, StartingPosts, ZenonT(30)
    <2> QED BY <2>3
  <1>6. /\ p \in Seq(Tasks) /\ Len(p) = (k + m) + 5
        /\ \A j \in 1 .. k : p[j].id = 0 /\ p[j].do \in GlobalTasks
        /\ m = 0 <=> o = 0
        /\ p[k + 1] = Task("CreateTracingSession", n)
        /\ m = 1 => p[k + 2] = Task("DestroyTracingSession", o)
        /\ p[(k + m) + 2] = Task("Setup", n)
        /\ p[(k + m) + 3] = Task("SetOnStartCallback", n)
        /\ p[(k + m) + 4] = Task("SetOnStopCallback", n)
        /\ p[(k + m) + 5] = Task("StartBlocking", n)
    BY <1>0 DEF StartsAt
  <1>7. thread'.posts = p /\ thread'.call = "starting"
    BY <1>p
  <1>8. /\ \A j \in 1 .. Len(p) :
              \/ j \in 1 .. k \/ j = k + 1 \/ (m = 1 /\ j = k + 2)
              \/ j = (k + m) + 2 \/ j = (k + m) + 3 \/ j = (k + m) + 4 \/ j = (k + m) + 5
        /\ k + 1 \in 1 .. Len(p) /\ (k + m) + 2 \in 1 .. Len(p)
        /\ (k + m) + 3 \in 1 .. Len(p) /\ (k + m) + 4 \in 1 .. Len(p)
        /\ (k + m) + 5 \in 1 .. Len(p) /\ (m = 1 => k + 2 \in 1 .. Len(p))
        /\ k + 1 < (k + m) + 2 /\ (k + m) + 2 < (k + m) + 3
        /\ (k + m) + 3 < (k + m) + 4 /\ (k + m) + 4 < (k + m) + 5
    BY <1>6
  <1>9. /\ p[k + 1].do = "CreateTracingSession" /\ p[k + 1].id = n
        /\ m = 1 => p[k + 2].do = "DestroyTracingSession" /\ p[k + 2].id = o
        /\ p[(k + m) + 2].do = "Setup" /\ p[(k + m) + 2].id = n
        /\ p[(k + m) + 3].do = "SetOnStartCallback" /\ p[(k + m) + 3].id = n
        /\ p[(k + m) + 4].do = "SetOnStopCallback" /\ p[(k + m) + 4].id = n
        /\ p[(k + m) + 5].do = "StartBlocking" /\ p[(k + m) + 5].id = n
    BY <1>6, TaskSame
  <1>10. \A j, l \in 1 .. Len(p) : p[j] = p[l] /\ p[j].id # 0 => j = l
    <2>1. ASSUME NEW j \in 1 .. Len(p), p[j].id # 0
          PROVE  \/ p[j].do = "CreateTracingSession" /\ j = k + 1
                 \/ p[j].do = "DestroyTracingSession" /\ j = k + 2
                 \/ p[j].do = "Setup" /\ j = (k + m) + 2
                 \/ p[j].do = "SetOnStartCallback" /\ j = (k + m) + 3
                 \/ p[j].do = "SetOnStopCallback" /\ j = (k + m) + 4
                 \/ p[j].do = "StartBlocking" /\ j = (k + m) + 5
      <3>1. j \notin 1 .. k
        BY <1>6, <2>1
      <3> QED BY <1>8, <1>9, <3>1
    <2>2. ASSUME NEW j \in 1 .. Len(p), NEW l \in 1 .. Len(p), p[j].do = p[l].do,
                 p[j].id # 0, p[l].id # 0
          PROVE  j = l
      <3> DEFINE d == p[j].do
      <3>1. /\ d = "CreateTracingSession" => j = k + 1 /\ l = k + 1
            /\ d = "DestroyTracingSession" => j = k + 2 /\ l = k + 2
            /\ d = "Setup" => j = (k + m) + 2 /\ l = (k + m) + 2
            /\ d = "SetOnStartCallback" => j = (k + m) + 3 /\ l = (k + m) + 3
            /\ d = "SetOnStopCallback" => j = (k + m) + 4 /\ l = (k + m) + 4
            /\ d = "StartBlocking" => j = (k + m) + 5 /\ l = (k + m) + 5
        BY <2>1, <2>2
      <3>2. d \in {"CreateTracingSession", "DestroyTracingSession", "Setup",
                   "SetOnStartCallback", "SetOnStopCallback", "StartBlocking"}
        BY <2>1, <2>2
      <3> QED BY <3>1, <3>2
    <2> QED BY <2>2
  <1>11. o # 0 => /\ o \in Sessions /\ o = sessions /\ Current(o) /\ Single(o) /\ Begun(o)
                  /\ ~Due("StartBlocking", o) /\ ~consumers[o].waitsStart
                  /\ ~Due("DestroyTracingSession", o)
                  /\ \A do \in {"CreateTracingSession", "Setup", "SetOnStartCallback",
                                "SetOnStopCallback"} : ~Due(do, o)
    BY <1>1, <1>3, HasBegun
  <1>12. \A j \in 1 .. Len(p) :
            p[j].id # 0 => \/ \E do \in StartNames : p[j] = Task(do, n)
                           \/ o # 0 /\ p[j] = Task("DestroyTracingSession", o)
    <2>1. ASSUME NEW j \in 1 .. Len(p), p[j].id # 0
          PROVE  \/ \E do \in StartNames : p[j] = Task(do, n)
                 \/ o # 0 /\ p[j] = Task("DestroyTracingSession", o)
      <3>1. j \notin 1 .. k
        BY <1>6, <2>1
      <3>2. \/ p[j] = Task("CreateTracingSession", n)
            \/ o # 0 /\ p[j] = Task("DestroyTracingSession", o)
            \/ p[j] = Task("Setup", n) \/ p[j] = Task("SetOnStartCallback", n)
            \/ p[j] = Task("SetOnStopCallback", n) \/ p[j] = Task("StartBlocking", n)
        BY <1>6, <1>8, <3>1
      <3> QED BY <3>2
    <2> QED BY <2>1
  <1>13. /\ \A do \in StartNames : ~Due(do, n)
         /\ StartNames \subseteq SessionTasks
    BY <1>5 DEF New, SessionTasks
  <1>14. \A j \in 1 .. Len(p) : p[j].id # 0 => p[j] \notin Queued
    BY <1>11, <1>12, <1>13 DEF Due
  <1>15. /\ Queued' = Queued /\ Posted = {}
         /\ Posted' = {p[j] : j \in 1 .. Len(p)}
         /\ Once'
         /\ \A t, u : Before(t, u) /\ t \notin Posted' /\ u \notin Posted' => Before(t, u)'
         /\ \A t, u \in Tasks : t \notin Posted' /\ u \notin Queued => Before(t, u)'
         /\ \A j, l \in 1 .. Len(p) :
               j < l /\ p[j].id # 0 /\ p[l].id # 0 => Before(p[j], p[l])'
    BY <1>1, <1>6, <1>7, <1>10, <1>14, NewPosts, ZenonT(30)
  <1>16. /\ \A do \in StartNames : Task(do, n) \in Posted'
         /\ \A t \in Posted' : t.id # 0 => \/ \E do \in StartNames : t = Task(do, n)
                                           \/ o # 0 /\ t = Task("DestroyTracingSession", o)
         /\ o # 0 => Task("DestroyTracingSession", o) \in Posted'
         /\ \A t \in Posted' : t.do \in ClientTasks \cup GlobalTasks
    <2>1. /\ Task("CreateTracingSession", n) \in Posted' /\ Task("Setup", n) \in Posted'
          /\ Task("SetOnStartCallback", n) \in Posted'
          /\ Task("SetOnStopCallback", n) \in Posted' /\ Task("StartBlocking", n) \in Posted'
          /\ o # 0 => Task("DestroyTracingSession", o) \in Posted'
      BY <1>6, <1>8, <1>15
    <2>2. \A t \in Posted' : t.id # 0 => \/ \E do \in StartNames : t = Task(do, n)
                                         \/ o # 0 /\ t = Task("DestroyTracingSession", o)
      BY <1>12, <1>15
    <2>3. \A j \in 1 .. Len(p) : p[j].do \in ClientTasks \cup GlobalTasks
      BY <1>6, <1>8, <1>9 DEF ClientTasks
    <2> QED BY <1>15, <2>1, <2>2, <2>3
  <1>17. \A do, s : s # 0 => (Task(do, s) \in Posted' <=>
                                 \/ s = n /\ do \in StartNames
                                 \/ s = o /\ do = "DestroyTracingSession")
    <2>1. ASSUME NEW do, NEW s, s # 0, Task(do, s) \in Posted'
          PROVE  (s = n /\ do \in StartNames) \/ (s = o /\ do = "DestroyTracingSession")
      <3>1. Task(do, s).id # 0
        BY <2>1, TaskSame
      <3> QED BY <1>16, <2>1, <3>1, TaskSame
    <2> QED BY <1>16, <2>1
  <1>18. /\ \A do : Has(do, n)' <=> Has(do, n)
         /\ \A do : Due(do, n)' <=> Due(do, n) \/ do \in StartNames
    BY <1>4, <1>15, <1>17 DEF Has, Due
  <1>19. /\ Before(Task("CreateTracingSession", n), Task("Setup", n))'
         /\ Before(Task("Setup", n), Task("SetOnStartCallback", n))'
         /\ Before(Task("SetOnStartCallback", n), Task("SetOnStopCallback", n))'
         /\ Before(Task("SetOnStopCallback", n), Task("StartBlocking", n))'
    <2>1. /\ Before(p[k + 1], p[(k + m) + 2])'
          /\ Before(p[(k + m) + 2], p[(k + m) + 3])'
          /\ Before(p[(k + m) + 3], p[(k + m) + 4])'
          /\ Before(p[(k + m) + 4], p[(k + m) + 5])'
      BY <1>4, <1>8, <1>9, <1>15
    <2> QED BY <1>6, <2>1
  <1>20. Current(n)'
    <2>1. /\ \A do \in SessionTasks : ~Due(do, n) /\ ~Has(do, n)
          /\ consumers[n] = NoConsumer /\ service[n] = NoServiceSession /\ n \notin failed
      BY <1>5 DEF New, Due, Has
    <2>2. MuxerTasks \subseteq SessionTasks /\ "OnConnect" \in SessionTasks
      BY TaskKinds DEF SessionTasks
    <2>3. Ordered(n)'
      BY <1>18, <1>19 DEF Ordered
    <2>4. /\ \A do \in StartNames : Due(do, n)'
          /\ \A do \in MuxerTasks : ~Has(do, n)'
          /\ ~Due("DestroyTracingSession", n)' /\ ~Due("StopBlocking", n)'
          /\ ~Due("ReadTrace", n)'
      BY <1>18, <2>1, <2>2 DEF SessionTasks
    <2>5. Unstarted(n)'
      BY <1>1, <1>7, <2>1, <2>4 DEF Unstarted, NoConsumer, MuxerTasks
    <2> QED BY <2>3, <2>4, <2>5 DEF Current
  <1>21. Single(n)'
    BY <1>5, <1>18 DEF Single
  <1>22. SessionInv(n)'
    <2>1. ~(n > sessions') /\ n = sTracingSession'
      BY <1>1, <1>2
    <2> QED BY <1>20, <1>21, <2>1 DEF SessionInv
  <1>23. o # 0 => SessionInv(o)'
    <2> SUFFICES ASSUME o # 0 PROVE SessionInv(o)'
      OBVIOUS
    <2>1. /\ \A do : Has(do, o)' <=> Has(do, o)
          /\ \A do : Due(do, o)' <=> Due(do, o) \/ do = "DestroyTracingSession"
      BY <1>4, <1>15, <1>17 DEF Has, Due
    <2>2. /\ Runs(o) /\ ~Due("StopBlocking", o) /\ ~Due("ReadTrace", o)
          /\ ~consumers[o].onStart
          /\ \A do \in {"StartDataSource", "OnConnect", "started", "wakeStart",
                        "wakeStop", "wakeRead"} : ~Has(do, o)
      BY <1>1, <1>11 DEF Begun
    <2>3. /\ \A do \in {"OnTracingDisabled", "StopDataSource",
                        "StopDataSource_AsyncEnd"} : ~Has(do, o)
          /\ service[o] = NoServiceSession \/
                (service[o].state = "STARTED" /\ service[o].instance = "STARTED")
      BY <2>2 DEF Runs
    <2>4. /\ Due("CreateTracingSession", sTracingSession)'
          /\ Before(Task("stopped", o), Task("CreateTracingSession", sTracingSession))'
      <3>1. sTracingSession' = n
        BY <1>2
      <3>2. Task("stopped", o) \in Tasks /\ Task("CreateTracingSession", n) \in Tasks
        BY <1>11, TaskType DEF SessionTasks
      <3>3. Task("stopped", o) \notin Posted'
        BY <1>4, <1>17
      <3>4. Task("CreateTracingSession", n) \notin Queued
        BY <1>13 DEF Due
      <3>5. <<Task("stopped", o), Task("CreateTracingSession", n)>> \in Precede'
        BY <1>15, <3>2, <3>3, <3>4 DEF Before
      <3>6. Task("CreateTracingSession", n) \in Posted'
        BY <1>16
      <3> QED BY <3>1, <3>5, <3>6 DEF Before, Due
    <2>5. Past(o)'
      BY <1>7, <1>11, <2>1, <2>2, <2>3, <2>4 DEF Past, NoServiceSession
    <2>6. Single(o)'
      BY <1>11, <2>1 DEF Single
    <2>7. ~(o > sessions') /\ o # sTracingSession'
      BY <1>1, <1>2, <1>4, <1>11
    <2> QED BY <2>5, <2>6, <2>7 DEF SessionInv
  <1>24. ASSUME NEW s \in Sessions, s # n, s # o PROVE SessionInv(s)'
    <2>1. s # 0 /\ s \in Nat
      BY <1>1
    <2>2. \A t \in Posted' : t.id # s
      BY <1>16, <1>24, <2>1, TaskSame, SMTT(30)
    <2>3. Same(s)
      BY <1>15, <2>2, OthersSame
    <2>4. ~Has("stopped", s)
      BY <1>1, <1>3, <1>24, NoStopped
    <2>5. /\ s # sTracingSession /\ s # sTracingSession'
          /\ s > sessions' => s > sessions
          /\ s <= sessions' => s <= sessions
      BY <1>1, <1>2, <1>3, <1>24, <2>1
    <2> QED BY <2>3, <2>4, <2>5, OtherKept
  <1>25. PostsInv' /\ WokenInv'
    BY <1>1, <1>2, <1>4, <1>7, <1>16 DEF PostsInv, WokenInv, Idle
  <1>26. ASSUME NEW s \in Sessions PROVE SessionInv(s)'
    <2>1. s # 0
      BY <1>1
    <2> QED BY <1>22, <1>23, <1>24, <2>1
  <1> QED BY <1>15, <1>25, <1>26 DEF QueueInv

\* startTracing asks for the system backend: no session is touched.
LEMMA SystemKeeps ==
    ASSUME QueueInv, Inv', Idle,
           UNCHANGED <<tasks, woken, failed, consumers, service, sessions, sTracingSession>>,
           thread' = [call |-> "startingSystem", posts |-> Initializing]
    PROVE  QueueInv'
  <1>p. PICK p : p = Initializing
    OBVIOUS
  <1>1. /\ thread.posts = <<>> /\ thread.call = "idle" /\ woken = "none"
        /\ sessions \in Nat /\ 0 \notin Sessions
    BY CallWoken DEF QueueInv, PostsInv, Idle
  <1>2. PICK k \in {0, 2} : /\ p \in Seq(Tasks) /\ Len(p) = k
                            /\ \A j \in 1 .. k : p[j].id = 0 /\ p[j].do \in GlobalTasks
    BY <1>p, InitializingPosts
  <1>3. thread'.posts = p /\ thread'.call = "startingSystem"
    BY <1>p
  <1>4. /\ Queued' = Queued /\ Posted = {}
        /\ Posted' = {p[j] : j \in 1 .. Len(p)}
        /\ Once'
        /\ \A t, u : Before(t, u) /\ t \notin Posted' /\ u \notin Posted' => Before(t, u)'
    BY <1>1, <1>2, <1>3, NewPosts
  <1>5. \A t \in Posted' : t.id = 0 /\ t.do \in GlobalTasks
    BY <1>2, <1>4
  <1>6. \A s \in Sessions : Same(s)
    BY <1>1, <1>4, <1>5, OthersSame
  <1>7. \A s \in Sessions : s # sTracingSession => SessionInv(s)'
    BY <1>1, <1>6, RestOfSessions
  <1>8. ASSUME NEW i \in Sessions, i = sTracingSession PROVE SessionInv(i)'
    <2>1. /\ i = sessions /\ Current(i) /\ Single(i) /\ Begun(i)
          /\ ~Due("StartBlocking", i) /\ ~consumers[i].start_pending_
          /\ ~consumers[i].waitsStart
      BY <1>1, <1>8, HasBegun
    <2>2. Current(i)'
      BY <1>1, <1>3, <1>6, <2>1, RestKept
    <2>3. Single(i)'
      BY <1>6, <2>1 DEF Same, Single, MuxerTasks
    <2>4. ~(i > sessions)
      BY <1>1, <2>1
    <2> QED BY <1>8, <2>2, <2>3, <2>4 DEF SessionInv
  <1>9. PostsInv' /\ WokenInv'
    BY <1>1, <1>3, <1>5 DEF QueueInv, PostsInv, WokenInv, Idle
  <1> QED BY <1>4, <1>7, <1>8, <1>9 DEF QueueInv

\* startTracing begins.
LEMMA StartTracingKeeps ==
    ASSUME QueueInv, NEW backend \in {"inProcess", "system"}, NEW f \in Files \cup {NoFile},
           NEW c \in Callbacks, StartTracing(backend, f, c)
    PROVE  QueueInv'
  <1>1. /\ Inv' /\ Idle /\ UNCHANGED <<tasks, woken, failed, consumers, service>>
    <2>1. Inv'
      BY StartTracingInv DEF QueueInv
    <2> QED BY <2>1 DEF StartTracing
  <1>2. \/ UNCHANGED <<sTracingSession, thread, sessions>>
        \/ /\ sessions < MaxSessions
           /\ sTracingSession' = sessions + 1
           /\ sessions' = sessions + 1
           /\ thread' = [call |-> "starting",
                         posts |-> Initializing \o Starting(sessions + 1)]
        \/ /\ thread' = [call |-> "startingSystem", posts |-> Initializing]
           /\ UNCHANGED <<sTracingSession, sessions>>
    BY DEF StartTracing
  <1> QED BY <1>1, <1>2, NothingKeeps, NewSessionKeeps, SystemKeeps

\* No session has been started, and the queue is empty.
LEMMA QueueInit == Init => QueueInv
  <1> SUFFICES ASSUME Init PROVE QueueInv
    OBVIOUS
  <1>1. Inv
    BY InitInv
  <1>2. /\ tasks = <<>> /\ thread.posts = <<>> /\ thread.call = "idle" /\ woken = "none"
        /\ sessions = 0 /\ sTracingSession = 0 /\ failed = {}
        /\ consumers = [s \in Sessions |-> NoConsumer]
        /\ service = [s \in Sessions |-> NoServiceSession]
    BY DEF Init, MuxerInit
  <1>3. Len(tasks) = 0 /\ Len(thread.posts) = 0 /\ 1 .. 0 = {}
    BY <1>2
  <1>4. Queued = {} /\ Posted = {}
    BY <1>3 DEF Queued, Posted
  <1>5. Once
    BY <1>3, <1>4 DEF Once
  <1>6. PostsInv /\ WokenInv
    BY <1>2, <1>4 DEF PostsInv, WokenInv, Idle
  <1>7. ASSUME NEW s \in Sessions
        PROVE  SessionInv(s)
    <2>1. s \in Nat /\ s > 0 /\ s # 0 /\ ~(s <= 0)
      BY MuxerAssumption DEF Sessions
    <2>2. New(s) /\ Single(s)
      BY <1>2, <1>4 DEF New, Single, Due, Has
    <2> QED BY <1>2, <2>1, <2>2 DEF SessionInv
  <1> QED BY <1>1, <1>5, <1>6, <1>7 DEF QueueInv

\* Every step of the client, the muxer and the others keeps the invariant.
LEMMA QueueNext == QueueInv /\ [Next]_vars => QueueInv'
  <1> SUFFICES ASSUME QueueInv, [Next]_vars PROVE QueueInv'
    OBVIOUS
  <1>1. CASE UNCHANGED vars
    <2>1. Inv'
      BY NextInv DEF QueueInv
    <2>2. UNCHANGED <<tasks, thread, woken, sessions, sTracingSession, failed,
                      consumers, service>>
      BY <1>1 DEF vars, muxerVars, clientVars
    <2> QED BY <2>1, <2>2, NothingKeeps
  <1>2. CASE Client
    <2>1. CASE EndTracing
      BY <2>1, EndTracingKeeps
    <2>2. ASSUME NEW c \in Callbacks, NEW f \in Files, StartTracing("inProcess", f, c)
          PROVE  QueueInv'
      BY <2>2, StartTracingKeeps
    <2>3. ASSUME NEW c \in Callbacks, NEW f \in Files \cup {NoFile},
                 StartTracing("system", f, c)
          PROVE  QueueInv'
      BY <2>3, StartTracingKeeps
    <2> QED BY <1>2, <2>1, <2>2, <2>3 DEF Client
  <1>3. CASE Continue
    BY <1>3, PostKeeps, StartedKeeps, StoppedKeeps, ReadKeeps, WriteKeeps DEF Continue
  <1>4. CASE Muxer
    BY <1>4, MuxerKeeps
  <1>5. CASE Others
    BY <1>5, OthersKeeps
  <1> QED BY <1>1, <1>2, <1>3, <1>4, <1>5 DEF Next

\* The queue holds no task of a session twice, and of each session only the
\* tasks of the stage that it is in, in an order in which its calls return: the
\* inductive invariant from which the next theorems follow.
THEOREM QueueKept == Spec => []QueueInv
  <1> QED BY QueueInit, QueueNext, PTL DEF Spec

\* A current session that StopBlocking or ReadTrace runs for has begun.
LEMMA EndTask ==
    ASSUME QueueInv, NEW d \in {"StopBlocking", "ReadTrace"}, Running(d)
    PROVE  Begun(Id) /\ Due(d, Id)
  <1>1. d \in SessionTasks
    BY DEF SessionTasks
  <1>2. SessionInv(Id) /\ Id <= sessions /\ Due(d, Id) /\ Id # 0
    BY <1>1, Heading
  <1>3. Id = sTracingSession
    BY <1>2 DEF SessionInv, Past
  <1>4. Current(Id)
    BY <1>2, <1>3 DEF SessionInv
  <1>5. thread.call # "starting"
    BY <1>2, <1>4 DEF Current
  <1>6. Begun(Id)
    BY <1>2, <1>3, <1>5, HasBegun
  <1> QED BY <1>2, <1>6

\* In each stage of its session, what a task takes for granted holds.
LEMMA QueueAsserted == QueueInv => Asserted
  <1> SUFFICES ASSUME QueueInv, tasks # <<>> PROVE Asserted
    BY DEF Asserted
  <1>1. ASSUME NEW d \in {"SetOnStartCallback", "SetOnStopCallback", "StartBlocking"},
               Running(d)
        PROVE  consumers[Id].found
    <2>1. Unstarted(Id) /\ ~Due("CreateTracingSession", Id)
      BY <1>1, StartTask
    <2> QED BY <2>1 DEF Unstarted
  <1>2. ASSUME NEW d \in {"StopBlocking", "ReadTrace"}, Running(d)
        PROVE  consumers[Id].found
    BY <1>2, EndTask DEF Begun
  <1>3. Running("StartBlocking") => ~consumers[Id].waitsStart /\ consumers[Id].trace_config_
    <2>1. Running("StartBlocking") => Unstarted(Id) /\ ~Due("Setup", Id)
      BY StartTask
    <2> QED BY <2>1 DEF Unstarted
  <1>4. Running("StopBlocking") =>
           /\ ~consumers[Id].waitsStop
           /\ consumers[Id].stopped_ \/ service[Id].instance = "STARTED"
    <2> SUFFICES ASSUME Running("StopBlocking")
                 PROVE  /\ ~consumers[Id].waitsStop
                        /\ consumers[Id].stopped_ \/ service[Id].instance = "STARTED"
      OBVIOUS
    <2>1. Begun(Id) /\ Due("StopBlocking", Id)
      BY EndTask
    <2>2. Runs(Id)
      BY <2>1 DEF Begun
    <2> QED BY <2>2 DEF Runs
  <1>5. Running("OnConnect") => consumers[Id].found /\ ~consumers[Id].connected_
    <2> SUFFICES ASSUME Running("OnConnect")
                 PROVE  consumers[Id].found /\ ~consumers[Id].connected_
      OBVIOUS
    <2>1. SessionInv(Id) /\ Id <= sessions /\ Has("OnConnect", Id)
      BY Heading DEF SessionTasks
    <2>2. Current(Id)
      BY <2>1 DEF SessionInv, Past
    <2>3. Unstarted(Id) \/ Pending(Id)
      BY <2>1, <2>2 DEF Current, Enabling, Begun
    <2> QED BY <2>1, <2>3 DEF Unstarted, Pending
  <1>6. Running("OnTracingDisabled") => ~consumers[Id].stopped_
    <2> SUFFICES ASSUME Running("OnTracingDisabled")
                 PROVE  ~consumers[Id].stopped_
      OBVIOUS
    <2>1. SessionInv(Id) /\ Id <= sessions /\ Has("OnTracingDisabled", Id)
      BY Heading DEF SessionTasks
    <2>2. Current(Id)
      BY <2>1 DEF SessionInv, Past
    <2>3. Enabling(Id) \/ Begun(Id)
      BY <2>1, <2>2 DEF Current, Unstarted, Pending, MuxerTasks
    <2>4. Begun(Id) => Stopping(Id)
      BY <2>1 DEF Begun, Runs, Over
    <2> QED BY <2>3, <2>4 DEF Enabling, Stopping
  <1>7. Running("DestroyTracingSession") =>
           service[Id].state # "DISABLING_WAITING_STOP_ACKS"
    <2> SUFFICES ASSUME Running("DestroyTracingSession")
                 PROVE  service[Id].state # "DISABLING_WAITING_STOP_ACKS"
      OBVIOUS
    <2>1. SessionInv(Id) /\ Id <= sessions /\ Due("DestroyTracingSession", Id)
      BY Heading DEF SessionTasks
    <2>2. Past(Id)
      BY <2>1 DEF SessionInv, Current
    <2> QED BY <2>1, <2>2 DEF Past
  <1>8. Head(tasks).do \in {"SetOnStartCallback", "SetOnStopCallback",
                            "StartBlocking", "StopBlocking", "ReadTrace"}
           => consumers[Id].found
    BY <1>1, <1>2 DEF Running
  <1> QED BY <1>3, <1>4, <1>5, <1>6, <1>7, <1>8 DEF Asserted

\* What perfetto.cc asserts about the session of the task it runs holds: every
\* task finds its consumer, no call waits twice, a session is connected and
\* disabled once, and is not destroyed while the service waits for its data
\* source.
THEOREM AssertionsHold == Spec => []Asserted
  <1> QED BY QueueKept, QueueAsserted, PTL

\* A session that has begun and is not being ended has no callback to run.
LEMMA QueueNoLateCallback == QueueInv => NoLateCallback
  <1> SUFFICES ASSUME QueueInv, Idle, sTracingSession \notin failed,
                      NEW j \in 1 .. Len(tasks)
               PROVE  tasks[j].do \notin {"started", "stopped"}
    BY DEF NoLateCallback
  <1>1. tasks[j] \in Tasks /\ tasks[j] \in Queued
    BY DEF QueueInv, Inv, TypeOK, MuxerTypeOK, Queued
  <1>2. SUFFICES ASSUME NEW d \in {"started", "stopped"}, NEW s \in Sessions, Has(d, s)
                 PROVE  FALSE
    <2>1. SUFFICES ASSUME tasks[j].do \in {"started", "stopped"} PROVE FALSE
      OBVIOUS
    <2>2. /\ tasks[j].id \in Sessions
          /\ tasks[j] = Task(tasks[j].do, tasks[j].id)
      BY <1>1, <2>1 DEF Tasks, GlobalTasks, Task
    <2> QED BY <1>1, <1>2, <2>1, <2>2 DEF Has
  <1>3. SessionInv(s) /\ thread.call = "idle" /\ d \in SessionTasks /\ Due(d, s)
    BY <1>2 DEF QueueInv, Idle, SessionTasks, Has, Due
  <1>4. ~(s > sessions)
    BY <1>3 DEF SessionInv, New
  <1>5. s <= sessions /\ s # 0
    BY <1>4, CallWoken
  <1>6. CASE s # sTracingSession
    <2>1. Past(s)
      BY <1>3, <1>5, <1>6 DEF SessionInv
    <2> QED BY <1>2, <1>3, <2>1 DEF Past
  <1>7. CASE s = sTracingSession
    <2>1. Begun(s)
      BY <1>3, <1>5, <1>7, HasBegun
    <2>2. Runs(s) /\ s \notin failed /\ ~Has("started", s)
      BY <1>3, <1>7, <2>1 DEF Begun
    <2> QED BY <1>2, <2>2 DEF Runs
  <1> QED BY <1>6, <1>7

\* The muxer's thread calls the client back before the call that it reports
\* on returns: it does not read sOnTracingStateChange while startTracing may set
\* it, unless the session could not be started.
THEOREM NoLateCallbacks == Spec => []NoLateCallback
  <1> QED BY QueueKept, QueueNoLateCallback, PTL

-----------------------------------------------------------------------------
(***************************************************************************)
(* What the callbacks are told                                             *)
(***************************************************************************)

\* The client has been told of the start of session s and not of its end: the
\* callback for its start is gone, the one for its end has not run.
Counts(s) ==
    /\ ~Due("StartBlocking", s) /\ ~consumers[s].onStart /\ ~Has("started", s)
    /\ consumers[s].onStop \/ Has("stopped", s)

\* The callback for a start runs before the one for an end.
StartedFirst ==
    \A j, k \in 1 .. Len(tasks) :
        tasks[j].do = "started" /\ tasks[k].do = "stopped" => j < k

\* As long as the calls alternate: only the current session has a callback for an
\* end, one that failed to start is told of its end too, and the current callback
\* has been told exactly what the current session has got to.
ToldInv ==
    orderly =>
        /\ Idle /\ sTraceConfig.tracingDisabled => sTracingSession = 0
        /\ \A s \in Sessions \ {sTracingSession} : ~Has("stopped", s)
        /\ StartedFirst
        /\ \A s \in failed : Has("started", s) => Has("stopped", s)
        /\ \A c \in Callbacks : told[c] => c = sOnTracingStateChange /\ sTracingSession # 0
        /\ \A s \in Sessions, c \in Callbacks :
              s = sTracingSession /\ c = sOnTracingStateChange => (told[c] <=> Counts(s))

\* The queue is the same as far as tasks named in X go, if neither the task
\* that ran nor those that were posted are.
LEMMA NamesKept ==
    ASSUME tasks \in Seq(Tasks), NEW X, NEW d \in {0, 1},
           NEW new, Len(new) \in Nat, d <= Len(tasks), Len(tasks') = (Len(tasks) - d) + Len(new),
           \A j \in 1 .. Len(tasks) - d : tasks'[j] = tasks[j + d],
           \A j \in 1 .. Len(new) : tasks'[(Len(tasks) - d) + j] = new[j],
           \A j \in 1 .. Len(new) : new[j].do \notin X,
           d = 1 => tasks[1].do \notin X
    PROVE  /\ \A t : t.do \in X => (t \in Queued' <=> t \in Queued)
           /\ {"started", "stopped"} \subseteq X /\ StartedFirst => StartedFirst'
  <1> DEFINE n == Len(tasks)
             b == n - d
  <1>1. n \in Nat /\ b \in Nat /\ n = b + d /\ d \in Nat
    OBVIOUS
  <1> HIDE DEF n, b
  <1>2. /\ Len(tasks') = b + Len(new)
        /\ \A j \in 1 .. b : tasks'[j] = tasks[j + d] /\ j + d \in 1 .. n
        /\ \A j \in 1 .. Len(new) : tasks'[b + j] = new[j]
    BY <1>1, SMTT(30) DEF n, b
  <1>3. \A j \in 1 .. Len(tasks') : j \in 1 .. b \/ (j - b \in 1 .. Len(new) /\ b + (j - b) = j)
    BY <1>1, <1>2
  <1>4. ASSUME NEW j \in 1 .. Len(tasks'), tasks'[j].do \in X
        PROVE  j \in 1 .. b /\ j + d \in 1 .. n /\ tasks'[j] = tasks[j + d]
    BY <1>2, <1>3, <1>4
  <1>5. ASSUME NEW t, t.do \in X, t \in Queued' PROVE t \in Queued
    <2>1. PICK j \in 1 .. Len(tasks') : t = tasks'[j]
      BY <1>5 DEF Queued
    <2>2. j + d \in 1 .. n /\ t = tasks[j + d]
      BY <1>4, <1>5, <2>1
    <2> QED BY <2>2 DEF Queued, n
  <1>6. ASSUME NEW t, t.do \in X, t \in Queued PROVE t \in Queued'
    <2>1. PICK j \in 1 .. n : t = tasks[j]
      BY <1>6 DEF Queued, n
    <2>2. ~(d = 1 /\ j = 1)
      BY <1>6, <2>1
    <2>3. j - d \in 1 .. b /\ (j - d) + d = j /\ j - d \in 1 .. Len(tasks')
      BY <1>1, <1>2, <2>2
    <2>4. tasks'[j - d] = t
      BY <1>2, <2>1, <2>3
    <2> QED BY <2>3, <2>4 DEF Queued
  <1>7. ASSUME {"started", "stopped"} \subseteq X, StartedFirst PROVE StartedFirst'
    <2> SUFFICES ASSUME NEW j \in 1 .. Len(tasks'), NEW k \in 1 .. Len(tasks'),
                        tasks'[j].do = "started", tasks'[k].do = "stopped"
                 PROVE  j < k
      BY DEF StartedFirst
    <2>1. /\ j \in 1 .. b /\ j + d \in 1 .. n /\ tasks[j + d].do = "started"
          /\ k \in 1 .. b /\ k + d \in 1 .. n /\ tasks[k + d].do = "stopped"
      BY <1>4, <1>7
    <2>2. j + d < k + d
      BY <1>7, <2>1 DEF StartedFirst, n
    <2> QED BY <1>1, <2>1, <2>2
  <1> QED BY <1>5, <1>6, <1>7

\* Tasks that are neither callbacks nor start a session.
Quiet == {t \in Tasks : t.do \notin {"started", "stopped", "StartBlocking"}}

\* The callbacks that wait to run are the same.
Calm ==
    /\ \A s : Has("started", s)' <=> Has("started", s)
    /\ \A s : Has("stopped", s)' <=> Has("stopped", s)
    /\ StartedFirst => StartedFirst'

\* Short sequences of such tasks.
LEMMA QuietPosts ==
    /\ <<>> \in Seq(Quiet)
    /\ \A t \in Quiet : <<t>> \in Seq(Quiet)
    /\ \A t, u, v \in Quiet : <<t, u, v>> \in Seq(Quiet)
    /\ \A p, q \in Seq(Quiet) : p \o q \in Seq(Quiet)
    /\ \A c, do, id : Task(do, id) \in Quiet => If(c, do, id) \in Seq(Quiet)
    /\ \A do \in SessionTasks \ {"started", "stopped", "StartBlocking"}, s \in Sessions :
          Task(do, s) \in Quiet
    /\ Task("ProducerConnect", 0) \in Quiet
  <1>1. \A t \in Quiet : <<t>> \in Seq(Quiet)
    OBVIOUS
  <1>2. \A t, u, v \in Quiet : <<t, u, v>> \in Seq(Quiet)
    OBVIOUS
  <1>3. \A p, q \in Seq(Quiet) : p \o q \in Seq(Quiet)
    OBVIOUS
  <1>4. \A c, do, id : Task(do, id) \in Quiet => If(c, do, id) \in Seq(Quiet)
    BY <1>1 DEF If
  <1>5. \A do \in SessionTasks \ {"started", "stopped", "StartBlocking"}, s \in Sessions :
           Task(do, s) \in Quiet
    BY TaskType, TaskSame DEF Quiet
  <1>6. Task("ProducerConnect", 0) \in Quiet
    BY TaskType, TaskSame DEF Quiet, GlobalTasks
  <1> QED BY <1>1, <1>2, <1>3, <1>4, <1>5, <1>6

\* The queue after a task that is no callback and posts none.
LEMMA DoneQuiet ==
    ASSUME QueueInv, tasks # <<>>, Head(tasks).do \notin {"started", "stopped"},
           NEW new \in Seq(Quiet), Done(new), UNCHANGED thread
    PROVE  /\ Calm
           /\ Head(tasks).do # "StartBlocking" =>
                 \A s : Due("StartBlocking", s)' <=> Due("StartBlocking", s)
  <1>1. /\ MuxerTypeOK /\ tasks \in Seq(Tasks) /\ Len(tasks) \in Nat /\ Len(tasks) >= 1
        /\ Head(tasks) = tasks[1]
    BY DEF QueueInv, Inv, TypeOK, MuxerTypeOK
  <1>2. new \in Seq(Tasks) /\ Len(new) \in Nat
    BY DEF Quiet
  <1>3. \A j \in 1 .. Len(new) : new[j].do \notin {"started", "stopped", "StartBlocking"}
    BY DEF Quiet
  <1>4. /\ Len(tasks') = (Len(tasks) - 1) + Len(new)
        /\ \A j \in 1 .. Len(tasks) - 1 : tasks'[j] = tasks[j + 1]
        /\ \A j \in 1 .. Len(new) : tasks'[(Len(tasks) - 1) + j] = new[j]
    BY <1>1, <1>2, DonePositions
  <1>5. /\ \A t : t.do \in {"started", "stopped"} => (t \in Queued' <=> t \in Queued)
        /\ StartedFirst => StartedFirst'
    <2>1. /\ \A j \in 1 .. Len(new) : new[j].do \notin {"started", "stopped"}
          /\ 1 \in {0, 1} /\ 1 <= Len(tasks) /\ tasks[1].do \notin {"started", "stopped"}
      BY <1>1, <1>3
    <2> QED BY <1>1, <1>2, <1>4, <2>1, NamesKept
  <1>6. Head(tasks).do # "StartBlocking" =>
           \A t : t.do \in {"StartBlocking"} => (t \in Queued' <=> t \in Queued)
    <2> SUFFICES ASSUME Head(tasks).do # "StartBlocking"
                 PROVE  \A t : t.do \in {"StartBlocking"} => (t \in Queued' <=> t \in Queued)
      OBVIOUS
    <2>1. /\ \A j \in 1 .. Len(new) : new[j].do \notin {"StartBlocking"}
          /\ 1 \in {0, 1} /\ 1 <= Len(tasks) /\ tasks[1].do \notin {"StartBlocking"}
      BY <1>1, <1>3
    <2> QED BY <1>1, <1>2, <1>4, <2>1, NamesKept
  <1>7. Calm
    BY <1>5, TaskSame DEF Calm, Has
  <1>8. Posted' = Posted
    BY DEF Posted
  <1> QED BY <1>6, <1>7, <1>8, TaskSame DEF Due

\* A step that neither queues nor runs a callback.
LEMMA CalmTold ==
    ASSUME ToldInv, Calm,
           UNCHANGED <<told, orderly, sOnTracingStateChange, sTracingSession>>,
           Idle' /\ sTraceConfig'.tracingDisabled =>
              (Idle /\ sTraceConfig.tracingDisabled) \/ sTracingSession = 0,
           \A s \in failed' : Has("started", s) => s \in failed,
           \A s \in Sessions : s = sTracingSession => (Counts(s)' <=> Counts(s))
    PROVE  ToldInv'
  <1> SUFFICES ASSUME orderly PROVE ToldInv'
    BY DEF ToldInv
  <1>1. Idle' /\ sTraceConfig'.tracingDisabled => sTracingSession' = 0
    BY DEF ToldInv
  <1>2. \A s \in Sessions \ {sTracingSession'} : ~Has("stopped", s)'
    BY DEF ToldInv, Calm
  <1>3. StartedFirst'
    BY DEF ToldInv, Calm
  <1>4. \A s \in failed' : Has("started", s)' => Has("stopped", s)'
    BY DEF ToldInv, Calm
  <1>5. \A c \in Callbacks : told'[c] => c = sOnTracingStateChange' /\ sTracingSession' # 0
    BY DEF ToldInv
  <1>6. \A s \in Sessions, c \in Callbacks :
           s = sTracingSession' /\ c = sOnTracingStateChange' => (told'[c] <=> Counts(s)')
    BY DEF ToldInv
  <1> QED BY <1>1, <1>2, <1>3, <1>4, <1>5, <1>6 DEF ToldInv

\* A step that leaves the queue and the current session's consumer alone.
LEMMA CountsKept ==
    ASSUME NEW s, Calm,
           \/ /\ consumers'[s].onStart = consumers[s].onStart
              /\ consumers'[s].onStop = consumers[s].onStop
              /\ Due("StartBlocking", s)' <=> Due("StartBlocking", s)
           \/ Due("StartBlocking", s) /\ Due("StartBlocking", s)'
           \/ Due("StartBlocking", s) /\ consumers'[s].onStart
    PROVE  Counts(s)' <=> Counts(s)
  BY DEF Counts, Calm

\* A task that is no callback and posts none, and does not start the session.
LEMMA QuietTold ==
    ASSUME QueueInv, ToldInv, tasks # <<>>,
           Head(tasks).do \notin {"started", "stopped", "StartBlocking"},
           NEW new \in Seq(Quiet), Done(new), UNCHANGED <<clientVars, told>>,
           \A s \in failed' : Has("started", s) => s \in failed,
           \A s \in Sessions : s = sTracingSession =>
              \/ /\ consumers'[s].onStart = consumers[s].onStart
                 /\ consumers'[s].onStop = consumers[s].onStop
              \/ Due("StartBlocking", s)
    PROVE  ToldInv'
  <1>1. UNCHANGED <<told, orderly, sOnTracingStateChange, sTracingSession, thread,
                    sTraceConfig>>
    BY DEF clientVars
  <1>2. Calm /\ \A s : Due("StartBlocking", s)' <=> Due("StartBlocking", s)
    BY <1>1, DoneQuiet
  <1>3. \A s \in Sessions : s = sTracingSession => (Counts(s)' <=> Counts(s))
    BY <1>2, CountsKept
  <1> QED BY <1>1, <1>2, <1>3, CalmTold DEF Idle

\* A session that is not the current one has no callback for its start.
LEMMA OneStarted ==
    ASSUME QueueInv, NEW s \in Sessions, Has("started", s)
    PROVE  /\ s = sTracingSession /\ Begun(s) /\ ~Due("StartBlocking", s)
           /\ ~consumers[s].start_pending_ /\ ~consumers[s].waitsStart
           /\ thread.call = "starting"
  <1>1. SessionInv(s) /\ s \in Nat /\ sessions \in Nat /\ "started" \in SessionTasks
    BY MuxerAssumption DEF QueueInv, Inv, TypeOK, Sessions, SessionTasks
  <1>2. s > sessions \/ s <= sessions
    BY <1>1
  <1>3. s = sTracingSession
    BY <1>1, <1>2 DEF SessionInv, New, Past, Due, Has
  <1>4. Current(s)
    BY <1>1, <1>3 DEF SessionInv
  <1>5. ~Unstarted(s) /\ ~Pending(s) /\ ~Enabling(s)
    BY DEF Unstarted, Pending, Enabling, MuxerTasks
  <1>6. /\ Begun(s) /\ ~Due("StartBlocking", s)
        /\ ~consumers[s].start_pending_ /\ ~consumers[s].waitsStart
    BY <1>4, <1>5 DEF Current
  <1> QED BY <1>3, <1>6 DEF Begun

\* The tasks that begin a session, or that are of no session.
LEMMA SetUpTold ==
    ASSUME QueueInv, ToldInv, UNCHANGED <<clientVars, told>>,
           \/ Initialize \/ ProducerConnect \/ RegisterDataSource
           \/ CreateTracingSession \/ Configure
    PROVE  ToldInv'
  <1>1. CASE Initialize \/ ProducerConnect \/ RegisterDataSource
    <2>1. /\ tasks # <<>> /\ UNCHANGED <<failed, consumers>>
          /\ Head(tasks).do \notin {"started", "stopped", "StartBlocking"}
      BY <1>1 DEF Initialize, ProducerConnect, RegisterDataSource, Running
    <2>2. Done(<<>>) \/ Done(If(init_args = "inProcess", "ProducerConnect", 0))
      BY <1>1 DEF Initialize, ProducerConnect, RegisterDataSource
    <2>3. /\ <<>> \in Seq(Quiet)
          /\ If(init_args = "inProcess", "ProducerConnect", 0) \in Seq(Quiet)
      BY QuietPosts
    <2>4. PICK new \in Seq(Quiet) : Done(new)
      BY <2>2, <2>3
    <2> QED BY <2>1, <2>4, QuietTold
  <1>2. CASE CreateTracingSession
    <2>0. PICK i \in Sessions : i = Id
      BY <1>2, Heading DEF CreateTracingSession, SessionTasks
    <2>t. consumers \in [Sessions -> Consumer]
      BY DEF QueueInv, Inv, TypeOK, MuxerTypeOK
    <2>1. /\ tasks # <<>> /\ UNCHANGED failed
          /\ Head(tasks).do \notin {"started", "stopped", "StartBlocking"}
          /\ consumers' = [consumers EXCEPT ![i].found = TRUE]
          /\ Done(If(muxer.backend = "inProcess", "OnConnect", i))
      BY <1>2, <2>0 DEF CreateTracingSession, Running
    <2>2. If(muxer.backend = "inProcess", "OnConnect", i) \in Seq(Quiet)
      BY QuietPosts DEF SessionTasks
    <2>3. \A s \in Sessions : /\ consumers'[s].onStart = consumers[s].onStart
                              /\ consumers'[s].onStop = consumers[s].onStop
      BY <2>1, <2>t DEF Consumer
    <2> QED BY <2>1, <2>2, <2>3, QuietTold
  <1>3. CASE Configure
    <2>0. PICK d \in {"Setup", "SetOnStartCallback", "SetOnStopCallback"} : Running(d)
      BY <1>3 DEF Configure
    <2>1. /\ tasks # <<>> /\ UNCHANGED failed /\ Done(<<>>)
          /\ Head(tasks).do \notin {"started", "stopped", "StartBlocking"}
      BY <1>3, <2>0 DEF Configure, Running
    <2>2. sTracingSession = Id /\ Due("StartBlocking", Id)
      BY <2>0, StartTask
    <2>3. \A s \in Sessions : s = sTracingSession => Due("StartBlocking", s)
      BY <2>2
    <2> QED BY <2>1, <2>3, QuietPosts, QuietTold
  <1> QED BY <1>1, <1>2, <1>3

\* What EnableTracing posts and leaves alone.
LEMMA EnableQuiet ==
    ASSUME TypeOK, NEW i \in Sessions, i = Id, NEW c \in Consumer, StartTracingSession(c)
    PROVE  /\ \E new \in Seq(Quiet) : Done(new)
           /\ consumers'[i].onStart = c.onStart /\ consumers'[i].onStop = c.onStop
           /\ \A s \in failed' : s = i \/ s \in failed
  <1>1. \A do \in {"OnObservableEvents", "SetupDataSource", "StartDataSource",
                   "OnTracingDisabled"} : Task(do, i) \in Quiet
    BY QuietPosts DEF SessionTasks
  <1>2. /\ <<Task("OnObservableEvents", i), Task("SetupDataSource", i),
             Task("StartDataSource", i)>> \in Seq(Quiet)
        /\ <<Task("OnTracingDisabled", i)>> \in Seq(Quiet)
        /\ <<>> \in Seq(Quiet)
    BY <1>1, QuietPosts
  <1>3. \/ Done(<<Task("OnObservableEvents", i), Task("SetupDataSource", i),
                  Task("StartDataSource", i)>>)
        \/ Done(<<Task("OnTracingDisabled", i)>>)
        \/ Done(<<>>)
    BY DEF StartTracingSession
  <1>4. consumers'[i] = [c EXCEPT !.start_pending_ = FALSE]
    BY DEF StartTracingSession, TypeOK, MuxerTypeOK
  <1>5. consumers'[i].onStart = c.onStart /\ consumers'[i].onStop = c.onStop
    BY <1>4 DEF Consumer
  <1>6. \A s \in failed' : s = i \/ s \in failed
    BY DEF StartTracingSession
  <1> QED BY <1>2, <1>3, <1>5, <1>6

\* StartBlocking: the session was not told of, and is not yet.
LEMMA StartBlockingTold ==
    ASSUME QueueInv, ToldInv, StartBlocking, UNCHANGED <<clientVars, told>>
    PROVE  ToldInv'
  <1> DEFINE d == "StartBlocking"
  <1>0. PICK i \in Sessions : i = Id
    BY Heading DEF StartBlocking, SessionTasks
  <1>1. /\ d \in SessionTasks /\ Running(d) /\ tasks # <<>> /\ Head(tasks).do = d
        /\ UNCHANGED <<told, orderly, sOnTracingStateChange, sTracingSession, thread,
                       sTraceConfig>>
    BY DEF StartBlocking, SessionTasks, clientVars, Running
  <1>2. /\ i = sTracingSession /\ Unstarted(i) /\ Due(d, i)
        /\ ~Due("SetOnStartCallback", i)
    BY <1>0, <1>1, StartTask
  <1>3. consumers[i].onStart
    BY <1>2 DEF Unstarted
  <1>t. /\ TypeOK /\ consumers \in [Sessions -> Consumer] /\ consumers[i] \in Consumer
    BY DEF QueueInv, Inv, TypeOK, MuxerTypeOK
  <1> DEFINE c == [consumers[i] EXCEPT !.waitsStart = TRUE]
             e == [c EXCEPT !.start_pending_ = TRUE]
  <1>4. c \in Consumer /\ c.onStart = consumers[i].onStart /\ e.onStart = consumers[i].onStart
    BY <1>t DEF Consumer
  <1>5. \/ StartTracingSession(c)
        \/ /\ consumers' = [consumers EXCEPT ![i] = e]
           /\ Done(<<>>) /\ UNCHANGED failed
    BY <1>0 DEF StartBlocking
  <1> HIDE DEF c, e
  <1>6. /\ \E new \in Seq(Quiet) : Done(new)
        /\ consumers'[i].onStart
        /\ \A s \in failed' : s = i \/ s \in failed
    <2>1. CASE StartTracingSession(c)
      BY <1>0, <1>3, <1>4, <1>t, <2>1, EnableQuiet
    <2>2. CASE /\ consumers' = [consumers EXCEPT ![i] = e]
               /\ Done(<<>>) /\ UNCHANGED failed
      <3>1. consumers'[i] = e
        BY <1>t, <2>2
      <3> QED BY <1>3, <1>4, <2>2, <3>1, QuietPosts
    <2> QED BY <1>5, <2>1, <2>2
  <1>7. Calm
    <2>1. Head(tasks).do \notin {"started", "stopped"}
      BY <1>1
    <2> QED BY <1>1, <1>6, <2>1, DoneQuiet
  <1>8. ~Has("started", i)
    BY <1>2, OneStarted
  <1>9. \A s \in Sessions : s = sTracingSession => (Counts(s)' <=> Counts(s))
    BY <1>2, <1>6, <1>7, CountsKept
  <1> QED BY <1>1, <1>6, <1>7, <1>8, <1>9, CalmTold DEF Idle

\* OnConnect posts no callback, even if the session starts.
LEMMA OnConnectTold ==
    ASSUME QueueInv, ToldInv, OnConnect, UNCHANGED <<clientVars, told>>
    PROVE  ToldInv'
  <1> DEFINE d == "OnConnect"
  <1>0. PICK i \in Sessions : i = Id
    BY Heading DEF OnConnect, SessionTasks
  <1>1. /\ d \in SessionTasks /\ Running(d) /\ tasks # <<>> /\ Head(tasks).do = d
        /\ Head(tasks).do \notin {"started", "stopped", "StartBlocking"}
    BY DEF OnConnect, SessionTasks, Running
  <1>2. Has(d, i)
    BY <1>0, <1>1, Heading
  <1>3. ~Has("started", i)
    BY <1>2, OneStarted DEF Begun
  <1>t. /\ TypeOK /\ consumers \in [Sessions -> Consumer] /\ consumers[i] \in Consumer
    BY DEF QueueInv, Inv, TypeOK, MuxerTypeOK
  <1> DEFINE c == [consumers[i] EXCEPT !.connected_ = TRUE]
  <1>4. /\ c \in Consumer /\ c.onStart = consumers[i].onStart
        /\ c.onStop = consumers[i].onStop
    BY <1>t DEF Consumer
  <1>5. \/ StartTracingSession(c)
        \/ consumers' = [consumers EXCEPT ![i] = c] /\ Done(<<>>) /\ UNCHANGED failed
    BY <1>0 DEF OnConnect
  <1>s. \A s \in Sessions \ {i} : consumers'[s] = consumers[s]
    BY <1>0, <1>t DEF OnConnect, StartTracingSession
  <1> HIDE DEF c
  <1>6. /\ \E new \in Seq(Quiet) : Done(new)
        /\ consumers'[i].onStart = consumers[i].onStart
        /\ consumers'[i].onStop = consumers[i].onStop
        /\ \A s \in failed' : s = i \/ s \in failed
    <2>1. CASE StartTracingSession(c)
      BY <1>0, <1>4, <1>t, <2>1, EnableQuiet
    <2>2. CASE consumers' = [consumers EXCEPT ![i] = c] /\ Done(<<>>) /\ UNCHANGED failed
      <3>1. consumers'[i] = c
        BY <1>t, <2>2
      <3> QED BY <1>4, <2>2, <3>1, QuietPosts
    <2> QED BY <1>5, <2>1, <2>2
  <1>7. \A s \in Sessions : /\ consumers'[s].onStart = consumers[s].onStart
                            /\ consumers'[s].onStop = consumers[s].onStop
    BY <1>6, <1>s
  <1> QED BY <1>1, <1>3, <1>6, <1>7, QuietTold

\* The tasks that leave the consumers alone.
LEMMA OtherTold ==
    ASSUME QueueInv, ToldInv, UNCHANGED <<clientVars, told>>,
           \/ ReadTrace \/ Wake \/ SetupDataSource \/ StartDataSource \/ StopDataSource
           \/ StopDataSource_AsyncEnd
    PROVE  ToldInv'
  <1> DEFINE D == {"ReadTrace", "wakeStart", "wakeStop", "wakeRead", "SetupDataSource",
                   "StartDataSource", "StopDataSource", "StopDataSource_AsyncEnd"}
  <1>0. PICK d \in D : Running(d)
    BY DEF ReadTrace, Wake, SetupDataSource, StartDataSource, StopDataSource,
           StopDataSource_AsyncEnd
  <1>1. /\ d \in SessionTasks /\ d \notin {"started", "stopped", "StartBlocking"}
    BY <1>0 DEF SessionTasks
  <1>2. PICK i \in Sessions : i = Id
    BY <1>0, <1>1, Heading
  <1>3. /\ tasks # <<>> /\ Head(tasks).do \notin {"started", "stopped", "StartBlocking"}
    BY <1>0, <1>1 DEF Running
  <1>4. UNCHANGED <<consumers, failed>>
    BY DEF ReadTrace, Wake, SetupDataSource, StartDataSource, StopDataSource,
           StopDataSource_AsyncEnd
  <1> DEFINE last == <<Task("OnTracingDisabled", i)>>
  <1>5. \/ Done(<<>>) \/ Done(<<Task("wakeRead", i)>>) \/ Done(Observing(i))
        \/ Done(<<Task("StopDataSource_AsyncEnd", i)>>)
        \/ Done(Observing(i) \o last)
    BY <1>2 DEF ReadTrace, Wake, SetupDataSource, StartDataSource, StopDataSource,
                StopDataSource_AsyncEnd
  <1>6. \A do \in {"OnObservableEvents", "wakeRead", "StopDataSource_AsyncEnd",
                   "OnTracingDisabled"} : Task(do, i) \in Quiet
    BY QuietPosts DEF SessionTasks
  <1>7. /\ <<>> \in Seq(Quiet) /\ <<Task("wakeRead", i)>> \in Seq(Quiet)
        /\ <<Task("StopDataSource_AsyncEnd", i)>> \in Seq(Quiet)
        /\ Observing(i) \in Seq(Quiet) /\ last \in Seq(Quiet)
    BY <1>6, QuietPosts DEF Observing
  <1> HIDE DEF last
  <1>8. Observing(i) \o last \in Seq(Quiet)
    BY <1>7, QuietPosts
  <1>9. PICK new \in Seq(Quiet) : Done(new)
    BY <1>5, <1>7, <1>8
  <1> QED BY <1>3, <1>4, <1>9, QuietTold

\* The session that is destroyed is not the current one.
LEMMA DestroyTold ==
    ASSUME QueueInv, ToldInv, DestroyTracingSession, UNCHANGED <<clientVars, told>>
    PROVE  ToldInv'
  <1>0. PICK i \in Sessions : i = Id
    BY Heading DEF DestroyTracingSession, SessionTasks
  <1>1. /\ tasks # <<>> /\ Head(tasks).do \notin {"started", "stopped", "StartBlocking"}
        /\ UNCHANGED failed /\ consumers' = [consumers EXCEPT ![i] = NoConsumer]
        /\ Done(If(service[i].state = "STARTED", "StopDataSource", i))
    BY <1>0 DEF DestroyTracingSession, Running
  <1>2. SessionInv(i) /\ Due("DestroyTracingSession", i)
    BY <1>0, Heading DEF DestroyTracingSession, SessionTasks
  <1>3. i # sTracingSession
    BY <1>2 DEF SessionInv, Current
  <1>4. \A s \in Sessions : s = sTracingSession => consumers'[s] = consumers[s]
    BY <1>1, <1>3 DEF QueueInv, Inv, TypeOK, MuxerTypeOK
  <1>5. If(service[i].state = "STARTED", "StopDataSource", i) \in Seq(Quiet)
    BY QuietPosts DEF SessionTasks
  <1> QED BY <1>1, <1>4, <1>5, QuietTold

\* StopBlocking: a session that has stopped already has told of its end.
LEMMA StopBlockingTold ==
    ASSUME QueueInv, ToldInv, StopBlocking, UNCHANGED <<clientVars, told>>
    PROVE  ToldInv'
  <1>0. PICK i \in Sessions : i = Id
    BY Heading DEF StopBlocking, SessionTasks
  <1>1. /\ tasks # <<>> /\ Head(tasks).do \notin {"started", "stopped", "StartBlocking"}
        /\ UNCHANGED failed
    BY DEF StopBlocking, Running
  <1>2. Begun(i) /\ Due("StopBlocking", i)
    BY <1>0, EndTask DEF StopBlocking
  <1>3. Runs(i)
    BY <1>2 DEF Begun
  <1>t. consumers \in [Sessions -> Consumer] /\ consumers[i] \in Consumer
    BY DEF QueueInv, Inv, TypeOK, MuxerTypeOK
  <1> DEFINE c == consumers[i]
             e == [c EXCEPT !.waitsStop = TRUE, !.trace_config_ = FALSE]
  <1>4. /\ e.stopped_ = c.stopped_ /\ e.onStart = c.onStart /\ e.onStop = c.onStop
        /\ e.waitsStop /\ e \in Consumer
    BY <1>t DEF Consumer
  <1>5. \/ /\ e.stopped_ /\ Done(NotifyStopComplete(e))
           /\ consumers' = [consumers EXCEPT ![i] = StopNotified(e)]
        \/ /\ ~e.stopped_ /\ Done(<<Task("StopDataSource", i)>>)
           /\ consumers' = [consumers EXCEPT ![i] = e]
    BY <1>0 DEF StopBlocking
  <1> HIDE DEF e
  <1>6. e.stopped_ => ~c.onStop /\ NotifyStopComplete(e) = <<Task("wakeStop", i)>>
    <2>1. e.stopped_ => ~e.onStop
      BY <1>3, <1>4 DEF Runs
    <2> QED BY <1>0, <1>4, <2>1, NotifyPosts
  <1>7. Task("StopDataSource", i) \in Quiet /\ Task("wakeStop", i) \in Quiet
    BY QuietPosts DEF SessionTasks
  <1>8. PICK new \in Seq(Quiet) : Done(new)
    BY <1>5, <1>6, <1>7, QuietPosts
  <1>9. /\ consumers'[i].onStart = c.onStart /\ consumers'[i].onStop = c.onStop
        /\ \A s \in Sessions \ {i} : consumers'[s] = consumers[s]
    <2>1. consumers'[i] = IF e.stopped_ THEN StopNotified(e) ELSE e
      BY <1>5, <1>t
    <2>2. /\ StopNotified(e).onStart = e.onStart /\ StopNotified(e).onStop = FALSE
      BY <1>4 DEF StopNotified, Consumer
    <2>3. e.stopped_ => c.onStop = FALSE
      BY <1>6, <1>t DEF Consumer
    <2>4. \A s \in Sessions \ {i} : consumers'[s] = consumers[s]
      BY <1>5, <1>t
    <2> QED BY <1>4, <2>1, <2>2, <2>3, <2>4
  <1>10. \A s \in Sessions : /\ consumers'[s].onStart = consumers[s].onStart
                             /\ consumers'[s].onStop = consumers[s].onStop
    BY <1>9
  <1> QED BY <1>1, <1>8, <1>10, QuietTold

\* Callbacks for a start run before those for an end if there are none of one
\* kind, or if all are of one session and in order.
LEMMA FirstIfNone ==
    ASSUME tasks' \in Seq(Tasks),
           \/ \A s \in Sessions : ~Has("started", s)'
           \/ \A s \in Sessions : ~Has("stopped", s)'
           \/ \E i \in Sessions :
                 /\ Before(Task("started", i), Task("stopped", i))'
                 /\ \A s \in Sessions \ {i} : ~Has("started", s)' /\ ~Has("stopped", s)'
    PROVE  StartedFirst'
  <1> SUFFICES ASSUME NEW j \in 1 .. Len(tasks'), NEW k \in 1 .. Len(tasks'),
                      tasks'[j].do = "started", tasks'[k].do = "stopped"
               PROVE  j < k
    BY DEF StartedFirst
  <1>1. ASSUME NEW t \in Tasks, NEW do \in {"started", "stopped"}, t.do = do
        PROVE  t.id \in Sessions /\ t = Task(do, t.id)
    BY <1>1 DEF Tasks, Task, GlobalTasks
  <1>2. /\ tasks'[j] \in Tasks /\ tasks'[k] \in Tasks
        /\ tasks'[j] \in Queued' /\ tasks'[k] \in Queued'
    BY DEF Queued
  <1>3. PICK s \in Sessions : tasks'[j] = Task("started", s)
    BY <1>1, <1>2
  <1>4. PICK r \in Sessions : tasks'[k] = Task("stopped", r)
    BY <1>1, <1>2
  <1>5. Has("started", s)' /\ Has("stopped", r)'
    BY <1>2, <1>3, <1>4 DEF Has
  <1>6. PICK i \in Sessions : /\ Before(Task("started", i), Task("stopped", i))'
                              /\ s = i /\ r = i
    BY <1>5
  <1> QED BY <1>3, <1>4, <1>6 DEF Before, Precede

\* A task of the current session that posts callbacks.
LEMMA NotifyTold ==
    ASSUME QueueInv, ToldInv, NEW i \in Sessions, i = sTracingSession,
           NEW d \in SessionTasks \ {"started", "stopped"}, NEW N, Ran(i, d, N),
           UNCHANGED <<clientVars, told, failed>>,
           orderly => StartedFirst',
           i \in failed /\ Has("started", i)' => Has("stopped", i)',
           Counts(i)' <=> Counts(i)
    PROVE  ToldInv'
  <1> SUFFICES ASSUME orderly PROVE ToldInv'
    BY DEF ToldInv, clientVars
  <1>1. UNCHANGED <<told, orderly, sOnTracingStateChange, sTracingSession, thread,
                    sTraceConfig, failed>>
    BY DEF clientVars
  <1>2. /\ "started" \in SessionTasks /\ "stopped" \in SessionTasks
        /\ failed \subseteq Sessions
    BY DEF SessionTasks, QueueInv, Inv, TypeOK, MuxerTypeOK
  <1>3. \A s \in Sessions \ {i} : /\ Has("started", s)' <=> Has("started", s)
                                  /\ Has("stopped", s)' <=> Has("stopped", s)
    BY <1>2 DEF Ran
  <1>4. Idle' /\ sTraceConfig'.tracingDisabled => sTracingSession' = 0
    BY <1>1 DEF ToldInv, Idle
  <1>5. \A s \in Sessions \ {sTracingSession'} : ~Has("stopped", s)'
    BY <1>1, <1>3 DEF ToldInv
  <1>6. \A s \in failed' : Has("started", s)' => Has("stopped", s)'
    BY <1>1, <1>2, <1>3 DEF ToldInv
  <1>7. \A c \in Callbacks : told'[c] => c = sOnTracingStateChange' /\ sTracingSession' # 0
    BY <1>1 DEF ToldInv
  <1>8. \A s \in Sessions, c \in Callbacks :
           s = sTracingSession' /\ c = sOnTracingStateChange' => (told'[c] <=> Counts(s)')
    BY <1>1 DEF ToldInv
  <1> QED BY <1>4, <1>5, <1>6, <1>7, <1>8 DEF ToldInv

\* News of the data source: the callback for the start is posted.
LEMMA OnObservableEventsTold ==
    ASSUME QueueInv, ToldInv, OnObservableEvents, UNCHANGED <<clientVars, told>>
    PROVE  ToldInv'
  <1> DEFINE d == "OnObservableEvents"
  <1>0. PICK i \in Sessions : i = Id
    BY Heading DEF OnObservableEvents, SessionTasks
  <1>1. /\ d \in SessionTasks \ {"started", "stopped"} /\ Running(d) /\ Inv'
        /\ tasks # <<>> /\ Head(tasks).do \notin {"started", "stopped", "StartBlocking"}
        /\ UNCHANGED <<thread, failed, orderly, sTracingSession>>
    BY MuxerInv DEF OnObservableEvents, SessionTasks, clientVars, QueueInv, Muxer, RunTask,
                    Running
  <1>2. SessionInv(i) /\ i <= sessions /\ Has(d, i)
    BY <1>0, <1>1, Heading
  <1>t. consumers \in [Sessions -> Consumer] /\ consumers[i] \in Consumer
    BY DEF QueueInv, Inv, TypeOK, MuxerTypeOK
  <1> DEFINE c == consumers[i]
             begun == c.found /\ service[i].observed = "started"
  <1>3. /\ begun => Done(NotifyStartComplete(c))
        /\ ~begun => Done(<<>>)
        /\ begun => consumers' = [consumers EXCEPT ![i] = StartNotified(c)]
        /\ ~begun => consumers' = [consumers EXCEPT ![i] = c]
    BY <1>0 DEF OnObservableEvents
  <1>4. \A s \in Sessions \ {i} : consumers'[s] = consumers[s]
    BY <1>3, <1>t
  <1>5. CASE /\ i = sTracingSession /\ ~Due("StartBlocking", i) /\ ~c.start_pending_
             /\ c.waitsStart /\ begun
    <2>1. Enabling(i)
      BY <1>2, <1>5 DEF SessionInv, Current
    <2>2. i \notin failed
      BY <1>5, <2>1 DEF Enabling, NoServiceSession
    <2>3. /\ c.onStart /\ ~Has("started", i) /\ ~Has("stopped", i) /\ ~Has("wakeStart", i)
      BY <2>1 DEF Enabling
    <2>4. Done(<<Task("started", i), Task("wakeStart", i)>>)
      BY <1>0, <1>3, <1>5, <2>3, NotifyPosts
    <2> DEFINE N == {"started", "wakeStart"}
    <2>5. Ran(i, d, N)
      <3>1. ~Due("started", i) /\ ~Due("wakeStart", i)
        BY <2>3, MuxerDue DEF MuxerTasks
      <3>2. "started" \in SessionTasks /\ "wakeStart" \in SessionTasks
        BY DEF SessionTasks
      <3> QED BY <1>0, <1>1, <2>4, <3>1, <3>2, RanTwo
    <2>6. Has("started", i)' /\ ~Has("stopped", i)'
      BY <2>3, <2>5 DEF Ran, SessionTasks
    <2>7. ASSUME orderly PROVE StartedFirst'
      <3>1. \A s \in Sessions \ {i} : ~Has("stopped", s)
        BY <1>5, <2>7 DEF ToldInv
      <3>2. \A s \in Sessions : ~Has("stopped", s)'
        BY <2>5, <2>6, <3>1 DEF Ran, SessionTasks
      <3>3. tasks' \in Seq(Tasks)
        BY <1>1 DEF Inv, TypeOK, MuxerTypeOK
      <3> QED BY <3>2, <3>3, FirstIfNone
    <2>8. Counts(i)' <=> Counts(i)
      BY <2>3, <2>6 DEF Counts
    <2> HIDE DEF N
    <2> QED BY <1>1, <1>5, <2>2, <2>5, <2>7, <2>8, NotifyTold
  <1>6. CASE ~(/\ i = sTracingSession /\ ~Due("StartBlocking", i) /\ ~c.start_pending_
               /\ c.waitsStart /\ begun)
    <2>1. begun => ~c.onStart /\ ~c.waitsStart
      <3> SUFFICES ASSUME begun PROVE ~c.onStart /\ ~c.waitsStart
        OBVIOUS
      <3>1. CASE i = sTracingSession
        <4>1. Current(i)
          BY <1>2, <3>1 DEF SessionInv
        <4>2. ~Unstarted(i) /\ ~Pending(i)
          BY <1>2 DEF Unstarted, Pending, MuxerTasks
        <4>3. ~c.waitsStart /\ Begun(i)
          BY <1>6, <3>1, <4>1, <4>2 DEF Current
        <4> QED BY <4>3 DEF Begun
      <3>2. CASE i # sTracingSession
        <4>1. Past(i)
          BY <1>2, <3>2 DEF SessionInv
        <4> QED BY <4>1 DEF Past, NoConsumer
      <3> QED BY <3>1, <3>2
    <2>2. Done(<<>>)
      BY <1>0, <1>3, <2>1, NotifyPosts
    <2>3. consumers'[i] = c
      <3>1. CASE begun
        <4>1. ~c.onStart /\ ~c.waitsStart /\ consumers'[i] = StartNotified(c)
          BY <1>3, <1>t, <2>1, <3>1
        <4>2. StartNotified(c) = c
          BY <1>t, <4>1 DEF StartNotified, Consumer
        <4> QED BY <4>1, <4>2
      <3>2. CASE ~begun
        BY <1>3, <1>t, <3>2
      <3> QED BY <3>1, <3>2
    <2>5. \A s \in Sessions : consumers'[s] = consumers[s]
      BY <1>4, <2>3
    <2> QED BY <1>1, <2>2, <2>5, QuietPosts, QuietTold
  <1> QED BY <1>5, <1>6

\* OnTracingDisabled: the callbacks that have not run are posted.
LEMMA OnTracingDisabledTold ==
    ASSUME QueueInv, ToldInv, OnTracingDisabled, UNCHANGED <<clientVars, told>>
    PROVE  ToldInv'
  <1> DEFINE d == "OnTracingDisabled"
  <1>0. PICK i \in Sessions : i = Id
    BY Heading DEF OnTracingDisabled, SessionTasks
  <1>1. /\ d \in SessionTasks \ {"started", "stopped"} /\ Running(d) /\ Inv'
        /\ UNCHANGED <<thread, failed, orderly, sTracingSession>>
    BY MuxerInv DEF OnTracingDisabled, SessionTasks, clientVars, QueueInv, Muxer, RunTask
  <1>2. SessionInv(i) /\ i <= sessions /\ Has(d, i)
    BY <1>0, <1>1, Heading
  <1>t. consumers \in [Sessions -> Consumer] /\ consumers[i] \in Consumer
    BY DEF QueueInv, Inv, TypeOK, MuxerTypeOK
  <1> DEFINE c == consumers[i]
             e == [StopNotified(StartNotified(c)) EXCEPT !.stopped_ = TRUE]
  <1>3. c.found => /\ Done(NotifyStartComplete(c) \o NotifyStopComplete(c))
                   /\ consumers' = [consumers EXCEPT ![i] = e]
    BY <1>0 DEF OnTracingDisabled
  <1>4. i = sTracingSession
    BY <1>2 DEF SessionInv, Past
  <1>5. Current(i)
    BY <1>2, <1>4 DEF SessionInv
  <1>6. ~Unstarted(i) /\ ~Pending(i)
    BY <1>2 DEF Unstarted, Pending, MuxerTasks
  <1>7. ~e.onStart
    BY <1>t DEF StopNotified, StartNotified, Consumer
  <1> HIDE DEF e
  <1>8. tasks' \in Seq(Tasks)
    BY <1>1 DEF Inv, TypeOK, MuxerTypeOK
  <1>9. /\ "started" \in SessionTasks /\ "wakeStart" \in SessionTasks
        /\ "stopped" \in SessionTasks /\ "wakeStop" \in SessionTasks
        /\ "StartBlocking" \in SessionTasks
        /\ Task("started", i) \in Tasks /\ Task("wakeStart", i) \in Tasks
        /\ Task("stopped", i) \in Tasks /\ Task("wakeStop", i) \in Tasks
    BY TaskType DEF SessionTasks
  <1>10. \A s \in Sessions \ {i} : ~Has("started", s)
    BY <1>4, OneStarted
  <1>11. CASE Enabling(i) /\ c.waitsStart /\ ~c.start_pending_
    <2>1. /\ c.found /\ c.onStart /\ c.onStop /\ ~c.waitsStop
          /\ ~Has("started", i) /\ ~Has("stopped", i) /\ ~Has("wakeStart", i)
      BY <1>11 DEF Enabling
    <2>2. NotifyStartComplete(c) \o NotifyStopComplete(c) =
             <<Task("started", i), Task("wakeStart", i), Task("stopped", i)>>
      <3>1. /\ NotifyStartComplete(c) = <<Task("started", i), Task("wakeStart", i)>>
            /\ NotifyStopComplete(c) = <<Task("stopped", i)>>
        BY <1>0, <1>11, <2>1, NotifyPosts
      <3> QED BY <1>9, <3>1, Concat, ZenonT(30)
    <2>3. Done(<<Task("started", i), Task("wakeStart", i), Task("stopped", i)>>)
      BY <1>3, <2>1, <2>2
    <2> DEFINE N == {"started", "wakeStart", "stopped"}
    <2>4. Ran(i, d, N) /\ Before(Task("started", i), Task("stopped", i))'
      <3>1. ~Due("started", i) /\ ~Due("wakeStart", i) /\ ~Due("stopped", i)
        BY <2>1, MuxerDue DEF MuxerTasks
      <3> QED BY <1>0, <1>1, <1>9, <2>3, <3>1, RanThree
    <2>5. Has("started", i)' /\ Has("stopped", i)'
      BY <1>9, <2>4 DEF Ran
    <2>6. ASSUME orderly PROVE StartedFirst'
      <3>1. \A s \in Sessions \ {i} : ~Has("stopped", s)
        BY <1>4, <2>6 DEF ToldInv
      <3>2. \A s \in Sessions \ {i} : ~Has("started", s)' /\ ~Has("stopped", s)'
        BY <1>9, <1>10, <2>4, <3>1 DEF Ran
      <3> QED BY <1>8, <2>4, <3>2, FirstIfNone
    <2>7. Counts(i)' <=> Counts(i)
      BY <2>1, <2>5 DEF Counts
    <2> HIDE DEF N
    <2> QED BY <1>1, <1>4, <2>4, <2>5, <2>6, <2>7, NotifyTold
  <1>12. CASE Begun(i) /\ ~c.waitsStart /\ ~c.start_pending_
    <2>1. ~Runs(i) /\ ~Over(i)
      BY <1>2 DEF Runs, Over
    <2>2. thread.call = "stopping" /\ c.waitsStop /\ Stopping(i)
      BY <1>12, <2>1 DEF Begun
    <2>3. /\ c.found /\ ~c.onStart /\ c.onStop
          /\ \A do \in {"started", "stopped", "wakeStop"} : ~Has(do, i)
      BY <1>2, <1>12, <2>2 DEF Begun, Stopping
    <2>4. NotifyStartComplete(c) \o NotifyStopComplete(c) =
             <<Task("stopped", i), Task("wakeStop", i)>>
      <3>1. /\ NotifyStartComplete(c) = <<>>
            /\ NotifyStopComplete(c) = <<Task("stopped", i), Task("wakeStop", i)>>
        BY <1>0, <1>12, <2>2, <2>3, NotifyPosts
      <3> QED BY <1>9, <3>1, Concat
    <2>5. Done(<<Task("stopped", i), Task("wakeStop", i)>>)
      BY <1>3, <2>3, <2>4
    <2> DEFINE N == {"stopped", "wakeStop"}
    <2>6. Ran(i, d, N)
      <3>1. ~Due("wakeStop", i) /\ ~Due("stopped", i)
        BY <2>3, MuxerDue DEF MuxerTasks
      <3> QED BY <1>0, <1>1, <1>9, <2>5, <3>1, RanTwo
    <2>7. consumers'[i] = e
      BY <1>3, <1>t, <2>3
    <2>8. /\ ~Has("started", i)' /\ Has("stopped", i)'
          /\ Due("StartBlocking", i)' <=> Due("StartBlocking", i)
      BY <1>9, <2>3, <2>6 DEF Ran
    <2>9. \A s \in Sessions : ~Has("started", s)'
      BY <1>9, <1>10, <2>6, <2>8 DEF Ran
    <2>10. StartedFirst'
      BY <1>8, <2>9, FirstIfNone
    <2>11. Counts(i)' <=> Counts(i)
      BY <1>7, <2>3, <2>7, <2>8 DEF Counts
    <2> HIDE DEF N
    <2> QED BY <1>1, <1>4, <2>6, <2>8, <2>10, <2>11, NotifyTold
  <1> QED BY <1>5, <1>6, <1>11, <1>12 DEF Current

\* A session whose end is about to be told has begun, and tells nothing else.
LEMMA OneStopped ==
    ASSUME QueueInv, NEW s \in Sessions, s = sTracingSession, Has("stopped", s)
    PROVE  Begun(s) /\ ~consumers[s].onStop
  <1>1. Current(s)
    BY DEF QueueInv, SessionInv
  <1>2. ~Unstarted(s) /\ ~Pending(s) /\ ~Enabling(s)
    BY DEF Unstarted, Pending, Enabling, MuxerTasks
  <1>3. Begun(s)
    BY <1>1, <1>2 DEF Current
  <1>4. ~Stopping(s)
    BY DEF Stopping
  <1>5. Runs(s) \/ Over(s)
    BY <1>3, <1>4 DEF Begun
  <1> QED BY <1>3, <1>5 DEF Runs, Over

\* A callback runs.
LEMMA CallBackTold ==
    ASSUME QueueInv, ToldInv, CallBack
    PROVE  ToldInv'
  <1>0. PICK d \in {"started", "stopped"} :
           Running(d) /\ told' = [told EXCEPT ![sOnTracingStateChange] = (d = "started")]
    <2>1. ("started" = "started") = TRUE /\ ("stopped" = "started") = FALSE
      OBVIOUS
    <2> QED BY <2>1 DEF CallBack
  <1>1. /\ Done(<<>>) /\ UNCHANGED <<consumers, failed, clientVars>> /\ Inv'
        /\ d \in SessionTasks /\ tasks # <<>> /\ Head(tasks).do = d
    BY <1>0, MuxerInv DEF CallBack, SessionTasks, Running, QueueInv, Muxer
  <1>2. UNCHANGED <<orderly, sOnTracingStateChange, sTracingSession, thread, sTraceConfig>>
    BY <1>1 DEF clientVars
  <1>3. PICK i \in Sessions : i = Id /\ Has(d, i) /\ Head(tasks) = Task(d, i)
    BY <1>0, <1>1, Heading
  <1>4. Ran(i, d, {})
    BY <1>0, <1>1, <1>2, <1>3, RanNone
  <1>5. /\ tasks' \in Seq(Tasks) /\ failed \subseteq Sessions /\ MuxerTypeOK
        /\ told \in [Callbacks -> BOOLEAN] /\ tasks \in Seq(Tasks)
    BY <1>1 DEF QueueInv, Inv, TypeOK, MuxerTypeOK
  <1>6. /\ "started" \in SessionTasks /\ "stopped" \in SessionTasks
        /\ "StartBlocking" \in SessionTasks
    BY DEF SessionTasks
  <1>7. /\ \A s \in Sessions \ {i} : /\ Has("started", s)' <=> Has("started", s)
                                     /\ Has("stopped", s)' <=> Has("stopped", s)
        /\ Has("started", i)' <=> Has("started", i) /\ d # "started"
        /\ Has("stopped", i)' <=> Has("stopped", i) /\ d # "stopped"
        /\ Due("StartBlocking", i)' <=> Due("StartBlocking", i)
    BY <1>4, <1>6 DEF Ran
  <1> SUFFICES ASSUME orderly PROVE ToldInv'
    BY <1>2 DEF ToldInv
  <1>8. i = sTracingSession
    BY <1>3, OneStarted DEF ToldInv
  <1>9. \A s \in Sessions : ~Has("started", s)'
    <2>1. CASE d = "started"
      BY <1>7, <1>8, <2>1, OneStarted
    <2>2. CASE d = "stopped"
      <3>1. ASSUME NEW s \in Sessions, Has("started", s) PROVE FALSE
        <4>1. PICK j \in 1 .. Len(tasks) : tasks[j] = Task("started", s)
          BY <3>1 DEF Has, Queued
        <4>2. 1 \in 1 .. Len(tasks) /\ tasks[1].do = "stopped" /\ tasks[j].do = "started"
          BY <1>1, <1>5, <2>2, <4>1, HeadTask, TaskSame
        <4>3. j < 1
          BY <4>2 DEF ToldInv, StartedFirst
        <4> QED BY <4>3
      <3> QED BY <1>7, <3>1
    <2> QED BY <2>1, <2>2
  <1>10. StartedFirst'
    BY <1>5, <1>9, FirstIfNone
  <1>11. Idle' /\ sTraceConfig'.tracingDisabled => sTracingSession' = 0
    BY <1>2 DEF ToldInv, Idle
  <1>12. \A s \in Sessions \ {sTracingSession'} : ~Has("stopped", s)'
    BY <1>2, <1>7, <1>8 DEF ToldInv
  <1>13. \A s \in failed' : Has("started", s)' => Has("stopped", s)'
    BY <1>1, <1>5, <1>9
  <1>14. /\ \A c \in Callbacks : c # sOnTracingStateChange => told'[c] = told[c]
         /\ \A c \in Callbacks : c = sOnTracingStateChange => told'[c] = (d = "started")
    BY <1>0, <1>5
  <1>15. sTracingSession # 0
    BY <1>8, MuxerAssumption DEF Sessions
  <1>16. \A c \in Callbacks : told'[c] => c = sOnTracingStateChange' /\ sTracingSession' # 0
    BY <1>2, <1>14, <1>15, Zenon DEF ToldInv
  <1>17. Counts(i)' <=> d = "started"
    <2>1. CASE d = "started"
      <3>1. /\ Begun(i) /\ ~Due("StartBlocking", i) /\ thread.call = "starting"
        BY <1>3, <2>1, OneStarted
      <3>2. ~consumers[i].onStart /\ Runs(i)
        BY <3>1 DEF Begun
      <3>3. consumers[i].onStop \/ Has("stopped", i)
        <4>1. CASE i \in failed
          BY <1>3, <2>1, <4>1 DEF ToldInv
        <4>2. CASE i \notin failed
          BY <3>2, <4>2 DEF Runs
        <4> QED BY <4>1, <4>2
      <3>4. consumers'[i].onStop \/ Has("stopped", i)'
        BY <1>1, <1>7, <2>1, <3>3
      <3> QED BY <1>1, <1>7, <1>9, <2>1, <3>1, <3>2, <3>4 DEF Counts
    <2>2. CASE d = "stopped"
      <3>1. ~consumers[i].onStop
        BY <1>3, <1>8, <2>2, OneStopped
      <3>2. ~consumers'[i].onStop /\ ~Has("stopped", i)'
        BY <1>1, <1>7, <2>2, <3>1
      <3> QED BY <2>2, <3>2 DEF Counts
    <2> QED BY <2>1, <2>2
  <1>18. \A s \in Sessions, c \in Callbacks :
            s = sTracingSession' /\ c = sOnTracingStateChange' => (told'[c] <=> Counts(s)')
    BY <1>2, <1>8, <1>14, <1>17
  <1> QED BY <1>10, <1>11, <1>12, <1>13, <1>16, <1>18 DEF ToldInv

\* The queue does not change.
LEMMA SameQueueTold ==
    ASSUME UNCHANGED tasks
    PROVE  Calm /\ Queued' = Queued
  <1>1. Queued' = Queued
    BY DEF Queued
  <1>2. StartedFirst => StartedFirst'
    BY DEF StartedFirst
  <1> QED BY <1>1, <1>2 DEF Calm, Has

\* Tasks that are no callbacks are posted.
LEMMA AppendQuiet ==
    ASSUME tasks \in Seq(Tasks), NEW new, Len(new) \in Nat, Len(tasks') = Len(tasks) + Len(new),
           \A j \in 1 .. Len(tasks) : tasks'[j] = tasks[j],
           \A j \in 1 .. Len(new) : tasks'[Len(tasks) + j] = new[j],
           NEW X, {"started", "stopped"} \subseteq X, \A j \in 1 .. Len(new) : new[j].do \notin X
    PROVE  /\ Calm
           /\ \A t : t.do \in X => (t \in Queued' <=> t \in Queued)
  <1>1. /\ Len(tasks) \in Nat /\ Len(tasks) - 0 = Len(tasks) /\ 0 <= Len(tasks) /\ 0 \in {0, 1}
        /\ \A j \in 1 .. Len(tasks) : j + 0 = j
        /\ 0 = 1 => tasks[1].do \notin X
    OBVIOUS
  <1>2. /\ Len(tasks') = (Len(tasks) - 0) + Len(new)
        /\ \A j \in 1 .. Len(tasks) - 0 : tasks'[j] = tasks[j + 0]
        /\ \A j \in 1 .. Len(new) : tasks'[(Len(tasks) - 0) + j] = new[j]
    BY <1>1
  <1>3. /\ \A t : t.do \in X => (t \in Queued' <=> t \in Queued)
        /\ StartedFirst => StartedFirst'
    BY <1>1, <1>2, NamesKept
  <1> QED BY <1>3, TaskSame DEF Calm, Has

\* An event is traced, or a timeout passes.
LEMMA OthersTold ==
    ASSUME QueueInv, ToldInv, Others
    PROVE  ToldInv'
  <1>1. /\ UNCHANGED <<told, orderly, sOnTracingStateChange, sTracingSession, thread,
                       sTraceConfig, failed, consumers>>
    BY DEF Others, clientVars, TraceEvent, Timeout
  <1>2. Posted' = Posted /\ (Idle' <=> Idle)
    BY <1>1 DEF Posted, Idle
  <1>3. Calm /\ \A s : Due("StartBlocking", s)' <=> Due("StartBlocking", s)
    <2>1. CASE UNCHANGED tasks
      BY <1>2, <2>1, SameQueueTold DEF Due
    <2>2. ASSUME NEW i \in Sessions,
                 tasks' = tasks \o Observing(i) \o <<Task("OnTracingDisabled", i)>>
          PROVE  Calm /\ \A s : Due("StartBlocking", s)' <=> Due("StartBlocking", s)
      <3> DEFINE post == Observing(i)
                 last == <<Task("OnTracingDisabled", i)>>
      <3>1. Task("OnTracingDisabled", i) \in Quiet /\ Task("OnObservableEvents", i) \in Quiet
        BY QuietPosts DEF SessionTasks
      <3>2. post \in Seq(Quiet) /\ last \in Seq(Quiet)
        BY <3>1, QuietPosts DEF Observing
      <3>3. Quiet \subseteq Tasks /\ \A t \in Quiet : t.do \notin {"started", "stopped", "StartBlocking"}
        BY DEF Quiet
      <3> HIDE DEF post, last
      <3>4. tasks \in Seq(Tasks) /\ post \in Seq(Tasks) /\ last \in Seq(Tasks)
        BY <3>2, <3>3 DEF QueueInv, Inv, TypeOK, MuxerTypeOK
      <3>5. tasks' = tasks \o (post \o last)
        <4>1. tasks' = (tasks \o post) \o last
          BY <2>2 DEF post, last
        <4>2. (tasks \o post) \o last = tasks \o (post \o last)
          BY <3>4, ConcatAssociative
        <4> QED BY <4>1, <4>2
      <3>6. PICK new \in Seq(Quiet) : tasks' = tasks \o new
        BY <3>2, <3>5, QuietPosts
      <3>7. new \in Seq(Tasks) /\ Len(new) \in Nat
        BY <3>3
      <3>8. /\ Len(tasks') = Len(tasks) + Len(new)
            /\ \A j \in 1 .. Len(tasks) : tasks'[j] = tasks[j]
            /\ \A j \in 1 .. Len(new) : tasks'[Len(tasks) + j] = new[j]
        BY <3>4, <3>6, <3>7, ConcatAt
      <3> DEFINE X == {"started", "stopped", "StartBlocking"}
      <3>9. {"started", "stopped"} \subseteq X /\ \A j \in 1 .. Len(new) : new[j].do \notin X
        BY <3>3
      <3>10. "StartBlocking" \in X
        OBVIOUS
      <3> HIDE DEF X
      <3>11. Calm /\ \A t : t.do \in X => (t \in Queued' <=> t \in Queued)
        BY <3>4, <3>7, <3>8, <3>9, AppendQuiet
      <3> QED BY <1>2, <3>10, <3>11, TaskSame DEF Due
    <2>3. \/ UNCHANGED tasks
          \/ \E i \in Sessions :
                tasks' = tasks \o Observing(i) \o <<Task("OnTracingDisabled", i)>>
      BY DEF Others, TraceEvent, Timeout
    <2> QED BY <2>1, <2>2, <2>3
  <1>4. \A s \in Sessions : s = sTracingSession => (Counts(s)' <=> Counts(s))
    BY <1>1, <1>3, CountsKept
  <1> QED BY <1>1, <1>2, <1>3, <1>4, CalmTold

\* One task of the call is posted.
LEMMA PostTold ==
    ASSUME QueueInv, ToldInv, Post
    PROVE  ToldInv'
  <1> DEFINE h == Head(thread.posts)
             new == <<h>>
             X == {"started", "stopped"}
  <1>1. /\ tasks' = Append(tasks, h) /\ thread.posts # <<>> /\ thread'.call = thread.call
        /\ UNCHANGED <<told, orderly, sOnTracingStateChange, sTracingSession,
                       sTraceConfig, failed, consumers>>
    BY CallWoken DEF Post
  <1>2. tasks \in Seq(Tasks)
    BY DEF QueueInv, Inv, TypeOK, MuxerTypeOK
  <1>3. h \in Tasks
    BY <1>1, CallWoken
  <1>4. /\ Len(new) = 1 /\ new[1] = h /\ 1 .. Len(new) = {1}
        /\ Len(tasks') = Len(tasks) + 1 /\ tasks'[Len(tasks) + 1] = h
        /\ \A j \in 1 .. Len(tasks) : tasks'[j] = tasks[j]
    BY <1>1, <1>2, <1>3
  <1>5. Queued' = Queued \cup {h} /\ Posted' \cup {h} = Posted
    BY PostQueue
  <1>6. h.do \notin X
    BY <1>5 DEF QueueInv, PostsInv, ClientTasks, GlobalTasks
  <1> HIDE DEF h, new, X
  <1>7. Calm
    <2>1. /\ Len(new) \in Nat /\ Len(tasks') = Len(tasks) + Len(new)
          /\ \A j \in 1 .. Len(new) : tasks'[Len(tasks) + j] = new[j] /\ new[j].do \notin X
          /\ {"started", "stopped"} \subseteq X
      BY <1>4, <1>6 DEF X
    <2> QED BY <1>2, <1>4, <2>1, AppendQuiet
  <1>8. \A s : Due("StartBlocking", s)' <=> Due("StartBlocking", s)
    BY <1>5 DEF Due
  <1>9. \A s \in Sessions : s = sTracingSession => (Counts(s)' <=> Counts(s))
    BY <1>1, <1>7, <1>8, CountsKept
  <1> QED BY <1>1, <1>7, <1>9, CalmTold DEF Idle

\* The steps of the calls that leave the queue and the session alone: startTracing
\* returns, endTracing begins, goes on, and returns.
LEMMA CallTold ==
    ASSUME QueueInv, ToldInv, Started \/ EndTracing \/ Stopped \/ Write
    PROVE  ToldInv'
  <1>1. /\ UNCHANGED <<tasks, told, sOnTracingStateChange, sTracingSession, failed, consumers,
                       service>>
        /\ orderly' = orderly \/ orderly' = FALSE
        /\ thread.posts = <<>>
    BY DEF Started, EndTracing, Stopped, Write, Waiting, muxerVars, QueueInv, PostsInv
  <1> SUFFICES ASSUME orderly' PROVE ToldInv'
    BY DEF ToldInv
  <1>2. orderly' = orderly
    BY <1>1
  <1>3. Calm /\ Queued' = Queued
    BY <1>1, SameQueueTold
  <1>4. Idle' /\ sTraceConfig'.tracingDisabled =>
           (Idle /\ sTraceConfig.tracingDisabled) \/ sTracingSession = 0
    <2>t. sTraceConfig \in [tracingDisabled : BOOLEAN, saving : BOOLEAN,
                            hostFilename : Files \cup {NoFile}]
      BY DEF QueueInv, Inv, TypeOK
    <2>1. CASE Started
      BY <2>1, <2>t DEF Started
    <2>2. CASE EndTracing
      <3>1. thread'.call = "stopping"
        BY <1>2, <2>2 DEF EndTracing
      <3> QED BY <3>1 DEF Idle
    <2>3. CASE Stopped
      BY <2>3 DEF Stopped, Idle
    <2>4. CASE Write
      BY <2>4 DEF Write, Waiting, QueueInv, WokenInv
    <2> QED BY <2>1, <2>2, <2>3, <2>4
  <1>5. ASSUME NEW s \in Sessions, s = sTracingSession
        PROVE  Due("StartBlocking", s)' <=> Due("StartBlocking", s)
    <2>1. CASE thread'.posts = <<>>
      BY <1>1, <1>3, <2>1 DEF Due, Posted
    <2>2. ASSUME NEW a \in {"StopBlocking", "ReadTrace"}, thread'.posts = <<Task(a, s)>>,
                 ~Due(a, s)
          PROVE  Due("StartBlocking", s)' <=> Due("StartBlocking", s)
      <3>1. a \in ClientTasks
        BY DEF ClientTasks
      <3>2. \A do : Due(do, s)' <=> Due(do, s) \/ do = a
        BY <1>1, <2>2, <3>1, PostsOne
      <3> QED BY <3>2
    <2>3. CASE Started \/ Write
      <3>1. thread'.posts = thread.posts
        BY <2>3, CallWoken DEF Started, Write
      <3> QED BY <1>1, <2>1, <3>1
    <2>4. CASE EndTracing
      <3>1. thread.call = "idle" /\ thread'.posts = <<Task("StopBlocking", s)>> /\ s # 0
        BY <1>2, <1>5, <2>4, CallWoken DEF EndTracing, Idle
      <3>2. Begun(s)
        BY <1>5, <3>1, HasBegun
      <3>3. ~Due("StopBlocking", s)
        BY <3>1, <3>2 DEF Begun
      <3> QED BY <2>2, <3>1, <3>3
    <2>5. CASE Stopped
      <3>1. thread.call = "stopping" /\ thread'.posts = <<Task("ReadTrace", s)>> /\ s # 0
        BY <1>5, <2>5, CallWoken DEF Stopped, Waiting
      <3>2. Begun(s)
        BY <1>5, <3>1, HasBegun
      <3>3. ~Due("ReadTrace", s)
        BY <3>1, <3>2 DEF Begun
      <3> QED BY <2>2, <3>1, <3>3
    <2> QED BY <2>3, <2>4, <2>5
  <1>6. \A s \in Sessions : s = sTracingSession => (Counts(s)' <=> Counts(s))
    BY <1>1, <1>3, <1>5, CountsKept
  <1> QED BY <1>1, <1>2, <1>3, <1>4, <1>6, CalmTold

\* Nobody has been told of a session if there is none, or if it is over.
LEMMA NoneTold ==
    ASSUME QueueInv, ToldInv, orderly,
           \/ sTracingSession = 0
           \/ \E i \in Sessions : i = sTracingSession /\ ~Counts(i)
    PROVE  \A c \in Callbacks : ~told[c]
  BY DEF ToldInv

\* endTracing lets the session go.
LEMMA ReadTold ==
    ASSUME QueueInv, ToldInv, Read
    PROVE  ToldInv'
  <1>1. /\ UNCHANGED <<tasks, told, sOnTracingStateChange, orderly, failed>>
        /\ sTracingSession' = 0 /\ thread.call = "reading" /\ thread'.call = "writing"
    BY DEF Read, Waiting
  <1> SUFFICES ASSUME orderly PROVE ToldInv'
    BY <1>1 DEF ToldInv
  <1>2. Calm
    BY <1>1, SameQueueTold
  <1>3. sTracingSession # 0 /\ 0 \notin Sessions
    BY <1>1, CallWoken DEF QueueInv, WokenInv
  <1>4. PICK i \in Sessions : i = sTracingSession
    BY <1>3, CallWoken
  <1>5. Begun(i)
    BY <1>1, <1>3, <1>4, HasBegun
  <1>6. Over(i) /\ ~Has("stopped", i)
    BY <1>1, <1>5 DEF Begun
  <1>7. ~Counts(i)
    BY <1>6 DEF Over, Counts
  <1>8. \A c \in Callbacks : ~told'[c]
    BY <1>1, <1>4, <1>7, NoneTold
  <1>9. \A s \in Sessions : ~Has("stopped", s)'
    BY <1>2, <1>4, <1>6 DEF Calm, ToldInv
  <1>10. \A s \in failed' : Has("started", s)' => Has("stopped", s)'
    BY <1>1, <1>2 DEF Calm, ToldInv
  <1>11. StartedFirst'
    BY <1>2 DEF Calm, ToldInv
  <1> QED BY <1>1, <1>3, <1>8, <1>9, <1>10, <1>11 DEF ToldInv, Idle

\* startTracing begins.
LEMMA StartTracingTold ==
    ASSUME QueueInv, ToldInv, NEW backend, NEW f, NEW c, StartTracing(backend, f, c)
    PROVE  ToldInv'
  <1>1. /\ UNCHANGED <<tasks, told, failed, consumers>>
        /\ orderly' = orderly \/ orderly' = FALSE
        /\ Idle
    BY DEF StartTracing
  <1> SUFFICES ASSUME orderly' PROVE ToldInv'
    BY DEF ToldInv
  <1>2. orderly' = orderly
    BY <1>1
  <1>3. /\ sTraceConfig.tracingDisabled /\ thread'.call # "idle"
        /\ sTracingSession' = sTracingSession \/ sTracingSession' = sessions + 1
    <2>1. \/ orderly' = FALSE
          \/ /\ sTraceConfig.tracingDisabled /\ sTracingSession' = sessions + 1
             /\ thread' = [call |-> "starting",
                           posts |-> Initializing \o Starting(sessions + 1)]
          \/ /\ sTraceConfig.tracingDisabled /\ sTracingSession' = sTracingSession
             /\ thread' = [call |-> "startingSystem", posts |-> Initializing]
      BY Zenon DEF StartTracing
    <2> QED BY <2>1
  <1>4. sTracingSession = 0 /\ 0 \notin Sessions
    BY <1>1, <1>2, <1>3, CallWoken DEF ToldInv
  <1>5. Calm
    BY <1>1, SameQueueTold
  <1>6. \A x \in Callbacks : ~told'[x]
    BY <1>1, <1>2, <1>4, NoneTold
  <1>7. \A s \in Sessions : ~Has("stopped", s)'
    BY <1>2, <1>4, <1>5 DEF Calm, ToldInv
  <1>8. \A s \in failed' : Has("started", s)' => Has("stopped", s)'
    BY <1>1, <1>2, <1>5 DEF Calm, ToldInv
  <1>9. StartedFirst'
    BY <1>2, <1>5 DEF Calm, ToldInv
  <1>10. \A s \in Sessions : s = sTracingSession' => ~Counts(s)'
    <2> SUFFICES ASSUME NEW s \in Sessions, s = sTracingSession' PROVE ~Counts(s)'
      OBVIOUS
    <2>1. s > sessions
      BY <1>3, <1>4, CallWoken
    <2>2. consumers[s] = NoConsumer
      BY <2>1 DEF QueueInv, SessionInv, New
    <2>3. ~consumers'[s].onStop
      BY <1>1, <2>2 DEF NoConsumer
    <2> QED BY <1>7, <2>3 DEF Counts
  <1> QED BY <1>3, <1>6, <1>7, <1>8, <1>9, <1>10 DEF ToldInv, Idle

\* Nobody has been told anything.
LEMMA ToldInit == Init => ToldInv
  <1> SUFFICES ASSUME Init PROVE ToldInv
    OBVIOUS
  <1>1. /\ tasks = <<>> /\ failed = {} /\ sTracingSession = 0
        /\ told = [x \in Callbacks |-> FALSE]
    BY DEF Init, MuxerInit
  <1>2. 1 .. Len(tasks) = {}
    BY <1>1
  <1>3. Queued = {} /\ StartedFirst
    BY <1>2 DEF Queued, StartedFirst
  <1>4. 0 \notin Sessions
    BY MuxerAssumption DEF Sessions
  <1>5. \A x \in Callbacks : ~told[x]
    BY <1>1
  <1>6. \A s : ~Has("stopped", s)
    BY <1>3 DEF Has
  <1> QED BY <1>1, <1>3, <1>4, <1>5, <1>6 DEF ToldInv

\* Every step keeps what the callbacks have been told.
LEMMA ToldNext == QueueInv /\ ToldInv /\ [Next]_vars => ToldInv'
  <1> SUFFICES ASSUME QueueInv, ToldInv, [Next]_vars PROVE ToldInv'
    OBVIOUS
  <1>1. CASE UNCHANGED vars
    <2>1. UNCHANGED <<tasks, thread, sTracingSession, failed, consumers, told, orderly,
                      sOnTracingStateChange, sTraceConfig>>
      BY <1>1 DEF vars, muxerVars, clientVars
    <2>2. Calm /\ Queued' = Queued /\ Posted' = Posted
      BY <2>1, SameQueueTold DEF Posted
    <2>3. \A s : Due("StartBlocking", s)' <=> Due("StartBlocking", s)
      BY <2>2 DEF Due
    <2>4. \A s \in Sessions : s = sTracingSession => (Counts(s)' <=> Counts(s))
      BY <2>1, <2>2, <2>3, CountsKept
    <2> QED BY <2>1, <2>2, <2>4, CalmTold DEF Idle
  <1>2. CASE Client
    BY <1>2, StartTracingTold, CallTold DEF Client
  <1>3. CASE Continue
    BY <1>3, PostTold, CallTold, ReadTold DEF Continue
  <1>4. CASE Muxer
    BY <1>4, SetUpTold, StartBlockingTold, OnConnectTold, OnObservableEventsTold,
       OnTracingDisabledTold, StopBlockingTold, OtherTold, DestroyTold, CallBackTold
       DEF Muxer, RunTask
  <1>5. CASE Others
    BY <1>5, OthersTold
  <1> QED BY <1>1, <1>2, <1>3, <1>4, <1>5 DEF Next

\* When no call is on, the current session has been told of and has not ended.
LEMMA QueueTold == QueueInv /\ ToldInv => ToldOnReturn
  <1> SUFFICES ASSUME QueueInv, ToldInv, Idle, orderly, sTracingSession \notin failed,
                      NEW c \in Callbacks
               PROVE  told[c] = (sTracingSession # 0 /\ c = sOnTracingStateChange)
    BY DEF ToldOnReturn
  <1>1. told[c] \in BOOLEAN
    BY DEF QueueInv, Inv, TypeOK
  <1>2. told[c] => sTracingSession # 0 /\ c = sOnTracingStateChange
    BY DEF ToldInv
  <1>3. ASSUME sTracingSession # 0, c = sOnTracingStateChange PROVE told[c]
    <2>1. thread.call = "idle"
      BY DEF Idle
    <2>2. PICK i \in Sessions : i = sTracingSession
      BY <1>3, CallWoken
    <2>3. Begun(i) /\ ~Due("StartBlocking", i)
      BY <1>3, <2>1, <2>2, HasBegun
    <2>4. ~Has("started", i) /\ ~consumers[i].onStart /\ Runs(i)
      BY <2>1, <2>3 DEF Begun
    <2>5. consumers[i].onStop
      BY <2>2, <2>4 DEF Runs
    <2>6. Counts(i)
      BY <2>3, <2>4, <2>5 DEF Counts
    <2> QED BY <1>3, <2>2, <2>6 DEF ToldInv
  <1> QED BY <1>1, <1>2, <1>3, Zenon

\* When startTracing returns, its callback, and no other, has been told of the
\* session, and when endTracing returns, of its end, unless the session could
\* not be started: the tasks of started and stopped, which run on the muxer's
\* thread, have run by then, and in this order.
THEOREM ToldOnReturns == Spec => []ToldOnReturn
  <1> QED BY QueueInit, QueueNext, ToldInit, ToldNext, QueueTold, PTL DEF Spec

-----------------------------------------------------------------------------
(***************************************************************************)
(* What the file holds                                                     *)
(***************************************************************************)

\* The data source of a session does not trace once its end is under way, nor
\* before it was started or if it was refused, and the trace of a session that
\* was disabled in time lacks at most the last event.
SourceInv(s) ==
    /\ Has("StopDataSource_AsyncEnd", s) => sources[s] # "enabled"
    /\ service[s].state = "DISABLED" /\ s \notin late =>
          sources[s] # "enabled" /\ service[s].frozen >= written[s] - 1
    /\ service[s].state = "none" /\ (s > sessions \/ s = sTracingSession) =>
          sources[s] # "enabled" /\ written[s] = 0

\* A trace is that of session s, and no event that it lacks is still to come.
Holds(trace, s) ==
    /\ trace.sess = s
    /\ s \notin late => sources[s] # "enabled" /\ trace.events >= written[s] - 1

\* As long as the calls alternate: a trace that was read is that of the current
\* session, on its way from raw_trace to hostTrace and to the file that the
\* session was started with.
SavedInv ==
    /\ \A s \in Sessions : SourceInv(s)
    /\ orderly =>
        /\ sTracingSession # 0 \/ thread.call = "writing" =>
              sTraceConfig.hostFilename = named /\ named \in Files
        /\ thread.call = "reading" /\ (woken = "read" \/ Has("wakeRead", sTracingSession)) =>
              Holds(raw_trace, sessions)
        /\ thread.call = "writing" => sessions > 0 /\ Holds(hostTrace, sessions)
        /\ Idle /\ sTraceConfig.tracingDisabled /\ sessions > 0 =>
              Holds(files[named], sessions)

\* Tasks that neither end a read nor answer for the data source.
Fresh == {t \in Tasks : t.do \notin {"wakeRead", "StopDataSource_AsyncEnd"}}

\* Short sequences of such tasks.
LEMMA FreshPosts ==
    /\ <<>> \in Seq(Fresh)
    /\ \A t \in Fresh : <<t>> \in Seq(Fresh)
    /\ \A t, u, v \in Fresh : <<t, u, v>> \in Seq(Fresh)
    /\ \A p, q \in Seq(Fresh) : p \o q \in Seq(Fresh)
    /\ \A c, do, id : Task(do, id) \in Fresh => If(c, do, id) \in Seq(Fresh)
    /\ \A do \in SessionTasks \ {"wakeRead", "StopDataSource_AsyncEnd"}, s \in Sessions :
          Task(do, s) \in Fresh
    /\ Task("ProducerConnect", 0) \in Fresh
  <1>1. \A t \in Fresh : <<t>> \in Seq(Fresh)
    OBVIOUS
  <1>2. \A t, u, v \in Fresh : <<t, u, v>> \in Seq(Fresh)
    OBVIOUS
  <1>3. \A p, q \in Seq(Fresh) : p \o q \in Seq(Fresh)
    OBVIOUS
  <1>4. \A c, do, id : Task(do, id) \in Fresh => If(c, do, id) \in Seq(Fresh)
    BY <1>1 DEF If
  <1>5. \A do \in SessionTasks \ {"wakeRead", "StopDataSource_AsyncEnd"}, s \in Sessions :
           Task(do, s) \in Fresh
    BY TaskType, TaskSame DEF Fresh
  <1>6. Task("ProducerConnect", 0) \in Fresh
    BY TaskType, TaskSame DEF Fresh, GlobalTasks
  <1> QED BY <1>1, <1>2, <1>3, <1>4, <1>5, <1>6

\* No more reads have ended and no more answers wait.
NoneFresh ==
    \A do \in {"wakeRead", "StopDataSource_AsyncEnd"} : \A s : Has(do, s)' => Has(do, s)

\* The queue after a task that posts only such tasks.
LEMMA DoneFresh ==
    ASSUME QueueInv, tasks # <<>>, NEW new \in Seq(Fresh), Done(new)
    PROVE  NoneFresh
  <1>1. MuxerTypeOK /\ tasks \in Seq(Tasks) /\ Len(tasks) \in Nat /\ Len(tasks) >= 1
    BY DEF QueueInv, Inv, TypeOK, MuxerTypeOK
  <1>2. new \in Seq(Tasks) /\ Len(new) \in Nat
    BY DEF Fresh
  <1>3. \A j \in 1 .. Len(new) : new[j].do \notin {"wakeRead", "StopDataSource_AsyncEnd"}
    BY DEF Fresh
  <1> DEFINE b == Len(tasks) - 1
  <1>4. /\ Len(tasks') = b + Len(new)
        /\ \A j \in 1 .. b : tasks'[j] = tasks[j + 1]
        /\ \A j \in 1 .. Len(new) : tasks'[b + j] = new[j]
    BY <1>1, <1>2, DonePositions
  <1>5. b \in Nat /\ Len(tasks) = b + 1
    BY <1>1
  <1> HIDE DEF b
  <1> SUFFICES ASSUME NEW do \in {"wakeRead", "StopDataSource_AsyncEnd"}, NEW s, Has(do, s)'
               PROVE  Has(do, s)
    BY DEF NoneFresh
  <1>6. PICK j \in 1 .. Len(tasks') : Task(do, s) = tasks'[j]
    BY DEF Has, Queued
  <1>7. Task(do, s).do = do
    BY TaskSame
  <1>8. j \in 1 .. b \/ (j - b \in 1 .. Len(new) /\ b + (j - b) = j)
    BY <1>2, <1>4, <1>5
  <1>9. ~(j - b \in 1 .. Len(new) /\ b + (j - b) = j)
    BY <1>3, <1>4, <1>6, <1>7
  <1>10. j + 1 \in 1 .. Len(tasks) /\ Task(do, s) = tasks[j + 1]
    BY <1>4, <1>5, <1>6, <1>8, <1>9
  <1> QED BY <1>10 DEF Has, Queued

\* A session starts, or fails to.
LEMMA EnableFresh ==
    ASSUME NEW i \in Sessions, i = Id, NEW c, StartTracingSession(c)
    PROVE  \E new \in Seq(Fresh) : Done(new)
  <1>1. \A do \in {"OnObservableEvents", "SetupDataSource", "StartDataSource",
                   "OnTracingDisabled"} : Task(do, i) \in Fresh
    BY FreshPosts DEF SessionTasks
  <1>2. /\ <<Task("OnObservableEvents", i), Task("SetupDataSource", i),
             Task("StartDataSource", i)>> \in Seq(Fresh)
        /\ <<Task("OnTracingDisabled", i)>> \in Seq(Fresh)
        /\ <<>> \in Seq(Fresh)
    BY <1>1, FreshPosts
  <1>3. \/ Done(<<Task("OnObservableEvents", i), Task("SetupDataSource", i),
                  Task("StartDataSource", i)>>)
        \/ Done(<<Task("OnTracingDisabled", i)>>)
        \/ Done(<<>>)
    BY DEF StartTracingSession
  <1> QED BY <1>2, <1>3

\* Only ReadTrace ends a read, and only StopDataSource has an answer posted.
LEMMA MuxerFresh ==
    ASSUME QueueInv, Muxer, ~Running("ReadTrace"), ~Running("StopDataSource")
    PROVE  NoneFresh
  <1>0. tasks # <<>>
    BY DEF Muxer, RunTask, CallBack, Running, Initialize, ProducerConnect, RegisterDataSource,
           CreateTracingSession, Configure, StartBlocking, OnConnect, OnObservableEvents,
           OnTracingDisabled, StopBlocking, DestroyTracingSession, Wake, SetupDataSource,
           StartDataSource, StopDataSource_AsyncEnd, ReadTrace, StopDataSource
  <1> SUFFICES \E new \in Seq(Fresh) : Done(new)
    BY <1>0, DoneFresh
  <1>1. CASE \/ Done(<<>>)
    BY <1>1, FreshPosts
  <1>2. CASE Initialize
    <2>1. If(init_args = "inProcess", "ProducerConnect", 0) \in Seq(Fresh)
      BY FreshPosts
    <2> QED BY <1>2, <2>1 DEF Initialize
  <1>3. ASSUME NEW d \in SessionTasks, Running(d),
               NEW i \in Sessions, i = Id,
               RunTask, ~Done(<<>>)
        PROVE  Initialize \/ \E new \in Seq(Fresh) : Done(new)
    <2>1. \A do \in SessionTasks \ {"wakeRead", "StopDataSource_AsyncEnd"} : Task(do, i) \in Fresh
      BY FreshPosts
    <2>2. \A c : \A do \in SessionTasks \ {"wakeRead", "StopDataSource_AsyncEnd"} :
             If(c, do, i) \in Seq(Fresh)
      BY <2>1, FreshPosts
    <2>3. \A c : NotifyStartComplete(c) \in Seq(Fresh) /\ NotifyStopComplete(c) \in Seq(Fresh)
      BY <1>3, <2>2, FreshPosts DEF NotifyStartComplete, NotifyStopComplete, SessionTasks
    <2>4. Observing(i) \in Seq(Fresh) /\ <<Task("OnTracingDisabled", i)>> \in Seq(Fresh)
      BY <2>1, <2>2, FreshPosts DEF Observing, SessionTasks
    <2>5. CASE CreateTracingSession \/ DestroyTracingSession
      <3>1. \/ Done(If(muxer.backend = "inProcess", "OnConnect", i))
            \/ Done(If(service[i].state = "STARTED", "StopDataSource", i))
        BY <1>3, <2>5 DEF CreateTracingSession, DestroyTracingSession
      <3>2. /\ If(muxer.backend = "inProcess", "OnConnect", i) \in Seq(Fresh)
            /\ If(service[i].state = "STARTED", "StopDataSource", i) \in Seq(Fresh)
        BY <2>2 DEF SessionTasks
      <3> QED BY <3>1, <3>2
    <2>6. CASE StartBlocking \/ OnConnect
      <3>1. Done(<<>>) \/ \E c : StartTracingSession(c)
        BY <2>6, Zenon DEF StartBlocking, OnConnect
      <3> QED BY <1>3, <3>1, EnableFresh
    <2>7. CASE OnObservableEvents \/ OnTracingDisabled \/ StopBlocking
      <3>1. \/ Done(<<>>) \/ Done(<<Task("StopDataSource", i)>>)
            \/ \E c : Done(NotifyStartComplete(c)) \/ Done(NotifyStopComplete(c))
            \/ \E c : Done(NotifyStartComplete(c) \o NotifyStopComplete(c))
        <4>1. CASE OnObservableEvents
          BY <4>1 DEF OnObservableEvents
        <4>2. CASE OnTracingDisabled
          BY <4>2 DEF OnTracingDisabled
        <4>3. CASE StopBlocking
          BY <1>3, <4>3 DEF StopBlocking
        <4> QED BY <2>7, <4>1, <4>2, <4>3
      <3>2. <<Task("StopDataSource", i)>> \in Seq(Fresh)
        BY <2>1, FreshPosts DEF SessionTasks
      <3>3. \A c : NotifyStartComplete(c) \o NotifyStopComplete(c) \in Seq(Fresh)
        BY <2>3, FreshPosts
      <3> QED BY <1>3, <2>3, <3>1, <3>2, <3>3
    <2>8. CASE StartDataSource \/ StopDataSource_AsyncEnd
      <3>1. \/ Done(<<>>) \/ Done(Observing(i))
            \/ Done(Observing(i) \o <<Task("OnTracingDisabled", i)>>)
        BY <1>3, <2>8 DEF StartDataSource, StopDataSource_AsyncEnd
      <3>2. Observing(i) \o <<Task("OnTracingDisabled", i)>> \in Seq(Fresh)
        BY <2>4, FreshPosts
      <3> QED BY <1>3, <2>4, <3>1, <3>2
    <2>9. CASE ProducerConnect \/ RegisterDataSource \/ Configure \/ Wake \/ SetupDataSource
      BY <1>3, <2>9 DEF ProducerConnect, RegisterDataSource, Configure, Wake, SetupDataSource
    <2>10. ~ReadTrace /\ ~StopDataSource
      BY DEF ReadTrace, StopDataSource
    <2> QED BY <1>3, <2>5, <2>6, <2>7, <2>8, <2>9, <2>10 DEF RunTask
  <1>4. CASE CallBack \/ ProducerConnect \/ RegisterDataSource
    BY <1>1, <1>4 DEF CallBack, ProducerConnect, RegisterDataSource
  <1>5. CASE RunTask /\ ~Initialize /\ ~ProducerConnect /\ ~RegisterDataSource
    <2>1. PICK d \in SessionTasks : Running(d)
      BY <1>5 DEF RunTask, SessionTasks, CreateTracingSession, Configure, StartBlocking,
           OnConnect, OnObservableEvents, OnTracingDisabled, StopBlocking, ReadTrace,
           DestroyTracingSession, Wake, SetupDataSource, StartDataSource, StopDataSource,
           StopDataSource_AsyncEnd
    <2>2. PICK i \in Sessions : i = Id
      BY <2>1, Heading
    <2> QED BY <1>1, <1>3, <1>5, <2>1, <2>2
  <1> QED BY <1>2, <1>4, <1>5 DEF Muxer

\* A step that does not start the data source and does not disable the session.
LEMMA SourceKept ==
    ASSUME QueueInv, NEW s \in Sessions, SourceInv(s), late \subseteq late',
           Has("StopDataSource_AsyncEnd", s)' =>
              Has("StopDataSource_AsyncEnd", s) \/ sources'[s] # "enabled",
           sources'[s] = "enabled" => sources[s] = "enabled",
           written'[s] = written[s] \/ sources[s] = "enabled",
           service'[s].state = "DISABLED" /\ s \notin late' =>
              service[s].state = "DISABLED" /\ service'[s].frozen = service[s].frozen,
           service'[s].state = "none" /\ (s > sessions' \/ s = sTracingSession') =>
              service[s].state = "none" /\ (s > sessions \/ s = sTracingSession)
    PROVE  SourceInv(s)'
  <1>1. Has("StopDataSource_AsyncEnd", s)' => sources'[s] # "enabled"
    BY DEF SourceInv
  <1>2. ASSUME service'[s].state = "DISABLED", s \notin late'
        PROVE  sources'[s] # "enabled" /\ service'[s].frozen >= written'[s] - 1
    BY <1>2 DEF SourceInv
  <1>3. ASSUME service'[s].state = "none", s > sessions' \/ s = sTracingSession'
        PROVE  sources'[s] # "enabled" /\ written'[s] = 0
    BY <1>3 DEF SourceInv
  <1> QED BY <1>1, <1>2, <1>3 DEF SourceInv

\* The trace of a session stays complete.
LEMMA HoldsKept ==
    ASSUME NEW t, NEW s, Holds(t, s), late \subseteq late',
           sources'[s] = "enabled" => sources[s] = "enabled",
           written'[s] = written[s] \/ sources[s] = "enabled"
    PROVE  /\ t.sess = s
           /\ s \notin late' => sources'[s] # "enabled" /\ t.events >= written'[s] - 1
  BY DEF Holds

\* The data source of a session that was read is not started any more.
LEMMA NoStartLeft ==
    ASSUME QueueInv, ToldInv, orderly, NEW s \in Sessions, s = sessions,
           \/ thread.call \in {"reading", "writing"}
           \/ Idle /\ sTraceConfig.tracingDisabled
    PROVE  ~Has("StartDataSource", s)
  <1>1. SessionInv(s)
    BY DEF QueueInv
  <1>2. CASE thread.call = "reading"
    <2>1. sTracingSession # 0 /\ s = sTracingSession
      BY <1>2, CallWoken DEF QueueInv, WokenInv
    <2>2. Begun(s)
      BY <1>2, <2>1, HasBegun
    <2> QED BY <2>2 DEF Begun
  <1>3. CASE thread.call # "reading"
    <2>1. sTracingSession = 0
      BY <1>3 DEF ToldInv, QueueInv, WokenInv
    <2>2. s \in Nat /\ s # sTracingSession /\ s <= sessions
      BY <2>1, CallWoken
    <2>3. Past(s)
      BY <1>1, <2>2 DEF SessionInv
    <2> QED BY <2>3 DEF Past
  <1> QED BY <1>2, <1>3

\* A step of the muxer's thread or of a traced thread.
LEMMA SavedStep ==
    ASSUME QueueInv, ToldInv, SavedInv, UNCHANGED clientVars, late \subseteq late',
           \A s \in Sessions : SourceInv(s)',
           \A s \in Sessions : sources'[s] = "enabled" =>
              sources[s] = "enabled" \/ Has("StartDataSource", s),
           \A s \in Sessions : written'[s] = written[s] \/ sources[s] = "enabled",
           orderly /\ thread.call = "reading"
              /\ (woken' = "read" \/ \E s \in Sessions : s = sTracingSession /\ Has("wakeRead", s)') =>
                 \/ Holds(raw_trace, sessions) /\ raw_trace' = raw_trace
                 \/ Holds(raw_trace, sessions)'
    PROVE  SavedInv'
  <1>1. UNCHANGED <<orderly, thread, sTracingSession, sTraceConfig, named, files, hostTrace,
                    sessions>>
    BY DEF clientVars
  <1> SUFFICES ASSUME orderly
               PROVE  /\ thread.call = "reading"
                            /\ (woken' = "read" \/ Has("wakeRead", sTracingSession)') =>
                            Holds(raw_trace, sessions)'
                      /\ thread.call = "writing" => sessions > 0 /\ Holds(hostTrace, sessions)'
                      /\ Idle /\ sTraceConfig.tracingDisabled /\ sessions > 0 =>
                            Holds(files[named], sessions)'
    BY <1>1 DEF SavedInv, Idle
  <1>s. sessions > 0 => sessions \in Sessions
    BY MuxerAssumption DEF QueueInv, Inv, TypeOK, Sessions
  <1>2. ASSUME NEW t, Holds(t, sessions), sessions \in Sessions,
               \/ thread.call \in {"reading", "writing"}
               \/ Idle /\ sTraceConfig.tracingDisabled
        PROVE  /\ t.sess = sessions
               /\ sessions \notin late' =>
                     sources'[sessions] # "enabled" /\ t.events >= written'[sessions] - 1
    <2>1. ~Has("StartDataSource", sessions)
      BY <1>2, NoStartLeft
    <2>2. /\ sources'[sessions] = "enabled" => sources[sessions] = "enabled"
          /\ written'[sessions] = written[sessions] \/ sources[sessions] = "enabled"
      BY <1>2, <2>1
    <2> QED BY <1>2, <2>2, HoldsKept
  <1>3. ASSUME thread.call = "reading",
               woken' = "read" \/ Has("wakeRead", sTracingSession)'
        PROVE  Holds(raw_trace, sessions)'
    <2>1. sTracingSession # 0 /\ sTracingSession \in Sessions /\ sTracingSession = sessions
      BY <1>3, CallWoken DEF QueueInv, WokenInv
    <2>2. PICK i \in Sessions : i = sTracingSession
      BY <2>1
    <2>3. woken' = "read" \/ Has("wakeRead", i)'
      BY <1>1, <1>3, <2>2 DEF Has
    <2>4. CASE Holds(raw_trace, sessions)'
      BY <2>4
    <2>5. CASE Holds(raw_trace, sessions) /\ raw_trace' = raw_trace
      <3>1. /\ raw_trace.sess = sessions
            /\ sessions \notin late' =>
                  sources'[sessions] # "enabled" /\ raw_trace.events >= written'[sessions] - 1
        BY <1>2, <1>3, <2>1, <2>5
      <3> QED BY <1>1, <2>5, <3>1 DEF Holds
    <2> QED BY <1>3, <2>2, <2>3, <2>4, <2>5
  <1>4. ASSUME thread.call = "writing" PROVE sessions > 0 /\ Holds(hostTrace, sessions)'
    <2>1. sessions > 0 /\ Holds(hostTrace, sessions)
      BY <1>4 DEF SavedInv
    <2>2. /\ hostTrace.sess = sessions
          /\ sessions \notin late' =>
                sources'[sessions] # "enabled" /\ hostTrace.events >= written'[sessions] - 1
      BY <1>2, <1>4, <1>s, <2>1
    <2> QED BY <1>1, <2>1, <2>2 DEF Holds
  <1>5. ASSUME Idle, sTraceConfig.tracingDisabled, sessions > 0
        PROVE  Holds(files[named], sessions)'
    <2>1. Holds(files[named], sessions)
      BY <1>5 DEF SavedInv
    <2>2. /\ files[named].sess = sessions
          /\ sessions \notin late' =>
                sources'[sessions] # "enabled" /\ files[named].events >= written'[sessions] - 1
      BY <1>2, <1>5, <1>s, <2>1
    <2> QED BY <1>1, <2>2 DEF Holds
  <1> QED BY <1>3, <1>4, <1>5

\* A task that has nothing to do with the data source or the trace: what the
\* service knows of the session changes, but it is not disabled by this.
LEMMA OtherSaved ==
    ASSUME QueueInv, ToldInv, SavedInv, UNCHANGED clientVars, NoneFresh,
           UNCHANGED <<written, late, raw_trace>>, woken' = "read" => woken = "read",
           \A s \in Sessions : sources'[s] = "enabled" => sources[s] = "enabled",
           \A s \in Sessions :
              /\ service'[s].state = "DISABLED" =>
                    service[s].state = "DISABLED" /\ service'[s].frozen = service[s].frozen
              /\ service'[s].state = "none" /\ (s > sessions \/ s = sTracingSession) =>
                    service[s].state = "none"
    PROVE  SavedInv'
  <1>1. UNCHANGED <<sTracingSession, sessions, thread, orderly>> /\ late \subseteq late'
    BY DEF clientVars
  <1>2. \A s : /\ Has("StopDataSource_AsyncEnd", s)' => Has("StopDataSource_AsyncEnd", s)
               /\ Has("wakeRead", s)' => Has("wakeRead", s)
    BY DEF NoneFresh
  <1>3. ASSUME NEW s \in Sessions PROVE SourceInv(s)'
    <2>1. SourceInv(s)
      BY DEF SavedInv
    <2> QED BY <1>1, <1>2, <2>1, SourceKept
  <1>4. orderly /\ thread.call = "reading"
           /\ (woken' = "read" \/ \E s \in Sessions : s = sTracingSession /\ Has("wakeRead", s)') =>
              Holds(raw_trace, sessions) /\ raw_trace' = raw_trace
    BY <1>2 DEF SavedInv
  <1> QED BY <1>1, <1>3, <1>4, SavedStep

\* The tasks that leave the data source and the trace alone.
LEMMA IdleTaskSaved ==
    ASSUME QueueInv, ToldInv, SavedInv, Muxer, UNCHANGED clientVars,
           \/ Initialize \/ ProducerConnect \/ RegisterDataSource \/ CreateTracingSession
           \/ Configure \/ OnTracingDisabled \/ CallBack
    PROVE  SavedInv'
  <1>1. UNCHANGED <<written, late, raw_trace, service, sources, woken>>
    BY DEF Initialize, ProducerConnect, RegisterDataSource, CreateTracingSession, Configure,
           OnTracingDisabled, CallBack
  <1>2. ~Running("ReadTrace") /\ ~Running("StopDataSource")
    BY DEF Initialize, ProducerConnect, RegisterDataSource, CreateTracingSession, Configure,
           OnTracingDisabled, CallBack, Running
  <1>3. NoneFresh
    BY <1>2, MuxerFresh
  <1> QED BY <1>1, <1>3, OtherSaved

\* The tasks that change the state of the session in the service, and the data
\* source is set up, but not started.
LEMMA ServiceSaved ==
    ASSUME QueueInv, ToldInv, SavedInv, Muxer, UNCHANGED clientVars,
           \/ StartBlocking \/ OnConnect \/ OnObservableEvents \/ StopBlocking
           \/ DestroyTracingSession \/ SetupDataSource
    PROVE  SavedInv'
  <1> DEFINE D == {"StartBlocking", "OnConnect", "OnObservableEvents", "StopBlocking",
                   "DestroyTracingSession", "SetupDataSource"}
  <1>0. PICK d \in D : Running(d)
    BY DEF StartBlocking, OnConnect, OnObservableEvents, StopBlocking,
           DestroyTracingSession, SetupDataSource
  <1>1. UNCHANGED <<written, late, raw_trace, woken>>
    BY DEF StartBlocking, OnConnect, OnObservableEvents, StopBlocking,
           DestroyTracingSession, SetupDataSource
  <1>2. ~Running("ReadTrace") /\ ~Running("StopDataSource") /\ d \in SessionTasks
    BY <1>0 DEF Running, SessionTasks
  <1>3. NoneFresh
    BY <1>2, MuxerFresh
  <1>4. PICK i \in Sessions : i = Id
    BY <1>0, <1>2, Heading
  <1>t. /\ service \in [Sessions -> ServiceSession] /\ service[i] \in ServiceSession
        /\ sources \in [Sessions -> {"none", "valid", "enabled", "disabled"}]
    BY DEF QueueInv, Inv, TypeOK, MuxerTypeOK
  <1>5. \A s \in Sessions : sources'[s] = "enabled" => sources[s] = "enabled"
    <2>1. UNCHANGED sources \/ sources' = [sources EXCEPT ![i] = "valid"]
      BY <1>4 DEF StartBlocking, OnConnect, OnObservableEvents, StopBlocking,
             DestroyTracingSession, SetupDataSource
    <2> QED BY <1>t, <2>1
  <1>6. ASSUME NEW s \in Sessions
        PROVE  /\ service'[s].state = "DISABLED" =>
                     service[s].state = "DISABLED" /\ service'[s].frozen = service[s].frozen
               /\ service'[s].state = "none" /\ (s > sessions \/ s = sTracingSession) =>
                     service[s].state = "none"
    <2>1. CASE StartBlocking \/ OnConnect
      <3>1. \/ UNCHANGED service
            \/ \E v : v.state = "STARTED" /\ service' = [service EXCEPT ![i] = v]
        BY <1>4, <2>1 DEF StartBlocking, OnConnect, StartTracingSession
      <3>2. service'[s] = service[s] \/ service'[s].state = "STARTED"
        BY <1>t, <3>1
      <3> QED BY <3>2
    <2>2. CASE OnObservableEvents
      <3>1. service' = [service EXCEPT ![i].observed = "none"]
        BY <1>4, <2>2 DEF OnObservableEvents
      <3>2. /\ s # i => service'[s] = service[s]
            /\ service'[i] = [service[i] EXCEPT !.observed = "none"]
        BY <1>t, <3>1
      <3>3. service'[i].state = service[i].state /\ service'[i].frozen = service[i].frozen
        BY <1>t, <3>2 DEF ServiceSession
      <3> QED BY <3>2, <3>3
    <2>3. CASE StopBlocking
      <3>1. \/ UNCHANGED service
            \/ service' = [service EXCEPT ![i] = [service[i] EXCEPT
                             !.instance = "STOPPING", !.state = "DISABLING_WAITING_STOP_ACKS"]]
        BY <1>4, <1>t, <2>3 DEF StopBlocking
      <3>2. service'[s] = service[s] \/ service'[s].state = "DISABLING_WAITING_STOP_ACKS"
        BY <1>t, <3>1 DEF ServiceSession
      <3> QED BY <3>2
    <2>4. CASE DestroyTracingSession
      <3>1. service' = [service EXCEPT ![i] = NoServiceSession]
        BY <1>4, <2>4 DEF DestroyTracingSession
      <3>2. SessionInv(i) /\ Due("DestroyTracingSession", i) /\ i <= sessions
        BY <1>4, <2>4, Heading DEF DestroyTracingSession, SessionTasks
      <3>3. i # sTracingSession
        BY <3>2 DEF SessionInv, Current
      <3>4. /\ s # i => service'[s] = service[s]
            /\ service'[i].state = "none"
        BY <1>t, <3>1 DEF NoServiceSession
      <3>5. ~(i > sessions)
        BY <3>2, CallWoken
      <3> QED BY <3>3, <3>4, <3>5
    <2>5. CASE SetupDataSource
      BY <2>5 DEF SetupDataSource
    <2> QED BY <2>1, <2>2, <2>3, <2>4, <2>5
  <1> QED BY <1>1, <1>3, <1>5, <1>6, OtherSaved

\* A blocked call is woken; the one that reads has its trace.
LEMMA WakeSaved ==
    ASSUME QueueInv, ToldInv, SavedInv, Muxer, UNCHANGED clientVars, Wake
    PROVE  SavedInv'
  <1>1. UNCHANGED <<written, late, raw_trace, service, sources>>
    BY DEF Wake
  <1>2. ~Running("ReadTrace") /\ ~Running("StopDataSource")
    BY DEF Wake, Running
  <1>3. NoneFresh
    BY <1>2, MuxerFresh
  <1>4. \A s : /\ Has("StopDataSource_AsyncEnd", s)' => Has("StopDataSource_AsyncEnd", s)
               /\ Has("wakeRead", s)' => Has("wakeRead", s)
    BY <1>3 DEF NoneFresh
  <1>5. UNCHANGED <<sTracingSession, sessions, thread>> /\ late \subseteq late'
    BY <1>1 DEF clientVars
  <1>6. ASSUME NEW s \in Sessions PROVE SourceInv(s)'
    <2>1. SourceInv(s)
      BY DEF SavedInv
    <2> QED BY <1>1, <1>4, <1>5, <2>1, SourceKept
  <1>7. ASSUME orderly, thread.call = "reading",
               woken' = "read" \/ \E s \in Sessions : s = sTracingSession /\ Has("wakeRead", s)'
        PROVE  Holds(raw_trace, sessions)
    <2>1. CASE woken = "read" \/ Has("wakeRead", sTracingSession)
      BY <1>7, <2>1 DEF SavedInv
    <2>2. CASE ~Has("wakeRead", sTracingSession)
      <3>1. Running("wakeRead")
        BY <1>4, <1>7, <2>2 DEF Wake
      <3>2. PICK i \in Sessions : i = Id
        BY <3>1, Heading DEF SessionTasks
      <3>3. SessionInv(i) /\ Has("wakeRead", i) /\ i <= sessions
        BY <3>1, <3>2, Heading DEF SessionTasks
      <3>4. i = sTracingSession
        BY <3>3 DEF SessionInv, Past
      <3> QED BY <2>2, <3>3, <3>4
    <2> QED BY <2>1, <2>2
  <1> QED BY <1>1, <1>5, <1>6, <1>7, SavedStep

\* ReadTrace: the session is over, and what it has is all that it will get.
LEMMA ReadTraceSaved ==
    ASSUME QueueInv, ToldInv, SavedInv, UNCHANGED clientVars, ReadTrace
    PROVE  SavedInv'
  <1> DEFINE d == "ReadTrace"
  <1>0. PICK i \in Sessions : i = Id
    BY Heading DEF ReadTrace, SessionTasks
  <1>1. /\ d \in SessionTasks /\ Running(d) /\ "wakeRead" \in SessionTasks
        /\ "wakeRead" # "StopDataSource_AsyncEnd" /\ "StopDataSource_AsyncEnd" \in SessionTasks
        /\ Done(<<Task("wakeRead", i)>>) /\ raw_trace' = [sess |-> i, events |-> service[i].frozen]
        /\ UNCHANGED <<written, late, service, sources, woken>>
        /\ UNCHANGED <<sTracingSession, sessions, thread>> /\ late \subseteq late'
    BY <1>0 DEF ReadTrace, SessionTasks, clientVars
  <1>2. Begun(i) /\ Due(d, i) /\ SessionInv(i) /\ i <= sessions
    BY <1>0, <1>1, EndTask, Heading
  <1>3. i = sTracingSession /\ i = sessions /\ i # 0
    BY <1>2, CallWoken DEF SessionInv, Past
  <1>4. thread.call = "reading" /\ Over(i) /\ ~Has("wakeRead", i)
    BY <1>2 DEF Begun
  <1>5. ~Due("wakeRead", i)
    BY <1>4, MuxerDue DEF MuxerTasks
  <1>6. Ran(i, d, {"wakeRead"})
    BY <1>0, <1>1, <1>5, RanOne
  <1>7. \A s \in Sessions : Has("StopDataSource_AsyncEnd", s)' => Has("StopDataSource_AsyncEnd", s)
    BY <1>1, <1>6 DEF Ran
  <1>8. ASSUME NEW s \in Sessions PROVE SourceInv(s)'
    <2>1. SourceInv(s)
      BY DEF SavedInv
    <2> QED BY <1>1, <1>7, <2>1, SourceKept
  <1>9. Holds(raw_trace, sessions)'
    <2>1. service[i].state \in {"DISABLED", "none"} /\ SourceInv(i)
      BY <1>4 DEF Over, SavedInv
    <2>2. service[i].frozen \in Nat
      BY MuxerAssumption DEF QueueInv, Inv, TypeOK, MuxerTypeOK, ServiceSession
    <2>3. i \notin late => sources[i] # "enabled" /\ service[i].frozen >= written[i] - 1
      <3>1. CASE service[i].state = "DISABLED"
        BY <2>1, <3>1 DEF SourceInv
      <3>2. CASE service[i].state = "none"
        <4>1. sources[i] # "enabled" /\ written[i] = 0
          BY <1>3, <2>1, <3>2 DEF SourceInv
        <4> QED BY <2>2, <4>1
      <3> QED BY <2>1, <3>1, <3>2
    <2>4. raw_trace'.sess = i /\ raw_trace'.events = service[i].frozen
      BY <1>1
    <2> QED BY <1>1, <1>3, <2>3, <2>4 DEF Holds
  <1> QED BY <1>1, <1>8, <1>9, SavedStep

\* StopDataSource: the categories are disabled before the answer is posted.
LEMMA StopDataSourceSaved ==
    ASSUME QueueInv, ToldInv, SavedInv, UNCHANGED clientVars, StopDataSource
    PROVE  SavedInv'
  <1> DEFINE d == "StopDataSource"
             a == "StopDataSource_AsyncEnd"
  <1>0. PICK i \in Sessions : i = Id
    BY Heading DEF StopDataSource, SessionTasks
  <1>1. /\ d \in SessionTasks /\ Running(d) /\ a \in SessionTasks /\ "wakeRead" \in SessionTasks
        /\ "wakeRead" # a
        /\ UNCHANGED <<written, late, service, woken, raw_trace>>
        /\ UNCHANGED <<sTracingSession, sessions, thread>> /\ late \subseteq late'
        /\ \/ /\ sources' = [sources EXCEPT ![i] = "disabled"]
              /\ Done(<<Task(a, i)>>)
           \/ Done(<<>>) /\ UNCHANGED sources
    BY <1>0 DEF StopDataSource, SessionTasks, clientVars
  <1>t. sources \in [Sessions -> {"none", "valid", "enabled", "disabled"}]
    BY DEF QueueInv, Inv, TypeOK, MuxerTypeOK
  <1>2. Has(d, i) /\ SessionInv(i)
    BY <1>0, <1>1, Heading
  <1>3. ~Due(a, i)
    BY <1>2, MuxerDue DEF SessionInv, Single, MuxerTasks
  <1>4. \A s \in Sessions : /\ Has(a, s)' => Has(a, s) \/ sources'[s] # "enabled"
                            /\ Has("wakeRead", s)' => Has("wakeRead", s)
                            /\ sources'[s] = "enabled" => sources[s] = "enabled"
    <2>1. CASE sources' = [sources EXCEPT ![i] = "disabled"] /\ Done(<<Task(a, i)>>)
      <3>1. Ran(i, d, {a})
        BY <1>0, <1>1, <1>3, <2>1, RanOne
      <3>2. \A s \in Sessions : /\ Has(a, s)' => Has(a, s) \/ s = i
                                /\ Has("wakeRead", s)' => Has("wakeRead", s)
        BY <1>1, <3>1 DEF Ran
      <3>3. \A s \in Sessions : sources'[s] = IF s = i THEN "disabled" ELSE sources[s]
        BY <1>t, <2>1
      <3> QED BY <3>2, <3>3
    <2>2. CASE Done(<<>>) /\ UNCHANGED sources
      <3>1. Ran(i, d, {})
        BY <1>0, <1>1, <2>2, RanNone
      <3> QED BY <1>1, <2>2, <3>1 DEF Ran
    <2> QED BY <1>1, <2>1, <2>2
  <1>5. ASSUME NEW s \in Sessions PROVE SourceInv(s)'
    <2>1. SourceInv(s)
      BY DEF SavedInv
    <2> QED BY <1>1, <1>4, <2>1, SourceKept
  <1>6. orderly /\ thread.call = "reading"
           /\ (woken' = "read" \/ \E s \in Sessions : s = sTracingSession /\ Has("wakeRead", s)') =>
              Holds(raw_trace, sessions) /\ raw_trace' = raw_trace
    BY <1>1, <1>4 DEF SavedInv
  <1> QED BY <1>1, <1>4, <1>5, <1>6, SavedStep

\* A data source that is to be started belongs to the current session, which
\* the service has started and which is not over.
LEMMA StartSourceNow ==
    ASSUME QueueInv, NEW i \in Sessions, Has("StartDataSource", i)
    PROVE  /\ i = sTracingSession /\ i = sessions /\ service[i].state = "STARTED"
           /\ ~Has("StopDataSource_AsyncEnd", i)
  <1>1. SessionInv(i) /\ Due("StartDataSource", i) /\ "StartDataSource" \in SessionTasks
        /\ "StartDataSource" \in MuxerTasks \ {"OnConnect"}
    BY DEF QueueInv, Due, Has, SessionTasks, MuxerTasks
  <1>2. ~(i > sessions)
    BY <1>1 DEF SessionInv, New
  <1>3. i <= sessions
    BY <1>2, CallWoken
  <1>4. i = sTracingSession
    BY <1>1, <1>3 DEF SessionInv, Past
  <1>5. i = sessions
    BY <1>4, CallWoken
  <1>6. Enabling(i)
    BY <1>1, <1>4 DEF SessionInv, Current, Unstarted, Pending, Begun
  <1> QED BY <1>4, <1>5, <1>6 DEF Enabling

\* StartDataSource
LEMMA StartDataSourceSaved ==
    ASSUME QueueInv, ToldInv, SavedInv, Muxer, UNCHANGED clientVars, StartDataSource
    PROVE  SavedInv'
  <1>0. PICK i \in Sessions : i = Id
    BY Heading DEF StartDataSource, SessionTasks
  <1>1. /\ ~Running("ReadTrace") /\ ~Running("StopDataSource")
        /\ sources' = [sources EXCEPT ![i] = "enabled"]
        /\ UNCHANGED <<written, late, woken, raw_trace>>
        /\ UNCHANGED <<sTracingSession, sessions, thread>> /\ late \subseteq late'
        /\ \/ UNCHANGED service
           \/ service' = [service EXCEPT ![i].instance = "STARTED", ![i].observed = "started"]
    BY <1>0 DEF StartDataSource, Running, clientVars
  <1>t. /\ sources \in [Sessions -> {"none", "valid", "enabled", "disabled"}]
        /\ service \in [Sessions -> ServiceSession]
    BY DEF QueueInv, Inv, TypeOK, MuxerTypeOK
  <1>2. NoneFresh
    BY <1>1, MuxerFresh
  <1>3. \A s : /\ Has("StopDataSource_AsyncEnd", s)' => Has("StopDataSource_AsyncEnd", s)
               /\ Has("wakeRead", s)' => Has("wakeRead", s)
    BY <1>2 DEF NoneFresh
  <1>4. Has("StartDataSource", i)
    BY <1>0, Heading DEF StartDataSource, SessionTasks
  <1>5. service[i].state = "STARTED" /\ ~Has("StopDataSource_AsyncEnd", i)
    BY <1>4, StartSourceNow
  <1>6. \A s \in Sessions : service'[s].state = service[s].state
                            /\ service'[s].frozen = service[s].frozen
    BY <1>1, <1>t DEF ServiceSession
  <1>7. \A s \in Sessions : sources'[s] = "enabled" => sources[s] = "enabled" \/ s = i
    BY <1>1, <1>t
  <1>8. ASSUME NEW s \in Sessions PROVE SourceInv(s)'
    <2>1. SourceInv(s)
      BY DEF SavedInv
    <2>2. CASE s = i
      <3>1. service'[s].state = "STARTED" /\ ~Has("StopDataSource_AsyncEnd", s)'
        BY <1>3, <1>5, <1>6, <2>2
      <3> QED BY <3>1 DEF SourceInv
    <2>3. CASE s # i
      BY <1>1, <1>3, <1>6, <1>7, <2>1, <2>3, SourceKept
    <2> QED BY <2>2, <2>3
  <1>9. orderly /\ thread.call = "reading"
           /\ (woken' = "read" \/ \E s \in Sessions : s = sTracingSession /\ Has("wakeRead", s)') =>
              Holds(raw_trace, sessions) /\ raw_trace' = raw_trace
    BY <1>1, <1>3 DEF SavedInv
  <1> QED BY <1>1, <1>4, <1>7, <1>8, <1>9, SavedStep

\* What is scraped lacks at most the last event.
LEMMA ScrapedAll ==
    ASSUME QueueInv, NEW s \in Sessions, NEW n \in Scraped(s)
    PROVE  n >= written[s] - 1
  <1>1. written[s] \in Nat
    BY MuxerAssumption DEF QueueInv, Inv, TypeOK, MuxerTypeOK
  <1> QED BY <1>1 DEF Scraped

\* StopDataSource_AsyncEnd: an answer in time ends the session with its trace.
LEMMA AsyncEndSaved ==
    ASSUME QueueInv, ToldInv, SavedInv, Muxer, UNCHANGED clientVars, StopDataSource_AsyncEnd
    PROVE  SavedInv'
  <1>0. PICK i \in Sessions : i = Id
    BY Heading DEF StopDataSource_AsyncEnd, SessionTasks
  <1>1. /\ ~Running("ReadTrace") /\ ~Running("StopDataSource")
        /\ sources' = [sources EXCEPT ![i] = "none"]
        /\ UNCHANGED <<written, late, woken, raw_trace>>
        /\ UNCHANGED <<sTracingSession, sessions, thread>> /\ late \subseteq late'
        /\ \/ UNCHANGED service
           \/ \E n \in Scraped(i) : service' = [service EXCEPT ![i] = Disabled(n)]
    BY <1>0 DEF StopDataSource_AsyncEnd, Running, clientVars
  <1>t. /\ sources \in [Sessions -> {"none", "valid", "enabled", "disabled"}]
        /\ service \in [Sessions -> ServiceSession]
    BY DEF QueueInv, Inv, TypeOK, MuxerTypeOK
  <1>2. NoneFresh
    BY <1>1, MuxerFresh
  <1>3. \A s : /\ Has("StopDataSource_AsyncEnd", s)' => Has("StopDataSource_AsyncEnd", s)
               /\ Has("wakeRead", s)' => Has("wakeRead", s)
    BY <1>2 DEF NoneFresh
  <1>4. \A s \in Sessions : sources'[s] = IF s = i THEN "none" ELSE sources[s]
    BY <1>1, <1>t
  <1>5. ASSUME NEW s \in Sessions PROVE SourceInv(s)'
    <2>1. SourceInv(s)
      BY DEF SavedInv
    <2>2. CASE service'[s] = service[s]
      BY <1>1, <1>3, <1>4, <2>1, <2>2, SourceKept
    <2>3. CASE service'[s] # service[s]
      <3>1. PICK n \in Scraped(i) : service' = [service EXCEPT ![i] = Disabled(n)]
        BY <1>1, <2>3
      <3>2. s = i /\ service'[s] = Disabled(n)
        BY <1>t, <2>3, <3>1
      <3>3. service'[s].state = "DISABLED" /\ service'[s].frozen = n
        BY <3>2 DEF Disabled
      <3>4. n >= written'[s] - 1
        BY <1>1, <3>1, <3>2, ScrapedAll
      <3>5. sources'[s] # "enabled"
        BY <1>4, <3>2
      <3> QED BY <3>3, <3>4, <3>5 DEF SourceInv
    <2> QED BY <2>2, <2>3
  <1>6. orderly /\ thread.call = "reading"
           /\ (woken' = "read" \/ \E s \in Sessions : s = sTracingSession /\ Has("wakeRead", s)') =>
              Holds(raw_trace, sessions) /\ raw_trace' = raw_trace
    BY <1>1, <1>3 DEF SavedInv
  <1> QED BY <1>1, <1>4, <1>5, <1>6, SavedStep

\* An event is traced, or a timeout passes.
LEMMA OthersSaved ==
    ASSUME QueueInv, ToldInv, SavedInv, Others
    PROVE  SavedInv'
  <1>1. UNCHANGED clientVars /\ UNCHANGED <<sTracingSession, sessions, thread>>
    BY DEF Others, clientVars
  <1>2. CASE TraceEvent
    <2>1. /\ UNCHANGED <<tasks, late, service, sources, woken, raw_trace>> /\ late \subseteq late'
          /\ \A s \in Sessions : written'[s] =
                written[s] + (IF sources[s] = "enabled" THEN 1 ELSE 0)
      BY <1>2 DEF TraceEvent
    <2>2. \A s \in Sessions : written[s] \in Nat
      BY MuxerAssumption DEF QueueInv, Inv, TypeOK, MuxerTypeOK
    <2>3. \A s \in Sessions : written'[s] = written[s] \/ sources[s] = "enabled"
      BY <2>1, <2>2
    <2>4. Queued' = Queued
      BY <2>1 DEF Queued
    <2>5. \A do, s : Has(do, s)' <=> Has(do, s)
      BY <2>4 DEF Has
    <2>6. ASSUME NEW s \in Sessions PROVE SourceInv(s)'
      <3>1. SourceInv(s)
        BY DEF SavedInv
      <3> QED BY <1>1, <2>1, <2>3, <2>5, <3>1, SourceKept
    <2>7. orderly /\ thread.call = "reading"
             /\ (woken' = "read" \/ \E s \in Sessions : s = sTracingSession /\ Has("wakeRead", s)') =>
                Holds(raw_trace, sessions) /\ raw_trace' = raw_trace
      BY <2>1, <2>5 DEF SavedInv
    <2> QED BY <1>1, <2>1, <2>3, <2>6, <2>7, SavedStep
  <1>3. ASSUME NEW i \in Sessions, Timeout(i) PROVE SavedInv'
    <2>1. /\ UNCHANGED <<written, sources, woken, raw_trace>> /\ late \subseteq late'
          /\ \/ UNCHANGED <<service, tasks, late>>
             \/ /\ \E n \in Scraped(i) : service' = [service EXCEPT ![i] = Disabled(n)]
                /\ tasks' = tasks \o Observing(i) \o <<Task("OnTracingDisabled", i)>>
                /\ late' = late \cup {i}
      BY <1>3 DEF Timeout
    <2>t. service \in [Sessions -> ServiceSession] /\ tasks \in Seq(Tasks)
      BY DEF QueueInv, Inv, TypeOK, MuxerTypeOK
    <2>2. NoneFresh
      <3>1. CASE UNCHANGED tasks
        BY <3>1, SameQueueTold DEF NoneFresh, Has
      <3>2. CASE tasks' = tasks \o Observing(i) \o <<Task("OnTracingDisabled", i)>>
        <4> DEFINE post == Observing(i)
                   last == <<Task("OnTracingDisabled", i)>>
                   X == {"started", "stopped", "wakeRead", "StopDataSource_AsyncEnd"}
        <4> DEFINE Y == Fresh \cap Quiet
        <4>1. /\ Task("OnTracingDisabled", i) \in Y
              /\ Task("OnObservableEvents", i) \in Y
          BY QuietPosts, FreshPosts DEF SessionTasks
        <4>2. /\ \A t \in Y : t.do \notin X
              /\ Y \subseteq Tasks
          BY DEF Fresh, Quiet
        <4>3. post \in Seq(Y) /\ last \in Seq(Y)
          <5> HIDE DEF Y
          <5>1. <<>> \in Seq(Y) /\ \A t \in Y : <<t>> \in Seq(Y)
            OBVIOUS
          <5> QED BY <4>1, <5>1 DEF Observing, If
        <4> HIDE DEF post, last, X, Y
        <4>4. PICK new \in Seq(Y) : new = post \o last
          <5>1. \A p, q \in Seq(Y) : p \o q \in Seq(Y)
            OBVIOUS
          <5> QED BY <4>3, <5>1
        <4>5. post \in Seq(Tasks) /\ last \in Seq(Tasks) /\ new \in Seq(Tasks) /\ Len(new) \in Nat
          BY <4>2, <4>3, <4>4
        <4>6. tasks' = tasks \o new
          <5>1. tasks' = (tasks \o post) \o last
            BY <3>2 DEF post, last
          <5>2. (tasks \o post) \o last = tasks \o (post \o last)
            BY <2>t, <4>5, ConcatAssociative
          <5>3. new = post \o last
            BY <4>4
          <5> QED BY <5>1, <5>2, <5>3, Zenon
        <4>7. /\ Len(tasks') = Len(tasks) + Len(new)
              /\ \A j \in 1 .. Len(tasks) : tasks'[j] = tasks[j]
              /\ \A j \in 1 .. Len(new) : tasks'[Len(tasks) + j] = new[j]
          BY <2>t, <4>5, <4>6, ConcatAt
        <4>8. \A j \in 1 .. Len(new) : new[j].do \notin X
          BY <4>2, <4>4
        <4>9. /\ {"started", "stopped"} \subseteq X
              /\ "wakeRead" \in X /\ "StopDataSource_AsyncEnd" \in X
          BY DEF X
        <4>10. \A t : t.do \in X => (t \in Queued' <=> t \in Queued)
          BY <2>t, <4>5, <4>7, <4>8, <4>9, AppendQuiet
        <4> QED BY <4>9, <4>10, TaskSame DEF NoneFresh, Has
      <3> QED BY <2>1, <3>1, <3>2
    <2>3. \A s : /\ Has("StopDataSource_AsyncEnd", s)' => Has("StopDataSource_AsyncEnd", s)
                 /\ Has("wakeRead", s)' => Has("wakeRead", s)
      BY <2>2 DEF NoneFresh
    <2>4. ASSUME NEW s \in Sessions PROVE SourceInv(s)'
      <3>1. SourceInv(s)
        BY DEF SavedInv
      <3>2. \/ service'[s] = service[s]
            \/ s \in late' /\ service'[s].state = "DISABLED"
        BY <2>1, <2>t DEF Disabled
      <3> QED BY <1>1, <2>1, <2>3, <3>1, <3>2, SourceKept
    <2>5. orderly /\ thread.call = "reading"
             /\ (woken' = "read" \/ \E s \in Sessions : s = sTracingSession /\ Has("wakeRead", s)') =>
                Holds(raw_trace, sessions) /\ raw_trace' = raw_trace
      BY <2>1, <2>3 DEF SavedInv
    <2> QED BY <1>1, <2>1, <2>4, <2>5, SavedStep
  <1> QED BY <1>2, <1>3 DEF Others

\* A step of a call that leaves the muxer's state alone but for the queue, and
\* the sessions as they are.
LEMMA CallSources ==
    ASSUME QueueInv, SavedInv, NoneFresh, UNCHANGED <<service, sources, written, late>>,
           \A s \in Sessions : s > sessions' \/ s = sTracingSession' =>
              s > sessions \/ s = sTracingSession
    PROVE  \A s \in Sessions : SourceInv(s)'
  <1>1. \A s : Has("StopDataSource_AsyncEnd", s)' => Has("StopDataSource_AsyncEnd", s)
    BY DEF NoneFresh
  <1> SUFFICES ASSUME NEW s \in Sessions PROVE SourceInv(s)'
    OBVIOUS
  <1>2. SourceInv(s)
    BY DEF SavedInv
  <1> QED BY <1>1, <1>2, SourceKept

\* The queue does not change.
LEMMA SameFresh ==
    ASSUME UNCHANGED tasks
    PROVE  NoneFresh /\ \A do, s : Has(do, s)' <=> Has(do, s)
  BY SameQueueTold DEF NoneFresh, Has

\* One task of the call is posted.
LEMMA PostSaved ==
    ASSUME QueueInv, ToldInv, SavedInv, Post
    PROVE  SavedInv'
  <1> DEFINE h == Head(thread.posts)
  <1>1. /\ thread'.call = thread.call
        /\ UNCHANGED <<service, sources, written, late, woken, raw_trace, sTraceConfig,
                       sTracingSession, hostTrace, files, sessions, named, orderly>>
    BY CallWoken DEF Post
  <1>2. Queued' = Queued \cup {h} /\ Posted' \cup {h} = Posted
    BY PostQueue
  <1>3. h.do \notin {"wakeRead", "StopDataSource_AsyncEnd"}
    BY <1>2 DEF QueueInv, PostsInv, ClientTasks, GlobalTasks
  <1> HIDE DEF h
  <1>4. NoneFresh
    BY <1>2, <1>3, TaskSame DEF NoneFresh, Has
  <1>5. \A s \in Sessions : SourceInv(s)'
    BY <1>1, <1>4, CallSources
  <1>6. Has("wakeRead", sTracingSession)' => Has("wakeRead", sTracingSession)
    <2>1. PICK i : i = sTracingSession
      OBVIOUS
    <2>2. Has("wakeRead", i)' => Has("wakeRead", i)
      BY <1>4 DEF NoneFresh
    <2> QED BY <1>1, <2>1, <2>2 DEF Has
  <1>7. /\ Holds(raw_trace, sessions)' <=> Holds(raw_trace, sessions)
        /\ Holds(hostTrace, sessions)' <=> Holds(hostTrace, sessions)
        /\ Holds(files[named], sessions)' <=> Holds(files[named], sessions)
    BY <1>1 DEF Holds
  <1> QED BY <1>1, <1>5, <1>6, <1>7 DEF SavedInv, Idle

\* The steps of the calls that neither read nor write: startTracing returns,
\* endTracing begins and goes on.
LEMMA CallSaved ==
    ASSUME QueueInv, ToldInv, SavedInv, Started \/ EndTracing \/ Stopped
    PROVE  SavedInv'
  <1>t. sTraceConfig \in [tracingDisabled : BOOLEAN, saving : BOOLEAN,
                          hostFilename : Files \cup {NoFile}]
    BY DEF QueueInv, Inv, TypeOK
  <1>1. /\ UNCHANGED <<tasks, service, sources, written, late, raw_trace,
                       sTracingSession, hostTrace, files, sessions, named>>
        /\ orderly' = orderly \/ orderly' = FALSE
        /\ sTraceConfig'.hostFilename = sTraceConfig.hostFilename
    BY <1>t DEF Started, EndTracing, Stopped, muxerVars
  <1>2. NoneFresh /\ \A do, s : Has(do, s)' <=> Has(do, s)
    BY <1>1, SameFresh
  <1>3. \A s \in Sessions : SourceInv(s)'
    BY <1>1, <1>2, CallSources
  <1> SUFFICES ASSUME orderly' PROVE SavedInv'
    BY <1>3 DEF SavedInv
  <1>4. orderly
    BY <1>1
  <1>5. /\ thread'.call # "writing" /\ ~(Idle' /\ sTraceConfig'.tracingDisabled)
        /\ thread.call # "writing"
    <2>1. CASE Started
      BY <1>t, <2>1, CallWoken DEF Started, Waiting
    <2>2. CASE EndTracing
      BY <2>2 DEF EndTracing, Idle
    <2>3. CASE Stopped
      BY <2>3 DEF Stopped, Waiting, Idle
    <2> QED BY <2>1, <2>2, <2>3
  <1>6. ASSUME thread'.call = "reading" PROVE woken' # "read" /\ ~Has("wakeRead", sTracingSession)'
    <2>1. Stopped
      <3>1. ~Started
        BY <1>6, CallWoken DEF Started, Waiting
      <3>2. ~EndTracing
        <4> SUFFICES ASSUME EndTracing PROVE FALSE
          OBVIOUS
        <4>1. \/ thread' = thread /\ thread.call = "idle"
              \/ thread' = [call |-> "stopping",
                            posts |-> <<Task("StopBlocking", sTracingSession)>>]
          BY Zenon DEF EndTracing, Idle
        <4>2. thread'.call # "reading"
          BY <4>1
        <4> QED BY <1>6, <4>2
      <3> QED BY <3>1, <3>2
    <2>2. thread.call = "stopping" /\ woken' = "none" /\ sTracingSession # 0
      BY <2>1 DEF Stopped, Waiting, QueueInv, WokenInv
    <2>3. PICK i \in Sessions : i = sTracingSession
      BY <2>2, CallWoken
    <2>4. Begun(i)
      BY <2>2, <2>3, HasBegun
    <2>5. ~Has("wakeRead", i)
      BY <2>2, <2>4 DEF Begun
    <2>6. ~Has("wakeRead", i)'
      BY <1>2, <2>5
    <2> QED BY <1>1, <2>2, <2>3, <2>6 DEF Has
  <1>7. sTracingSession' # 0 => sTraceConfig'.hostFilename = named' /\ named' \in Files
    BY <1>1, <1>4 DEF SavedInv
  <1> QED BY <1>3, <1>5, <1>6, <1>7 DEF SavedInv

\* ReadTraceBlocking returns the trace.
LEMMA ReadSaved ==
    ASSUME QueueInv, ToldInv, SavedInv, Read
    PROVE  SavedInv'
  <1>1. /\ UNCHANGED <<tasks, service, sources, written, late, sTraceConfig, files, sessions,
                       named, orderly>>
        /\ hostTrace' = raw_trace /\ sTracingSession' = 0 /\ woken = "read"
        /\ thread.call = "reading" /\ thread'.call = "writing"
    BY DEF Read, Waiting
  <1>2. NoneFresh
    BY <1>1, SameFresh
  <1>3. sTracingSession # 0 /\ sTracingSession = sessions /\ sessions \in Nat /\ 0 \notin Sessions
    BY <1>1, CallWoken DEF QueueInv, WokenInv
  <1>4. \A s \in Sessions : SourceInv(s)'
    BY <1>1, <1>2, <1>3, CallSources
  <1> SUFFICES ASSUME orderly PROVE SavedInv'
    BY <1>1, <1>4 DEF SavedInv
  <1>5. Holds(raw_trace, sessions) /\ sTraceConfig.hostFilename = named /\ named \in Files
    BY <1>1, <1>3 DEF SavedInv
  <1>6. Holds(hostTrace, sessions)'
    BY <1>1, <1>5 DEF Holds
  <1>7. sessions' > 0
    BY <1>1, <1>3
  <1> QED BY <1>1, <1>4, <1>5, <1>6, <1>7 DEF SavedInv, Idle

\* The trace is written to the file that the session was started with.
LEMMA WriteSaved ==
    ASSUME QueueInv, ToldInv, SavedInv, Write
    PROVE  SavedInv'
  <1>t. /\ sTraceConfig \in [tracingDisabled : BOOLEAN, saving : BOOLEAN,
                             hostFilename : Files \cup {NoFile}]
        /\ files \in [Files -> Trace]
    BY DEF QueueInv, Inv, TypeOK
  <1>1. /\ UNCHANGED <<tasks, service, sources, written, late, woken, sTracingSession, hostTrace,
                       sessions, named, orderly>>
        /\ thread.call = "writing" /\ thread'.call = "idle"
        /\ files' = IF sTraceConfig.hostFilename = NoFile THEN files
                    ELSE [files EXCEPT ![sTraceConfig.hostFilename] = hostTrace]
    BY CallWoken DEF Write, Waiting, muxerVars
  <1>2. NoneFresh
    BY <1>1, SameFresh
  <1>3. sTracingSession = 0
    BY <1>1 DEF QueueInv, WokenInv
  <1>4. \A s \in Sessions : SourceInv(s)'
    BY <1>1, <1>2, CallSources
  <1> SUFFICES ASSUME orderly PROVE SavedInv'
    BY <1>1, <1>4 DEF SavedInv
  <1>5. sTraceConfig.hostFilename = named /\ named \in Files /\ Holds(hostTrace, sessions)
    BY <1>1 DEF SavedInv
  <1>6. files'[named] = hostTrace
    BY <1>1, <1>5, <1>t, MinAssumption
  <1>7. Holds(files[named], sessions)'
    BY <1>1, <1>5, <1>6 DEF Holds
  <1> QED BY <1>1, <1>3, <1>4, <1>7 DEF SavedInv

\* startTracing begins: a new session has traced nothing.
LEMMA StartTracingSaved ==
    ASSUME QueueInv, ToldInv, SavedInv, NEW backend, NEW f \in Files \cup {NoFile}, NEW c,
           backend = "inProcess" => f \in Files, StartTracing(backend, f, c)
    PROVE  SavedInv'
  <1>t. sTraceConfig \in [tracingDisabled : BOOLEAN, saving : BOOLEAN,
                          hostFilename : Files \cup {NoFile}]
    BY DEF QueueInv, Inv, TypeOK
  <1>1. /\ UNCHANGED <<tasks, service, sources, written, late, woken>>
        /\ orderly' = orderly \/ orderly' = FALSE
        /\ Idle /\ thread.call = "idle"
        /\ sTraceConfig' = [sTraceConfig EXCEPT !.hostFilename = f]
    BY DEF StartTracing, Idle
  <1>f. sTraceConfig'.hostFilename = f
    BY <1>1, <1>t
  <1>2. NoneFresh
    BY <1>1, SameFresh
  <1>3. \/ /\ orderly' = FALSE
           /\ sTracingSession' = sTracingSession /\ sessions' = sessions
        \/ /\ sTraceConfig.tracingDisabled /\ sTracingSession' = sessions + 1
           /\ sessions' = sessions + 1 /\ named' = f /\ f \in Files
           /\ thread' = [call |-> "starting",
                         posts |-> Initializing \o Starting(sessions + 1)]
        \/ /\ sTraceConfig.tracingDisabled /\ sTracingSession' = sTracingSession
           /\ sessions' = sessions /\ orderly' = orderly
           /\ thread' = [call |-> "startingSystem", posts |-> Initializing]
    BY Zenon DEF StartTracing
  <1>4. \A s \in Sessions : SourceInv(s)'
    <2>1. \A s \in Sessions : s > sessions' \/ s = sTracingSession' =>
             s > sessions \/ s = sTracingSession
      <3>1. sessions \in Nat /\ Sessions \subseteq Nat
        BY CallWoken
      <3>2. \/ sTracingSession' = sTracingSession /\ sessions' = sessions
            \/ sTracingSession' = sessions + 1 /\ sessions' = sessions + 1
        BY <1>3
      <3> QED BY <3>1, <3>2
    <2> QED BY <1>1, <1>2, <2>1, CallSources
  <1> SUFFICES ASSUME orderly' PROVE SavedInv'
    BY <1>4 DEF SavedInv
  <1>5. sTraceConfig.tracingDisabled /\ thread'.call \in {"starting", "startingSystem"}
    <2>1. \/ /\ sTraceConfig.tracingDisabled
             /\ thread' = [call |-> "starting",
                           posts |-> Initializing \o Starting(sessions + 1)]
          \/ /\ sTraceConfig.tracingDisabled
             /\ thread' = [call |-> "startingSystem", posts |-> Initializing]
      BY <1>3, Zenon
    <2> QED BY <2>1
  <1>6. sTracingSession = 0
    BY <1>1, <1>5 DEF ToldInv
  <1>7. sTracingSession' # 0 => named' = f /\ f \in Files
    BY <1>3, <1>6
  <1> QED BY <1>4, <1>5, <1>7, <1>f DEF SavedInv, Idle

\* Nothing has been traced.
LEMMA SavedInit == Init => SavedInv
  <1> SUFFICES ASSUME Init PROVE SavedInv
    OBVIOUS
  <1>1. /\ sources = [s \in Sessions |-> "none"] /\ service = [s \in Sessions |-> NoServiceSession]
        /\ written = [s \in Sessions |-> 0] /\ sTracingSession = 0 /\ sessions = 0
        /\ thread.call = "idle"
    BY DEF Init, MuxerInit
  <1>2. \A s \in Sessions : SourceInv(s)
    BY <1>1 DEF SourceInv, NoServiceSession
  <1>3. ~(sessions > 0)
    BY <1>1
  <1> QED BY <1>1, <1>2, <1>3 DEF SavedInv

\* Every step keeps the trace on its way to the file.
LEMMA SavedNext == QueueInv /\ ToldInv /\ SavedInv /\ [Next]_vars => SavedInv'
  <1> SUFFICES ASSUME QueueInv, ToldInv, SavedInv, [Next]_vars PROVE SavedInv'
    OBVIOUS
  <1>1. CASE UNCHANGED vars
    <2>1. /\ UNCHANGED <<tasks, thread, service, sources, written, late, woken, raw_trace,
                         sTraceConfig, sTracingSession, hostTrace, files, sessions, named, orderly>>
      BY <1>1 DEF vars, muxerVars, clientVars
    <2>2. Queued' = Queued
      BY <2>1 DEF Queued
    <2> QED BY <2>1, <2>2 DEF SavedInv, SourceInv, Holds, Has, Idle
  <1>2. CASE Client
    BY <1>2, StartTracingSaved, CallSaved DEF Client
  <1>3. CASE Continue
    BY <1>3, PostSaved, CallSaved, ReadSaved, WriteSaved DEF Continue
  <1>4. CASE Muxer
    <2>1. UNCHANGED clientVars
      BY <1>4 DEF Muxer, CallBack
    <2> QED BY <1>4, <2>1, IdleTaskSaved, ServiceSaved, WakeSaved, ReadTraceSaved,
           StopDataSourceSaved, StartDataSourceSaved, AsyncEndSaved DEF Muxer, RunTask
  <1>5. CASE Others
    BY <1>5, OthersSaved
  <1> QED BY <1>1, <1>2, <1>3, <1>4, <1>5 DEF Next

\* When no call is on, the trace has arrived.
LEMMA SavedFile == SavedInv => SavedOnReturn
  BY DEF SavedInv, SavedOnReturn, Holds

\* When endTracing returns, the file that the session was started with holds its
\* trace, with all the events of its thread but perhaps the last one, unless the
\* data source did not answer in time: the service scrapes the buffers only when
\* the data source has stopped tracing, the trace is read only after that, and
\* no later call changes the name before it is written.
THEOREM SavedOnReturns == Spec => []SavedOnReturn
  <1> QED BY QueueInit, QueueNext, ToldInit, ToldNext, SavedInit, SavedNext, SavedFile, PTL
          DEF Spec

=============================================================================
