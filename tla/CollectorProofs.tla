-------------------------- MODULE CollectorProofs --------------------------
(***************************************************************************)
(* Safety of the collector, for any number of streams and messages and any *)
(* order of start-up, handlers, watchers, time-outs and shutdown.          *)
(***************************************************************************)
EXTENDS Collector, FiniteSetTheorems, TLAPS

\* The steps of main, Start, Stop and the monitor.
ProgramStep ==
    \/ LoadConfig \/ NewDatabaseWithConfig \/ Launch \/ StartStep
    \/ Signal \/ MonitorExits \/ ShutdownStep

\* The registry holds the streams whose handler is at work, and the counter
\* counts them.
RegistryInv ==
    /\ registered = {s \in Streams : pc[s] \notin {"unopened", "done"}}
    /\ connCount = Cardinality(registered)

\* A handler that is past Recv has received a message.
MessageInv ==
    \A s \in Streams :
        pc[s] \in {"process", "send", "cancel", "renew"} => received[s] \in 1 .. MaxMsgs

\* A handler that is about to answer has seen to the records of its message.
AnswerInv ==
    \A s \in Streams :
        pc[s] = "send" => cur[s] # "bad" /\ (cur[s] = "data" => CurrentMessage(s) \in added)

\* Once GracefulStop has returned no handler is at work.
DrainInv == mainPc \in {"drained", "exited"} /\ server = "stopped" => HandlersDone

\* A context that has expired was made DataTimeout ago.
DeadlineInv ==
    \A s \in Streams :
        /\ gen[s] > 0 => deadline[s] = renewed[s] + DataTimeout
        /\ ctxErr[s] = "deadline" => gen[s] > 0 /\ now >= deadline[s]

CollectorInv == TypeOK /\ RegistryInv /\ MessageInv

-----------------------------------------------------------------------------
\* Next is a step of one stream, of the clock or of the program.
LEMMA NextCases ==
    ASSUME [Next]_vars
    PROVE  \/ \E s \in Streams :
                 \/ Open(s) \/ DeviceLeaves(s) \/ Receive(s) \/ RecvFails(s) \/ Process(s)
                 \/ Send(s) \/ SendFails(s) \/ Cancel(s) \/ Renew(s) \/ ContextExpires(s)
                 \/ WatcherStep(s)
           \/ Tick \/ ProgramStep \/ UNCHANGED vars
  BY DEF Next, HandlerStep, ProgramStep

\* The steps of the program leave handlers and connections alone.
LEMMA ProgramLeavesStreams ==
    ASSUME ProgramStep
    PROVE  UNCHANGED connectionState
<1> USE DEF ProgramStep, StartStep, ShutdownStep
<1>1. CASE LoadConfig
  BY <1>1 DEF LoadConfig
<1>2. CASE NewDatabaseWithConfig
  BY <1>2 DEF NewDatabaseWithConfig
<1>3. CASE Launch
  BY <1>3 DEF Launch
<1>4. CASE Listen
  BY <1>4 DEF Listen
<1>5. CASE MakeServer
  BY <1>5 DEF MakeServer
<1>6. CASE Serve
  BY <1>6 DEF Serve
<1>7. CASE Signal
  BY <1>7 DEF Signal
<1>8. CASE MonitorExits
  BY <1>8 DEF MonitorExits
<1>9. CASE MonitorAwaited
  BY <1>9 DEF MonitorAwaited
<1>10. CASE StopBuffer
  BY <1>10 DEF StopBuffer
<1>11. CASE GracefulStop
  BY <1>11 DEF GracefulStop
<1>12. CASE StopFindsNoServer
  BY <1>12 DEF StopFindsNoServer
<1>13. CASE GracefulStopReturns
  BY <1>13 DEF GracefulStopReturns
<1>14. CASE Exit
  BY <1>14 DEF Exit
<1> QED
  BY <1>1, <1>2, <1>3, <1>4, <1>5, <1>6, <1>7, <1>8, <1>9, <1>10, <1>11, <1>12, <1>13, <1>14

\* The variables of the program keep their types.
LEMMA ProgramTypes ==
    ASSUME TypeOK, ProgramStep
    PROVE  /\ startPc' \in {"idle", "listen", "make", "serve", "serving", "returned"}
           /\ listener' \in {"nil", "open", "closed"} /\ server' \in {"nil", "made", "stopped"}
           /\ monitor' \in {"none", "running", "done"}
           /\ mainPc' \in {"config", "database", "launch", "fatal", "serving", "stopping",
                           "monitorAwaited", "bufferStopped", "draining", "drained", "exited"}
<1> USE DEF ProgramStep, StartStep, ShutdownStep, TypeOK, startVars, stopVars
<1>1. CASE LoadConfig
  BY <1>1 DEF LoadConfig
<1>2. CASE NewDatabaseWithConfig
  BY <1>2 DEF NewDatabaseWithConfig
<1>3. CASE Launch
  BY <1>3 DEF Launch
<1>4. CASE Listen
  BY <1>4 DEF Listen
<1>5. CASE MakeServer
  BY <1>5 DEF MakeServer
<1>6. CASE Serve
  BY <1>6 DEF Serve
<1>7. CASE Signal
  BY <1>7 DEF Signal
<1>8. CASE MonitorExits
  BY <1>8 DEF MonitorExits
<1>9. CASE MonitorAwaited
  BY <1>9 DEF MonitorAwaited
<1>10. CASE StopBuffer
  BY <1>10 DEF StopBuffer
<1>11. CASE GracefulStop
  BY <1>11 DEF GracefulStop
<1>12. CASE StopFindsNoServer
  BY <1>12 DEF StopFindsNoServer
<1>13. CASE GracefulStopReturns
  BY <1>13 DEF GracefulStopReturns
<1>14. CASE Exit
  BY <1>14 DEF Exit
<1> QED
  BY <1>1, <1>2, <1>3, <1>4, <1>5, <1>6, <1>7, <1>8, <1>9, <1>10, <1>11, <1>12, <1>13, <1>14

-----------------------------------------------------------------------------
\* Every step of a stream, of the clock or of the program preserves the types,
\* the registry's invariant and that of the messages.
LEMMA CollectorStep ==
    ASSUME CollectorInv, [Next]_vars
    PROVE  CollectorInv'
<1> USE CollectorAssumption DEF CollectorInv
<1>0. IsFiniteSet(registered) /\ registered \subseteq Streams
  BY FS_Subset DEF TypeOK
<1>1. ASSUME NEW s \in Streams, Open(s)
      PROVE  CollectorInv'
  <2>1. s \notin registered
    BY <1>1 DEF Open, RegistryInv
  <2>2. connCount' = Cardinality(registered')
    BY <1>0, <1>1, <2>1, FS_AddElement DEF Open, RegistryInv
  <2>3. registered' = {t \in Streams : pc'[t] \notin {"unopened", "done"}}
    BY <1>1 DEF Open, RegistryInv, TypeOK
  <2>4. TypeOK'
    BY <1>1 DEF Open, NewContext, TypeOK, stopVars, startVars
  <2>5. MessageInv'
    BY <1>1 DEF Open, MessageInv, TypeOK
  <2> QED
    BY <2>2, <2>3, <2>4, <2>5 DEF RegistryInv
<1>2. ASSUME NEW s \in Streams, Return(s), pc[s] \in {"recv", "send"}
      PROVE  CollectorInv'
  <2>1. s \in registered
    BY <1>2 DEF RegistryInv
  <2>2. connCount' = Cardinality(registered') /\ connCount' \in Nat
    <3>1. /\ Cardinality(registered \ {s}) = Cardinality(registered) - 1
          /\ Cardinality(registered \ {s}) \in Nat
      BY <1>0, <2>1, FS_RemoveElement, FS_CardinalityType
    <3> QED
      BY <1>2, <2>1, <3>1 DEF Return, RegistryInv
  <2>3. registered' = {t \in Streams : pc'[t] \notin {"unopened", "done"}}
    BY <1>2 DEF Return, RegistryInv, TypeOK
  <2>4. TypeOK'
    BY <1>2, <2>2 DEF Return, TypeOK, watchVars, stopVars, startVars
  <2>5. MessageInv'
    BY <1>2 DEF Return, MessageInv, TypeOK
  <2> QED
    BY <2>2, <2>3, <2>4, <2>5 DEF RegistryInv
<1>3. ASSUME NEW s \in Streams, Receive(s)
      PROVE  CollectorInv'
  <2>1. TypeOK'
    BY <1>3 DEF Receive, TypeOK, ctxVars, watchVars, stopVars, startVars
  <2>2. RegistryInv'
    BY <1>3 DEF Receive, RegistryInv, TypeOK
  <2>3. MessageInv'
    BY <1>3 DEF Receive, MessageInv, TypeOK
  <2> QED
    BY <2>1, <2>2, <2>3
<1>4. ASSUME NEW s \in Streams, Process(s)
      PROVE  CollectorInv'
  <2>1. CurrentMessage(s) \in Message
    BY <1>4 DEF Process, CurrentMessage, Message, MessageInv, TypeOK
  <2>2. TypeOK'
    BY <1>4, <2>1 DEF Process, TypeOK, connVars, ctxVars, watchVars, stopVars, startVars
  <2>3. RegistryInv'
    BY <1>4 DEF Process, RegistryInv, TypeOK, connVars
  <2>4. MessageInv'
    BY <1>4 DEF Process, MessageInv, TypeOK, connVars
  <2> QED
    BY <2>2, <2>3, <2>4
<1>5. ASSUME NEW s \in Streams, Send(s)
      PROVE  CollectorInv'
  <2>1. CurrentMessage(s) \in Message
    BY <1>5 DEF Send, CurrentMessage, Message, MessageInv, TypeOK
  <2>2. TypeOK'
    BY <1>5, <2>1 DEF Send, TypeOK, connVars, ctxVars, watchVars, stopVars, startVars
  <2>3. RegistryInv'
    BY <1>5 DEF Send, RegistryInv, TypeOK, connVars
  <2>4. MessageInv'
    BY <1>5 DEF Send, MessageInv, TypeOK, connVars
  <2> QED
    BY <2>2, <2>3, <2>4
<1>6. ASSUME NEW s \in Streams, Cancel(s) \/ Renew(s)
      PROVE  CollectorInv'
  <2>1. TypeOK'
    BY <1>6 DEF Cancel, Renew, NewContext, TypeOK, connVars, watchVars, stopVars, startVars
  <2>2. RegistryInv'
    BY <1>6 DEF Cancel, Renew, RegistryInv, TypeOK, connVars
  <2>3. MessageInv'
    BY <1>6 DEF Cancel, Renew, MessageInv, TypeOK, connVars
  <2> QED
    BY <2>1, <2>2, <2>3
<1>7. ASSUME NEW s \in Streams, DeviceLeaves(s) \/ ContextExpires(s) \/ WatcherStep(s)
      PROVE  CollectorInv'
  <2> USE DEF WatcherStep
  <2>1. TypeOK'
    <3>1. CASE DeviceLeaves(s)
      BY <3>1 DEF DeviceLeaves, TypeOK, connVars, watchVars, stopVars, startVars
    <3>2. CASE ContextExpires(s)
      BY <3>2 DEF ContextExpires, TypeOK, connVars, watchVars, stopVars, startVars
    <3>3. CASE WatcherStarts(s)
      BY <3>3 DEF WatcherStarts, TypeOK, connVars, ctxVars, stopVars, startVars
    <3>4. CASE WatcherWakes(s)
      BY <3>4 DEF WatcherWakes, TypeOK, connVars, ctxVars, stopVars, startVars
    <3>5. CASE WatcherEnds(s)
      BY <3>5 DEF WatcherEnds, TypeOK, connVars, ctxVars, stopVars, startVars
    <3> QED
      BY <1>7, <3>1, <3>2, <3>3, <3>4, <3>5
  <2>2. UNCHANGED <<pc, registered, connCount, received>>
    BY <1>7 DEF DeviceLeaves, ContextExpires, WatcherStarts, WatcherWakes, WatcherEnds, connVars
  <2> QED
    BY <2>1, <2>2 DEF RegistryInv, MessageInv
<1>8. CASE Tick
  <2>1. TypeOK'
    BY <1>8 DEF Tick, TypeOK, connVars, ctxVars, watchVars, stopVars, startVars
  <2> QED
    BY <1>8, <2>1 DEF Tick, RegistryInv, MessageInv, connVars
<1>9. CASE ProgramStep
  <2>1. TypeOK'
    BY <1>9, ProgramTypes, ProgramLeavesStreams
       DEF TypeOK, connectionState, connVars, ctxVars, watchVars
  <2> QED
    BY <1>9, <2>1, ProgramLeavesStreams DEF connectionState, connVars, RegistryInv, MessageInv
<1>10. CASE UNCHANGED vars
  BY <1>10 DEF vars, TypeOK, RegistryInv, MessageInv, connVars, ctxVars, watchVars,
               stopVars, startVars
<1> QED
  BY <1>1, <1>2, <1>3, <1>4, <1>5, <1>6, <1>7, <1>8, <1>9, <1>10, NextCases
     DEF RecvFails, SendFails

\* The program before start-up satisfies the inductive invariant.
LEMMA CollectorInitially == Init => CollectorInv
<1> SUFFICES ASSUME Init
             PROVE  CollectorInv
  OBVIOUS
<1>1. TypeOK
  BY CollectorAssumption DEF Init, TypeOK, Kinds
<1>2. RegistryInv /\ MessageInv
  BY FS_EmptySet DEF Init, RegistryInv, MessageInv
<1> QED
  BY <1>1, <1>2 DEF CollectorInv

\* Every variable stays in its domain; in particular activeConnCount never
\* becomes negative.
THEOREM TypeCorrect == Spec => []TypeOK
<1>1. CollectorInv => TypeOK
  BY DEF CollectorInv
<1> QED
  BY <1>1, CollectorInitially, CollectorStep, PTL DEF Spec

-----------------------------------------------------------------------------
\* A message with telemetry is answered only after its records were added to
\* the buffer, and one that does not parse is never answered.
THEOREM AcksAreBuffered == Spec => []AckMeansBuffered
<1>1. Init => AckMeansBuffered /\ AnswerInv
  BY DEF Init, AckMeansBuffered, AnswerInv
<1>2. ASSUME TypeOK, AckMeansBuffered, AnswerInv, [Next]_vars
      PROVE  AckMeansBuffered' /\ AnswerInv'
  <2> USE <1>2
  <2>1. ASSUME NEW s \in Streams, Send(s)
        PROVE  AckMeansBuffered' /\ AnswerInv'
    <3>1. AckMeansBuffered'
      BY <2>1 DEF Send, AckMeansBuffered, AnswerInv, CurrentMessage
    <3>2. AnswerInv'
      BY <2>1 DEF Send, AnswerInv, CurrentMessage, TypeOK, connVars
    <3> QED
      BY <3>1, <3>2
  <2>2. ASSUME NEW s \in Streams, Process(s)
        PROVE  AckMeansBuffered' /\ AnswerInv'
    <3>1. AckMeansBuffered'
      BY <2>2 DEF Process, AckMeansBuffered
    <3>2. AnswerInv'
      BY <2>2 DEF Process, AnswerInv, CurrentMessage, TypeOK, connVars
    <3> QED
      BY <3>1, <3>2
  <2>3. ASSUME NEW s \in Streams,
               \/ Open(s) \/ Receive(s) \/ RecvFails(s) \/ SendFails(s) \/ Cancel(s) \/ Renew(s)
        PROVE  AckMeansBuffered' /\ AnswerInv'
    <3>1. /\ UNCHANGED <<added, acked>>
          /\ \A t \in Streams : pc'[t] = "send" =>
                /\ pc[t] = "send" /\ cur'[t] = cur[t] /\ received'[t] = received[t]
      BY <2>3 DEF Open, Receive, RecvFails, SendFails, Return, Cancel, Renew, TypeOK, connVars
    <3> QED
      BY <3>1 DEF AckMeansBuffered, AnswerInv, CurrentMessage
  <2>4. ASSUME NEW s \in Streams, DeviceLeaves(s) \/ ContextExpires(s) \/ WatcherStep(s)
        PROVE  AckMeansBuffered' /\ AnswerInv'
    BY <2>4 DEF DeviceLeaves, ContextExpires, WatcherStep, WatcherStarts, WatcherWakes,
                WatcherEnds, connVars, AckMeansBuffered, AnswerInv, CurrentMessage
  <2>5. CASE Tick \/ ProgramStep \/ UNCHANGED vars
    <3>1. UNCHANGED <<pc, cur, received, added, acked>>
      BY <2>5, ProgramLeavesStreams DEF Tick, vars, connectionState, connVars
    <3> QED
      BY <3>1 DEF AckMeansBuffered, AnswerInv, CurrentMessage
  <2> QED
    BY <2>1, <2>2, <2>3, <2>4, <2>5, NextCases
<1> QED
  BY <1>1, <1>2, TypeCorrect, PTL DEF Spec

\* A program whose Stop has found the server exits with no handler at work and
\* an empty registry, at whatever point of the start-up the signal came.
THEOREM ExitIsDrained == Spec => []DrainedAtExit
<1>1. Init => DrainInv
  BY DEF Init, DrainInv
<1>2. ASSUME CollectorInv, DrainInv, [Next]_vars
      PROVE  DrainInv'
  <2> USE <1>2 DEF CollectorInv
  <2>1. ASSUME NEW s \in Streams, Open(s)
        PROVE  DrainInv'
    BY <2>1 DEF Open, Accepting, DrainInv, stopVars, startVars
  <2>2. ASSUME NEW s \in Streams,
               \/ Receive(s) \/ RecvFails(s) \/ Process(s) \/ Send(s) \/ SendFails(s)
               \/ Cancel(s) \/ Renew(s)
        PROVE  DrainInv'
    <3>1. UNCHANGED <<mainPc, server>> /\ pc[s] \notin {"unopened", "done"}
      BY <2>2 DEF Receive, RecvFails, Process, Send, SendFails, Return, Cancel, Renew,
                  stopVars, startVars
    <3> QED
      BY <3>1 DEF DrainInv, HandlersDone
  <2>3. ASSUME NEW s \in Streams, DeviceLeaves(s) \/ ContextExpires(s) \/ WatcherStep(s)
        PROVE  DrainInv'
    BY <2>3 DEF DeviceLeaves, ContextExpires, WatcherStep, WatcherStarts, WatcherWakes,
                WatcherEnds, stopVars, startVars, DrainInv, HandlersDone
  <2>4. CASE Tick \/ UNCHANGED vars
    BY <2>4 DEF Tick, vars, stopVars, startVars, DrainInv, HandlersDone
  <2>5. CASE ProgramStep
    <3>1. UNCHANGED pc
      BY <2>5, ProgramLeavesStreams DEF connectionState
    <3>2. mainPc' \in {"drained", "exited"} /\ server' = "stopped" =>
              \/ HandlersDone
              \/ mainPc \in {"drained", "exited"} /\ server = "stopped"
      BY <2>5 DEF ProgramStep, StartStep, ShutdownStep, LoadConfig, NewDatabaseWithConfig,
                  Launch, Listen, MakeServer, Serve, Signal, MonitorExits, MonitorAwaited,
                  StopBuffer, GracefulStop, StopFindsNoServer, GracefulStopReturns, Exit,
                  startVars
    <3> QED
      BY <3>1, <3>2 DEF DrainInv, HandlersDone
  <2> QED
    BY <2>1, <2>2, <2>3, <2>4, <2>5, NextCases
<1>3. CollectorInv /\ DrainInv => DrainedAtExit
  BY FS_EmptySet DEF CollectorInv, DrainInv, DrainedAtExit, RegistryInv, HandlersDone
<1> QED
  BY <1>1, <1>2, <1>3, CollectorInitially, CollectorStep, PTL DEF Spec

\* The watcher reports a device only when its context has not been renewed for
\* DataTimeout, whichever context it waited for.
THEOREM ReportsAreOld == Spec => ReportIsOld
<1>1. Init => DeadlineInv
  BY DEF Init, DeadlineInv
<1>2. ASSUME TypeOK, DeadlineInv, [Next]_vars
      PROVE  DeadlineInv'
  <2> USE <1>2, CollectorAssumption
  <2>1. ASSUME NEW s \in Streams, Open(s) \/ Renew(s)
        PROVE  DeadlineInv'
    BY <2>1 DEF Open, Renew, NewContext, DeadlineInv, TypeOK
  <2>2. ASSUME NEW s \in Streams,
               DeviceLeaves(s) \/ RecvFails(s) \/ SendFails(s) \/ Cancel(s)
        PROVE  DeadlineInv'
    BY <2>2 DEF DeviceLeaves, RecvFails, SendFails, Return, Cancel, DeadlineInv, TypeOK
  <2>3. ASSUME NEW s \in Streams, ContextExpires(s)
        PROVE  DeadlineInv'
    BY <2>3 DEF ContextExpires, DeadlineInv, TypeOK
  <2>4. ASSUME NEW s \in Streams, Receive(s) \/ Process(s) \/ Send(s) \/ WatcherStep(s)
        PROVE  DeadlineInv'
    BY <2>4 DEF Receive, Process, Send, WatcherStep, WatcherStarts, WatcherWakes,
                WatcherEnds, ctxVars, DeadlineInv
  <2>5. CASE Tick
    BY <2>5 DEF Tick, ctxVars, DeadlineInv, TypeOK
  <2>6. CASE ProgramStep \/ UNCHANGED vars
    <3>1. UNCHANGED <<now, gen, deadline, renewed, ctxErr>>
      BY <2>6, ProgramLeavesStreams DEF connectionState, vars, ctxVars
    <3> QED
      BY <3>1 DEF DeadlineInv
  <2> QED
    BY <2>1, <2>2, <2>3, <2>4, <2>5, <2>6, NextCases
<1>3. ASSUME TypeOK, DeadlineInv, [Next]_vars
      PROVE  [\A s \in Streams : s \in reported' /\ s \notin reported
                                    => SinceRenewal(s) >= DataTimeout]_vars
  <2> USE <1>3, CollectorAssumption
  <2>1. ASSUME NEW t \in Streams, WatcherEnds(t)
        PROVE  \A s \in Streams : s \in reported' /\ s \notin reported
                                    => SinceRenewal(s) >= DataTimeout
    BY <2>1 DEF WatcherEnds, DeadlineInv, SinceRenewal, TypeOK
  <2>2. CASE \E t \in Streams : \/ Open(t) \/ DeviceLeaves(t) \/ Receive(t) \/ RecvFails(t)
                                \/ Process(t) \/ Send(t) \/ SendFails(t) \/ Cancel(t)
                                \/ Renew(t) \/ ContextExpires(t)
                                \/ WatcherStarts(t) \/ WatcherWakes(t)
    BY <2>2 DEF Open, DeviceLeaves, Receive, RecvFails, Process, Send, SendFails, Return,
                Cancel, Renew, ContextExpires, WatcherStarts, WatcherWakes, watchVars
  <2>3. CASE Tick \/ ProgramStep \/ UNCHANGED vars
    BY <2>3, ProgramLeavesStreams DEF Tick, connectionState, vars, watchVars
  <2> QED
    BY <2>1, <2>2, <2>3, NextCases DEF WatcherStep
<1> QED
  BY <1>1, <1>2, <1>3, TypeCorrect, PTL DEF Spec, ReportIsOld
=============================================================================
