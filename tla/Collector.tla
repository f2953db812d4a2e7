----------------------------- MODULE Collector -----------------------------
(***************************************************************************)
(* The gRPC side of the collector (internal/collector) and main around it: *)
(* start-up, Publish handlers with their connection registry, the watcher  *)
(* goroutine that Publish starts to detect a silent device, the connection *)
(* monitor, SimpleCollector.Start and Stop and the end of the program.     *)
(*                                                                         *)
(* The buffer manager is seen through its two calls: the Add* calls that   *)
(* put the records of a message into the buffer, and Stop, whose flush     *)
(* takes what is in the buffer at that moment.  Time advances in steps of  *)
(* an arbitrary unit; dataTimeout is DataTimeout of them.                  *)
(***************************************************************************)
EXTENDS Integers, FiniteSets

CONSTANTS
    Streams,     \* Publish streams that devices open
    MaxMsgs,     \* bound: messages on one stream
    DataTimeout, \* c.dataTimeout (15 minutes in the code)
    MaxTime      \* bound: the clock stops there

ASSUME CollectorAssumption ==
    /\ IsFiniteSet(Streams)
    /\ MaxMsgs \in Nat /\ MaxTime \in Nat /\ DataTimeout \in Nat \ {0}

\* A message carries telemetry that parses, telemetry that does not, or none.
Kinds == {"data", "bad", "empty"}

Message == [stream : Streams, seq : 1 .. MaxMsgs, kind : Kinds]

VARIABLES
    now,        \* the clock
    pc,         \* pc[s]: what the handler of s does next
    cur,        \* cur[s]: kind of the message it is handling
    registered, \* c.connections
    connCount,  \* c.activeConnCount
    last,       \* last[s]: LastDataTime
    received,   \* received[s]: DataCount
    gone,       \* streams whose stream.Context() is done
    gen,        \* gen[s]: which of the contexts made by Publish ctx holds
    deadline,   \* deadline[s]: deadline of that context
    ctxErr,     \* ctxErr[s]: its Err()
    renewed,    \* renewed[s]: when it was made (history)
    watch,      \* watch[s]: state of the watcher goroutine
    watchGen,   \* watchGen[s]: generation whose Done() it waits for
    reported,   \* streams whose time-out the watcher has logged
    added,      \* messages whose records are or were in the buffer
    acked,      \* messages that were answered
    startPc,    \* what the goroutine of SimpleCollector.Start does next
    listener,   \* c.listener
    server,     \* c.server
    monitor,    \* the connection monitor
    mainPc      \* how far main and SimpleCollector.Stop have got

clockVars == <<now>>
connVars  == <<registered, connCount, last, received>>
ctxVars   == <<gen, deadline, ctxErr, renewed>>
watchVars == <<watch, watchGen, reported>>
startVars == <<startPc, listener, server>>
stopVars  == <<startVars, monitor, mainPc>>
vars == <<now, pc, cur, connVars, gone, ctxVars, watchVars, added, acked, stopVars>>

Running   == mainPc \notin {"exited", "fatal"}
\* main has started the goroutines and waits for a signal, or has got one.
Launched  == Running /\ mainPc \notin {"config", "database", "launch"}
Signalled == Launched /\ mainPc # "serving"

Init ==
    /\ now = 0
    /\ pc = [s \in Streams |-> "unopened"]
    /\ cur = [s \in Streams |-> "empty"]
    /\ registered = {} /\ connCount = 0
    /\ last = [s \in Streams |-> 0]
    /\ received = [s \in Streams |-> 0]
    /\ gone = {}
    /\ gen = [s \in Streams |-> 0]
    /\ deadline = [s \in Streams |-> 0]
    /\ ctxErr = [s \in Streams |-> "nil"]
    /\ renewed = [s \in Streams |-> 0]
    /\ watch = [s \in Streams |-> "none"]
    /\ watchGen = [s \in Streams |-> 0]
    /\ reported = {}
    /\ added = {} /\ acked = {}
    /\ startPc = "idle" /\ listener = "nil" /\ server = "nil"
    /\ monitor = "none" /\ mainPc = "config"

-----------------------------------------------------------------------------
(* Start-up.                                                               *)

connectionState == <<now, pc, cur, connVars, gone, ctxVars, watchVars, added, acked>>

\* A missing file leaves the defaults; one that cannot be read or parsed is
\* fatal.
LoadConfig ==
    /\ mainPc = "config"
    /\ mainPc' \in {"database", "fatal"}
    /\ UNCHANGED <<connectionState, startVars, monitor>>

\* A pool that cannot be made or does not answer the ping is fatal.
NewDatabaseWithConfig ==
    /\ mainPc = "database"
    /\ mainPc' \in {"launch", "fatal"}
    /\ UNCHANGED <<connectionState, startVars, monitor>>

\* The buffer manager and the collector are made, the signals are subscribed
\* to, and Start runs in a goroutine that main does not wait for.
Launch ==
    /\ mainPc = "launch"
    /\ mainPc' = "serving"
    /\ startPc' = "listen"
    /\ UNCHANGED <<connectionState, listener, server, monitor>>

\* net.Listen; an error is logged, and main goes on waiting.
Listen ==
    /\ Running
    /\ startPc = "listen"
    /\ \/ startPc' = "make" /\ listener' = "open"
       \/ startPc' = "returned" /\ UNCHANGED listener
    /\ UNCHANGED <<connectionState, server, monitor, mainPc>>

\* c.server is set without a lock, and the connection monitor started.
MakeServer ==
    /\ Running
    /\ startPc = "make"
    /\ startPc' = "serve"
    /\ server' = "made"
    /\ monitor' = "running"
    /\ UNCHANGED <<connectionState, listener, mainPc>>

\* Serve returns at once on a closed listener or a stopped server.
Serve ==
    /\ Running
    /\ startPc = "serve"
    /\ startPc' = IF listener = "open" /\ server = "made" THEN "serving" ELSE "returned"
    /\ UNCHANGED <<connectionState, listener, server, monitor, mainPc>>

Accepting == startPc = "serving" /\ server = "made"

-----------------------------------------------------------------------------
(* Publish.                                                                *)

\* context.WithTimeout(stream.Context(), c.dataTimeout), assigned to ctx.
NewContext(s) ==
    /\ gen' = [gen EXCEPT ![s] = gen[s] + 1]
    /\ deadline' = [deadline EXCEPT ![s] = now + DataTimeout]
    /\ renewed' = [renewed EXCEPT ![s] = now]
    /\ ctxErr' = [ctxErr EXCEPT ![s] = IF s \in gone THEN "canceled" ELSE "nil"]

\* Wrong variant of Open: the new connection is not counted.
OpenUncounted(s) ==
    /\ Running /\ Accepting
    /\ pc[s] = "unopened"
    /\ pc' = [pc EXCEPT ![s] = "recv"]
    /\ registered' = registered \cup {s}
    /\ last' = [last EXCEPT ![s] = now]
    /\ NewContext(s)
    /\ watch' = [watch EXCEPT ![s] = "new"]
    /\ UNCHANGED <<now, cur, connCount, received, gone, watchGen, reported, added, acked, stopVars>>

\* registerConnection, the first context, and go func: the watcher.
Open(s) ==
    /\ Running /\ Accepting
    /\ pc[s] = "unopened"
    /\ pc' = [pc EXCEPT ![s] = "recv"]
    /\ registered' = registered \cup {s}
    /\ connCount' = connCount + 1
    /\ last' = [last EXCEPT ![s] = now]
    /\ NewContext(s)
    /\ watch' = [watch EXCEPT ![s] = "new"]
    /\ UNCHANGED <<now, cur, received, gone, watchGen, reported, added, acked, stopVars>>

\* The device closes the stream, or keepalive finds its connection dead.
DeviceLeaves(s) ==
    /\ Running
    /\ pc[s] \notin {"unopened", "done"} /\ s \notin gone
    /\ gone' = gone \cup {s}
    /\ ctxErr' = [ctxErr EXCEPT ![s] = IF ctxErr[s] = "nil" THEN "canceled" ELSE ctxErr[s]]
    /\ UNCHANGED <<now, pc, cur, connVars, gen, deadline, renewed, watchVars, added, acked, stopVars>>

\* stream.Recv() delivers a message; updateConnectionActivity.
Receive(s) ==
    /\ Running
    /\ pc[s] = "recv" /\ s \notin gone
    /\ received[s] < MaxMsgs
    /\ pc' = [pc EXCEPT ![s] = "process"]
    /\ \E k \in Kinds : cur' = [cur EXCEPT ![s] = k]
    /\ last' = [last EXCEPT ![s] = now]
    /\ received' = [received EXCEPT ![s] = received[s] + 1]
    /\ UNCHANGED <<now, registered, connCount, gone, ctxVars, watchVars, added, acked, stopVars>>

\* Publish returns: the deferred cancel and unregisterConnection run, and
\* gRPC ends the stream's context.
Return(s) ==
    /\ pc' = [pc EXCEPT ![s] = "done"]
    /\ ctxErr' = [ctxErr EXCEPT ![s] = IF ctxErr[s] = "nil" THEN "canceled" ELSE ctxErr[s]]
    /\ gone' = gone \cup {s}
    /\ registered' = registered \ {s}
    /\ connCount' = IF s \in registered THEN connCount - 1 ELSE connCount
    /\ UNCHANGED <<now, cur, last, received, gen, deadline, renewed, watchVars, added, acked, stopVars>>

\* Wrong variant of RecvFails: the loop goes on after an error of Recv.
RecvFailsGoesOn(s) ==
    /\ Running
    /\ pc[s] = "recv" /\ s \in gone
    /\ UNCHANGED vars

RecvFails(s) ==
    /\ Running
    /\ pc[s] = "recv" /\ s \in gone
    /\ Return(s)

CurrentMessage(s) == [stream |-> s, seq |-> received[s], kind |-> cur[s]]

\* Wrong variant of Process: the error of the parser is not looked at.
ProcessIgnoringErrors(s) ==
    /\ Running
    /\ pc[s] = "process"
    /\ pc' = [pc EXCEPT ![s] = "send"]
    /\ added' = IF cur[s] = "data" THEN added \cup {CurrentMessage(s)} ELSE added
    /\ UNCHANGED <<now, cur, connVars, gone, ctxVars, watchVars, acked, stopVars>>

\* processPublishArgs: on an error the handler waits for the next message,
\* with no answer and no new context.
Process(s) ==
    /\ Running
    /\ pc[s] = "process"
    /\ pc' = [pc EXCEPT ![s] = IF cur[s] = "bad" THEN "recv" ELSE "send"]
    /\ added' = IF cur[s] = "data" THEN added \cup {CurrentMessage(s)} ELSE added
    /\ UNCHANGED <<now, cur, connVars, gone, ctxVars, watchVars, acked, stopVars>>

Send(s) ==
    /\ Running
    /\ pc[s] = "send"
    /\ acked' = acked \cup {CurrentMessage(s)}
    /\ pc' = [pc EXCEPT ![s] = "cancel"]
    /\ UNCHANGED <<now, cur, connVars, gone, ctxVars, watchVars, added, stopVars>>

SendFails(s) ==
    /\ Running
    /\ pc[s] = "send" /\ s \in gone
    /\ Return(s)

\* cancel() ...
Cancel(s) ==
    /\ Running
    /\ pc[s] = "cancel"
    /\ pc' = [pc EXCEPT ![s] = "renew"]
    /\ ctxErr' = [ctxErr EXCEPT ![s] = IF ctxErr[s] = "nil" THEN "canceled" ELSE ctxErr[s]]
    /\ UNCHANGED <<now, cur, connVars, gone, gen, deadline, renewed, watchVars, added, acked, stopVars>>

\* Wrong variant of Renew: the new context keeps the old deadline.
RenewSameDeadline(s) ==
    /\ Running
    /\ pc[s] = "renew"
    /\ pc' = [pc EXCEPT ![s] = "recv"]
    /\ gen' = [gen EXCEPT ![s] = gen[s] + 1]
    /\ ctxErr' = [ctxErr EXCEPT ![s] = IF s \in gone THEN "canceled" ELSE "nil"]
    /\ renewed' = [renewed EXCEPT ![s] = now]
    /\ UNCHANGED <<now, cur, connVars, gone, deadline, watchVars, added, acked, stopVars>>

\* ... and a new context in the variable that the watcher reads as well.
Renew(s) ==
    /\ Running
    /\ pc[s] = "renew"
    /\ pc' = [pc EXCEPT ![s] = "recv"]
    /\ NewContext(s)
    /\ UNCHANGED <<now, cur, connVars, gone, watchVars, added, acked, stopVars>>

-----------------------------------------------------------------------------
(* The context's timer and the watcher goroutine.  The watcher reads the   *)
(* variable ctx twice, without synchronisation: when its select starts and *)
(* after the select has woken up.  Either read finds the context that ctx  *)
(* holds at that moment.                                                   *)

ContextExpires(s) ==
    /\ Running
    /\ gen[s] > 0 /\ ctxErr[s] = "nil" /\ now >= deadline[s]
    /\ ctxErr' = [ctxErr EXCEPT ![s] = "deadline"]
    /\ UNCHANGED <<now, pc, cur, connVars, gone, gen, deadline, renewed, watchVars, added, acked, stopVars>>

WatcherStarts(s) ==
    /\ Running
    /\ watch[s] = "new"
    /\ watch' = [watch EXCEPT ![s] = "waiting"]
    /\ watchGen' = [watchGen EXCEPT ![s] = gen[s]]
    /\ UNCHANGED <<now, pc, cur, connVars, gone, ctxVars, reported, added, acked, stopVars>>

\* Wrong variant of WatcherWakes: only the deadline ends the wait.
WatcherWakesOnDeadline(s) ==
    /\ Running
    /\ watch[s] = "waiting"
    /\ ctxErr[s] = "deadline"
    /\ watch' = [watch EXCEPT ![s] = "woken"]
    /\ UNCHANGED <<now, pc, cur, connVars, gone, ctxVars, watchGen, reported, added, acked, stopVars>>

\* The select: ctx.Done() of the context read at the start, or the stream's.
WatcherWakes(s) ==
    /\ Running
    /\ watch[s] = "waiting"
    /\ \/ /\ watchGen[s] < gen[s] \/ ctxErr[s] # "nil"
          /\ watch' = [watch EXCEPT ![s] = "woken"]
       \/ /\ s \in gone
          /\ watch' = [watch EXCEPT ![s] = "ended"]
    /\ UNCHANGED <<now, pc, cur, connVars, gone, ctxVars, watchGen, reported, added, acked, stopVars>>

\* ctx.Err() == DeadlineExceeded: log it and handleConnectionTimeout, which
\* only counts and logs.  The goroutine ends in any case.
WatcherEnds(s) ==
    /\ Running
    /\ watch[s] = "woken"
    /\ watch' = [watch EXCEPT ![s] = "ended"]
    /\ reported' = IF ctxErr[s] = "deadline" THEN reported \cup {s} ELSE reported
    /\ UNCHANGED <<now, pc, cur, connVars, gone, ctxVars, watchGen, added, acked, stopVars>>

Tick ==
    /\ Launched
    /\ now < MaxTime
    /\ now' = now + 1
    /\ UNCHANGED <<pc, cur, connVars, gone, ctxVars, watchVars, added, acked, stopVars>>

-----------------------------------------------------------------------------
(* Shutdown: main calls SimpleCollector.Stop, which closes shutdownChan,   *)
(* waits for the monitor or five seconds, stops the buffer manager, then   *)
(* waits for every handler in GracefulStop.                                *)

Signal ==
    /\ mainPc = "serving"
    /\ mainPc' = "stopping"
    /\ UNCHANGED <<connectionState, startVars, monitor>>

MonitorExits ==
    /\ Signalled
    /\ monitor = "running"
    /\ monitor' = "done"
    /\ UNCHANGED <<connectionState, startVars, mainPc>>

\* monitoringDone, or the five seconds are over.
MonitorAwaited ==
    /\ mainPc = "stopping"
    /\ mainPc' = "monitorAwaited"
    /\ UNCHANGED <<connectionState, startVars, monitor>>

\* bufferManager.Stop(): the last flush.
StopBuffer ==
    /\ mainPc = "monitorAwaited"
    /\ mainPc' = "bufferStopped"
    /\ UNCHANGED <<connectionState, startVars, monitor>>

\* c.server # nil: no new streams, and wait for the handlers.
GracefulStop ==
    /\ mainPc = "bufferStopped" /\ server # "nil"
    /\ mainPc' = "draining"
    /\ server' = "stopped"
    /\ UNCHANGED <<connectionState, startPc, listener, monitor>>

\* Start has not got to the server: nothing to stop, but perhaps to close.
StopFindsNoServer ==
    /\ mainPc = "bufferStopped" /\ server = "nil"
    /\ mainPc' = "drained"
    /\ listener' = IF listener = "nil" THEN "nil" ELSE "closed"
    /\ UNCHANGED <<connectionState, startPc, server, monitor>>

HandlersDone == \A s \in Streams : pc[s] \in {"unopened", "done"}

\* Wrong variant of GracefulStopReturns: server.Stop(), which waits for nobody.
StopWithoutWaiting ==
    /\ mainPc = "draining"
    /\ mainPc' = "drained"
    /\ listener' = "closed"
    /\ UNCHANGED <<connectionState, startPc, server, monitor>>

GracefulStopReturns ==
    /\ mainPc = "draining" /\ HandlersDone
    /\ mainPc' = "drained"
    /\ listener' = "closed"
    /\ UNCHANGED <<connectionState, startPc, server, monitor>>

\* main's own bufferManager.Stop() finds the channel closed and returns; the
\* program closes the pool and ends three seconds later.
Exit ==
    /\ mainPc = "drained"
    /\ mainPc' = "exited"
    /\ UNCHANGED <<connectionState, startVars, monitor>>

-----------------------------------------------------------------------------
HandlerStep(s) == \/ RecvFails(s) \/ Process(s) \/ Send(s) \/ SendFails(s)
                  \/ Cancel(s) \/ Renew(s)
WatcherStep(s) == WatcherStarts(s) \/ WatcherWakes(s) \/ WatcherEnds(s)
StartStep      == Listen \/ MakeServer \/ Serve
ShutdownStep   == \/ MonitorAwaited \/ StopBuffer \/ GracefulStop \/ StopFindsNoServer
                  \/ GracefulStopReturns \/ Exit

Next ==
    \/ \E s \in Streams : \/ Open(s) \/ DeviceLeaves(s) \/ Receive(s)
                          \/ HandlerStep(s) \/ ContextExpires(s) \/ WatcherStep(s)
    \/ LoadConfig \/ NewDatabaseWithConfig \/ Launch \/ StartStep
    \/ Tick \/ Signal \/ MonitorExits \/ ShutdownStep

Spec == Init /\ [][Next]_vars

(* Goroutines that can run do run, the clock advances and timers fire.     *)
(* Nothing is assumed of the devices or of the operator.                   *)
Fairness ==
    /\ \A s \in Streams : /\ WF_vars(HandlerStep(s))
                          /\ WF_vars(ContextExpires(s))
                          /\ WF_vars(WatcherStep(s))
    /\ WF_vars(StartStep) /\ WF_vars(Tick) /\ WF_vars(MonitorExits) /\ WF_vars(ShutdownStep)

FairSpec == Spec /\ Fairness

-----------------------------------------------------------------------------
(* Properties.                                                             *)

\* Every variable stays in its domain: in particular activeConnCount is never
\* negative, and only a message of an open stream is ever added or answered.
TypeOK ==
    /\ now \in 0 .. MaxTime
    /\ pc \in [Streams -> {"unopened", "recv", "process", "send", "cancel", "renew", "done"}]
    /\ cur \in [Streams -> Kinds]
    /\ registered \in SUBSET Streams /\ connCount \in Nat
    /\ last \in [Streams -> 0 .. MaxTime]
    /\ received \in [Streams -> 0 .. MaxMsgs]
    /\ gone \in SUBSET Streams
    /\ gen \in [Streams -> Nat] /\ watchGen \in [Streams -> Nat]
    /\ deadline \in [Streams -> Nat] /\ renewed \in [Streams -> 0 .. MaxTime]
    /\ ctxErr \in [Streams -> {"nil", "canceled", "deadline"}]
    /\ watch \in [Streams -> {"none", "new", "waiting", "woken", "ended"}]
    /\ reported \in SUBSET Streams
    /\ added \in SUBSET Message /\ acked \in SUBSET Message
    /\ startPc \in {"idle", "listen", "make", "serve", "serving", "returned"}
    /\ listener \in {"nil", "open", "closed"} /\ server \in {"nil", "made", "stopped"}
    /\ monitor \in {"none", "running", "done"}
    /\ mainPc \in {"config", "database", "launch", "fatal", "serving", "stopping",
                   "monitorAwaited", "bufferStopped", "draining", "drained", "exited"}

\* The answer to a message tells the device that its data is in the buffer:
\* a message with telemetry is answered only after the records it parses to
\* were added, and one that does not parse is never answered.
AckMeansBuffered ==
    \A m \in acked : m.kind # "bad" /\ (m.kind = "data" => m \in added)

SinceRenewal(s) == now - renewed[s]

\* A device is reported only when no answer has renewed its context for
\* DataTimeout, although the watcher may look at another context than the one
\* it waited for.
ReportIsOld ==
    [][\A s \in Streams : s \in reported' /\ s \notin reported => SinceRenewal(s) >= DataTimeout]_vars

\* When a program whose Stop has found the server exits, no handler is inside
\* a message and no connection is left in the registry: GracefulStop has waited
\* for them, also if the signal came before Start got to Serve.
DrainedAtExit ==
    mainPc \in {"drained", "exited"} /\ server = "stopped" =>
        HandlersDone /\ registered = {} /\ connCount = 0

\* The watcher of a stream that is over does not stay behind.
WatcherGoesAway == \A s \in Streams : (s \in gone) ~> (watch[s] = "ended" \/ ~Running)

HeldOpen(s) == pc[s] \notin {"unopened", "done"} /\ s \notin gone

\* After a signal the program exits unless a device keeps its stream open: no
\* order of Start, Stop, monitor and handlers blocks the shutdown.
ShutdownCompletes == Signalled ~> (mainPc = "exited" \/ \E s \in Streams : HeldOpen(s))

Silent(s) == pc[s] = "recv" /\ s \notin gone /\ SinceRenewal(s) > DataTimeout

\* Every answer is to restart the time-out: a device that then stays silent
\* longer than DataTimeout is reported.
SilenceIsReported ==
    \A s \in Streams : Silent(s) ~> (s \in reported \/ ~Silent(s) \/ ~Running)
=============================================================================
