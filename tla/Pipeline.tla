------------------------------ MODULE Pipeline ------------------------------
(***************************************************************************)
(* The program from the answer to a device to the row in the table: the    *)
(* handlers, start-up and shutdown of Collector together with the buffer   *)
(* manager of BufferManager, and the connection pool that main closes when *)
(* it returns.                                                             *)
(*                                                                         *)
(* A record is a message with telemetry.  A step of the program is a step  *)
(* of one of the two components, or of both where one calls the other: an  *)
(* Add call that returns to its handler, and the Stop calls.  The watchers *)
(* and the deadlines of their contexts, which no other goroutine looks at, *)
(* are left out here, and with them the clock.                             *)
(***************************************************************************)
EXTENDS Integers, Sequences, FiniteSets

CONSTANTS Streams, MaxMsgs, DataTimeout, MaxTime             \* of Collector
CONSTANTS Keys, KeyOf, NumShards, ShardOf, Writers, Spawned, \* of BufferManager
          Timer, Stopper, QueueCap, MaxBatchSize, RetryAttempts,
          FlushThreshold, Aggregates, Env

ASSUME StreamAssumption ==
    /\ IsFiniteSet(Streams)
    /\ MaxMsgs \in Nat /\ MaxTime \in Nat /\ DataTimeout \in Nat \ {0}
ASSUME ProcAssumption ==
    /\ Timer # Stopper
    /\ Timer \notin Spawned \cup Writers
    /\ Stopper \notin Spawned \cup Writers
    /\ Spawned \cap Writers = {}
ASSUME BoundAssumption ==
    /\ QueueCap \in Nat \ {0} /\ MaxBatchSize \in Nat \ {0}
    /\ RetryAttempts \in Nat /\ FlushThreshold \in Nat
    /\ Aggregates \in BOOLEAN

\* The program can be stopped, and a closed pool returns errors.
ASSUME EnvAssumption ==
    {"stop", "error"} \subseteq Env /\ Env \subseteq {"error", "lostReply", "timeout", "stop"}

VARIABLES now, pc, cur, registered, connCount, last, received, gone, gen,
          deadline, ctxErr, renewed, watch, watchGen, reported, added, acked,
          startPc, listener, server, monitor, mainPc

VARIABLES unsent, msg, todo, scanAt, scanned, items, sweepAt, rows, queue, job,
          tries, call, orphans, copies, timerOn, exited, stopped, processed,
          collisions, written, errors, overwritten, failed, dropped, doubtful,
          beforeStop

VARIABLES poolClosed, \* main is in or past db.Close()
          refused     \* callers whose current attempt began after that

C == INSTANCE Collector

Records == {m \in C!Message : m.kind = "data"}

ASSUME KeyAssumption ==
    /\ IsFiniteSet(Keys) /\ KeyOf \in [Records -> Keys]
    /\ NumShards \in Nat \ {0} /\ ShardOf \in [Keys -> 1 .. NumShards]

B == INSTANCE BufferManager WITH Recs <- Records, Clients <- Streams

collectorVars == <<now, pc, cur, registered, connCount, last, received, gone, gen,
                   deadline, ctxErr, renewed, watch, watchGen, reported, added, acked,
                   startPc, listener, server, monitor, mainPc>>
bufferVars == <<unsent, msg, todo, scanAt, scanned, items, sweepAt, rows, queue, job,
                tries, call, orphans, copies, timerOn, exited, stopped, processed,
                collisions, written, errors, overwritten, failed, dropped, doubtful,
                beforeStop>>
poolVars == <<poolClosed, refused>>
vars == <<collectorVars, bufferVars, poolVars>>

Init == C!Init /\ B!Init /\ poolClosed = FALSE /\ refused = {}

-----------------------------------------------------------------------------
(* Publish.  processPublishArgs makes its Add call while the handler is    *)
(* inside Process, and the handler goes on when the call returns.          *)

\* What devices do, and what handlers do by themselves.
DeviceStep(s) ==
    /\ C!Open(s) \/ C!DeviceLeaves(s) \/ C!Receive(s)
    /\ UNCHANGED <<bufferVars, poolVars>>

PublishStep(s) ==
    /\ \/ C!RecvFails(s) \/ C!Send(s) \/ C!SendFails(s) \/ C!Cancel(s) \/ C!Renew(s)
    /\ UNCHANGED <<bufferVars, poolVars>>

\* A message without telemetry, or one that does not parse.
ProcessNothing(s) ==
    /\ cur[s] # "data"
    /\ C!Process(s)
    /\ UNCHANGED <<bufferVars, poolVars>>

CallAdd(s) ==
    /\ C!Running /\ pc[s] = "process" /\ cur[s] = "data"
    /\ B!BeginAdd(s)
    /\ msg'[s] = {C!CurrentMessage(s)}
    /\ UNCHANGED <<collectorVars, poolVars>>

AddGoesOn(s) ==
    /\ C!Running
    /\ B!AddOne(s) \/ B!CountAdded(s) \/ B!ScanShard(s)
    /\ UNCHANGED <<collectorVars, poolVars>>

\* Wrong variant of AddReturns: the handler does not wait for the call.
AnswerWithoutAdding(s) ==
    /\ cur[s] = "data"
    /\ C!Process(s)
    /\ UNCHANGED <<bufferVars, poolVars>>

AddReturns(s) ==
    /\ B!ReturnBelowThreshold(s) \/ B!ReturnAndFlush(s)
    /\ C!Process(s)
    /\ UNCHANGED poolVars

HandlerStep(s) ==
    \/ PublishStep(s) \/ ProcessNothing(s) \/ CallAdd(s) \/ AddGoesOn(s) \/ AddReturns(s)

-----------------------------------------------------------------------------
(* Flushes, writers and their calls of the database, which the buffer      *)
(* manager has from Launch on.  A closed pool refuses an attempt at once.  *)

FlushStep(f) ==
    /\ C!Launched
    /\ B!FlushStep(f)
    /\ UNCHANGED <<collectorVars, poolVars>>

WriterStep(w) ==
    /\ C!Launched
    /\ B!WriterStep(w)
    /\ UNCHANGED <<collectorVars, poolVars>>

TimerFires ==
    /\ C!Launched
    /\ B!TimerFire
    /\ UNCHANGED <<collectorVars, poolVars>>

TimerExits ==
    /\ C!Launched
    /\ B!TimerExits
    /\ UNCHANGED <<collectorVars, poolVars>>

StartAttempt(p) ==
    /\ C!Launched
    /\ B!StartAttempt(p)
    /\ refused' = IF poolClosed THEN refused \cup {p} ELSE refused
    /\ UNCHANGED <<collectorVars, poolClosed>>

AttemptRefused(p) ==
    /\ C!Launched
    /\ p \in refused
    /\ B!CallFails(p)
    /\ refused' = refused \ {p}
    /\ UNCHANGED <<collectorVars, poolClosed>>

\* Wrong variant of AttemptEnds: the retry loop waits for the answer, however
\* long that takes.
AttemptEndsWithReply(p) ==
    /\ C!Launched
    /\ p \notin refused
    /\ B!AttemptErrs(p) \/ B!WriteSucceeds(p)
    /\ UNCHANGED <<collectorVars, poolVars>>

AttemptEnds(p) ==
    /\ C!Launched
    /\ p \notin refused
    /\ B!AttemptTimesOut(p) \/ B!AttemptErrs(p) \/ B!WriteSucceeds(p)
    /\ UNCHANGED <<collectorVars, poolVars>>

\* What the server does, for callers that wait and for those that do not.
DatabaseStep ==
    /\ \/ \E p \in B!Procs \ refused : B!DatabaseStep(p)
       \/ B!OrphanEnds
    /\ UNCHANGED <<collectorVars, poolVars>>

-----------------------------------------------------------------------------
(* main, Start and Stop.                                                   *)

MainStarts ==
    /\ C!LoadConfig \/ C!NewDatabaseWithConfig \/ C!Launch \/ C!Signal
    /\ UNCHANGED <<bufferVars, poolVars>>

ServerStarts == C!StartStep /\ UNCHANGED <<bufferVars, poolVars>>

MonitorExits == C!MonitorExits /\ UNCHANGED <<bufferVars, poolVars>>

\* The parts of Stop that have nothing to do with the buffer manager.
CollectorStops ==
    /\ \/ C!MonitorAwaited \/ C!GracefulStop \/ C!StopFindsNoServer
       \/ C!GracefulStopReturns
    /\ UNCHANGED <<bufferVars, poolVars>>

\* SimpleCollector.Stop calls bufferManager.Stop ...
CallStop ==
    /\ mainPc = "monitorAwaited"
    /\ B!Stop
    /\ UNCHANGED <<collectorVars, poolVars>>

\* Wrong variant of StopReturns: it waits for the channel to be emptied, by
\* writers that have been sent home.
StopAwaitsWriters ==
    /\ stopped /\ B!FlushIdle(Stopper) /\ queue = <<>>
    /\ C!StopBuffer
    /\ UNCHANGED <<bufferVars, poolVars>>

\* Wrong variant of StopReturns: the flush is left to a goroutine.
StopInBackground ==
    /\ stopped
    /\ C!StopBuffer
    /\ UNCHANGED <<bufferVars, poolVars>>

\* ... which comes back when its flush does.
StopReturns ==
    /\ stopped /\ B!FlushIdle(Stopper)
    /\ C!StopBuffer
    /\ UNCHANGED <<bufferVars, poolVars>>

\* The second Stop of main returns at once; three seconds later the deferred
\* db.Close() runs.
ClosePool ==
    /\ mainPc = "drained" /\ ~poolClosed
    /\ poolClosed' = TRUE
    /\ UNCHANGED <<collectorVars, bufferVars, refused>>

\* Calls that have a connection of the pool.
InFlight == orphans # {} \/ \E p \in B!Procs \ refused : call[p] = "running"

\* pgxpool closes when every connection has been given back.
Exit ==
    /\ poolClosed /\ ~InFlight
    /\ C!Exit
    /\ UNCHANGED <<bufferVars, poolVars>>

ShutdownStep == CollectorStops \/ CallStop \/ StopReturns \/ ClosePool \/ Exit
AttemptStep(p) == StartAttempt(p) \/ AttemptRefused(p) \/ AttemptEnds(p)

Next ==
    \/ \E s \in Streams : DeviceStep(s) \/ HandlerStep(s)
    \/ \E f \in B!Flushers : FlushStep(f)
    \/ \E w \in Writers : WriterStep(w)
    \/ \E p \in B!Procs : AttemptStep(p)
    \/ TimerFires \/ TimerExits \/ DatabaseStep
    \/ MainStarts \/ ServerStarts \/ MonitorExits \/ ShutdownStep

Spec == Init /\ [][Next]_vars

(* Goroutines that can run do run and timers fire, as in the components.   *)
(* Nothing is assumed of devices, of the operator or of the database.      *)
Fairness ==
    /\ \A s \in Streams : WF_vars(HandlerStep(s))
    /\ \A f \in B!Flushers : WF_vars(FlushStep(f))
    /\ \A w \in Writers : WF_vars(WriterStep(w))
    /\ \A p \in B!Procs : WF_vars(AttemptStep(p))
    /\ WF_vars(TimerFires) /\ SF_vars(TimerExits)
    /\ WF_vars(ServerStarts) /\ WF_vars(MonitorExits) /\ WF_vars(ShutdownStep)

FairSpec == Spec /\ Fairness

-----------------------------------------------------------------------------
(* Properties.                                                             *)

\* The answer to a message with telemetry means that its record is on its way
\* to the table, in it, or accounted as given up, at every later moment and
\* also when Stop, flushes and handlers overlap.
AnsweredIsHeld ==
    \A m \in acked : m.kind = "data" => m \in B!Pending \/ B!Stored(m) \/ B!GivenUp(m)

\* When the program exits, the map holds at most records that handlers added
\* after Stop was called: the exit waits for the flush of Stop, although other
\* flushes and handlers are at work beside it.
ExitLeavesLateRecords ==
    mainPc = "exited" => \A m \in beforeStop : ~B!InMap(m)

\* Unless a signal comes, a message that was answered gets to the table or is
\* given up, even when database calls never return.
AnsweredIsDelivered ==
    \A m \in Records : (m \in acked) ~> (B!Stored(m) \/ B!GivenUp(m) \/ mainPc # "serving")

\* After a signal the program exits, provided devices close their streams and
\* database calls return: db.Close() waits for the connection of an attempt
\* that was given up long ago, and no other order of the stops blocks.
ShutdownEnds ==
    []<>(~InFlight) /\ (\A s \in Streams : []<>(~C!HeldOpen(s)))
        => (C!Signalled ~> mainPc = "exited")
=============================================================================
