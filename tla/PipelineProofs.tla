--------------------------- MODULE PipelineProofs ---------------------------
(***************************************************************************)
(* The composed program is an instance of both of its components: what is  *)
(* proved of Collector and of BufferManager holds of the program.  From    *)
(* that, and from how handlers and shutdown use the buffer manager, follow *)
(* the two safety properties of the whole: no answered message vanishes,   *)
(* and an orderly exit leaves nothing behind that was there at Stop.       *)
(***************************************************************************)
EXTENDS Pipeline, FiniteSetTheorems, TLAPS

\* A step of the program is a step of the collector or leaves it alone.
LEMMA CollectorSees == [Next]_vars => [C!Next]_(C!vars)
<1>1. UNCHANGED collectorVars => UNCHANGED C!vars
  BY DEF collectorVars, C!vars, C!connVars, C!ctxVars, C!watchVars, C!stopVars, C!startVars
<1>2. ASSUME NEW s \in Streams, DeviceStep(s) \/ HandlerStep(s)
      PROVE  C!Next \/ UNCHANGED collectorVars
  <2>1. CASE DeviceStep(s)
    BY <2>1 DEF DeviceStep, C!Next
  <2>2. CASE PublishStep(s)
    BY <2>2 DEF PublishStep, C!Next, C!HandlerStep
  <2>3. CASE ProcessNothing(s) \/ AddReturns(s)
    BY <2>3 DEF ProcessNothing, AddReturns, C!Next, C!HandlerStep
  <2>4. CASE CallAdd(s) \/ AddGoesOn(s)
    BY <2>4 DEF CallAdd, AddGoesOn
  <2> QED
    BY <1>2, <2>1, <2>2, <2>3, <2>4 DEF HandlerStep
<1>3. ASSUME \/ \E f \in B!Flushers : FlushStep(f)
             \/ \E w \in Writers : WriterStep(w)
             \/ \E p \in B!Procs : AttemptStep(p)
             \/ TimerFires \/ TimerExits \/ DatabaseStep
      PROVE  UNCHANGED collectorVars
  BY <1>3 DEF FlushStep, WriterStep, AttemptStep, StartAttempt, AttemptRefused, AttemptEnds,
              TimerFires, TimerExits, DatabaseStep
<1>4. ASSUME MainStarts \/ ServerStarts \/ MonitorExits \/ ShutdownStep
      PROVE  C!Next \/ UNCHANGED collectorVars
  <2>1. CASE MainStarts \/ ServerStarts \/ MonitorExits
    BY <2>1 DEF MainStarts, ServerStarts, MonitorExits, C!Next
  <2>2. CASE CollectorStops \/ StopReturns \/ Exit
    BY <2>2 DEF CollectorStops, StopReturns, Exit, C!Next, C!ShutdownStep
  <2>3. CASE CallStop \/ ClosePool
    BY <2>3 DEF CallStop, ClosePool
  <2> QED
    BY <1>4, <2>1, <2>2, <2>3 DEF ShutdownStep
<1>5. UNCHANGED vars => UNCHANGED collectorVars
  BY DEF vars
<1> QED
  BY <1>1, <1>2, <1>3, <1>4, <1>5 DEF Next

\* A step of the program is a step of the buffer manager or leaves it alone.
LEMMA BufferManagerSees == [Next]_vars => [B!Next]_(B!vars)
<1>1. UNCHANGED bufferVars => UNCHANGED B!vars
  BY DEF bufferVars, B!vars, B!addVars, B!writeVars, B!lifeVars, B!statVars, B!histVars
<1>2. ASSUME NEW s \in Streams, DeviceStep(s) \/ HandlerStep(s)
      PROVE  B!Next \/ UNCHANGED bufferVars
  <2>1. CASE DeviceStep(s) \/ PublishStep(s) \/ ProcessNothing(s)
    BY <2>1 DEF DeviceStep, PublishStep, ProcessNothing
  <2>2. CASE CallAdd(s) \/ AddGoesOn(s) \/ AddReturns(s)
    BY <2>2 DEF CallAdd, AddGoesOn, AddReturns, B!Next, B!ClientStep
  <2> QED
    BY <1>2, <2>1, <2>2 DEF HandlerStep
<1>3. ASSUME NEW f \in B!Flushers, FlushStep(f) PROVE B!Next
  BY <1>3 DEF FlushStep, B!Next
<1>4. ASSUME NEW w \in Writers, WriterStep(w) PROVE B!Next
  BY <1>4 DEF WriterStep, B!Next
<1>5. ASSUME NEW p \in B!Procs, AttemptStep(p) PROVE B!Next
  BY <1>5 DEF AttemptStep, StartAttempt, AttemptRefused, AttemptEnds, B!Next, B!RetryStep,
              B!DatabaseStep
<1>6. ASSUME TimerFires \/ TimerExits \/ DatabaseStep PROVE B!Next
  BY <1>6 DEF TimerFires, TimerExits, DatabaseStep, B!Next
<1>7. ASSUME MainStarts \/ ServerStarts \/ MonitorExits \/ ShutdownStep
      PROVE  B!Next \/ UNCHANGED bufferVars
  BY <1>7 DEF MainStarts, ServerStarts, MonitorExits, ShutdownStep, CollectorStops, CallStop,
              StopReturns, ClosePool, Exit, B!Next
<1>8. UNCHANGED vars => UNCHANGED bufferVars
  BY DEF vars
<1> QED
  BY <1>1, <1>2, <1>3, <1>4, <1>5, <1>6, <1>7, <1>8 DEF Next

\* The program implements the collector on its own: every call of the buffer
\* manager and every wait for it is invisible there or a step it allows.
THEOREM ImplementsCollector == Spec => C!Spec
  BY CollectorSees, PTL DEF Spec, Init, C!Spec

\* The program implements the buffer manager on its own: handlers, start-up and
\* shutdown use it in a way it allows.
THEOREM ImplementsBufferManager == Spec => B!Spec
  BY BufferManagerSees, PTL DEF Spec, Init, B!Spec

-----------------------------------------------------------------------------
(* The theorems about the components, for the constants and variables they *)
(* have here.  CP and BP define what C and B define, and prove it.         *)

CP == INSTANCE CollectorProofs
BP == INSTANCE CustodyProofs WITH Recs <- Records, Clients <- Streams

\* There are finitely many messages with telemetry.
LEMMA RecordsFinite == IsFiniteSet(Records)
<1> DEFINE Pairs == Streams \X (1 .. MaxMsgs)
<1> DEFINE f == [p \in Pairs |-> [stream |-> p[1], seq |-> p[2], kind |-> "data"]]
<1>1. IsFiniteSet(1 .. MaxMsgs)
  BY FS_Interval, StreamAssumption
<1>2. IsFiniteSet(Pairs)
  BY <1>1, FS_Product, StreamAssumption
<1>3. IsFiniteSet({f[p] : p \in Pairs})
  <2>1. f \in Surjection(Pairs, {f[p] : p \in Pairs})
    BY DEF Surjection
  <2> QED BY <1>2, <2>1, FS_Surjection
<1>4. Records \subseteq {f[p] : p \in Pairs}
  <2> SUFFICES ASSUME NEW m \in Records PROVE m \in {f[p] : p \in Pairs}
    OBVIOUS
  <2>1. m \in C!Message /\ m.kind = "data"
    BY DEF Records
  <2>2. m = [stream |-> m.stream, seq |-> m.seq, kind |-> m.kind] /\ <<m.stream, m.seq>> \in Pairs
    BY <2>1 DEF C!Message
  <2>3. f[<<m.stream, m.seq>>] = m
    BY <2>1, <2>2
  <2> QED BY <2>2, <2>3
<1> HIDE DEF Pairs, f
<1> QED
  BY <1>3, <1>4, FS_Subset

\* B and BP are one component: their steps, operator by operator, are the same.
LEMMA SameNext == [B!Next]_(B!vars) <=> [BP!Next]_(BP!vars)
<1>0. \A S : B!Cardinality(S) = BP!Cardinality(S)
  BY DEF B!Cardinality, BP!Cardinality, B!IsFiniteSet, BP!IsFiniteSet
<1> USE DEF
     B!addVars, BP!addVars, B!writeVars, BP!writeVars, B!lifeVars, BP!lifeVars, B!statVars,
     BP!statVars, B!histVars, BP!histVars
<1>1. ASSUME NEW c
      PROVE  (B!BeginAdd(c) <=> BP!BeginAdd(c)) /\ (B!ClientStep(c) <=> BP!ClientStep(c))
  <2>1. \A s : B!ShardLen(s) = BP!ShardLen(s)
    BY <1>0 DEF B!ShardLen, BP!ShardLen
  <2>2. B!BeginAdd(c) <=> BP!BeginAdd(c)
    BY DEF B!BeginAdd, BP!BeginAdd
  <2>3. B!AddOne(c) <=> BP!AddOne(c)
    BY DEF B!AddOne, BP!AddOne, B!Insert, BP!Insert
  <2>4. B!CountAdded(c) <=> BP!CountAdded(c)
    BY <1>0 DEF B!CountAdded, BP!CountAdded
  <2>5. B!ScanShard(c) <=> BP!ScanShard(c)
    BY <2>1 DEF B!ScanShard, BP!ScanShard
  <2>6. B!EndScan(c) <=> BP!EndScan(c)
    BY DEF B!EndScan, BP!EndScan
  <2>7. \A n : B!NeedsFlush(n) <=> BP!NeedsFlush(n)
    BY DEF B!NeedsFlush, BP!NeedsFlush
  <2>8. \A f : B!FlushIdle(f) <=> BP!FlushIdle(f)
    BY DEF B!FlushIdle, BP!FlushIdle
  <2>9. B!ReturnBelowThreshold(c) <=> BP!ReturnBelowThreshold(c)
    BY <2>1, <2>6, <2>7 DEF B!ReturnBelowThreshold, BP!ReturnBelowThreshold
  <2>10. B!ReturnAndFlush(c) <=> BP!ReturnAndFlush(c)
    BY <2>1, <2>6, <2>7, <2>8 DEF B!ReturnAndFlush, BP!ReturnAndFlush
  <2> QED
    BY <2>2, <2>3, <2>4, <2>5, <2>9, <2>10 DEF B!ClientStep, BP!ClientStep
<1>2. \A f : B!FlushStep(f) <=> BP!FlushStep(f)
  BY <1>0 DEF
     B!FlushStep, BP!FlushStep, B!SweepShard, BP!SweepShard, B!Enqueue, BP!Enqueue,
     B!WriteDirectly, BP!WriteDirectly, B!FlushGivesUp, BP!FlushGivesUp, B!ShardRows,
     BP!ShardRows, B!NextBatch, BP!NextBatch, B!ReadyToSend, BP!ReadyToSend, B!AttemptsExhausted,
     BP!AttemptsExhausted
<1>3. \A p : /\ B!RetryStep(p) <=> BP!RetryStep(p)
             /\ B!DatabaseStep(p) <=> BP!DatabaseStep(p)
  BY <1>0 DEF
     B!RetryStep, BP!RetryStep, B!StartAttempt, BP!StartAttempt, B!AttemptTimesOut,
     BP!AttemptTimesOut, B!AttemptErrs, BP!AttemptErrs, B!WriteSucceeds, BP!WriteSucceeds,
     B!DatabaseStep, BP!DatabaseStep, B!CallCommits, BP!CallCommits, B!CallFails, BP!CallFails,
     B!ReplyIsLost, BP!ReplyIsLost, B!CopiesAfter, BP!CopiesAfter
<1>4. \A w : B!WriterStep(w) <=> BP!WriterStep(w)
  BY <1>0 DEF
     B!WriterStep, BP!WriterStep, B!Dequeue, BP!Dequeue, B!WriterGivesUp, BP!WriterGivesUp,
     B!WriterExits, BP!WriterExits, B!AttemptsExhausted, BP!AttemptsExhausted
<1>5. /\ B!OrphanEnds <=> BP!OrphanEnds
      /\ B!TimerFire <=> BP!TimerFire
      /\ B!TimerExits <=> BP!TimerExits
      /\ B!Stop <=> BP!Stop
  BY DEF
     B!OrphanEnds, BP!OrphanEnds, B!CopiesAfter, BP!CopiesAfter, B!TimerFire, BP!TimerFire,
     B!FlushIdle, BP!FlushIdle, B!TimerExits, BP!TimerExits, B!Stop, BP!Stop, B!Inserted,
     BP!Inserted
<1> QED
  BY <1>1, <1>2, <1>3, <1>4, <1>5 DEF B!Next, BP!Next, B!vars, BP!vars, B!Flushers,
     BP!Flushers, B!Procs, BP!Procs

\* ... and so are their initial states.
LEMMA SameInit == B!Init <=> BP!Init
  BY DEF B!Init, BP!Init, B!Flushers, BP!Flushers, B!Procs, BP!Procs

\* C and CP are one component, too.
LEMMA SameCollector == (C!Init <=> CP!Init) /\ ([C!Next]_(C!vars) <=> [CP!Next]_(CP!vars))
<1> USE DEF
     C!connVars, CP!connVars, C!ctxVars, CP!ctxVars, C!watchVars, CP!watchVars, C!startVars,
     CP!startVars, C!stopVars, CP!stopVars, C!connectionState, CP!connectionState, C!Running,
     CP!Running, C!Launched, CP!Launched
<1>1. C!Init <=> CP!Init
  BY DEF C!Init, CP!Init
<1>2. ASSUME NEW s
      PROVE  /\ C!Open(s) <=> CP!Open(s)
             /\ C!DeviceLeaves(s) <=> CP!DeviceLeaves(s)
             /\ C!Receive(s) <=> CP!Receive(s)
             /\ C!HandlerStep(s) <=> CP!HandlerStep(s)
             /\ C!ContextExpires(s) <=> CP!ContextExpires(s)
             /\ C!WatcherStep(s) <=> CP!WatcherStep(s)
  BY DEF
     C!Open, CP!Open, C!NewContext, CP!NewContext, C!DeviceLeaves, CP!DeviceLeaves, C!Receive,
     CP!Receive, C!Kinds, CP!Kinds, C!HandlerStep, CP!HandlerStep, C!RecvFails, CP!RecvFails,
     C!Return, CP!Return, C!Process, CP!Process, C!CurrentMessage, CP!CurrentMessage, C!Send,
     CP!Send, C!SendFails, CP!SendFails, C!Cancel, CP!Cancel, C!Renew, CP!Renew, C!ContextExpires,
     CP!ContextExpires, C!WatcherStep, CP!WatcherStep, C!WatcherStarts, CP!WatcherStarts,
     C!WatcherWakes, CP!WatcherWakes, C!WatcherEnds, CP!WatcherEnds, C!Accepting, CP!Accepting
<1>3. /\ C!LoadConfig <=> CP!LoadConfig
      /\ C!NewDatabaseWithConfig <=> CP!NewDatabaseWithConfig
      /\ C!Launch <=> CP!Launch
      /\ C!StartStep <=> CP!StartStep
  BY DEF
     C!LoadConfig, CP!LoadConfig, C!NewDatabaseWithConfig, CP!NewDatabaseWithConfig, C!Launch,
     CP!Launch, C!StartStep, CP!StartStep, C!Listen, CP!Listen, C!MakeServer, CP!MakeServer,
     C!Serve, CP!Serve
<1>4. /\ C!Tick <=> CP!Tick
      /\ C!Signal <=> CP!Signal
      /\ C!MonitorExits <=> CP!MonitorExits
      /\ C!ShutdownStep <=> CP!ShutdownStep
  BY DEF
     C!Tick, CP!Tick, C!Signal, CP!Signal, C!Signalled, CP!Signalled, C!MonitorExits,
     CP!MonitorExits, C!ShutdownStep, CP!ShutdownStep, C!MonitorAwaited, CP!MonitorAwaited,
     C!StopBuffer, CP!StopBuffer, C!GracefulStop, CP!GracefulStop, C!StopFindsNoServer,
     CP!StopFindsNoServer, C!GracefulStopReturns, CP!GracefulStopReturns, C!HandlersDone,
     CP!HandlersDone, C!Exit, CP!Exit
<1> QED
  BY <1>1, <1>2, <1>3, <1>4 DEF C!Next, CP!Next, C!vars, CP!vars

\* What BufferManager assumes of its constants holds of the program's.
LEMMA BufferAssumptions ==
    BP!IsFiniteSet(Records) /\ BP!IsFiniteSet(Keys)
  BY RecordsFinite, KeyAssumption DEF IsFiniteSet, BP!IsFiniteSet

\* What is proved of the collector on its own, in the program.
LEMMA CollectorHolds == Spec => [](CP!TypeOK /\ CP!AckMeansBuffered)
<1>1. CP!IsFiniteSet(Streams)
  BY StreamAssumption DEF IsFiniteSet, CP!IsFiniteSet
<1>2. CP!Spec => []CP!TypeOK
  BY <1>1, StreamAssumption, CP!TypeCorrect
<1>3. CP!Spec => []CP!AckMeansBuffered
  BY <1>1, StreamAssumption, CP!AcksAreBuffered
<1>4. C!Spec => CP!Spec
  BY SameCollector, PTL DEF C!Spec, CP!Spec
<1> QED
  BY <1>2, <1>3, <1>4, ImplementsCollector, PTL

\* What is proved of the buffer manager on its own, in the program.
LEMMA BufferManagerHolds ==
    Spec => [](BP!HandInv /\ BP!NothingVanishes /\ BP!StopSweepsMap)
<1> USE BufferAssumptions, ProcAssumption, BoundAssumption, EnvAssumption, KeyAssumption
<1>2. BP!Spec => []BP!HandInv
  BY BP!HandInvCorrect
<1>3. BP!Spec => []BP!NothingVanishes
  BY BP!NothingIsForgotten
<1>4. BP!Spec => []BP!StopSweepsMap
  BY BP!StopSweeps
<1>5. B!Spec => BP!Spec
  BY SameInit, SameNext, PTL DEF B!Spec, BP!Spec
<1> QED
  BY <1>2, <1>3, <1>4, <1>5, ImplementsBufferManager, PTL

\* The program from end to end implements Delivery: it stores a record at most
\* RetryAttempts times and drops it only by accounting it as given up.
THEOREM ProgramDelivers == Spec => BP!ImplementsDelivery
<1>1. BP!Spec => BP!ImplementsDelivery
  BY BufferAssumptions, ProcAssumption, BoundAssumption, EnvAssumption, KeyAssumption,
     BP!DeliveryImplemented
<1>2. B!Spec => BP!Spec
  BY SameInit, SameNext, PTL DEF B!Spec, BP!Spec
<1> QED
  BY <1>1, <1>2, ImplementsBufferManager, PTL

-----------------------------------------------------------------------------
(* AnsweredIsHeld needs to know what the two components have to do with    *)
(* each other.  A handler inside an Add call is inside Process, with the   *)
(* record of the message it has received; and the records of a message     *)
(* that counts as added are in the map or have left it again.              *)

CallerInv ==
    \A s \in Streams :
        msg[s] # {} => /\ pc[s] = "process" /\ cur[s] = "data"
                       /\ msg[s] = {C!CurrentMessage(s)}

AddedInv == \A m \in added : m.kind = "data" => m \in BP!Inserted

\* A step that is not one of a handler leaves the caller's view alone.
LEMMA OtherSteps ==
    ASSUME \/ \E f \in B!Flushers : FlushStep(f)
           \/ \E w \in Writers : WriterStep(w)
           \/ \E p \in B!Procs : AttemptStep(p)
           \/ TimerFires \/ TimerExits \/ DatabaseStep
           \/ MainStarts \/ ServerStarts \/ MonitorExits \/ ShutdownStep
           \/ UNCHANGED vars
    PROVE  UNCHANGED <<msg, pc, cur, received, added>>
<1> USE DEF B!addVars, collectorVars, bufferVars
<1>1. ASSUME NEW f \in B!Flushers, FlushStep(f)
      PROVE  UNCHANGED <<msg, pc, cur, received, added>>
  BY <1>1 DEF FlushStep, B!FlushStep, B!SweepShard, B!Enqueue, B!WriteDirectly, B!FlushGivesUp
<1>2. ASSUME NEW w \in Writers, WriterStep(w)
      PROVE  UNCHANGED <<msg, pc, cur, received, added>>
  BY <1>2 DEF WriterStep, B!WriterStep, B!Dequeue, B!WriterGivesUp, B!WriterExits
<1>3. ASSUME NEW p \in B!Procs, AttemptStep(p)
      PROVE  UNCHANGED <<msg, pc, cur, received, added>>
  BY <1>3 DEF AttemptStep, StartAttempt, B!StartAttempt, AttemptRefused, B!CallFails,
              AttemptEnds, B!AttemptTimesOut, B!AttemptErrs, B!WriteSucceeds
<1>4. CASE TimerFires \/ TimerExits \/ DatabaseStep
  BY <1>4 DEF TimerFires, B!TimerFire, TimerExits, B!TimerExits, DatabaseStep, B!DatabaseStep,
              B!CallCommits, B!CallFails, B!ReplyIsLost, B!OrphanEnds
<1>5. CASE MainStarts \/ ServerStarts \/ MonitorExits
  BY <1>5 DEF MainStarts, C!LoadConfig, C!NewDatabaseWithConfig, C!Launch, C!Signal,
              ServerStarts, C!StartStep, C!Listen, C!MakeServer, C!Serve, MonitorExits,
              C!MonitorExits, C!connectionState, C!connVars
<1>6. CASE ShutdownStep
  BY <1>6 DEF ShutdownStep, CollectorStops, C!MonitorAwaited, C!GracefulStop,
              C!StopFindsNoServer, C!GracefulStopReturns, CallStop, B!Stop, StopReturns,
              C!StopBuffer, ClosePool, Exit, C!Exit, C!connectionState, C!connVars
<1>7. CASE UNCHANGED vars
  BY <1>7 DEF vars
<1> QED
  BY <1>1, <1>2, <1>3, <1>4, <1>5, <1>6, <1>7

\* Handlers and the Add calls they make agree.
LEMMA CallerStep ==
    ASSUME CP!TypeOK, BP!HandInv, CallerInv, [Next]_vars
    PROVE  CallerInv'
<1> USE DEF CallerInv, C!CurrentMessage
<1>0. /\ pc \in [Streams -> {"unopened", "recv", "process", "send", "cancel", "renew", "done"}]
      /\ msg \in [Streams -> SUBSET Records]
      /\ DOMAIN cur = Streams /\ DOMAIN received = Streams
  BY DEF CP!TypeOK, BP!HandInv, BP!TypeOK
<1>1. ASSUME NEW s \in Streams, DeviceStep(s) \/ PublishStep(s)
      PROVE  CallerInv'
  <2>1. msg' = msg
    BY <1>1 DEF DeviceStep, PublishStep, bufferVars
  <2>2. /\ \A t \in Streams \ {s} : pc'[t] = pc[t] /\ cur'[t] = cur[t] /\ received'[t] = received[t]
        /\ \/ pc[s] # "process"
           \/ UNCHANGED <<pc, cur, received>>
    BY <1>0, <1>1 DEF DeviceStep, C!Open, C!DeviceLeaves, C!Receive, PublishStep, C!RecvFails,
              C!Send, C!SendFails, C!Cancel, C!Renew, C!Return, C!connVars
  <2> QED
    BY <2>1, <2>2
<1>2. ASSUME NEW s \in Streams, ProcessNothing(s)
      PROVE  CallerInv'
  <2>1. msg' = msg /\ cur' = cur /\ received' = received /\ cur[s] # "data"
        /\ \A t \in Streams \ {s} : pc'[t] = pc[t]
    BY <1>0, <1>2 DEF ProcessNothing, C!Process, C!connVars, bufferVars
  <2> QED
    BY <2>1
<1>3. ASSUME NEW s \in Streams, CallAdd(s)
      PROVE  CallerInv'
  <2>1. /\ pc[s] = "process" /\ cur[s] = "data" /\ msg'[s] = {C!CurrentMessage(s)}
        /\ \A t \in Streams \ {s} : msg'[t] = msg[t]
        /\ UNCHANGED <<pc, cur, received>>
    BY <1>0, <1>3 DEF CallAdd, B!BeginAdd, collectorVars
  <2> QED
    BY <2>1
<1>4. ASSUME NEW s \in Streams, AddGoesOn(s)
      PROVE  CallerInv'
  BY <1>4 DEF AddGoesOn, B!AddOne, B!CountAdded, B!ScanShard, collectorVars
<1>5. ASSUME NEW s \in Streams, AddReturns(s)
      PROVE  CallerInv'
  <2>1. msg' = [msg EXCEPT ![s] = {}]
    BY <1>5 DEF AddReturns, B!ReturnBelowThreshold, B!ReturnAndFlush, B!EndScan
  <2>2. cur' = cur /\ received' = received /\ \A t \in Streams \ {s} : pc'[t] = pc[t]
    BY <1>0, <1>5 DEF AddReturns, C!Process, C!connVars
  <2> QED
    BY <1>0, <2>1, <2>2
<1>6. CASE UNCHANGED <<msg, pc, cur, received, added>>
  BY <1>6
<1> QED
  BY <1>1, <1>2, <1>3, <1>4, <1>5, <1>6, OtherSteps DEF Next, HandlerStep

\* When an Add call returns the record is out of the handler's hands.
LEMMA AddedStep ==
    ASSUME CP!TypeOK, BP!HandInv, BP!HandInv', CallerInv, AddedInv, [Next]_vars
    PROVE  AddedInv'
<1>1. BP!Inserted \subseteq BP!Inserted'
  <2>1. [BP!Next]_(BP!vars)
    BY BufferManagerSees, SameNext
  <2> QED
    BY <2>1, BufferAssumptions, ProcAssumption, BoundAssumption, EnvAssumption, KeyAssumption,
       BP!InsertedIsStable DEF BP!HandInv
<1>2. CASE \A m \in added' \ added : m.kind = "data" => m \in BP!Inserted'
  BY <1>1, <1>2 DEF AddedInv
<1>3. ASSUME NEW s \in Streams, AddReturns(s)
      PROVE  AddedInv'
  <2> DEFINE m == C!CurrentMessage(s)
  <2>1. scanAt[s] = NumShards
    BY <1>3 DEF AddReturns, B!ReturnBelowThreshold, B!ReturnAndFlush, B!EndScan
  <2>2. todo[s] = {} /\ msg[s] # {}
    BY <2>1, KeyAssumption DEF BP!HandInv, BP!AddInv
  <2>3. m \in msg[s] /\ m \in Records
    BY <2>2 DEF CallerInv, BP!HandInv, BP!TypeOK
  <2>4. m \notin unsent /\ \A d \in Streams : m \notin todo[d]
    BY <2>2, <2>3 DEF BP!HandInv, BP!MsgInv, BP!AddInv
  <2>5. m \in BP!Inserted
    BY <2>3, <2>4 DEF BP!Inserted
  <2>6. added' = added \cup {m}
    BY <1>3, <2>2 DEF AddReturns, C!Process, CallerInv
  <2> QED
    BY <1>1, <1>2, <2>5, <2>6
<1>4. ASSUME NEW s \in Streams, ProcessNothing(s)
      PROVE  added' = added
  BY <1>4 DEF ProcessNothing, C!Process
<1>5. ASSUME NEW s \in Streams,
             DeviceStep(s) \/ PublishStep(s) \/ CallAdd(s) \/ AddGoesOn(s)
      PROVE  added' = added
  BY <1>5 DEF DeviceStep, C!Open, C!DeviceLeaves, C!Receive, PublishStep, C!RecvFails, C!Send,
              C!SendFails, C!Cancel, C!Renew, C!Return, CallAdd, AddGoesOn, collectorVars
<1> QED
  BY <1>2, <1>3, <1>4, <1>5, OtherSteps DEF Next, HandlerStep

\* An answered message's record is on its way, in the table or given up, for
\* any number of streams, shards, writers and flushes and any order of their
\* steps with Stop.
THEOREM AnswersAreHeld == Spec => []AnsweredIsHeld
<1>1. Init => CallerInv /\ AddedInv
  BY DEF Init, B!Init, C!Init, CallerInv, AddedInv
<1>2. ASSUME CP!AckMeansBuffered, BP!HandInv, BP!NothingVanishes, AddedInv
      PROVE  AnsweredIsHeld
  <2> SUFFICES ASSUME NEW m \in acked, m.kind = "data"
               PROVE  m \in B!Pending \/ B!Stored(m) \/ B!GivenUp(m)
    BY DEF AnsweredIsHeld
  <2>1. m \in BP!Inserted
    BY <1>2 DEF CP!AckMeansBuffered, AddedInv
  <2>2. BP!Held(m) \/ BP!Stored(m) \/ BP!GivenUp(m)
    BY <1>2, <2>1 DEF BP!NothingVanishes, BP!Held
  <2>3. BP!Held(m) => m \in BP!Pending
    BY <1>2, <2>1, BufferAssumptions, ProcAssumption, BoundAssumption, EnvAssumption,
       KeyAssumption, BP!PendingIsHeld DEF BP!Inserted
  <2> QED
    BY <2>2, <2>3 DEF BP!Pending, B!Pending, BP!Stored, B!Stored, BP!GivenUp, B!GivenUp,
       BP!Flushers, B!Flushers, BP!Procs, B!Procs
<1>3. Spec => [](CallerInv /\ AddedInv)
  BY <1>1, CallerStep, AddedStep, CollectorHolds, BufferManagerHolds, PTL DEF Spec
<1> QED
  BY <1>2, <1>3, CollectorHolds, BufferManagerHolds, PTL

-----------------------------------------------------------------------------
(* ExitLeavesLateRecords needs that Stop has come back: once main is past  *)
(* it the flush of Stop is over, and as stopChan is closed no other begins *)
(* in its goroutine.                                                       *)

StopReturned == mainPc \in {"bufferStopped", "draining", "drained", "exited"}
StoppedInv   == StopReturned => stopped /\ sweepAt[Stopper] = 0

\* Only the first Stop starts the flush of Stop.
LEMMA StopperRests ==
    ASSUME BP!TypeOK, [B!Next]_(B!vars), stopped, sweepAt[Stopper] = 0
    PROVE  stopped' /\ sweepAt'[Stopper] = 0
<1> USE DEF B!addVars, B!lifeVars
<1>0. sweepAt \in [B!Flushers -> 0 .. NumShards] /\ Stopper \in B!Flushers /\ Stopper # Timer
      /\ Stopper \notin Spawned
  BY ProcAssumption DEF BP!TypeOK, B!Flushers, BP!Flushers
<1>1. ASSUME NEW c \in Streams, B!BeginAdd(c) \/ B!AddOne(c) \/ B!CountAdded(c) \/ B!ScanShard(c)
      PROVE  UNCHANGED <<stopped, sweepAt>>
  BY <1>1 DEF B!BeginAdd, B!AddOne, B!CountAdded, B!ScanShard
<1>2. ASSUME NEW c \in Streams, B!ReturnBelowThreshold(c) \/ B!ReturnAndFlush(c)
      PROVE  stopped' = stopped /\ sweepAt'[Stopper] = sweepAt[Stopper]
  BY <1>0, <1>2 DEF B!ReturnBelowThreshold, B!ReturnAndFlush, B!EndScan
<1>3. ASSUME NEW f \in B!Flushers, B!FlushStep(f)
      PROVE  stopped' = stopped /\ sweepAt'[Stopper] = 0
  BY <1>0, <1>3 DEF B!FlushStep, B!SweepShard, B!Enqueue, B!WriteDirectly, B!FlushGivesUp
<1>4. ASSUME NEW p \in B!Procs, B!RetryStep(p) \/ B!DatabaseStep(p)
      PROVE  UNCHANGED <<stopped, sweepAt>>
  BY <1>4 DEF B!RetryStep, B!StartAttempt, B!AttemptTimesOut, B!AttemptErrs, B!WriteSucceeds,
              B!DatabaseStep, B!CallCommits, B!CallFails, B!ReplyIsLost
<1>5. ASSUME NEW w \in Writers, B!WriterStep(w)
      PROVE  UNCHANGED <<stopped, sweepAt>>
  BY <1>5 DEF B!WriterStep, B!Dequeue, B!WriterGivesUp, B!WriterExits
<1>6. CASE B!TimerFire
  BY <1>0, <1>6 DEF B!TimerFire
<1>7. CASE B!OrphanEnds \/ B!TimerExits \/ UNCHANGED B!vars
  BY <1>7 DEF B!OrphanEnds, B!TimerExits, B!vars
<1> QED
  BY <1>1, <1>2, <1>3, <1>4, <1>5, <1>6, <1>7 DEF B!Next, B!ClientStep, B!Stop

\* Main gets past bufferManager.Stop() only when its flush is over.
LEMMA PastStop ==
    ASSUME StopReturned', ~StopReturned, [Next]_vars
    PROVE  StopReturns
<1> USE DEF StopReturned, collectorVars
<1>1. ASSUME NEW s \in Streams, DeviceStep(s) \/ HandlerStep(s)
      PROVE  mainPc' = mainPc
  BY <1>1 DEF DeviceStep, C!Open, C!DeviceLeaves, C!Receive, HandlerStep, PublishStep,
              C!RecvFails, C!Send, C!SendFails, C!Cancel, C!Renew, C!Return, ProcessNothing,
              AddReturns, C!Process, CallAdd, AddGoesOn, C!stopVars
<1>2. ASSUME \/ \E f \in B!Flushers : FlushStep(f)
             \/ \E w \in Writers : WriterStep(w)
             \/ \E p \in B!Procs : AttemptStep(p)
             \/ TimerFires \/ TimerExits \/ DatabaseStep
      PROVE  mainPc' = mainPc
  BY <1>2 DEF FlushStep, WriterStep, AttemptStep, StartAttempt, AttemptRefused, AttemptEnds,
              TimerFires, TimerExits, DatabaseStep
<1>3. CASE MainStarts \/ ServerStarts \/ MonitorExits
  BY <1>3 DEF MainStarts, C!LoadConfig, C!NewDatabaseWithConfig, C!Launch, C!Signal,
              ServerStarts, C!StartStep, C!Listen, C!MakeServer, C!Serve, MonitorExits,
              C!MonitorExits
<1>4. CASE CollectorStops \/ CallStop \/ ClosePool \/ Exit
  BY <1>4 DEF CollectorStops, C!MonitorAwaited, C!GracefulStop, C!StopFindsNoServer,
              C!GracefulStopReturns, CallStop, ClosePool, Exit, C!Exit
<1>5. CASE UNCHANGED vars
  BY <1>5 DEF vars
<1> QED
  BY <1>1, <1>2, <1>3, <1>4, <1>5 DEF Next, ShutdownStep

\* The program exits with nothing in the map that was there when Stop was
\* called, whatever other flushes, handlers and start-up did meanwhile.
THEOREM ExitAfterFlush == Spec => []ExitLeavesLateRecords
<1>1. Init => StoppedInv
  BY DEF Init, C!Init, StoppedInv, StopReturned
<1>2. ASSUME BP!TypeOK, StoppedInv, [Next]_vars
      PROVE  StoppedInv'
  <2>1. CASE StopReturned
    BY <1>2, <2>1, StopperRests, BufferManagerSees DEF StoppedInv
  <2>2. CASE ~StopReturned /\ StopReturned'
    BY <1>2, <2>2, PastStop DEF StopReturns, B!FlushIdle, bufferVars, StoppedInv
  <2> QED
    BY <2>1, <2>2 DEF StoppedInv
<1>3. ASSUME StoppedInv, BP!StopSweepsMap
      PROVE  ExitLeavesLateRecords
  BY <1>3 DEF StoppedInv, StopReturned, BP!StopSweepsMap, ExitLeavesLateRecords, B!InMap, BP!InMap
<1>4. BP!HandInv => BP!TypeOK
  BY DEF BP!HandInv
<1> QED
  BY <1>1, <1>2, <1>3, <1>4, BufferManagerHolds, PTL DEF Spec
=============================================================================
