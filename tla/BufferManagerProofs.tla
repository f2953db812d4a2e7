------------------------ MODULE BufferManagerProofs ------------------------
(* Theorems about BufferManager, for every value of its constants. *)
EXTENDS BufferManager, FiniteSetTheorems, TLAPS

(* The lengths that the code adds up and counts are natural numbers. *)
LEMMA RecordCount == \A S \in SUBSET Recs : Cardinality(S) \in Nat
  BY RecsAssumption, FS_Subset, FS_CardinalityType

\* The number of rows of a batch, as a flush counts them.
LEMMA BatchCount == \A b \in Batches : Cardinality(b) \in Nat
  <1>1. IsFiniteSet(SUBSET Recs)
    BY RecsAssumption, FS_SUBSET
  <1>2. SUFFICES ASSUME NEW b \in Batches PROVE Cardinality(b) \in Nat
    OBVIOUS
  <1>3. b \subseteq SUBSET Recs
    BY DEF Batches, Rows
  <1> QED BY <1>1, <1>3, FS_Subset, FS_CardinalityType

\* The number of occupied keys of a shard, as Len counts them.
LEMMA ShardCount == \A s : ShardLen(s) \in Nat
  <1> SUFFICES ASSUME NEW s PROVE ShardLen(s) \in Nat
    OBVIOUS
  <1> DEFINE K == {k \in Keys : ShardOf[k] = s /\ items[k] # {}}
  <1>1. K \subseteq Keys
    OBVIOUS
  <1>2. IsFiniteSet(K)
    BY <1>1, RecsAssumption, FS_Subset
  <1> QED BY <1>2, FS_CardinalityType DEF ShardLen

(* A handler's message, the batches of a flush and the rows of a shard are *)
(* made of records.                                                        *)
LEMMA RecordSets ==
    ASSUME TypeOK
    PROVE  /\ \A s : ShardRows(s) \in Batches
           /\ \A b \in Batches : UNION b \in SUBSET Recs
           /\ \A b \in Batches : CopiesAfter(b) \in [Recs -> Nat]
           /\ \A f \in Flushers : NextBatch(f) \subseteq Batches
           /\ Inserted \in SUBSET Recs
  BY DEF TypeOK, ShardRows, Batches, Rows, CopiesAfter, NextBatch, Inserted

(* Type correctness (TypeOK): the channel keeps to its capacity and the    *)
(* retry loop to its attempts, whatever the interleaving.                  *)
THEOREM TypeCorrect == Spec => []TypeOK
  <1>1. Init => TypeOK
    <2> SUFFICES ASSUME Init PROVE TypeOK
      OBVIOUS
    <2>1. queue \in Seq(Batches) /\ Len(queue) <= QueueCap
      BY BoundAssumption DEF Init
    <2>2. {} \in Batches /\ {} \in SUBSET Attempt
      BY DEF Batches
    <2>3. 0 \in 0 .. NumShards /\ 0 \in 0 .. RetryAttempts
      BY KeyAssumption, BoundAssumption
    <2> QED BY <2>1, <2>2, <2>3 DEF Init, TypeOK
  <1>2. TypeOK /\ [Next]_vars => TypeOK'
    <2> SUFFICES ASSUME TypeOK, [Next]_vars PROVE TypeOK'
      OBVIOUS
    <2> USE KeyAssumption, BoundAssumption
    <2> USE DEF TypeOK, addVars, writeVars, lifeVars, statVars, histVars
    <2>1. ASSUME NEW c \in Clients, BeginAdd(c) PROVE TypeOK'
      BY <2>1 DEF BeginAdd
    <2>2. ASSUME NEW c \in Clients, AddOne(c) PROVE TypeOK'
      <3>1. PICK r \in todo[c] : Insert(r) /\ todo' = [todo EXCEPT ![c] = todo[c] \ {r}]
        BY <2>2 DEF AddOne
      <3>2. r \in Recs /\ KeyOf[r] \in Keys
        OBVIOUS
      <3>3. items' \in [Keys -> SUBSET Recs] /\ overwritten' \in SUBSET Recs /\ collisions' \in Nat
        BY <3>1, <3>2 DEF Insert
      <3> QED BY <2>2, <3>1, <3>3 DEF AddOne
    <2>3. ASSUME NEW c \in Clients, CountAdded(c) PROVE TypeOK'
      <3>0. msg[c] \in SUBSET Recs /\ Cardinality(msg[c]) \in Nat
        BY RecordCount
      <3>1. processed' \in Nat
        BY <2>3, <3>0 DEF CountAdded
      <3>2. 1 \in 0 .. NumShards
        OBVIOUS
      <3> QED BY <2>3, <3>1, <3>2 DEF CountAdded
    <2>4. ASSUME NEW c \in Clients, ScanShard(c) PROVE TypeOK'
      BY <2>4, ShardCount DEF ScanShard
    <2>5. ASSUME NEW c \in Clients, ReturnBelowThreshold(c) PROVE TypeOK'
      BY <2>5 DEF ReturnBelowThreshold, EndScan
    <2>6. ASSUME NEW c \in Clients, ReturnAndFlush(c) PROVE TypeOK'
      BY <2>6 DEF ReturnAndFlush, EndScan, Flushers
    <2>7. ASSUME NEW f \in Flushers, SweepShard(f) PROVE TypeOK'
      <3>1. rows' \in [Flushers -> Batches]
        BY <2>7, RecordSets DEF SweepShard, Batches
      <3>2. sweepAt' \in [Flushers -> 0 .. NumShards]
        BY <2>7 DEF SweepShard
      <3> QED BY <2>7, <3>1, <3>2 DEF SweepShard
    <2>8. ASSUME NEW f \in Flushers, Enqueue(f) PROVE TypeOK'
      <3>1. PICK b \in NextBatch(f) : queue' = Append(queue, b) /\ rows' = [rows EXCEPT ![f] = rows[f] \ b]
        BY <2>8 DEF Enqueue
      <3>2. b \in Batches /\ rows[f] \ b \in Batches
        BY RecordSets DEF Batches
      <3>3. queue' \in Seq(Batches) /\ Len(queue') <= QueueCap
        BY <2>8, <3>1, <3>2 DEF Enqueue
      <3> QED BY <2>8, <3>1, <3>2, <3>3 DEF Enqueue
    <2>9. ASSUME NEW f \in Flushers, WriteDirectly(f) PROVE TypeOK'
      <3>1. PICK b \in NextBatch(f) : job' = [job EXCEPT ![f] = b] /\ rows' = [rows EXCEPT ![f] = rows[f] \ b]
        BY <2>9 DEF WriteDirectly
      <3>2. b \in Batches /\ rows[f] \ b \in Batches
        BY RecordSets DEF Batches
      <3> QED BY <2>9, <3>1, <3>2 DEF WriteDirectly, Procs
    <2>10. ASSUME NEW f \in Flushers, FlushGivesUp(f) PROVE TypeOK'
      <3>1. UNION job[f] \in SUBSET Recs /\ UNION rows[f] \in SUBSET Recs
        BY RecordSets DEF Procs
      <3> QED BY <2>10, <3>1 DEF FlushGivesUp, Procs, Batches
    <2>11. ASSUME NEW p \in Procs, StartAttempt(p) PROVE TypeOK'
      BY <2>11 DEF StartAttempt
    <2>12. ASSUME NEW p \in Procs, AttemptTimesOut(p) PROVE TypeOK'
      <3>1. UNION job[p] \in SUBSET Recs
        BY RecordSets
      <3>2. orphans' \in SUBSET Attempt
        BY <2>12 DEF AttemptTimesOut, Attempt
      <3> QED BY <2>12, <3>1, <3>2 DEF AttemptTimesOut
    <2>13. ASSUME NEW p \in Procs, AttemptErrs(p) PROVE TypeOK'
      BY <2>13 DEF AttemptErrs
    <2>14. ASSUME NEW p \in Procs, WriteSucceeds(p) PROVE TypeOK'
      <3>1. written' \in Nat
        BY <2>14, BatchCount DEF WriteSucceeds
      <3>2. {} \in Batches
        BY DEF Batches
      <3> QED BY <2>14, <3>1, <3>2 DEF WriteSucceeds
    <2>15. ASSUME NEW p \in Procs, CallCommits(p) PROVE TypeOK'
      BY <2>15, RecordSets DEF CallCommits
    <2>16. ASSUME NEW p \in Procs, CallFails(p) PROVE TypeOK'
      BY <2>16 DEF CallFails
    <2>17. ASSUME NEW p \in Procs, ReplyIsLost(p) PROVE TypeOK'
      <3>1. UNION job[p] \in SUBSET Recs /\ CopiesAfter(job[p]) \in [Recs -> Nat]
        BY RecordSets
      <3> QED BY <2>17, <3>1 DEF ReplyIsLost
    <2>18. ASSUME NEW w \in Writers, Dequeue(w) PROVE TypeOK'
      <3>1. Head(queue) \in Batches /\ Tail(queue) \in Seq(Batches) /\ Len(Tail(queue)) <= QueueCap
        BY <2>18 DEF Dequeue
      <3> QED BY <2>18, <3>1 DEF Dequeue, Procs
    <2>19. ASSUME NEW w \in Writers, WriterGivesUp(w) PROVE TypeOK'
      <3>1. UNION job[w] \in SUBSET Recs
        BY RecordSets DEF Procs
      <3> QED BY <2>19, <3>1 DEF WriterGivesUp, Procs, Batches
    <2>20. ASSUME NEW w \in Writers, WriterExits(w) PROVE TypeOK'
      BY <2>20 DEF WriterExits
    <2>21. CASE OrphanEnds
      <3>1. copies' \in [Recs -> Nat] /\ orphans' \in SUBSET Attempt
        BY <2>21, RecordSets DEF OrphanEnds, Attempt
      <3> QED BY <2>21, <3>1 DEF OrphanEnds
    <2>22. CASE TimerFire
      BY <2>22 DEF TimerFire, Flushers
    <2>23. CASE TimerExits
      BY <2>23 DEF TimerExits
    <2>24. CASE Stop
      BY <2>24, RecordSets DEF Stop, Flushers
    <2>25. CASE UNCHANGED vars
      BY <2>25 DEF vars
    <2> QED
      BY <2>1, <2>2, <2>3, <2>4, <2>5, <2>6, <2>7, <2>8, <2>9, <2>10, <2>11, <2>12,
         <2>13, <2>14, <2>15, <2>16, <2>17, <2>18, <2>19, <2>20, <2>21, <2>22, <2>23,
         <2>24, <2>25
      DEF Next, ClientStep, FlushStep, RetryStep, DatabaseStep, WriterStep
  <1> QED BY <1>1, <1>2, PTL DEF Spec

-----------------------------------------------------------------------------
(* A record in the map before Stop cannot be added again, so the sweep of  *)
(* Stop, which starts after it and passes its shard once, takes it.        *)
StopInv == TypeOK /\ beforeStop \subseteq Inserted /\ StopSweepsMap

(* Once inserted, a record is in no handler's hands any more.              *)
LEMMA InsertedIsStable == TypeOK /\ [Next]_vars => Inserted \subseteq Inserted'
  <1> SUFFICES ASSUME TypeOK, [Next]_vars, NEW r \in Inserted PROVE r \in Inserted'
    OBVIOUS
  <1> USE DEF Inserted
  <1>1. ASSUME NEW c \in Clients, BeginAdd(c) PROVE r \in Inserted'
    BY <1>1 DEF BeginAdd, TypeOK
  <1>2. ASSUME NEW c \in Clients, AddOne(c) PROVE r \in Inserted'
    BY <1>2 DEF AddOne, TypeOK
  <1>3. CASE UNCHANGED <<unsent, todo>>
    BY <1>3
  <1>4. ASSUME NEW c \in Clients,
               CountAdded(c) \/ ScanShard(c) \/ ReturnBelowThreshold(c) \/ ReturnAndFlush(c)
        PROVE  r \in Inserted'
    BY <1>3, <1>4 DEF CountAdded, ScanShard, ReturnBelowThreshold, ReturnAndFlush, EndScan
  <1>5. ASSUME NEW f \in Flushers, FlushStep(f) PROVE r \in Inserted'
    BY <1>3, <1>5 DEF FlushStep, SweepShard, Enqueue, WriteDirectly, FlushGivesUp, addVars
  <1>6. ASSUME NEW p \in Procs, RetryStep(p) \/ DatabaseStep(p) PROVE r \in Inserted'
    BY <1>3, <1>6 DEF RetryStep, StartAttempt, AttemptTimesOut, AttemptErrs, WriteSucceeds,
                      DatabaseStep, CallCommits, CallFails, ReplyIsLost, addVars
  <1>7. ASSUME NEW w \in Writers, WriterStep(w) PROVE r \in Inserted'
    BY <1>3, <1>7 DEF WriterStep, Dequeue, WriterGivesUp, WriterExits, addVars
  <1>8. CASE OrphanEnds \/ TimerFire \/ TimerExits \/ Stop
    BY <1>3, <1>8 DEF OrphanEnds, TimerFire, TimerExits, Stop, addVars
  <1>9. CASE UNCHANGED vars
    BY <1>3, <1>9 DEF vars, addVars
  <1> QED BY <1>1, <1>2, <1>4, <1>5, <1>6, <1>7, <1>8, <1>9 DEF Next, ClientStep

(* StopSweepsMap: the flush of Stop takes everything that was in the map   *)
(* when Stop was called, for any number of shards, handlers and flushes.   *)
THEOREM StopSweeps == Spec => []StopSweepsMap
  <1>1. Init => beforeStop \subseteq Inserted /\ StopSweepsMap
    BY DEF Init, StopSweepsMap
  <1>2. StopInv /\ TypeOK' /\ [Next]_vars => StopInv'
    <2> SUFFICES ASSUME StopInv, TypeOK', [Next]_vars PROVE StopInv'
      OBVIOUS
    <2> USE DEF StopInv
    <2>0. Inserted \subseteq Inserted'
      BY InsertedIsStable
    <2>1. CASE Stop
      <3>1. beforeStop' = Inserted /\ sweepAt'[Stopper] = 1
        BY <2>1 DEF Stop, TypeOK, Flushers
      <3>2. \A r \in Inserted : ShardOf[KeyOf[r]] >= 1
        BY KeyAssumption DEF Inserted
      <3> QED BY <2>0, <3>1, <3>2 DEF StopSweepsMap
    <2>2. CASE ~Stop
      <3>1. beforeStop' = beforeStop
        BY <2>2 DEF Next, ClientStep, FlushStep, RetryStep, DatabaseStep, WriterStep, BeginAdd,
              AddOne, CountAdded, ScanShard, ReturnBelowThreshold, ReturnAndFlush, EndScan,
              SweepShard, Enqueue, WriteDirectly, FlushGivesUp, StartAttempt, AttemptTimesOut,
              AttemptErrs, WriteSucceeds, CallCommits, CallFails, ReplyIsLost, Dequeue,
              WriterGivesUp, WriterExits, OrphanEnds, TimerFire, TimerExits, lifeVars, vars
      <3>2. beforeStop' \subseteq Inserted'
        BY <2>0, <3>1
      <3> SUFFICES ASSUME NEW r \in beforeStop, InMap(r)'
                   PROVE  (sweepAt[Stopper] # 0 /\ sweepAt[Stopper] <= ShardOf[KeyOf[r]])'
        BY <3>1, <3>2 DEF StopSweepsMap
      <3> DEFINE Ahead == sweepAt[Stopper] # 0 /\ sweepAt[Stopper] <= ShardOf[KeyOf[r]]
      <3>3. r \in Recs /\ KeyOf[r] \in Keys /\ (InMap(r) => Ahead)
        BY KeyAssumption DEF TypeOK, StopSweepsMap
      <3>4. CASE UNCHANGED <<items, sweepAt>>
        BY <3>3, <3>4 DEF InMap
      <3>5. ASSUME NEW c \in Clients, AddOne(c) PROVE Ahead'
        <4>1. PICK n \in todo[c] : Insert(n)
          BY <3>5 DEF AddOne
        <4>2. n # r /\ sweepAt' = sweepAt
          BY <3>5 DEF Inserted, AddOne
        <4>3. InMap(r)
          BY <3>3, <4>1, <4>2 DEF InMap, Insert, TypeOK
        <4> QED BY <3>3, <4>2, <4>3
      <3>6. ASSUME NEW c \in Clients, ReturnAndFlush(c) PROVE Ahead'
        <4>1. items' = items /\ sweepAt'[Stopper] = sweepAt[Stopper]
          BY <3>6, ProcAssumption DEF ReturnAndFlush, EndScan, TypeOK, Flushers
        <4> QED BY <3>3, <4>1 DEF InMap
      <3>7. CASE TimerFire
        <4>1. items' = items /\ sweepAt'[Stopper] = sweepAt[Stopper]
          BY <3>7, ProcAssumption DEF TimerFire, TypeOK, Flushers
        <4> QED BY <3>3, <4>1 DEF InMap
      <3>8. ASSUME NEW f \in Flushers, SweepShard(f) PROVE Ahead'
        <4>1. InMap(r) /\ ShardOf[KeyOf[r]] # sweepAt[f]
          BY <3>3, <3>8 DEF InMap, SweepShard
        <4>2. Ahead
          BY <3>3, <4>1
        <4>3. CASE f = Stopper
          <5>1. sweepAt[f] \in 1 .. NumShards /\ ShardOf[KeyOf[r]] \in 1 .. NumShards
            BY <3>3, <3>8, KeyAssumption DEF SweepShard, TypeOK
          <5>2. sweepAt'[Stopper] = sweepAt[Stopper] + 1
            BY <3>8, <4>1, <4>2, <4>3, <5>1, KeyAssumption DEF SweepShard, TypeOK
          <5> QED BY <4>1, <4>2, <4>3, <5>1, <5>2
        <4>4. CASE f # Stopper
          <5>1. sweepAt'[Stopper] = sweepAt[Stopper]
            BY <3>8, <4>4 DEF SweepShard, TypeOK, Flushers
          <5> QED BY <4>2, <5>1
        <4> QED BY <4>3, <4>4
      <3>9. \/ \E c \in Clients : AddOne(c) \/ ReturnAndFlush(c)
            \/ \E f \in Flushers : SweepShard(f)
            \/ TimerFire
            \/ UNCHANGED <<items, sweepAt>>
        BY <2>2 DEF Next, ClientStep, FlushStep, RetryStep, DatabaseStep, WriterStep, BeginAdd,
              CountAdded, ScanShard, ReturnBelowThreshold, EndScan, Enqueue, WriteDirectly,
              FlushGivesUp, StartAttempt, AttemptTimesOut, AttemptErrs, WriteSucceeds,
              CallCommits, CallFails, ReplyIsLost, Dequeue, WriterGivesUp, WriterExits,
              OrphanEnds, TimerExits, vars
      <3> QED BY <3>4, <3>5, <3>6, <3>7, <3>8, <3>9
    <2> QED BY <2>1, <2>2
  <1> QED BY <1>1, <1>2, TypeCorrect, PTL DEF Spec, StopInv

-----------------------------------------------------------------------------
(* NothingVanishes is not inductive: a writer forgets a batch when its     *)
(* call has returned nil, so what is needed is that a call that reports    *)
(* success has committed the very batch its caller holds.                  *)
CallInv ==
    \A p \in Procs : /\ job[p] = {} => call[p] = "none"
                     /\ call[p] = "ok" => \A r \in UNION job[p] : copies[r] > 0

Accounted(r) == InMap(r) \/ Swept(r) \/ Queued(r) \/ InWrite(r) \/ Stored(r) \/ GivenUp(r)

(* A handler enters Len() with all its metrics inserted and starts a new   *)
(* Add call with none left over.                                           *)
AddInv ==
    \A c \in Clients : /\ todo[c] \subseteq msg[c]
                       /\ scanAt[c] # 0 => todo[c] = {} /\ msg[c] # {}

CustodyInv == TypeOK /\ AddInv /\ CallInv /\ NothingVanishes

\* No step leaves a record to insert that is not in the handler's message.
LEMMA AddInvStep == TypeOK /\ AddInv /\ [Next]_vars => AddInv'
  <1> SUFFICES ASSUME TypeOK, AddInv, [Next]_vars PROVE AddInv'
    OBVIOUS
  <1> USE DEF TypeOK, AddInv
  <1>1. ASSUME NEW c \in Clients, BeginAdd(c) PROVE AddInv'
    BY <1>1 DEF BeginAdd
  <1>2. ASSUME NEW c \in Clients, AddOne(c) PROVE AddInv'
    BY <1>2 DEF AddOne
  <1>3. ASSUME NEW c \in Clients, CountAdded(c) PROVE AddInv'
    BY <1>3 DEF CountAdded
  <1>4. ASSUME NEW c \in Clients, ScanShard(c) PROVE AddInv'
    BY <1>4 DEF ScanShard
  <1>5. ASSUME NEW c \in Clients, ReturnBelowThreshold(c) \/ ReturnAndFlush(c) PROVE AddInv'
    <2>1. EndScan(c) /\ scanAt[c] # 0
      BY <1>5, KeyAssumption DEF ReturnBelowThreshold, ReturnAndFlush, EndScan
    <2> QED BY <2>1 DEF EndScan
  <1>6. CASE UNCHANGED <<msg, todo, scanAt>>
    BY <1>6
  <1>7. \/ \E c \in Clients : BeginAdd(c) \/ ClientStep(c)
        \/ UNCHANGED <<msg, todo, scanAt>>
    BY DEF Next, FlushStep, RetryStep, DatabaseStep, WriterStep, SweepShard, Enqueue,
           WriteDirectly, FlushGivesUp, StartAttempt, AttemptTimesOut, AttemptErrs,
           WriteSucceeds, CallCommits, CallFails, ReplyIsLost, Dequeue, WriterGivesUp,
           WriterExits, OrphanEnds, TimerFire, TimerExits, Stop, addVars, vars
  <1> QED BY <1>1, <1>2, <1>3, <1>4, <1>5, <1>6, <1>7 DEF ClientStep

(* Commits only add copies.                                                *)
LEMMA CopiesGrow ==
    TypeOK /\ [Next]_vars => \A r \in Recs : copies[r] > 0 => copies'[r] > 0
  <1> SUFFICES ASSUME TypeOK, [Next]_vars, NEW r \in Recs, copies[r] > 0
               PROVE  copies'[r] > 0
    OBVIOUS
  <1>1. \/ copies' = copies
        \/ \E b : copies' = CopiesAfter(b)
    BY DEF Next, ClientStep, FlushStep, RetryStep, DatabaseStep, WriterStep, BeginAdd, AddOne,
           CountAdded, ScanShard, ReturnBelowThreshold, ReturnAndFlush, EndScan, SweepShard,
           Enqueue, WriteDirectly, FlushGivesUp, StartAttempt, AttemptTimesOut, AttemptErrs,
           WriteSucceeds, CallCommits, CallFails, ReplyIsLost, Dequeue, WriterGivesUp,
           WriterExits, OrphanEnds, TimerFire, TimerExits, Stop, writeVars, vars
  <1>2. ASSUME NEW b, copies' = CopiesAfter(b) PROVE copies'[r] > 0
    <2>1. copies'[r] \in {copies[r], copies[r] + 1}
      BY <1>2 DEF CopiesAfter
    <2> QED BY <2>1 DEF TypeOK
  <1> QED BY <1>1, <1>2

\* No step lets a call have returned ok without its batch in the table.
LEMMA CallInvStep == TypeOK /\ CallInv /\ [Next]_vars => CallInv'
  <1> SUFFICES ASSUME TypeOK, CallInv, [Next]_vars, NEW q \in Procs
               PROVE  /\ job'[q] = {} => call'[q] = "none"
                      /\ call'[q] = "ok" => \A r \in UNION job'[q] : copies'[r] > 0
    BY DEF CallInv
  <1> DEFINE Goal == /\ job'[q] = {} => call'[q] = "none"
                     /\ call'[q] = "ok" => \A r \in UNION job'[q] : copies'[r] > 0
  <1>0. \A r \in UNION job[q] : r \in Recs
    BY RecordSets DEF TypeOK
  <1>1. CASE job'[q] = job[q] /\ (call'[q] = call[q] \/ call'[q] = "none")
    BY <1>0, <1>1, CopiesGrow DEF CallInv
  <1>2. CASE call'[q] = "none"
    BY <1>2
  <1>4. ASSUME NEW f \in Flushers, WriteDirectly(f) PROVE Goal
    <2>1. f \in Procs /\ call'[f] = "none" /\ call' = call /\ job' = [job EXCEPT ![f] = job'[f]]
      BY <1>4 DEF WriteDirectly, ReadyToSend, CallInv, Procs, TypeOK
    <2> QED BY <2>1, <1>1, <1>2 DEF TypeOK
  <1>5. ASSUME NEW f \in Flushers, FlushGivesUp(f) PROVE Goal
    <2>1. f \in Procs /\ call'[f] = "none" /\ call' = call /\ job' = [job EXCEPT ![f] = {}]
      BY <1>5 DEF FlushGivesUp, AttemptsExhausted, Procs
    <2> QED BY <2>1, <1>1, <1>2 DEF TypeOK
  <1>6. ASSUME NEW p \in Procs, StartAttempt(p) PROVE Goal
    BY <1>1, <1>6 DEF StartAttempt, TypeOK
  <1>7. ASSUME NEW p \in Procs, AttemptTimesOut(p) \/ AttemptErrs(p) PROVE Goal
    BY <1>1, <1>7 DEF AttemptTimesOut, AttemptErrs, TypeOK
  <1>8. ASSUME NEW p \in Procs, WriteSucceeds(p) PROVE Goal
    <2>1. call'[p] = "none" /\ call' = [call EXCEPT ![p] = "none"] /\ job' = [job EXCEPT ![p] = {}]
      BY <1>8 DEF WriteSucceeds, TypeOK
    <2> QED BY <2>1, <1>1, <1>2 DEF TypeOK
  <1>9. ASSUME NEW p \in Procs, CallCommits(p) PROVE Goal
    <2>1. CASE p = q
      <3>1. job'[q] = job[q] /\ job[q] # {}
        BY <1>9, <2>1 DEF CallCommits, CallInv
      <3>2. \A r \in UNION job[q] : copies'[r] > 0
        BY <1>0, <1>9, <2>1 DEF CallCommits, CopiesAfter, TypeOK
      <3> QED BY <3>1, <3>2
    <2>2. CASE p # q
      BY <1>1, <1>9, <2>2 DEF CallCommits, TypeOK
    <2> QED BY <2>1, <2>2
  <1>10. ASSUME NEW p \in Procs, CallFails(p) \/ ReplyIsLost(p) PROVE Goal
    <2>1. CASE p = q
      BY <1>10, <2>1 DEF CallFails, ReplyIsLost, CallInv, TypeOK
    <2>2. CASE p # q
      BY <1>1, <1>10, <2>2 DEF CallFails, ReplyIsLost, TypeOK
    <2> QED BY <2>1, <2>2
  <1>11. ASSUME NEW w \in Writers, Dequeue(w) PROVE Goal
    <2>1. w \in Procs /\ call'[w] = "none" /\ call' = call /\ job' = [job EXCEPT ![w] = job'[w]]
      BY <1>11 DEF Dequeue, CallInv, Procs, TypeOK
    <2> QED BY <2>1, <1>1, <1>2 DEF TypeOK
  <1>12. ASSUME NEW w \in Writers, WriterGivesUp(w) PROVE Goal
    <2>1. w \in Procs /\ call'[w] = "none" /\ call' = call /\ job' = [job EXCEPT ![w] = {}]
      BY <1>12 DEF WriterGivesUp, AttemptsExhausted, Procs
    <2> QED BY <2>1, <1>1, <1>2 DEF TypeOK
  <1>13. CASE UNCHANGED <<job, call>>
    BY <1>1, <1>13
  <1>14. ASSUME NEW c \in Clients, BeginAdd(c) \/ ClientStep(c) PROVE Goal
    BY <1>13, <1>14 DEF BeginAdd, ClientStep, AddOne, CountAdded, ScanShard,
          ReturnBelowThreshold, ReturnAndFlush, EndScan, writeVars
  <1>15. ASSUME NEW f \in Flushers, SweepShard(f) \/ Enqueue(f) PROVE Goal
    BY <1>13, <1>15 DEF SweepShard, Enqueue, writeVars
  <1>16. ASSUME NEW w \in Writers, WriterExits(w) PROVE Goal
    BY <1>13, <1>16 DEF WriterExits, writeVars
  <1>17. CASE OrphanEnds \/ TimerFire \/ TimerExits \/ Stop \/ UNCHANGED vars
    BY <1>13, <1>17 DEF OrphanEnds, TimerFire, TimerExits, Stop, writeVars, vars
  <1> QED BY <1>4, <1>5, <1>6, <1>7, <1>8, <1>9, <1>10, <1>11, <1>12, <1>14, <1>15, <1>16, <1>17
          DEF Next, FlushStep, RetryStep, DatabaseStep, WriterStep

(* Every record an Add call inserted stays accounted for.                  *)
LEMMA AccountedStep ==
    ASSUME CustodyInv, [Next]_vars, NEW r \in Inserted' PROVE Accounted(r)'
  <1> USE DEF CustodyInv
  <1>0. r \in Recs /\ KeyOf[r] \in Keys
    BY KeyAssumption DEF Inserted
  <1>1. CASE r \notin Inserted
    <2>1. PICK c \in Clients : AddOne(c)
      <3>1. \/ \E c \in Clients : BeginAdd(c) \/ AddOne(c)
            \/ UNCHANGED <<unsent, todo>>
        BY DEF Next, ClientStep, FlushStep, RetryStep, DatabaseStep, WriterStep, CountAdded,
              ScanShard, ReturnBelowThreshold, ReturnAndFlush, EndScan, SweepShard, Enqueue,
              WriteDirectly, FlushGivesUp, StartAttempt, AttemptTimesOut, AttemptErrs,
              WriteSucceeds, CallCommits, CallFails, ReplyIsLost, Dequeue, WriterGivesUp,
              WriterExits, OrphanEnds, TimerFire, TimerExits, Stop, addVars, vars
      <3>2. ~UNCHANGED <<unsent, todo>>
        BY <1>1 DEF Inserted
      <3>3. ASSUME NEW c \in Clients, BeginAdd(c) PROVE FALSE
        BY <1>0, <1>1, <3>3 DEF BeginAdd, Inserted, TypeOK, AddInv
      <3> QED BY <3>1, <3>2, <3>3
    <2>2. PICK n \in todo[c] : Insert(n) /\ todo' = [todo EXCEPT ![c] = todo[c] \ {n}]
      BY <2>1 DEF AddOne
    <2>3. n = r
      BY <1>0, <1>1, <2>1, <2>2 DEF Inserted, AddOne, TypeOK
    <2> QED BY <1>0, <2>2, <2>3 DEF Insert, Accounted, InMap, TypeOK
  <1>2. CASE r \in Inserted
    <2>0. Accounted(r)
      BY <1>2 DEF NothingVanishes, Accounted
    <2>1. Stored(r) => Stored(r)'
      BY <1>0, CopiesGrow DEF Stored
    <2>2. failed \subseteq failed' /\ dropped \subseteq dropped' /\ overwritten \subseteq overwritten'
      BY DEF Next, ClientStep, FlushStep, RetryStep, DatabaseStep, WriterStep, BeginAdd, AddOne,
             Insert, CountAdded, ScanShard, ReturnBelowThreshold, ReturnAndFlush, EndScan,
             SweepShard, Enqueue, WriteDirectly, FlushGivesUp, StartAttempt, AttemptTimesOut,
             AttemptErrs, WriteSucceeds, CallCommits, CallFails, ReplyIsLost, Dequeue,
             WriterGivesUp, WriterExits, OrphanEnds, TimerFire, TimerExits, Stop, histVars, vars
    <2>3. GivenUp(r) => GivenUp(r)'
      BY <2>2 DEF GivenUp
    <2> DEFINE Held == InMap(r) \/ Swept(r) \/ Queued(r) \/ InWrite(r)
    <2>4. SUFFICES ASSUME Held PROVE Accounted(r)'
      BY <2>0, <2>1, <2>3 DEF Accounted
    <2>5. CASE UNCHANGED <<items, rows, queue, job>>
      BY <2>4, <2>5 DEF Accounted, InMap, Swept, Queued, InWrite
    <2>6. ASSUME NEW c \in Clients, AddOne(c) PROVE Accounted(r)'
      <3>1. PICK n \in todo[c] : Insert(n)
        BY <2>6 DEF AddOne
      <3>2. InMap(r) => InMap(r)' \/ r \in overwritten'
        BY <1>0, <3>1 DEF Insert, InMap, TypeOK
      <3>3. UNCHANGED <<rows, queue, job>>
        BY <2>6 DEF AddOne, writeVars
      <3> QED BY <2>4, <3>2, <3>3 DEF Accounted, Swept, Queued, InWrite, GivenUp
    <2>7. ASSUME NEW f \in Flushers, SweepShard(f) PROVE Accounted(r)'
      <3>1. UNCHANGED <<queue, job>>
        BY <2>7 DEF SweepShard, writeVars
      <3>2. Swept(r) => Swept(r)'
        BY <2>7 DEF SweepShard, Swept, TypeOK
      <3>3. ASSUME InMap(r) PROVE InMap(r)' \/ Swept(r)'
        <4>1. CASE ShardOf[KeyOf[r]] = sweepAt[f]
          <5>1. items[KeyOf[r]] \in ShardRows(sweepAt[f])
            BY <1>0, <3>3, <4>1 DEF ShardRows, InMap
          <5>2. items[KeyOf[r]] \in rows'[f]
            BY <2>7, <5>1 DEF SweepShard, TypeOK
          <5> QED BY <3>3, <5>2 DEF InMap, Swept
        <4>2. CASE ShardOf[KeyOf[r]] # sweepAt[f]
          BY <1>0, <2>7, <3>3, <4>2 DEF SweepShard, InMap
        <4> QED BY <4>1, <4>2
      <3> QED BY <2>4, <3>1, <3>2, <3>3 DEF Accounted, Queued, InWrite
    <2>8. ASSUME NEW f \in Flushers, Enqueue(f) PROVE Accounted(r)'
      <3>1. PICK b \in NextBatch(f) : queue' = Append(queue, b) /\ rows' = [rows EXCEPT ![f] = rows[f] \ b]
        BY <2>8 DEF Enqueue
      <3>2. b \in Batches
        BY RecordSets
      <3>3. UNCHANGED <<items, job>>
        BY <2>8 DEF Enqueue, writeVars
      <3>4. Len(queue') = Len(queue) + 1 /\ queue'[Len(queue) + 1] = b
            /\ \A i \in 1 .. Len(queue) : queue'[i] = queue[i]
        BY <3>1, <3>2 DEF TypeOK
      <3>5. Len(queue) \in Nat
        BY DEF TypeOK
      <3>6. Queued(r) => Queued(r)'
        BY <3>4, <3>5 DEF Queued
      <3>7. r \in UNION b => Queued(r)'
        BY <3>4, <3>5 DEF Queued
      <3>8. Swept(r) => Swept(r)' \/ r \in UNION b
        BY <3>1 DEF Swept, TypeOK
      <3> QED BY <2>4, <3>3, <3>6, <3>7, <3>8 DEF Accounted, InMap, InWrite
    <2>9. ASSUME NEW f \in Flushers, WriteDirectly(f) PROVE Accounted(r)'
      <3>1. PICK b \in NextBatch(f) : job' = [job EXCEPT ![f] = b] /\ rows' = [rows EXCEPT ![f] = rows[f] \ b]
        BY <2>9 DEF WriteDirectly
      <3>2. f \in Procs /\ job[f] = {} /\ UNCHANGED <<items, queue>>
        BY <2>9 DEF WriteDirectly, ReadyToSend, Procs
      <3>3. InWrite(r) => InWrite(r)'
        BY <3>1, <3>2 DEF InWrite, TypeOK
      <3>4. r \in UNION b => InWrite(r)'
        BY <3>1, <3>2 DEF InWrite, TypeOK
      <3>5. Swept(r) => Swept(r)' \/ r \in UNION b
        BY <3>1 DEF Swept, TypeOK
      <3> QED BY <2>4, <3>2, <3>3, <3>4, <3>5 DEF Accounted, InMap, Queued
    <2>10. ASSUME NEW f \in Flushers, FlushGivesUp(f) PROVE Accounted(r)'
      <3>1. f \in Procs /\ UNCHANGED <<items, queue>>
        BY <2>10 DEF FlushGivesUp, Procs
      <3>2. Swept(r) => Swept(r)' \/ r \in dropped'
        BY <2>10 DEF FlushGivesUp, Swept, TypeOK
      <3>3. InWrite(r) => InWrite(r)' \/ r \in failed'
        BY <2>10, <3>1 DEF FlushGivesUp, InWrite, TypeOK
      <3> QED BY <2>4, <3>1, <3>2, <3>3 DEF Accounted, InMap, Queued, GivenUp
    <2>11. ASSUME NEW p \in Procs, WriteSucceeds(p) PROVE Accounted(r)'
      <3>1. UNCHANGED <<items, rows, queue, copies>>
        BY <2>11 DEF WriteSucceeds
      <3>2. r \in UNION job[p] => Stored(r)'
        BY <2>11, <3>1 DEF WriteSucceeds, CallInv, Stored
      <3>3. InWrite(r) => InWrite(r)' \/ r \in UNION job[p]
        BY <2>11 DEF WriteSucceeds, InWrite, TypeOK
      <3> QED BY <2>4, <3>1, <3>2, <3>3 DEF Accounted, InMap, Swept, Queued
    <2>12. ASSUME NEW w \in Writers, Dequeue(w) PROVE Accounted(r)'
      <3>1. w \in Procs /\ job[w] = {} /\ UNCHANGED <<items, rows>>
        BY <2>12 DEF Dequeue, Procs
      <3>2. queue \in Seq(Batches) /\ queue # <<>> /\ queue' = Tail(queue)
            /\ job' = [job EXCEPT ![w] = Head(queue)]
        BY <2>12 DEF Dequeue, TypeOK
      <3>3. InWrite(r) => InWrite(r)'
        BY <3>1, <3>2 DEF InWrite, TypeOK
      <3>4. ASSUME NEW i \in 1 .. Len(queue), r \in UNION queue[i] PROVE InWrite(r)' \/ Queued(r)'
        <4>1. CASE i = 1
          <5>1. job'[w] = queue[1]
            BY <3>1, <3>2 DEF TypeOK
          <5> QED BY <3>1, <3>4, <4>1, <5>1 DEF InWrite
        <4>2. CASE i # 1
          <5>1. i - 1 \in 1 .. Len(queue') /\ queue'[i - 1] = queue[i]
            BY <3>2, <4>2
          <5> QED BY <3>4, <5>1 DEF Queued
        <4> QED BY <4>1, <4>2
      <3> QED BY <2>4, <3>1, <3>3, <3>4 DEF Accounted, InMap, Swept, Queued
    <2>13. ASSUME NEW w \in Writers, WriterGivesUp(w) PROVE Accounted(r)'
      <3>1. w \in Procs /\ UNCHANGED <<items, rows, queue>>
        BY <2>13 DEF WriterGivesUp, Procs
      <3>2. InWrite(r) => InWrite(r)' \/ r \in failed'
        BY <2>13, <3>1 DEF WriterGivesUp, InWrite, TypeOK
      <3> QED BY <2>4, <3>1, <3>2 DEF Accounted, InMap, Swept, Queued, GivenUp
    <2>14. \/ \E c \in Clients : AddOne(c)
           \/ \E f \in Flushers : FlushStep(f)
           \/ \E p \in Procs : WriteSucceeds(p)
           \/ \E w \in Writers : Dequeue(w) \/ WriterGivesUp(w)
           \/ UNCHANGED <<items, rows, queue, job>>
      BY DEF Next, ClientStep, RetryStep, DatabaseStep, WriterStep, BeginAdd, CountAdded,
             ScanShard, ReturnBelowThreshold, ReturnAndFlush, EndScan, StartAttempt,
             AttemptTimesOut, AttemptErrs, CallCommits, CallFails, ReplyIsLost, WriterExits,
             OrphanEnds, TimerFire, TimerExits, Stop, writeVars, vars
    <2> QED BY <2>5, <2>6, <2>7, <2>8, <2>9, <2>10, <2>11, <2>12, <2>13, <2>14 DEF FlushStep
  <1> QED BY <1>1, <1>2

(* NothingVanishes: whatever the interleaving, the failures of the         *)
(* database and the moment of Stop, an inserted record is in the pipeline, *)
(* in the table, or in one of the three ways of losing it that the code    *)
(* has.                                                                    *)
THEOREM NothingIsForgotten == Spec => []NothingVanishes
  <1>1. Init => AddInv /\ CallInv /\ NothingVanishes
    BY DEF Init, AddInv, CallInv, NothingVanishes, Inserted
  <1>2. CustodyInv /\ TypeOK' /\ [Next]_vars => CustodyInv'
    BY AddInvStep, CallInvStep, AccountedStep DEF CustodyInv, NothingVanishes, Accounted
  <1> QED BY <1>1, <1>2, TypeCorrect, PTL DEF Spec, CustodyInv
=============================================================================
