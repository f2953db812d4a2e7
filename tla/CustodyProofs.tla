--------------------------- MODULE CustodyProofs ---------------------------
(***************************************************************************)
(* Who holds a record, and how often it is stored: SingleCustody and what  *)
(* follows from it, for every value of the constants of BufferManager.     *)
(***************************************************************************)
EXTENDS BufferManagerProofs

-----------------------------------------------------------------------------
(* The inductive invariant of SingleCustody.  Two handlers never have the  *)
(* same record, a map entry holds records of its own key only, and a       *)
(* record that is still to be inserted has left no trace anywhere.         *)

Held(r) == InMap(r) \/ Swept(r) \/ Queued(r) \/ InWrite(r)
Orphaned(r) == {o \in orphans : r \in UNION o.batch}
Touched(r) == Held(r) \/ GivenUp(r) \/ Stored(r) \/ Orphaned(r) # {} \/ r \in doubtful

MsgInv == /\ \A c \in Clients : msg[c] \cap unsent = {}
          /\ \A c, d \in Clients : c # d => msg[c] \cap msg[d] = {}

KeyInv == \A k \in Keys : \A r \in items[k] : KeyOf[r] = k

\* r is in at most one of the map, the flushes, the channel and the writes ...
OnePlace(r) ==
    /\ InMap(r) => ~Swept(r) /\ ~Queued(r) /\ ~InWrite(r)
    /\ Swept(r) => ~Queued(r) /\ ~InWrite(r)
    /\ Queued(r) => ~InWrite(r)

\* ... and there with one goroutine, in one batch, in one row.
OneFlush(r) == \A f, g \in Flushers : \A R \in rows[f], S \in rows[g] :
                   r \in R /\ r \in S => f = g /\ R = S
OneBatch(r) == \A i, j \in 1 .. Len(queue) : \A R \in queue[i], S \in queue[j] :
                   r \in R /\ r \in S => i = j /\ R = S
OneWrite(r) == \A p, q \in Procs : \A R \in job[p], S \in job[q] :
                   r \in R /\ r \in S => p = q /\ R = S

Alone(r) ==
    /\ OnePlace(r) /\ OneFlush(r) /\ OneBatch(r) /\ OneWrite(r)
    /\ Held(r) => ~GivenUp(r)

TraceInv == \A r \in Recs : Touched(r) => r \in Inserted
AloneInv == \A r \in Recs : Alone(r)

HandInv == TypeOK /\ AddInv /\ CallInv /\ MsgInv /\ KeyInv /\ TraceInv /\ AloneInv

(* A message leaves unsent when a handler gets it, and no other gets it.   *)
LEMMA MsgInvStep == TypeOK /\ MsgInv /\ [Next]_vars => MsgInv'
  <1> SUFFICES ASSUME TypeOK, MsgInv, [Next]_vars PROVE MsgInv'
    OBVIOUS
  <1> USE DEF TypeOK, MsgInv
  <1>1. ASSUME NEW c \in Clients, BeginAdd(c) PROVE MsgInv'
    <2>1. PICK M \in SUBSET unsent : msg' = [msg EXCEPT ![c] = M] /\ unsent' = unsent \ M
      BY <1>1 DEF BeginAdd
    <2>2. \A d \in Clients : msg'[d] = IF d = c THEN M ELSE msg[d]
      BY <2>1
    <2> QED BY <2>1, <2>2
  <1>2. ASSUME NEW c \in Clients, ReturnBelowThreshold(c) \/ ReturnAndFlush(c) PROVE MsgInv'
    BY <1>2 DEF ReturnBelowThreshold, ReturnAndFlush, EndScan
  <1>3. CASE UNCHANGED <<msg, unsent>>
    BY <1>3
  <1>4. \/ \E c \in Clients : BeginAdd(c) \/ ReturnBelowThreshold(c) \/ ReturnAndFlush(c)
        \/ UNCHANGED <<msg, unsent>>
    BY DEF Next, ClientStep, AddOne, CountAdded, ScanShard, FlushStep, RetryStep, DatabaseStep,
           WriterStep, SweepShard, Enqueue, WriteDirectly, FlushGivesUp, StartAttempt,
           AttemptTimesOut, AttemptErrs, WriteSucceeds, CallCommits, CallFails, ReplyIsLost,
           Dequeue, WriterGivesUp, WriterExits, OrphanEnds, TimerFire, TimerExits, Stop,
           addVars, vars
  <1> QED BY <1>1, <1>2, <1>3, <1>4

(* Insert puts a record under its own key, and SwapAll only removes.       *)
LEMMA KeyInvStep == TypeOK /\ KeyInv /\ [Next]_vars => KeyInv'
  <1> SUFFICES ASSUME TypeOK, KeyInv, [Next]_vars PROVE KeyInv'
    OBVIOUS
  <1> USE KeyAssumption DEF TypeOK, KeyInv
  <1>1. ASSUME NEW c \in Clients, AddOne(c) PROVE KeyInv'
    <2>1. PICK n \in todo[c] : Insert(n)
      BY <1>1 DEF AddOne
    <2> QED BY <2>1 DEF Insert
  <1>2. ASSUME NEW f \in Flushers, SweepShard(f) PROVE KeyInv'
    BY <1>2 DEF SweepShard
  <1>3. CASE UNCHANGED items
    BY <1>3
  <1>4. \/ \E c \in Clients : AddOne(c)
        \/ \E f \in Flushers : SweepShard(f)
        \/ UNCHANGED items
    BY DEF Next, ClientStep, BeginAdd, CountAdded, ScanShard, ReturnBelowThreshold,
           ReturnAndFlush, EndScan, FlushStep, RetryStep, DatabaseStep, WriterStep, Enqueue,
           WriteDirectly, FlushGivesUp, StartAttempt, AttemptTimesOut, AttemptErrs,
           WriteSucceeds, CallCommits, CallFails, ReplyIsLost, Dequeue, WriterGivesUp,
           WriterExits, OrphanEnds, TimerFire, TimerExits, Stop, vars
  <1> QED BY <1>1, <1>2, <1>3, <1>4

(* A record leaves its first trace when an Add call inserts it.            *)
LEMMA TraceStep == HandInv /\ [Next]_vars => TraceInv'
  <1> SUFFICES ASSUME HandInv, [Next]_vars, NEW r \in Recs, Touched(r)' PROVE r \in Inserted'
    BY DEF TraceInv
  <1> USE DEF HandInv
  <1>0. KeyOf[r] \in Keys
    BY KeyAssumption
  <1>1. SUFFICES ASSUME ~Touched(r) PROVE r \in Inserted'
    BY InsertedIsStable DEF TraceInv
  <1>2. ~InMap(r) /\ ~Swept(r) /\ ~Queued(r) /\ ~InWrite(r)
    BY <1>1 DEF Touched, Held
  <1>3. ~GivenUp(r) /\ ~Stored(r) /\ Orphaned(r) = {} /\ r \notin doubtful
    BY <1>1 DEF Touched
  <1>4. \A p \in Procs : r \notin UNION job[p]
    BY <1>2 DEF InWrite
  <1>5. \A o \in orphans : r \notin UNION o.batch
    BY <1>3 DEF Orphaned
  <1>6. ASSUME NEW c \in Clients, AddOne(c) PROVE r \in Inserted'
    <2>1. PICK n \in todo[c] : Insert(n) /\ todo' = [todo EXCEPT ![c] = todo[c] \ {n}]
      BY <1>6 DEF AddOne
    <2>2. CASE n = r
      <3>1. unsent' = unsent /\ todo[c] \subseteq msg[c]
        BY <1>6 DEF AddOne, AddInv
      <3>2. r \notin unsent /\ \A d \in Clients : d # c => r \notin todo[d]
        BY <2>1, <2>2, <3>1 DEF MsgInv, AddInv, TypeOK
      <3> QED BY <2>1, <2>2, <3>1, <3>2 DEF Inserted, TypeOK
    <2>3. CASE n # r
      <3>1. UNCHANGED <<rows, queue, job, copies, orphans, failed, dropped, doubtful>>
        BY <1>6 DEF AddOne, writeVars
      <3>2. KeyOf[n] \in Keys
        BY KeyAssumption DEF TypeOK
      <3>3. r \notin items[KeyOf[n]]
        BY <1>2, <3>2 DEF KeyInv, InMap
      <3>4. ~InMap(r)' /\ r \notin overwritten'
        BY <1>0, <1>2, <1>3, <2>1, <2>3, <3>2, <3>3 DEF Insert, InMap, GivenUp, TypeOK
      <3> QED BY <1>2, <1>3, <3>1, <3>4
              DEF Touched, Held, Swept, Queued, InWrite, GivenUp, Stored, Orphaned
    <2> QED BY <2>2, <2>3
  <1>7. ASSUME NEW f \in Flushers, SweepShard(f) PROVE FALSE
    <2>1. \A R \in ShardRows(sweepAt[f]) : r \notin R
      BY <1>2 DEF ShardRows, KeyInv, InMap
    <2>2. ~Swept(r)'
      BY <1>2, <1>7, <2>1 DEF SweepShard, Swept, TypeOK
    <2>3. ~InMap(r)'
      BY <1>0, <1>2, <1>7 DEF SweepShard, InMap
    <2> QED BY <1>1, <1>2, <1>3, <1>7, <2>2, <2>3
            DEF SweepShard, writeVars, histVars, Touched, Held, Queued, InWrite, GivenUp,
                Stored, Orphaned
  <1>8. ASSUME NEW f \in Flushers, Enqueue(f) PROVE FALSE
    <2>1. PICK b \in NextBatch(f) : queue' = Append(queue, b) /\ rows' = [rows EXCEPT ![f] = rows[f] \ b]
      BY <1>8 DEF Enqueue
    <2>2. b \subseteq rows[f] /\ r \notin UNION b
      BY <1>2 DEF NextBatch, Swept
    <2>3. ~Swept(r)'
      BY <1>2, <2>1 DEF Swept, TypeOK
    <2>4. b \in Batches
      BY RecordSets
    <2>5. Len(queue') = Len(queue) + 1 /\ \A i \in 1 .. Len(queue') :
              queue'[i] = IF i = Len(queue) + 1 THEN b ELSE queue[i]
      BY <2>1, <2>4 DEF TypeOK
    <2>6. \A i \in 1 .. Len(queue') : i = Len(queue) + 1 \/ i \in 1 .. Len(queue)
      BY <2>5 DEF TypeOK
    <2>7. ~Queued(r)'
      BY <1>2, <2>2, <2>5, <2>6 DEF Queued
    <2> QED BY <1>1, <1>2, <1>3, <1>8, <2>3, <2>7
            DEF Enqueue, writeVars, histVars, Touched, Held, InMap, InWrite, GivenUp,
                Stored, Orphaned
  <1>9. ASSUME NEW f \in Flushers, WriteDirectly(f) PROVE FALSE
    <2>1. PICK b \in NextBatch(f) : job' = [job EXCEPT ![f] = b] /\ rows' = [rows EXCEPT ![f] = rows[f] \ b]
      BY <1>9 DEF WriteDirectly
    <2>2. b \subseteq rows[f] /\ r \notin UNION b
      BY <1>2 DEF NextBatch, Swept
    <2>3. ~Swept(r)'
      BY <1>2, <2>1 DEF Swept, TypeOK
    <2>4. ~InWrite(r)'
      BY <1>2, <2>1, <2>2 DEF InWrite, TypeOK
    <2> QED BY <1>1, <1>2, <1>3, <1>9, <2>3, <2>4
            DEF WriteDirectly, histVars, Touched, Held, InMap, Queued, GivenUp, Stored, Orphaned
  <1>10. ASSUME NEW f \in Flushers, FlushGivesUp(f) PROVE FALSE
    <2>1. f \in Procs /\ r \notin UNION job[f] /\ r \notin UNION rows[f]
      BY <1>2 DEF Procs, InWrite, Swept
    <2>2. ~InWrite(r)' /\ ~Swept(r)' /\ ~GivenUp(r)'
      BY <1>2, <1>3, <1>10, <2>1 DEF FlushGivesUp, InWrite, Swept, GivenUp, TypeOK
    <2> QED BY <1>1, <1>2, <1>3, <1>10, <2>2
            DEF FlushGivesUp, Touched, Held, InMap, Queued, Stored, Orphaned
  <1>11. ASSUME NEW p \in Procs, AttemptTimesOut(p) PROVE FALSE
    <2>1. r \notin doubtful'
      BY <1>3, <1>4, <1>11 DEF AttemptTimesOut
    <2>2. Orphaned(r)' = {}
      BY <1>4, <1>5, <1>11 DEF AttemptTimesOut, Orphaned
    <2> QED BY <1>1, <1>2, <1>3, <1>11, <2>1, <2>2
            DEF AttemptTimesOut, Touched, Held, InMap, Swept, Queued, InWrite, GivenUp, Stored
  <1>12. ASSUME NEW p \in Procs, WriteSucceeds(p) PROVE FALSE
    <2>1. ~InWrite(r)'
      BY <1>2, <1>12 DEF WriteSucceeds, InWrite, TypeOK
    <2> QED BY <1>1, <1>2, <1>3, <1>12, <2>1
            DEF WriteSucceeds, histVars, Touched, Held, InMap, Swept, Queued, GivenUp, Stored,
                Orphaned
  <1>13. ASSUME NEW p \in Procs, CallCommits(p) \/ ReplyIsLost(p) PROVE FALSE
    <2>1. ~Stored(r)' /\ r \notin doubtful'
      BY <1>3, <1>4, <1>13 DEF CallCommits, ReplyIsLost, CopiesAfter, Stored, histVars
    <2> QED BY <1>1, <1>2, <1>3, <1>13, <2>1
            DEF CallCommits, ReplyIsLost, histVars, Touched, Held, InMap, Swept, Queued, InWrite,
                GivenUp, Orphaned
  <1>14. ASSUME NEW w \in Writers, Dequeue(w) PROVE FALSE
    <2>1. queue \in Seq(Batches) /\ queue # <<>> /\ queue' = Tail(queue) /\ w \in Procs
          /\ job' = [job EXCEPT ![w] = Head(queue)]
      BY <1>14 DEF Dequeue, TypeOK, Procs
    <2>2. \A i \in 1 .. Len(queue') : i + 1 \in 1 .. Len(queue) /\ queue'[i] = queue[i + 1]
      BY <2>1
    <2>3. 1 \in 1 .. Len(queue) /\ Head(queue) = queue[1]
      BY <2>1
    <2>4. ~Queued(r)'
      BY <1>2, <2>2 DEF Queued
    <2>5. ~InWrite(r)'
      BY <1>2, <2>1, <2>3 DEF Queued, InWrite, TypeOK
    <2> QED BY <1>1, <1>2, <1>3, <1>14, <2>4, <2>5
            DEF Dequeue, histVars, Touched, Held, InMap, Swept, GivenUp, Stored, Orphaned
  <1>15. ASSUME NEW w \in Writers, WriterGivesUp(w) PROVE FALSE
    <2>1. w \in Procs /\ r \notin UNION job[w]
      BY <1>4 DEF Procs
    <2>2. ~InWrite(r)' /\ ~GivenUp(r)'
      BY <1>2, <1>3, <1>15, <2>1 DEF WriterGivesUp, InWrite, GivenUp, TypeOK
    <2> QED BY <1>1, <1>2, <1>3, <1>15, <2>2
            DEF WriterGivesUp, Touched, Held, InMap, Swept, Queued, Stored, Orphaned
  <1>16. CASE OrphanEnds
    <2>1. ~Stored(r)'
      BY <1>3, <1>5, <1>16 DEF OrphanEnds, CopiesAfter, Stored
    <2>2. Orphaned(r)' = {}
      BY <1>5, <1>16 DEF OrphanEnds, Orphaned
    <2> QED BY <1>1, <1>2, <1>3, <1>16, <2>1, <2>2
            DEF OrphanEnds, histVars, Touched, Held, InMap, Swept, Queued, InWrite, GivenUp
  <1>17. \/ \E c \in Clients : AddOne(c)
         \/ \E f \in Flushers : FlushStep(f)
         \/ \E p \in Procs : \/ AttemptTimesOut(p) \/ WriteSucceeds(p)
                             \/ CallCommits(p) \/ ReplyIsLost(p)
         \/ \E w \in Writers : Dequeue(w) \/ WriterGivesUp(w)
         \/ OrphanEnds
         \/ UNCHANGED <<items, rows, queue, job, copies, orphans, histVars>>
    BY DEF Next, ClientStep, RetryStep, DatabaseStep, WriterStep, BeginAdd, CountAdded,
           ScanShard, ReturnBelowThreshold, ReturnAndFlush, EndScan, StartAttempt,
           AttemptErrs, CallFails, WriterExits, TimerFire, TimerExits, Stop, writeVars, histVars,
           vars
  <1>18. ASSUME UNCHANGED <<items, rows, queue, job, copies, orphans, histVars>> PROVE FALSE
    BY <1>1, <1>18 DEF histVars, Touched, Held, InMap, Swept, Queued, InWrite, GivenUp, Stored,
                       Orphaned
  <1> QED BY <1>6, <1>7, <1>8, <1>9, <1>10, <1>11, <1>12, <1>13, <1>14, <1>15, <1>16, <1>17, <1>18
          DEF FlushStep

(* Sweeps, sends, receives and the ends of writes hand a record on: what   *)
(* takes it leaves it nowhere else.                                        *)
LEMMA AloneStep == HandInv /\ [Next]_vars => AloneInv'
  <1> SUFFICES ASSUME HandInv, [Next]_vars, NEW r \in Recs PROVE Alone(r)'
    BY DEF AloneInv
  <1> USE DEF HandInv
  <1>0. KeyOf[r] \in Keys
    BY KeyAssumption
  <1>1. Alone(r)
    BY DEF AloneInv
  <1>2. \A k \in Keys : r \in items[k] => k = KeyOf[r] /\ InMap(r)
    BY DEF KeyInv, InMap
  <1>3. ASSUME UNCHANGED <<items, rows, queue, job, failed, dropped, overwritten>> PROVE Alone(r)'
    BY <1>1, <1>3 DEF Alone, OnePlace, OneFlush, OneBatch, OneWrite, Held, InMap, Swept, Queued,
                      InWrite, GivenUp
  <1>4. ASSUME NEW c \in Clients, AddOne(c) PROVE Alone(r)'
    <2>1. PICK n \in todo[c] : Insert(n) /\ todo' = [todo EXCEPT ![c] = todo[c] \ {n}]
      BY <1>4 DEF AddOne
    <2>2. n \in Recs /\ KeyOf[n] \in Keys
      BY KeyAssumption DEF TypeOK
    <2>3. UNCHANGED <<rows, queue, job, failed, dropped>>
      BY <1>4 DEF AddOne, writeVars
    <2>4. OneFlush(r)' /\ OneBatch(r)' /\ OneWrite(r)'
      BY <1>1, <2>3 DEF Alone, OneFlush, OneBatch, OneWrite
    <2>5. (Swept(r)' <=> Swept(r)) /\ (Queued(r)' <=> Queued(r)) /\ (InWrite(r)' <=> InWrite(r))
      BY <2>3 DEF Swept, Queued, InWrite
    <2>6. CASE n = r
      <3>1. r \notin Inserted
        BY <2>1, <2>6 DEF Inserted
      <3>2. ~Held(r) /\ ~GivenUp(r)
        BY <3>1 DEF TraceInv, Touched
      <3>3. r \notin overwritten'
        BY <1>0, <2>1, <2>6, <3>2 DEF Insert, Held, InMap, GivenUp
      <3> QED BY <2>3, <2>4, <2>5, <3>2, <3>3 DEF Alone, OnePlace, Held, GivenUp
    <2>7. CASE n # r
      <3>1. InMap(r)' => InMap(r)
        BY <1>0, <2>1, <2>2, <2>7 DEF Insert, InMap, TypeOK
      <3>2. r \in overwritten' => r \in overwritten \/ (InMap(r) /\ ~InMap(r)')
        BY <1>0, <1>2, <2>1, <2>2, <2>7 DEF Insert, InMap, TypeOK
      <3> QED BY <1>1, <2>3, <2>4, <2>5, <3>1, <3>2 DEF Alone, OnePlace, Held, GivenUp
    <2> QED BY <2>6, <2>7
  <1>5. ASSUME NEW f \in Flushers, SweepShard(f) PROVE Alone(r)'
    <2>1. UNCHANGED <<queue, job, failed, dropped, overwritten>>
      BY <1>5 DEF SweepShard, writeVars, histVars
    <2>2. (Queued(r)' <=> Queued(r)) /\ (InWrite(r)' <=> InWrite(r)) /\ (GivenUp(r)' <=> GivenUp(r))
      BY <2>1 DEF Queued, InWrite, GivenUp
    <2>3. \A g \in Flushers : rows'[g] = IF g = f THEN rows[f] \cup ShardRows(sweepAt[f]) ELSE rows[g]
      BY <1>5 DEF SweepShard, TypeOK
    <2>4. \A R \in ShardRows(sweepAt[f]) : r \in R =>
              R = items[KeyOf[r]] /\ InMap(r) /\ ShardOf[KeyOf[r]] = sweepAt[f]
      BY <1>2 DEF ShardRows
    <2>5. InMap(r)' => InMap(r) /\ ShardOf[KeyOf[r]] # sweepAt[f]
      BY <1>0, <1>5 DEF SweepShard, InMap
    <2>6. CASE \E R \in ShardRows(sweepAt[f]) : r \in R
      <3>1. InMap(r) /\ ~InMap(r)' /\ ~Swept(r) /\ ~Queued(r) /\ ~InWrite(r) /\ ~GivenUp(r)
        BY <1>1, <2>4, <2>5, <2>6 DEF Alone, OnePlace, Held
      <3>2. OneFlush(r)'
        BY <2>3, <2>4, <3>1 DEF OneFlush, Swept
      <3> QED BY <1>1, <2>1, <2>2, <3>1, <3>2 DEF Alone, OnePlace, OneBatch, OneWrite, Held
    <2>7. CASE \A R \in ShardRows(sweepAt[f]) : r \notin R
      <3>1. \A g \in Flushers : \A R \in rows'[g] : r \in R => R \in rows[g]
        BY <2>3, <2>7
      <3>2. OneFlush(r)' /\ (Swept(r)' => Swept(r))
        BY <1>1, <3>1 DEF Alone, OneFlush, Swept
      <3> QED BY <1>1, <2>1, <2>2, <2>5, <3>2 DEF Alone, OnePlace, OneBatch, OneWrite, Held
    <2> QED BY <2>6, <2>7
  <1>6. ASSUME NEW f \in Flushers, Enqueue(f) PROVE Alone(r)'
    <2>1. PICK b \in NextBatch(f) : queue' = Append(queue, b) /\ rows' = [rows EXCEPT ![f] = rows[f] \ b]
      BY <1>6 DEF Enqueue
    <2>2. b \subseteq rows[f]
      BY DEF NextBatch
    <2>0. b \in Batches
      BY RecordSets
    <2>3. UNCHANGED <<items, job, failed, dropped, overwritten>>
      BY <1>6 DEF Enqueue, writeVars, histVars
    <2>4. (InMap(r)' <=> InMap(r)) /\ (InWrite(r)' <=> InWrite(r)) /\ (GivenUp(r)' <=> GivenUp(r))
      BY <2>3 DEF InMap, InWrite, GivenUp
    <2>5. \A g \in Flushers : rows'[g] = IF g = f THEN rows[f] \ b ELSE rows[g]
      BY <2>1 DEF TypeOK
    <2>6. OneFlush(r)' /\ (Swept(r)' => Swept(r))
      BY <1>1, <2>5 DEF Alone, OneFlush, Swept
    <2>7. Len(queue') = Len(queue) + 1 /\ \A i \in 1 .. Len(queue') :
              queue'[i] = IF i = Len(queue) + 1 THEN b ELSE queue[i]
      BY <2>0, <2>1 DEF TypeOK
    <2>8. \A i \in 1 .. Len(queue') : i = Len(queue) + 1 \/ i \in 1 .. Len(queue)
      BY <2>7 DEF TypeOK
    <2>9. CASE \E R \in b : r \in R
      <3>1. Swept(r) /\ ~Queued(r) /\ ~InMap(r) /\ ~InWrite(r) /\ ~GivenUp(r)
        BY <1>1, <2>2, <2>9 DEF Alone, OnePlace, Held, Swept
      <3>2. ~Swept(r)'
        BY <1>1, <2>2, <2>5, <2>9 DEF Alone, OneFlush, Swept
      <3>3. \A i \in 1 .. Len(queue') : \A R \in queue'[i] :
                r \in R => i = Len(queue) + 1 /\ R \in rows[f]
        BY <2>2, <2>7, <2>8, <3>1 DEF Queued
      <3>4. OneBatch(r)'
        BY <1>1, <3>3 DEF Alone, OneFlush, OneBatch
      <3> QED BY <1>1, <2>3, <2>4, <2>6, <3>1, <3>2, <3>4 DEF Alone, OnePlace, OneWrite, Held
    <2>10. CASE \A R \in b : r \notin R
      <3>1. \A i \in 1 .. Len(queue') : \A R \in queue'[i] :
                r \in R => i \in 1 .. Len(queue) /\ R \in queue[i]
        BY <2>7, <2>8, <2>10
      <3>2. OneBatch(r)' /\ (Queued(r)' => Queued(r))
        BY <1>1, <3>1 DEF Alone, OneBatch, Queued
      <3> QED BY <1>1, <2>3, <2>4, <2>6, <3>2 DEF Alone, OnePlace, OneWrite, Held
    <2> QED BY <2>9, <2>10
  <1>7. ASSUME NEW f \in Flushers, WriteDirectly(f) PROVE Alone(r)'
    <2>1. PICK b \in NextBatch(f) : job' = [job EXCEPT ![f] = b] /\ rows' = [rows EXCEPT ![f] = rows[f] \ b]
      BY <1>7 DEF WriteDirectly
    <2>2. b \subseteq rows[f] /\ f \in Procs
      BY DEF NextBatch, Procs
    <2>3. UNCHANGED <<items, queue, failed, dropped, overwritten>>
      BY <1>7 DEF WriteDirectly, histVars
    <2>4. (InMap(r)' <=> InMap(r)) /\ (Queued(r)' <=> Queued(r)) /\ (GivenUp(r)' <=> GivenUp(r))
      BY <2>3 DEF InMap, Queued, GivenUp
    <2>5. \A g \in Flushers : rows'[g] = IF g = f THEN rows[f] \ b ELSE rows[g]
      BY <2>1 DEF TypeOK
    <2>6. OneFlush(r)' /\ (Swept(r)' => Swept(r))
      BY <1>1, <2>5 DEF Alone, OneFlush, Swept
    <2>7. \A p \in Procs : job'[p] = IF p = f THEN b ELSE job[p]
      BY <2>1 DEF TypeOK
    <2>8. CASE \E R \in b : r \in R
      <3>1. Swept(r) /\ ~Queued(r) /\ ~InMap(r) /\ ~InWrite(r) /\ ~GivenUp(r)
        BY <1>1, <2>2, <2>8 DEF Alone, OnePlace, Held, Swept
      <3>2. ~Swept(r)'
        BY <1>1, <2>2, <2>5, <2>8 DEF Alone, OneFlush, Swept
      <3>3. \A p \in Procs : \A R \in job'[p] : r \in R => p = f /\ R \in rows[f]
        BY <2>2, <2>7, <3>1 DEF InWrite
      <3>4. OneWrite(r)'
        BY <1>1, <3>3 DEF Alone, OneFlush, OneWrite
      <3> QED BY <1>1, <2>3, <2>4, <2>6, <3>1, <3>2, <3>4 DEF Alone, OnePlace, OneBatch, Held
    <2>9. CASE \A R \in b : r \notin R
      <3>1. \A p \in Procs : \A R \in job'[p] : r \in R => R \in job[p]
        BY <2>7, <2>9
      <3>2. OneWrite(r)' /\ (InWrite(r)' => InWrite(r))
        BY <1>1, <3>1 DEF Alone, OneWrite, InWrite
      <3> QED BY <1>1, <2>3, <2>4, <2>6, <3>2 DEF Alone, OnePlace, OneBatch, Held
    <2> QED BY <2>8, <2>9
  <1>8. ASSUME NEW f \in Flushers, FlushGivesUp(f) PROVE Alone(r)'
    <2>1. f \in Procs /\ UNCHANGED <<items, queue, overwritten>>
      BY <1>8 DEF FlushGivesUp, Procs
    <2>2. (\A g \in Flushers : rows'[g] = IF g = f THEN {} ELSE rows[g])
          /\ (\A p \in Procs : job'[p] = IF p = f THEN {} ELSE job[p])
      BY <1>8, <2>1 DEF FlushGivesUp, TypeOK
    <2>3. OneFlush(r)' /\ OneWrite(r)' /\ OneBatch(r)'
      BY <1>1, <2>1, <2>2 DEF Alone, OneFlush, OneWrite, OneBatch
    <2>4. (InMap(r)' <=> InMap(r)) /\ (Queued(r)' <=> Queued(r)) /\ (Swept(r)' => Swept(r))
          /\ (InWrite(r)' => InWrite(r))
      BY <2>1, <2>2 DEF InMap, Queued, Swept, InWrite
    <2>5. r \in UNION rows[f] => Swept(r) /\ ~Swept(r)'
      BY <1>1, <2>2 DEF Alone, OneFlush, Swept
    <2>6. r \in UNION job[f] => InWrite(r) /\ ~InWrite(r)'
      BY <1>1, <2>1, <2>2 DEF Alone, OneWrite, InWrite
    <2>7. GivenUp(r)' => GivenUp(r) \/ r \in UNION rows[f] \/ r \in UNION job[f]
      BY <1>8 DEF FlushGivesUp, GivenUp
    <2> QED BY <1>1, <2>3, <2>4, <2>5, <2>6, <2>7 DEF Alone, OnePlace, Held
  <1>9. ASSUME NEW p \in Procs, WriteSucceeds(p) PROVE Alone(r)'
    <2>1. UNCHANGED <<items, rows, queue, failed, dropped, overwritten>>
      BY <1>9 DEF WriteSucceeds, histVars
    <2>2. \A q \in Procs : job'[q] = IF q = p THEN {} ELSE job[q]
      BY <1>9 DEF WriteSucceeds, TypeOK
    <2>3. OneWrite(r)' /\ (InWrite(r)' => InWrite(r))
      BY <1>1, <2>2 DEF Alone, OneWrite, InWrite
    <2> QED BY <1>1, <2>1, <2>3 DEF Alone, OnePlace, OneFlush, OneBatch, Held, InMap, Swept,
                                    Queued, GivenUp
  <1>10. ASSUME NEW w \in Writers, Dequeue(w) PROVE Alone(r)'
    <2>1. queue \in Seq(Batches) /\ queue # <<>> /\ queue' = Tail(queue) /\ w \in Procs
          /\ job[w] = {} /\ job' = [job EXCEPT ![w] = Head(queue)]
      BY <1>10 DEF Dequeue, TypeOK, Procs
    <2>2. UNCHANGED <<items, rows, failed, dropped, overwritten>>
      BY <1>10 DEF Dequeue, histVars
    <2>3. (InMap(r)' <=> InMap(r)) /\ (Swept(r)' <=> Swept(r)) /\ (GivenUp(r)' <=> GivenUp(r))
      BY <2>2 DEF InMap, Swept, GivenUp
    <2>4. \A i \in 1 .. Len(queue') : i + 1 \in 1 .. Len(queue) /\ queue'[i] = queue[i + 1]
                                      /\ i + 1 # 1
      BY <2>1
    <2>5. 1 \in 1 .. Len(queue) /\ Head(queue) = queue[1]
      BY <2>1
    <2>6. \A p \in Procs : job'[p] = IF p = w THEN queue[1] ELSE job[p]
      BY <2>1, <2>5 DEF TypeOK
    <2>7. OneBatch(r)' /\ (Queued(r)' => Queued(r))
      <3>1. ASSUME NEW i \in 1 .. Len(queue'), NEW j \in 1 .. Len(queue'),
                   NEW R \in queue'[i], NEW S \in queue'[j], r \in R, r \in S
            PROVE  i = j /\ R = S
        <4>1. i + 1 = j + 1 /\ R = S
          BY <1>1, <2>4, <3>1 DEF Alone, OneBatch
        <4> QED BY <4>1
      <3>2. OneBatch(r)'
        BY <3>1 DEF OneBatch
      <3>3. Queued(r)' => Queued(r)
        BY <2>4 DEF Queued
      <3> QED BY <3>2, <3>3
    <2>8. CASE \E R \in queue[1] : r \in R
      <3>1. Queued(r) /\ ~Swept(r) /\ ~InMap(r) /\ ~InWrite(r) /\ ~GivenUp(r)
        BY <1>1, <2>5, <2>8 DEF Alone, OnePlace, Held, Queued
      <3>2. ~Queued(r)'
        BY <1>1, <2>4, <2>5, <2>8 DEF Alone, OneBatch, Queued
      <3>3. \A p \in Procs : \A R \in job'[p] : r \in R => p = w /\ R \in queue[1]
        BY <2>6, <3>1 DEF InWrite
      <3>4. OneWrite(r)'
        BY <1>1, <2>5, <3>3 DEF Alone, OneBatch, OneWrite
      <3> QED BY <1>1, <2>2, <2>3, <2>7, <3>1, <3>2, <3>4 DEF Alone, OnePlace, OneFlush, Held
    <2>9. CASE \A R \in queue[1] : r \notin R
      <3>1. \A p \in Procs : \A R \in job'[p] : r \in R => R \in job[p]
        BY <2>6, <2>9
      <3>2. OneWrite(r)' /\ (InWrite(r)' => InWrite(r))
        BY <1>1, <3>1 DEF Alone, OneWrite, InWrite
      <3> QED BY <1>1, <2>2, <2>3, <2>7, <3>2 DEF Alone, OnePlace, OneFlush, Held
    <2> QED BY <2>8, <2>9
  <1>11. ASSUME NEW w \in Writers, WriterGivesUp(w) PROVE Alone(r)'
    <2>1. w \in Procs /\ UNCHANGED <<items, rows, queue, dropped, overwritten>>
      BY <1>11 DEF WriterGivesUp, Procs
    <2>2. \A p \in Procs : job'[p] = IF p = w THEN {} ELSE job[p]
      BY <1>11, <2>1 DEF WriterGivesUp, TypeOK
    <2>3. OneWrite(r)' /\ (InWrite(r)' => InWrite(r))
      BY <1>1, <2>2 DEF Alone, OneWrite, InWrite
    <2>4. r \in UNION job[w] => InWrite(r) /\ ~InWrite(r)'
      BY <1>1, <2>1, <2>2 DEF Alone, OneWrite, InWrite
    <2>5. GivenUp(r)' => GivenUp(r) \/ r \in UNION job[w]
      BY <1>11 DEF WriterGivesUp, GivenUp
    <2> QED BY <1>1, <2>1, <2>3, <2>4, <2>5 DEF Alone, OnePlace, OneFlush, OneBatch, Held, InMap,
                                                Swept, Queued
  <1>12. \/ \E c \in Clients : AddOne(c)
         \/ \E f \in Flushers : FlushStep(f)
         \/ \E p \in Procs : WriteSucceeds(p)
         \/ \E w \in Writers : Dequeue(w) \/ WriterGivesUp(w)
         \/ UNCHANGED <<items, rows, queue, job, failed, dropped, overwritten>>
    BY DEF Next, ClientStep, RetryStep, DatabaseStep, WriterStep, BeginAdd, CountAdded,
           ScanShard, ReturnBelowThreshold, ReturnAndFlush, EndScan, StartAttempt,
           AttemptTimesOut, AttemptErrs, CallCommits, CallFails, ReplyIsLost, WriterExits,
           OrphanEnds, TimerFire, TimerExits, Stop, writeVars, histVars, vars
  <1> QED BY <1>3, <1>4, <1>5, <1>6, <1>7, <1>8, <1>9, <1>10, <1>11, <1>12 DEF FlushStep

(* HandInv holds in every reachable state.                                 *)
LEMMA HandInvCorrect == Spec => []HandInv
  <1>1. Init => AddInv /\ CallInv /\ MsgInv /\ KeyInv /\ TraceInv /\ AloneInv
    <2> SUFFICES ASSUME Init PROVE AddInv /\ CallInv /\ MsgInv /\ KeyInv /\ TraceInv /\ AloneInv
      OBVIOUS
    <2>1. AddInv /\ CallInv /\ MsgInv /\ KeyInv
      BY DEF Init, AddInv, CallInv, MsgInv, KeyInv
    <2>2. ASSUME NEW r \in Recs PROVE ~Touched(r)
      <3>1. KeyOf[r] \in Keys
        BY KeyAssumption
      <3> QED BY <3>1 DEF Init, Touched, Held, InMap, Swept, Queued, InWrite, GivenUp, Stored,
                          Orphaned
    <2>3. ASSUME NEW r \in Recs PROVE OneFlush(r) /\ OneBatch(r) /\ OneWrite(r)
      BY DEF Init, OneFlush, OneBatch, OneWrite
    <2> QED BY <2>1, <2>2, <2>3 DEF TraceInv, AloneInv, Alone, OnePlace, Touched, Held
  <1>2. HandInv /\ TypeOK' /\ [Next]_vars => HandInv'
    BY AddInvStep, CallInvStep, MsgInvStep, KeyInvStep, TraceStep, AloneStep DEF HandInv
  <1> QED BY <1>1, <1>2, TypeCorrect, PTL DEF Spec, HandInv

(* What SingleCustody calls a place, in the terms of the invariant.        *)
LEMMA PlaceOfRecord ==
    ASSUME HandInv, NEW p \in Places, NEW R \in RowsAt(p), NEW r \in R
    PROVE  /\ r \in Recs
           /\ \/ p = <<"map", KeyOf[r]>> /\ R = items[KeyOf[r]] /\ InMap(r)
              \/ \E f \in Flushers : p = <<"rows", f>> /\ R \in rows[f]
              \/ \E i \in 1 .. Len(queue) : p = <<"queue", i>> /\ R \in queue[i]
              \/ \E w \in Procs : p = <<"job", w>> /\ R \in job[w]
  <1>1. CASE \E k \in Keys : p = <<"map", k>>
    <2>1. PICK k \in Keys : p = <<"map", k>>
      BY <1>1
    <2>2. R = items[k]
      BY <2>1 DEF RowsAt
    <2> QED BY <2>1, <2>2 DEF HandInv, KeyInv, TypeOK, InMap
  <1>2. CASE \E f \in Flushers : p = <<"rows", f>>
    <2>1. PICK f \in Flushers : p = <<"rows", f>>
      BY <1>2
    <2>2. R \in rows[f]
      BY <2>1 DEF RowsAt
    <2>3. r \in Recs
      BY <2>2 DEF HandInv, TypeOK, Batches, Rows
    <2> QED BY <2>1, <2>2, <2>3
  <1>3. CASE \E i \in 1 .. Len(queue) : p = <<"queue", i>>
    <2>1. PICK i \in 1 .. Len(queue) : p = <<"queue", i>>
      BY <1>3
    <2>2. R \in queue[i]
      BY <2>1 DEF RowsAt
    <2>3. r \in Recs
      BY <2>2 DEF HandInv, TypeOK, Batches, Rows
    <2> QED BY <2>1, <2>2, <2>3
  <1>4. CASE \E w \in Procs : p = <<"job", w>>
    <2>1. PICK w \in Procs : p = <<"job", w>>
      BY <1>4
    <2>2. R \in job[w]
      BY <2>1 DEF RowsAt
    <2>3. r \in Recs
      BY <2>2 DEF HandInv, TypeOK, Batches, Rows
    <2> QED BY <2>1, <2>2, <2>3
  <1> QED BY <1>1, <1>2, <1>3, <1>4 DEF Places

(* SingleCustody: sweeps, sends and receives of any number of goroutines   *)
(* never put a record into two hands.                                      *)
THEOREM NobodyShares == Spec => []SingleCustody
  <1>1. HandInv => SingleCustody
    <2> SUFFICES ASSUME HandInv PROVE SingleCustody
      OBVIOUS
    <2>1. ASSUME NEW p \in Places, NEW q \in Places, NEW R \in RowsAt(p), NEW S \in RowsAt(q),
                 NEW r \in R, r \in S
          PROVE  p = q /\ R = S /\ ~GivenUp(r)
      <3>1. r \in Recs
        BY PlaceOfRecord
      <3>2. Alone(r)
        BY <3>1 DEF HandInv, AloneInv
      <3>3. \/ p = <<"map", KeyOf[r]>> /\ R = items[KeyOf[r]] /\ InMap(r)
            \/ \E f \in Flushers : p = <<"rows", f>> /\ R \in rows[f]
            \/ \E i \in 1 .. Len(queue) : p = <<"queue", i>> /\ R \in queue[i]
            \/ \E w \in Procs : p = <<"job", w>> /\ R \in job[w]
        BY PlaceOfRecord
      <3>4. \/ q = <<"map", KeyOf[r]>> /\ S = items[KeyOf[r]] /\ InMap(r)
            \/ \E f \in Flushers : q = <<"rows", f>> /\ S \in rows[f]
            \/ \E i \in 1 .. Len(queue) : q = <<"queue", i>> /\ S \in queue[i]
            \/ \E w \in Procs : q = <<"job", w>> /\ S \in job[w]
        BY <2>1, PlaceOfRecord
      <3>5. /\ \A f \in Flushers : R \in rows[f] \/ S \in rows[f] => Swept(r)
            /\ \A i \in 1 .. Len(queue) : R \in queue[i] \/ S \in queue[i] => Queued(r)
            /\ \A w \in Procs : R \in job[w] \/ S \in job[w] => InWrite(r)
        BY <2>1 DEF Swept, Queued, InWrite
      <3>6. ~GivenUp(r)
        BY <3>2, <3>3, <3>5 DEF Alone, Held
      <3>7. p = q /\ R = S
        <4>1. CASE InMap(r)
          BY <3>2, <3>3, <3>4, <3>5, <4>1 DEF Alone, OnePlace
        <4>2. CASE Swept(r)
          BY <2>1, <3>2, <3>3, <3>4, <3>5, <4>2 DEF Alone, OnePlace, OneFlush
        <4>3. CASE Queued(r)
          BY <2>1, <3>2, <3>3, <3>4, <3>5, <4>3 DEF Alone, OnePlace, OneBatch
        <4>4. CASE InWrite(r)
          BY <2>1, <3>2, <3>3, <3>4, <3>5, <4>4 DEF Alone, OnePlace, OneWrite
        <4> QED BY <3>3, <3>5, <4>1, <4>2, <4>3, <4>4
      <3> QED BY <3>6, <3>7
    <2>2. ASSUME NEW p \in Places, NEW q \in Places, p # q
          PROVE  (UNION RowsAt(p)) \cap (UNION RowsAt(q)) = {}
      <3> SUFFICES ASSUME NEW r, r \in UNION RowsAt(p), r \in UNION RowsAt(q) PROVE FALSE
        OBVIOUS
      <3>1. PICK R \in RowsAt(p) : r \in R
        OBVIOUS
      <3>2. PICK S \in RowsAt(q) : r \in S
        OBVIOUS
      <3> QED BY <2>1, <2>2, <3>1, <3>2
    <2>3. ASSUME NEW p \in Places, NEW R \in RowsAt(p), NEW S \in RowsAt(p), R # S
          PROVE  R \cap S = {}
      BY <2>1, <2>3
    <2>4. ASSUME NEW p \in Places
          PROVE  (UNION RowsAt(p)) \cap (failed \cup dropped \cup overwritten) = {}
      <3> SUFFICES ASSUME NEW r, r \in UNION RowsAt(p) PROVE ~GivenUp(r)
        BY DEF GivenUp
      <3>1. PICK R \in RowsAt(p) : r \in R
        OBVIOUS
      <3> QED BY <2>1, <3>1
    <2> QED BY <2>2, <2>3, <2>4 DEF SingleCustody
  <1> QED BY <1>1, HandInvCorrect, PTL

-----------------------------------------------------------------------------
(* How often a record is stored.  Each copy of it, each attempt at it that *)
(* nobody waits for any more, and the one that its caller waits for is an  *)
(* attempt that the retry loop of the caller has counted.                  *)

Load(r) == copies[r] + Cardinality(Orphaned(r))
Running(p) == IF call[p] = "running" THEN 1 ELSE 0

LoadOK(r) ==
    /\ Load(r) <= RetryAttempts
    /\ InMap(r) \/ Swept(r) \/ Queued(r) => Load(r) = 0
    /\ \A p \in Procs : r \in UNION job[p] => Load(r) + Running(p) <= tries[p]

LoadInv == IsFiniteSet(orphans) /\ \A r \in Recs : LoadOK(r)

(* A fresh record has been stored by nobody.                               *)
LEMMA FreshLoad ==
    ASSUME HandInv, NEW r \in Recs, r \notin Inserted PROVE Load(r) = 0
  <1>1. copies[r] = 0 /\ Orphaned(r) = {}
    BY DEF HandInv, TypeOK, TraceInv, Touched, Stored
  <1> QED BY <1>1, FS_EmptySet DEF Load

\* A call that can commit more is accounted for in the attempts of its write.
LEMMA LoadStep == HandInv /\ LoadInv /\ [Next]_vars => LoadInv'
  <1> SUFFICES ASSUME HandInv, LoadInv, [Next]_vars PROVE LoadInv'
    OBVIOUS
  <1> USE DEF HandInv
  <1>1. IsFiniteSet(orphans')
    <2>1. \/ orphans' \subseteq orphans
          \/ \E o : orphans' = orphans \cup {o}
      BY DEF Next, ClientStep, FlushStep, RetryStep, DatabaseStep, WriterStep, BeginAdd, AddOne,
             CountAdded, ScanShard, ReturnBelowThreshold, ReturnAndFlush, EndScan, SweepShard,
             Enqueue, WriteDirectly, FlushGivesUp, StartAttempt, AttemptTimesOut, AttemptErrs,
             WriteSucceeds, CallCommits, CallFails, ReplyIsLost, Dequeue, WriterGivesUp,
             WriterExits, OrphanEnds, TimerFire, TimerExits, Stop, writeVars, vars
    <2> QED BY <2>1, FS_Subset, FS_AddElement DEF LoadInv
  <1> SUFFICES ASSUME NEW r \in Recs PROVE LoadOK(r)'
    BY <1>1 DEF LoadInv
  <1>0. KeyOf[r] \in Keys
    BY KeyAssumption
  <1>2. IsFiniteSet(Orphaned(r)) /\ Cardinality(Orphaned(r)) \in Nat /\ copies[r] \in Nat
    <2>1. Orphaned(r) \subseteq orphans
      BY DEF Orphaned
    <2> QED BY <2>1, FS_Subset, FS_CardinalityType DEF LoadInv, TypeOK
  <1>3. Load(r) \in Nat /\ LoadOK(r) /\ Alone(r)
    BY <1>2 DEF Load, LoadInv, AloneInv
  <1>4. \A p \in Procs : tries[p] \in 0 .. RetryAttempts /\ RetryAttempts \in Nat
    BY BoundAssumption DEF TypeOK
  <1>5. UNCHANGED <<copies, orphans>> => Load(r)' = Load(r)
    BY DEF Load, Orphaned
  <1>6. ASSUME UNCHANGED <<items, rows, queue, job, tries, copies, orphans>>,
               \A p \in Procs : Running(p)' <= Running(p)
        PROVE  LoadOK(r)'
    <2>1. Load(r)' = Load(r) /\ \A p \in Procs : Running(p) \in {0, 1} /\ Running(p)' \in {0, 1}
      BY <1>5, <1>6 DEF Running
    <2> QED BY <1>3, <1>4, <1>6, <2>1 DEF LoadOK, InMap, Swept, Queued
  <1>7. ASSUME NEW c \in Clients, AddOne(c) PROVE LoadOK(r)'
    <2>1. PICK n \in todo[c] : Insert(n)
      BY <1>7 DEF AddOne
    <2>2. UNCHANGED <<rows, queue, job, tries, call, copies, orphans>> /\ Load(r)' = Load(r)
      BY <1>5, <1>7 DEF AddOne, writeVars
    <2>3. InMap(r)' => InMap(r) \/ Load(r) = 0
      <3>1. CASE n = r
        BY <2>1, <3>1, FreshLoad DEF Inserted
      <3>2. CASE n # r
        BY <1>0, <2>1, <3>2 DEF Insert, InMap, TypeOK
      <3> QED BY <3>1, <3>2
    <2> QED BY <1>3, <2>2, <2>3 DEF LoadOK, Swept, Queued, Running
  <1>8. ASSUME NEW f \in Flushers, SweepShard(f) PROVE LoadOK(r)'
    <2>1. UNCHANGED <<queue, job, tries, call, copies, orphans>> /\ Load(r)' = Load(r)
      BY <1>5, <1>8 DEF SweepShard, writeVars
    <2>2. InMap(r)' => InMap(r)
      BY <1>0, <1>8 DEF SweepShard, InMap
    <2>3. \A R \in ShardRows(sweepAt[f]) : r \in R => InMap(r)
      BY DEF ShardRows, KeyInv, InMap
    <2>4. Swept(r)' => Swept(r) \/ InMap(r)
      BY <1>8, <2>3 DEF SweepShard, Swept, TypeOK
    <2> QED BY <1>3, <2>1, <2>2, <2>4 DEF LoadOK, Queued, Running
  <1>9. ASSUME NEW f \in Flushers, Enqueue(f) PROVE LoadOK(r)'
    <2>1. PICK b \in NextBatch(f) : queue' = Append(queue, b) /\ rows' = [rows EXCEPT ![f] = rows[f] \ b]
      BY <1>9 DEF Enqueue
    <2>2. UNCHANGED <<items, job, tries, call, copies, orphans>> /\ Load(r)' = Load(r)
      BY <1>5, <1>9 DEF Enqueue, writeVars
    <2>3. b \subseteq rows[f]
      BY DEF NextBatch
    <2>4. b \in Batches
      BY RecordSets
    <2>5. Len(queue') = Len(queue) + 1 /\ \A i \in 1 .. Len(queue') :
              queue'[i] = IF i = Len(queue) + 1 THEN b ELSE queue[i]
      BY <2>1, <2>4 DEF TypeOK
    <2>6. \A i \in 1 .. Len(queue') : i = Len(queue) + 1 \/ i \in 1 .. Len(queue)
      BY <2>5 DEF TypeOK
    <2>7. (Queued(r)' => Queued(r) \/ Swept(r)) /\ (Swept(r)' => Swept(r))
      BY <2>1, <2>3, <2>5, <2>6 DEF Queued, Swept, TypeOK
    <2> QED BY <1>3, <2>2, <2>7 DEF LoadOK, InMap, Running
  <1>10. ASSUME NEW f \in Flushers, WriteDirectly(f) PROVE LoadOK(r)'
    <2>1. PICK b \in NextBatch(f) : job' = [job EXCEPT ![f] = b] /\ rows' = [rows EXCEPT ![f] = rows[f] \ b]
      BY <1>10 DEF WriteDirectly
    <2>2. UNCHANGED <<items, queue, call, copies, orphans>> /\ Load(r)' = Load(r)
      BY <1>5, <1>10 DEF WriteDirectly
    <2>3. b \subseteq rows[f] /\ f \in Procs /\ job[f] = {}
      BY <1>10 DEF WriteDirectly, ReadyToSend, NextBatch, Procs
    <2>4. call[f] = "none" /\ tries' = [tries EXCEPT ![f] = 0]
      BY <1>10, <2>3 DEF WriteDirectly, CallInv
    <2>5. Swept(r)' => Swept(r)
      BY <2>1 DEF Swept, TypeOK
    <2>6. r \in UNION b => Load(r) = 0
      BY <1>3, <2>3 DEF LoadOK, Swept
    <2>7. ASSUME NEW p \in Procs, r \in UNION job'[p] PROVE Load(r)' + Running(p)' <= tries'[p]
      <3>1. CASE p = f
        <4>1. r \in UNION b /\ Running(p)' = 0 /\ tries'[p] = 0
          BY <2>1, <2>2, <2>3, <2>4, <2>7, <3>1 DEF Running, TypeOK
        <4> QED BY <2>2, <2>6, <4>1
      <3>2. CASE p # f
        <4>1. r \in UNION job[p] /\ Running(p)' = Running(p) /\ tries'[p] = tries[p]
          BY <2>1, <2>2, <2>4, <2>7, <3>2 DEF Running, TypeOK
        <4> QED BY <1>3, <2>2, <4>1 DEF LoadOK
      <3> QED BY <3>1, <3>2
    <2> QED BY <1>3, <2>2, <2>5, <2>7 DEF LoadOK, InMap, Queued
  <1>11. ASSUME NEW p \in Procs, UNCHANGED <<items, queue, call, copies, orphans>>,
                job' = [job EXCEPT ![p] = {}], tries' = [tries EXCEPT ![p] = 0],
                Swept(r)' => Swept(r)
         PROVE  LoadOK(r)'
    <2>1. Load(r)' = Load(r)
      BY <1>5, <1>11
    <2>2. \A q \in Procs : r \in UNION job'[q] =>
              r \in UNION job[q] /\ tries'[q] = tries[q] /\ Running(q)' = Running(q)
      BY <1>11 DEF Running, TypeOK
    <2> QED BY <1>3, <1>11, <2>1, <2>2 DEF LoadOK, InMap, Queued
  <1>12. ASSUME NEW f \in Flushers, FlushGivesUp(f) PROVE LoadOK(r)'
    <2>1. f \in Procs /\ (Swept(r)' => Swept(r))
      BY <1>12 DEF FlushGivesUp, Procs, Swept, TypeOK
    <2> QED BY <1>11, <1>12, <2>1 DEF FlushGivesUp
  <1>13. ASSUME NEW w \in Writers, WriterGivesUp(w) PROVE LoadOK(r)'
    <2>1. w \in Procs /\ (Swept(r)' => Swept(r))
      BY <1>13 DEF WriterGivesUp, Procs, Swept
    <2> QED BY <1>11, <1>13, <2>1 DEF WriterGivesUp
  <1>14. ASSUME NEW p \in Procs, WriteSucceeds(p) PROVE LoadOK(r)'
    <2>1. UNCHANGED <<items, rows, queue, copies, orphans>> /\ Load(r)' = Load(r)
      BY <1>5, <1>14 DEF WriteSucceeds
    <2>2. \A q \in Procs : r \in UNION job'[q] =>
              r \in UNION job[q] /\ tries'[q] = tries[q] /\ Running(q)' = Running(q)
      BY <1>14 DEF WriteSucceeds, Running, TypeOK
    <2> QED BY <1>3, <2>1, <2>2 DEF LoadOK, InMap, Swept, Queued
  <1>15. ASSUME NEW w \in Writers, Dequeue(w) PROVE LoadOK(r)'
    <2>1. queue \in Seq(Batches) /\ queue # <<>> /\ queue' = Tail(queue) /\ w \in Procs
          /\ job' = [job EXCEPT ![w] = Head(queue)] /\ tries' = [tries EXCEPT ![w] = 0]
      BY <1>15 DEF Dequeue, TypeOK, Procs
    <2>2. UNCHANGED <<items, rows, call, copies, orphans>> /\ Load(r)' = Load(r)
      BY <1>5, <1>15 DEF Dequeue
    <2>3. call[w] = "none"
      BY <1>15, <2>1 DEF Dequeue, CallInv
    <2>4. \A i \in 1 .. Len(queue') : i + 1 \in 1 .. Len(queue) /\ queue'[i] = queue[i + 1]
      BY <2>1
    <2>5. Queued(r)' => Queued(r)
      BY <2>4 DEF Queued
    <2>6. 1 \in 1 .. Len(queue) /\ Head(queue) = queue[1]
      BY <2>1
    <2>7. ASSUME NEW p \in Procs, r \in UNION job'[p] PROVE Load(r)' + Running(p)' <= tries'[p]
      <3>1. CASE p = w
        <4>1. r \in UNION queue[1] /\ Running(p)' = 0 /\ tries'[p] = 0
          BY <2>1, <2>2, <2>3, <2>6, <2>7, <3>1 DEF Running, TypeOK
        <4>2. Queued(r)
          BY <2>6, <4>1 DEF Queued
        <4> QED BY <1>3, <2>2, <4>1, <4>2 DEF LoadOK
      <3>2. CASE p # w
        <4>1. r \in UNION job[p] /\ Running(p)' = Running(p) /\ tries'[p] = tries[p]
          BY <2>1, <2>2, <2>7, <3>2 DEF Running, TypeOK
        <4> QED BY <1>3, <2>2, <4>1 DEF LoadOK
      <3> QED BY <3>1, <3>2
    <2> QED BY <1>3, <2>2, <2>5, <2>7 DEF LoadOK, InMap, Swept
  <1>16. ASSUME NEW p \in Procs, StartAttempt(p) PROVE LoadOK(r)'
    <2>1. UNCHANGED <<items, rows, queue, job, copies, orphans>> /\ Load(r)' = Load(r)
      BY <1>5, <1>16 DEF StartAttempt
    <2>2. \A q \in Procs : IF q = p THEN /\ Running(q)' = Running(q) + 1
                                         /\ tries'[q] = tries[q] + 1
                                    ELSE Running(q)' = Running(q) /\ tries'[q] = tries[q]
      BY <1>16 DEF StartAttempt, Running, TypeOK
    <2>3. \A q \in Procs : Running(q) \in Nat
      BY DEF Running
    <2> QED BY <1>3, <1>4, <2>1, <2>2, <2>3 DEF LoadOK, InMap, Swept, Queued
  <1>17. ASSUME NEW p \in Procs, AttemptErrs(p) \/ CallFails(p) PROVE LoadOK(r)'
    <2>1. \A q \in Procs : Running(q)' <= Running(q)
      BY <1>17 DEF AttemptErrs, CallFails, Running, TypeOK
    <2> QED BY <1>6, <1>17, <2>1 DEF AttemptErrs, CallFails
  <1>18. ASSUME NEW p \in Procs, CallCommits(p) \/ ReplyIsLost(p) PROVE LoadOK(r)'
    <2>1. UNCHANGED <<items, rows, queue, job, tries, orphans>> /\ call[p] = "running"
      BY <1>18 DEF CallCommits, ReplyIsLost
    <2>2. Orphaned(r)' = Orphaned(r)
      BY <2>1 DEF Orphaned
    <2>3. \A q \in Procs : Running(q)' = IF q = p THEN 0 ELSE Running(q)
      BY <1>18 DEF CallCommits, ReplyIsLost, Running, TypeOK
    <2>4. copies'[r] = IF r \in UNION job[p] THEN copies[r] + 1 ELSE copies[r]
      BY <1>18 DEF CallCommits, ReplyIsLost, CopiesAfter
    <2>5. CASE r \notin UNION job[p]
      <3>1. Load(r)' = Load(r)
        BY <2>2, <2>4, <2>5 DEF Load
      <3> QED BY <1>3, <2>1, <2>3, <2>5, <3>1 DEF LoadOK, InMap, Swept, Queued
    <2>6. CASE r \in UNION job[p]
      <3>1. Load(r)' = Load(r) + 1
        BY <1>2, <2>2, <2>4, <2>6 DEF Load
      <3>2. InWrite(r) /\ ~InMap(r) /\ ~Swept(r) /\ ~Queued(r)
        BY <1>3, <2>6 DEF Alone, OnePlace, InWrite
      <3>3. \A q \in Procs : r \in UNION job[q] => q = p
        BY <1>3, <2>6 DEF Alone, OneWrite
      <3>4. Load(r) + 1 <= tries[p]
        BY <1>3, <2>1, <2>6 DEF LoadOK, Running
      <3> QED BY <1>3, <1>4, <2>1, <2>3, <3>1, <3>2, <3>3, <3>4 DEF LoadOK, InMap, Swept, Queued
    <2> QED BY <2>5, <2>6
  <1>19. ASSUME NEW p \in Procs, AttemptTimesOut(p) PROVE LoadOK(r)'
    <2>1. UNCHANGED <<items, rows, queue, job, tries, copies>>
      BY <1>19 DEF AttemptTimesOut
    <2>2. \A q \in Procs : Running(q)' = IF q = p THEN 0 ELSE Running(q)
      BY <1>19 DEF AttemptTimesOut, Running, TypeOK
    <2>3. CASE call[p] = "running" /\ r \in UNION job[p]
      <3>1. Orphaned(r)' = Orphaned(r) \cup {[batch |-> job[p], attempt |-> tries[p]]}
        BY <1>19, <2>3 DEF AttemptTimesOut, Orphaned
      <3>2. Cardinality(Orphaned(r)') \in Nat /\ Cardinality(Orphaned(r)') <= Cardinality(Orphaned(r)) + 1
        <4> DEFINE o == [batch |-> job[p], attempt |-> tries[p]]
        <4>1. Cardinality(Orphaned(r) \cup {o}) =
                  IF o \in Orphaned(r) THEN Cardinality(Orphaned(r)) ELSE Cardinality(Orphaned(r)) + 1
          BY <1>2, FS_AddElement
        <4> HIDE DEF o
        <4> QED BY <1>2, <3>1, <4>1 DEF o
      <3>3. Load(r)' \in Nat /\ Load(r)' <= Load(r) + 1
        BY <1>2, <2>1, <3>2 DEF Load
      <3>4. InWrite(r) /\ ~InMap(r) /\ ~Swept(r) /\ ~Queued(r)
        BY <1>3, <2>3 DEF Alone, OnePlace, InWrite
      <3>5. \A q \in Procs : r \in UNION job[q] => q = p
        BY <1>3, <2>3 DEF Alone, OneWrite
      <3>6. Load(r) + 1 <= tries[p]
        BY <1>3, <2>3 DEF LoadOK, Running
      <3> QED BY <1>3, <1>4, <2>1, <2>2, <3>3, <3>4, <3>5, <3>6 DEF LoadOK, InMap, Swept, Queued
    <2>4. CASE ~(call[p] = "running" /\ r \in UNION job[p])
      <3>1. Orphaned(r)' = Orphaned(r)
        BY <1>19, <2>4 DEF AttemptTimesOut, Orphaned
      <3>2. Load(r)' = Load(r)
        BY <2>1, <3>1 DEF Load
      <3>3. \A q \in Procs : Running(q) \in {0, 1} /\ Running(q)' <= Running(q) /\ Running(q)' \in {0, 1}
        BY <2>2 DEF Running
      <3> QED BY <1>3, <1>4, <2>1, <3>2, <3>3 DEF LoadOK, InMap, Swept, Queued
    <2> QED BY <2>3, <2>4
  <1>20. CASE OrphanEnds
    <2>1. PICK o \in orphans : orphans' = orphans \ {o} /\ copies' \in {copies, CopiesAfter(o.batch)}
      BY <1>20 DEF OrphanEnds
    <2>2. UNCHANGED <<items, rows, queue, job, tries, call>>
      BY <1>20 DEF OrphanEnds
    <2>3. Orphaned(r)' = Orphaned(r) \ {o}
      BY <2>1 DEF Orphaned
    <2>4. copies'[r] = copies[r] \/ (copies'[r] = copies[r] + 1 /\ o \in Orphaned(r))
      BY <2>1 DEF CopiesAfter, Orphaned
    <2>5. Cardinality(Orphaned(r)') = IF o \in Orphaned(r) THEN Cardinality(Orphaned(r)) - 1
                                                           ELSE Cardinality(Orphaned(r))
      BY <1>2, <2>3, FS_RemoveElement
    <2>6. Cardinality(Orphaned(r)') \in Nat
      BY <1>2, <2>3, FS_RemoveElement, FS_CardinalityType
    <2>7. Load(r)' \in Nat /\ Load(r)' <= Load(r)
      BY <1>2, <2>4, <2>5, <2>6 DEF Load
    <2>8. \A q \in Procs : Running(q)' = Running(q) /\ Running(q) \in {0, 1}
      BY <2>2 DEF Running
    <2>9. Load(r)' <= RetryAttempts /\ (InMap(r)' \/ Swept(r)' \/ Queued(r)' => Load(r)' = 0)
      <3>1. RetryAttempts \in Nat
        BY BoundAssumption
      <3>2. Load(r) <= RetryAttempts /\ (InMap(r) \/ Swept(r) \/ Queued(r) => Load(r) = 0)
        BY <1>3 DEF LoadOK
      <3>3. InMap(r)' = InMap(r) /\ Swept(r)' = Swept(r) /\ Queued(r)' = Queued(r)
        BY <2>2 DEF InMap, Swept, Queued
      <3> QED BY <1>3, <2>7, <3>1, <3>2, <3>3
    <2>10. ASSUME NEW q \in Procs, r \in UNION job'[q] PROVE Load(r)' + Running(q)' <= tries'[q]
      <3>1. Load(r) + Running(q) <= tries[q]
        BY <1>3, <2>2, <2>10 DEF LoadOK
      <3> QED BY <1>3, <1>4, <2>2, <2>7, <2>8, <3>1
    <2> QED BY <2>9, <2>10 DEF LoadOK
  <1>21. \/ \E c \in Clients : AddOne(c)
         \/ \E f \in Flushers : FlushStep(f)
         \/ \E p \in Procs : RetryStep(p) \/ DatabaseStep(p)
         \/ \E w \in Writers : Dequeue(w) \/ WriterGivesUp(w)
         \/ OrphanEnds
         \/ UNCHANGED <<items, rows, queue, job, tries, call, copies, orphans>>
    BY DEF Next, ClientStep, WriterStep, BeginAdd, CountAdded, ScanShard, ReturnBelowThreshold,
           ReturnAndFlush, EndScan, WriterExits, TimerFire, TimerExits, Stop, writeVars, vars
  <1>22. ASSUME UNCHANGED <<items, rows, queue, job, tries, call, copies, orphans>>
         PROVE  LoadOK(r)'
    <2>1. \A q \in Procs : Running(q)' <= Running(q)
      BY <1>22 DEF Running
    <2> QED BY <1>6, <1>22, <2>1
  <1> QED BY <1>7, <1>8, <1>9, <1>10, <1>12, <1>13, <1>14, <1>15, <1>16, <1>17, <1>18, <1>19,
             <1>20, <1>21, <1>22
          DEF FlushStep, RetryStep, DatabaseStep

(* Attempts at a record are paid for by the retry loop that holds it.      *)
LEMMA LoadInvCorrect == Spec => []LoadInv
  <1>1. Init => LoadInv
    <2> SUFFICES ASSUME Init PROVE LoadInv
      OBVIOUS
    <2>0. IsFiniteSet({}) /\ Cardinality({}) = 0
      BY FS_EmptySet
    <2>1. orphans = {} /\ IsFiniteSet(orphans)
      BY <2>0 DEF Init
    <2>2. ASSUME NEW r \in Recs PROVE Load(r) = 0
      <3>1. Orphaned(r) = {} /\ copies[r] = 0
        BY <2>1 DEF Orphaned, Init
      <3> QED BY <2>0, <3>1 DEF Load
    <2>3. \A r \in Recs : LoadOK(r)
      <3>1. RetryAttempts >= 0
        BY BoundAssumption
      <3>2. \A r \in Recs, p \in Procs : r \notin UNION job[p]
        BY DEF Init
      <3> QED BY <2>2, <3>1, <3>2 DEF LoadOK
    <2> QED BY <2>1, <2>3 DEF LoadInv
  <1>2. HandInv /\ LoadInv /\ [Next]_vars => LoadInv'
    BY LoadStep
  <1> QED BY <1>1, <1>2, HandInvCorrect, PTL DEF Spec

(* CopiesBounded: late commits of timed-out attempts included, a record is *)
(* stored at most as often as writeWithRetry may try.                      *)
THEOREM StoredWithinAttempts == Spec => []CopiesBounded
  <1>1. HandInv /\ LoadInv => CopiesBounded
    <2> SUFFICES ASSUME HandInv, LoadInv, NEW r \in Recs PROVE copies[r] <= RetryAttempts
      BY DEF CopiesBounded
    <2>1. Orphaned(r) \subseteq orphans
      BY DEF Orphaned
    <2>2. Cardinality(Orphaned(r)) \in Nat
      BY <2>1, FS_Subset, FS_CardinalityType DEF LoadInv
    <2> QED BY <2>2, BoundAssumption DEF LoadInv, LoadOK, Load, HandInv, TypeOK
  <1> QED BY <1>1, HandInvCorrect, LoadInvCorrect, PTL


-----------------------------------------------------------------------------
(* Duplicates.  NoDuplicateWithoutDoubt is not inductive either: a record  *)
(* of which every outcome is known is stored at most once because a second *)
(* attempt at it starts only after the first one has failed, so that its   *)
(* copies follow the state of the call that its only holder waits for.     *)

DoubtOK(r) ==
    r \notin doubtful =>
        /\ copies[r] <= 1
        /\ Orphaned(r) = {}
        /\ \A p \in Procs : r \in UNION job[p] => copies[r] = IF call[p] = "ok" THEN 1 ELSE 0

DoubtInv == \A r \in Recs : DoubtOK(r)

(* What has not reached a writer is not in the table.                      *)
LEMMA NotYetStored ==
    ASSUME HandInv, LoadInv, NEW r \in Recs, InMap(r) \/ Swept(r) \/ Queued(r)
    PROVE  copies[r] = 0
  <1>1. Load(r) = 0
    BY DEF LoadInv, LoadOK
  <1>2. Orphaned(r) \subseteq orphans
    BY DEF Orphaned
  <1>3. Cardinality(Orphaned(r)) \in Nat /\ copies[r] \in Nat
    BY <1>2, FS_Subset, FS_CardinalityType DEF LoadInv, HandInv, TypeOK
  <1> QED BY <1>1, <1>3 DEF Load

\* A second copy needs an attempt whose outcome its retry loop did not learn.
LEMMA DoubtStep == HandInv /\ LoadInv /\ DoubtInv /\ [Next]_vars => DoubtInv'
  <1> SUFFICES ASSUME HandInv, LoadInv, DoubtInv, [Next]_vars, NEW r \in Recs, r \notin doubtful'
               PROVE  /\ copies'[r] <= 1
                      /\ Orphaned(r)' = {}
                      /\ \A p \in Procs : r \in UNION job'[p] =>
                             copies'[r] = IF call'[p] = "ok" THEN 1 ELSE 0
    BY DEF DoubtInv, DoubtOK
  <1> DEFINE Sure(p) == r \in UNION job[p] => copies[r] = IF call[p] = "ok" THEN 1 ELSE 0
             Goal == copies'[r] <= 1 /\ Orphaned(r)' = {} /\ \A p \in Procs : Sure(p)'
  <1> USE DEF HandInv
  <1>1. doubtful \subseteq doubtful'
    BY DEF Next, ClientStep, FlushStep, RetryStep, DatabaseStep, WriterStep, BeginAdd, AddOne,
           CountAdded, ScanShard, ReturnBelowThreshold, ReturnAndFlush, EndScan, SweepShard,
           Enqueue, WriteDirectly, FlushGivesUp, StartAttempt, AttemptTimesOut, AttemptErrs,
           WriteSucceeds, CallCommits, CallFails, ReplyIsLost, Dequeue, WriterGivesUp,
           WriterExits, OrphanEnds, TimerFire, TimerExits, Stop, histVars, vars
  <1>2. copies[r] <= 1 /\ Orphaned(r) = {} /\ \A p \in Procs : Sure(p)
    BY <1>1 DEF DoubtInv, DoubtOK
  <1>3. Alone(r)
    BY DEF AloneInv
  <1>4. UNCHANGED <<copies, orphans>> => copies'[r] <= 1 /\ Orphaned(r)' = {}
    BY <1>2 DEF Orphaned
  <1>5. ASSUME UNCHANGED <<job, copies, orphans>>,
               \A p \in Procs : call'[p] = "ok" <=> call[p] = "ok"
        PROVE  Goal
    BY <1>2, <1>4, <1>5
  <1>6. ASSUME NEW p \in Procs, UNCHANGED <<copies, orphans>>,
               \A q \in Procs : q # p => job'[q] = job[q] /\ call'[q] = call[q],
               Sure(p)'
        PROVE  Goal
    <2>1. \A q \in Procs : q # p => Sure(q)'
      BY <1>2, <1>6
    <2> QED BY <1>4, <1>6, <2>1
  <1>7. ASSUME NEW f \in Flushers, WriteDirectly(f) PROVE Goal
    <2>1. PICK b \in NextBatch(f) : job' = [job EXCEPT ![f] = b]
      BY <1>7 DEF WriteDirectly
    <2>2. b \subseteq rows[f] /\ f \in Procs /\ call[f] = "none"
      BY <1>7 DEF WriteDirectly, ReadyToSend, NextBatch, Procs, CallInv
    <2>3. UNCHANGED <<call, copies, orphans>> /\ \A q \in Procs : job'[q] = IF q = f THEN b ELSE job[q]
      BY <1>7, <2>1 DEF WriteDirectly, TypeOK
    <2>4. r \in UNION b => copies[r] = 0
      BY <2>2, NotYetStored DEF Swept
    <2> QED BY <1>6, <2>2, <2>3, <2>4
  <1>8. ASSUME NEW w \in Writers, Dequeue(w) PROVE Goal
    <2>1. queue \in Seq(Batches) /\ queue # <<>> /\ w \in Procs /\ call[w] = "none"
      BY <1>8 DEF Dequeue, TypeOK, Procs, CallInv
    <2>2. 1 \in 1 .. Len(queue) /\ Head(queue) = queue[1]
      BY <2>1
    <2>3. UNCHANGED <<call, copies, orphans>>
          /\ \A q \in Procs : job'[q] = IF q = w THEN queue[1] ELSE job[q]
      BY <1>8, <2>2 DEF Dequeue, TypeOK
    <2>4. r \in UNION queue[1] => copies[r] = 0
      BY <2>2, NotYetStored DEF Queued
    <2> QED BY <1>6, <2>1, <2>3, <2>4
  <1>9. ASSUME NEW p \in Procs, UNCHANGED <<copies, orphans>>, job' = [job EXCEPT ![p] = {}],
               \A q \in Procs : q # p => call'[q] = call[q]
        PROVE  Goal
    <2>1. job'[p] = {} /\ \A q \in Procs : q # p => job'[q] = job[q]
      BY <1>9 DEF TypeOK
    <2> QED BY <1>6, <1>9, <2>1
  <1>10. ASSUME NEW p \in Procs,
                WriteSucceeds(p) \/ (p \in Writers /\ WriterGivesUp(p)) \/ (p \in Flushers /\ FlushGivesUp(p))
         PROVE  Goal
    <2>1. \A q \in Procs : q # p => call'[q] = call[q]
      BY <1>10 DEF WriteSucceeds, WriterGivesUp, FlushGivesUp, TypeOK
    <2> QED BY <1>9, <1>10, <2>1 DEF WriteSucceeds, WriterGivesUp, FlushGivesUp
  <1>11. ASSUME NEW p \in Procs, StartAttempt(p) \/ AttemptErrs(p) \/ CallFails(p) PROVE Goal
    <2>1. \A q \in Procs : call'[q] = "ok" <=> call[q] = "ok"
      BY <1>11 DEF StartAttempt, AttemptErrs, CallFails, TypeOK
    <2> QED BY <1>5, <1>11, <2>1 DEF StartAttempt, AttemptErrs, CallFails
  <1>12. ASSUME NEW p \in Procs, CallCommits(p) PROVE Goal
    <2>1. UNCHANGED <<job, orphans>> /\ Orphaned(r)' = {} /\ call[p] = "running"
      BY <1>2, <1>12 DEF CallCommits, Orphaned
    <2>2. copies'[r] = IF r \in UNION job[p] THEN copies[r] + 1 ELSE copies[r]
      BY <1>12 DEF CallCommits, CopiesAfter
    <2>3. \A q \in Procs : call'[q] = IF q = p THEN "ok" ELSE call[q]
      BY <1>12 DEF CallCommits, TypeOK
    <2>4. CASE r \in UNION job[p]
      <3>1. copies[r] = 0 /\ copies'[r] = 1
        BY <1>2, <2>1, <2>2, <2>4
      <3>2. \A q \in Procs : r \in UNION job[q] => q = p
        BY <1>3, <2>4 DEF Alone, OneWrite
      <3> QED BY <2>1, <2>3, <3>1, <3>2
    <2>5. CASE r \notin UNION job[p]
      BY <1>2, <2>1, <2>2, <2>3, <2>5
    <2> QED BY <2>4, <2>5
  <1>13. ASSUME NEW p \in Procs, ReplyIsLost(p) PROVE Goal
    <2>1. r \notin UNION job[p] /\ UNCHANGED <<job, orphans>> /\ Orphaned(r)' = {}
      BY <1>2, <1>13 DEF ReplyIsLost, Orphaned
    <2>2. copies'[r] = copies[r]
      BY <1>13, <2>1 DEF ReplyIsLost, CopiesAfter
    <2>3. \A q \in Procs : q # p => call'[q] = call[q]
      BY <1>13 DEF ReplyIsLost, TypeOK
    <2> QED BY <1>2, <2>1, <2>2, <2>3
  <1>14. ASSUME NEW p \in Procs, AttemptTimesOut(p) PROVE Goal
    <2>1. r \notin UNION job[p] /\ UNCHANGED <<job, copies>>
      BY <1>14 DEF AttemptTimesOut
    <2>2. Orphaned(r)' = {}
      BY <1>2, <1>14, <2>1 DEF AttemptTimesOut, Orphaned
    <2>3. \A q \in Procs : q # p => call'[q] = call[q]
      BY <1>14 DEF AttemptTimesOut, TypeOK
    <2> QED BY <1>2, <2>1, <2>2, <2>3
  <1>15. CASE OrphanEnds
    <2>1. PICK o \in orphans : orphans' = orphans \ {o} /\ copies' \in {copies, CopiesAfter(o.batch)}
      BY <1>15 DEF OrphanEnds
    <2>2. r \notin UNION o.batch
      BY <1>2 DEF Orphaned
    <2>3. copies'[r] = copies[r] /\ Orphaned(r)' = {}
      BY <1>2, <2>1, <2>2 DEF CopiesAfter, Orphaned
    <2>4. UNCHANGED <<job, call>>
      BY <1>15 DEF OrphanEnds
    <2> QED BY <1>2, <2>3, <2>4
  <1>16. \/ \E f \in Flushers : WriteDirectly(f) \/ FlushGivesUp(f)
         \/ \E p \in Procs : RetryStep(p) \/ DatabaseStep(p)
         \/ \E w \in Writers : Dequeue(w) \/ WriterGivesUp(w)
         \/ OrphanEnds
         \/ UNCHANGED <<job, call, copies, orphans>>
    BY DEF Next, ClientStep, FlushStep, WriterStep, BeginAdd, AddOne, CountAdded, ScanShard,
           ReturnBelowThreshold, ReturnAndFlush, EndScan, SweepShard, Enqueue, WriterExits,
           TimerFire, TimerExits, Stop, writeVars, vars
  <1>17. CASE UNCHANGED <<job, call, copies, orphans>>
    BY <1>5, <1>17
  <1>18. Flushers \subseteq Procs /\ Writers \subseteq Procs
    BY DEF Procs
  <1>19. Goal
    BY <1>7, <1>8, <1>10, <1>11, <1>12, <1>13, <1>14, <1>15, <1>16, <1>17, <1>18
       DEF RetryStep, DatabaseStep
  <1> QED BY <1>19

(* NoDuplicateWithoutDoubt: while no attempt at a record times out or      *)
(* loses its reply, the retry loop stores it once, however often it tries. *)
THEOREM DuplicateImpliesDoubt == Spec => []NoDuplicateWithoutDoubt
  <1>1. Init => DoubtInv
    BY DEF Init, DoubtInv, DoubtOK, Orphaned
  <1>2. HandInv /\ LoadInv /\ DoubtInv /\ [Next]_vars => DoubtInv'
    BY DoubtStep
  <1>3. HandInv /\ DoubtInv => NoDuplicateWithoutDoubt
    BY DEF HandInv, TypeOK, DoubtInv, DoubtOK, NoDuplicateWithoutDoubt
  <1> QED BY <1>1, <1>2, <1>3, HandInvCorrect, LoadInvCorrect, PTL DEF Spec

-----------------------------------------------------------------------------
(* The written counter.  A writer counts the rows of a batch whose call    *)
(* returned nil; each of them has a record that is in the table and that   *)
(* nobody holds any more, and no record is counted in two batches.         *)

Done == {r \in Recs : Stored(r) /\ ~Held(r)}

FullInv == /\ \A f \in Flushers : {} \notin rows[f]
           /\ \A i \in 1 .. Len(queue) : {} \notin queue[i]
           /\ \A p \in Procs : {} \notin job[p]

WrittenInv == FullInv /\ written <= Cardinality(Done)

(* Distinct rows hold distinct records, so a batch has no more rows than   *)
(* records.                                                                *)
LEMMA RowsWithinRecords ==
    ASSUME NEW b \in Batches, {} \notin b,
           \A R, S \in b : \A r \in Recs : r \in R /\ r \in S => R = S
    PROVE  Cardinality(b) <= Cardinality(UNION b)
  <1> DEFINE f == [R \in b |-> CHOOSE r : r \in R]
  <1>1. IsFiniteSet(UNION b)
    BY RecsAssumption, FS_Subset DEF Batches, Rows
  <1>2. IsFiniteSet(b)
    <2>1. IsFiniteSet(SUBSET Recs) /\ b \subseteq SUBSET Recs
      BY RecsAssumption, FS_SUBSET DEF Batches, Rows
    <2> QED BY <2>1, FS_Subset
  <1>3. \A R \in b : f[R] \in R
    OBVIOUS
  <1>4. f \in [b -> UNION b]
    BY <1>3
  <1>5. \A R, S \in b : f[R] = f[S] => R = S
    BY <1>3 DEF Batches, Rows
  <1> HIDE DEF f
  <1>6. Cardinality(b) \in Nat /\ Cardinality(UNION b) \in Nat
    BY <1>1, <1>2, FS_CardinalityType
  <1>7. ~(Cardinality(UNION b) < Cardinality(b))
    BY <1>1, <1>2, <1>4, <1>5, FS_PigeonHole
  <1> QED BY <1>6, <1>7

(* No step makes an empty row: SwapAll skips the entries a shard lacks.    *)
LEMMA FullInvStep == TypeOK /\ FullInv /\ [Next]_vars => FullInv'
  <1> SUFFICES ASSUME TypeOK, FullInv, [Next]_vars PROVE FullInv'
    OBVIOUS
  <1> USE DEF TypeOK, FullInv
  <1>1. ASSUME NEW f \in Flushers, SweepShard(f) PROVE FullInv'
    <2>1. {} \notin ShardRows(sweepAt[f])
      BY DEF ShardRows
    <2> QED BY <1>1, <2>1 DEF SweepShard, writeVars
  <1>2. ASSUME NEW f \in Flushers, Enqueue(f) PROVE FullInv'
    <2>1. PICK b \in NextBatch(f) : queue' = Append(queue, b) /\ rows' = [rows EXCEPT ![f] = rows[f] \ b]
      BY <1>2 DEF Enqueue
    <2>2. b \in Batches /\ {} \notin b
      BY RecordSets DEF NextBatch
    <2>3. \A i \in 1 .. Len(queue') : {} \notin queue'[i]
      BY <2>1, <2>2
    <2> QED BY <1>2, <2>1, <2>3 DEF Enqueue, writeVars
  <1>3. ASSUME NEW f \in Flushers, WriteDirectly(f) PROVE FullInv'
    <2>1. PICK b \in NextBatch(f) : job' = [job EXCEPT ![f] = b] /\ rows' = [rows EXCEPT ![f] = rows[f] \ b]
      BY <1>3 DEF WriteDirectly
    <2>2. {} \notin b
      BY DEF NextBatch
    <2> QED BY <1>3, <2>1, <2>2 DEF WriteDirectly
  <1>4. ASSUME NEW w \in Writers, Dequeue(w) PROVE FullInv'
    <2>1. queue \in Seq(Batches) /\ queue # <<>> /\ queue' = Tail(queue)
          /\ job' = [job EXCEPT ![w] = Head(queue)] /\ rows' = rows
      BY <1>4 DEF Dequeue
    <2>2. {} \notin Head(queue) /\ \A i \in 1 .. Len(queue') : {} \notin queue'[i]
      BY <2>1
    <2> QED BY <2>1, <2>2
  <1>5. ASSUME NEW p \in Procs,
               WriteSucceeds(p) \/ (p \in Writers /\ WriterGivesUp(p)) \/ (p \in Flushers /\ FlushGivesUp(p))
        PROVE  FullInv'
    <2>1. \A q \in Procs : {} \notin job'[q]
      BY <1>5 DEF WriteSucceeds, WriterGivesUp, FlushGivesUp
    <2>2. \A f \in Flushers : {} \notin rows'[f]
      BY <1>5 DEF WriteSucceeds, WriterGivesUp, FlushGivesUp
    <2>3. queue' = queue
      BY <1>5 DEF WriteSucceeds, WriterGivesUp, FlushGivesUp
    <2> QED BY <2>1, <2>2, <2>3
  <1>6. CASE UNCHANGED <<rows, queue, job>>
    BY <1>6
  <1>7. \/ \E f \in Flushers : FlushStep(f)
        \/ \E p \in Procs : WriteSucceeds(p)
        \/ \E w \in Writers : Dequeue(w) \/ WriterGivesUp(w)
        \/ UNCHANGED <<rows, queue, job>>
    BY DEF Next, ClientStep, RetryStep, DatabaseStep, WriterStep, BeginAdd, AddOne, CountAdded,
           ScanShard, ReturnBelowThreshold, ReturnAndFlush, EndScan, StartAttempt,
           AttemptTimesOut, AttemptErrs, CallCommits, CallFails, ReplyIsLost, WriterExits,
           OrphanEnds, TimerFire, TimerExits, Stop, writeVars, vars
  <1>8. Flushers \subseteq Procs /\ Writers \subseteq Procs
    BY DEF Procs
  <1> QED BY <1>1, <1>2, <1>3, <1>4, <1>5, <1>6, <1>7, <1>8 DEF FlushStep

(* Which records the pipeline holds, step by step.  A sweep, a send and a  *)
(* receive hand records on and neither add nor lose one ...                *)
LEMMA HandedOn ==
    ASSUME HandInv, NEW r \in Recs,
           \/ \E f \in Flushers : SweepShard(f) \/ Enqueue(f) \/ WriteDirectly(f)
           \/ \E w \in Writers : Dequeue(w)
    PROVE  Held(r)' <=> Held(r)
  <1> USE DEF HandInv
  <1>0. KeyOf[r] \in Keys
    BY KeyAssumption
  <1>1. ASSUME NEW f \in Flushers, SweepShard(f) PROVE Held(r)' <=> Held(r)
    <2>1. UNCHANGED <<queue, job>>
      BY <1>1 DEF SweepShard, writeVars
    <2>2. Swept(r)' <=> Swept(r) \/ \E R \in ShardRows(sweepAt[f]) : r \in R
      BY <1>1 DEF SweepShard, Swept, TypeOK
    <2>3. (\E R \in ShardRows(sweepAt[f]) : r \in R) <=> InMap(r) /\ ShardOf[KeyOf[r]] = sweepAt[f]
      BY <1>0 DEF ShardRows, KeyInv, InMap
    <2>4. InMap(r)' <=> InMap(r) /\ ShardOf[KeyOf[r]] # sweepAt[f]
      BY <1>0, <1>1 DEF SweepShard, InMap
    <2> QED BY <2>1, <2>2, <2>3, <2>4 DEF Held, Queued, InWrite
  <1>2. ASSUME NEW f \in Flushers, Enqueue(f) PROVE Held(r)' <=> Held(r)
    <2>1. PICK b \in NextBatch(f) : queue' = Append(queue, b) /\ rows' = [rows EXCEPT ![f] = rows[f] \ b]
      BY <1>2 DEF Enqueue
    <2>2. UNCHANGED <<items, job>> /\ b \subseteq rows[f] /\ b \in Batches
      BY <1>2, RecordSets DEF Enqueue, NextBatch, writeVars
    <2>3. Len(queue') = Len(queue) + 1 /\ Len(queue) \in Nat /\ queue'[Len(queue) + 1] = b
          /\ \A i \in 1 .. Len(queue) : queue'[i] = queue[i]
      BY <2>1, <2>2 DEF TypeOK
    <2>4. Queued(r)' <=> Queued(r) \/ r \in UNION b
      BY <2>3 DEF Queued
    <2>5. (Swept(r)' => Swept(r)) /\ (Swept(r) => Swept(r)' \/ r \in UNION b)
      BY <2>1 DEF Swept, TypeOK
    <2>6. r \in UNION b => Swept(r)
      BY <2>2 DEF Swept
    <2> QED BY <2>2, <2>4, <2>5, <2>6 DEF Held, InMap, InWrite
  <1>3. ASSUME NEW f \in Flushers, WriteDirectly(f) PROVE Held(r)' <=> Held(r)
    <2>1. PICK b \in NextBatch(f) : job' = [job EXCEPT ![f] = b] /\ rows' = [rows EXCEPT ![f] = rows[f] \ b]
      BY <1>3 DEF WriteDirectly
    <2>2. UNCHANGED <<items, queue>> /\ b \subseteq rows[f] /\ job[f] = {} /\ f \in Procs
      BY <1>3 DEF WriteDirectly, ReadyToSend, NextBatch, Procs
    <2>3. \A p \in Procs : job'[p] = IF p = f THEN b ELSE job[p]
      BY <2>1 DEF TypeOK
    <2>4. InWrite(r)' <=> InWrite(r) \/ r \in UNION b
      BY <2>2, <2>3 DEF InWrite
    <2>5. (Swept(r)' => Swept(r)) /\ (Swept(r) => Swept(r)' \/ r \in UNION b)
      BY <2>1 DEF Swept, TypeOK
    <2>6. r \in UNION b => Swept(r)
      BY <2>2 DEF Swept
    <2> QED BY <2>2, <2>4, <2>5, <2>6 DEF Held, InMap, Queued
  <1>4. ASSUME NEW w \in Writers, Dequeue(w) PROVE Held(r)' <=> Held(r)
    <2>1. queue \in Seq(Batches) /\ queue # <<>> /\ queue' = Tail(queue) /\ w \in Procs
          /\ job[w] = {} /\ UNCHANGED <<items, rows>>
      BY <1>4 DEF Dequeue, TypeOK, Procs
    <2>2. \A p \in Procs : job'[p] = IF p = w THEN queue[1] ELSE job[p]
      BY <1>4, <2>1 DEF Dequeue, TypeOK
    <2>3. InWrite(r)' <=> InWrite(r) \/ r \in UNION queue[1]
      BY <2>1, <2>2 DEF InWrite
    <2>4. Queued(r) <=> Queued(r)' \/ r \in UNION queue[1]
      <3>1. Len(queue) \in Nat \ {0} /\ Len(queue') = Len(queue) - 1
            /\ \A i \in 1 .. Len(queue') : queue'[i] = queue[i + 1]
        BY <2>1
      <3>2. ASSUME NEW i \in 1 .. Len(queue), r \in UNION queue[i]
            PROVE  Queued(r)' \/ r \in UNION queue[1]
        <4>1. CASE i = 1
          BY <3>2, <4>1
        <4>2. CASE i # 1
          <5>1. i - 1 \in 1 .. Len(queue') /\ queue'[i - 1] = queue[i]
            BY <3>1, <4>2
          <5> QED BY <3>2, <5>1 DEF Queued
        <4> QED BY <4>1, <4>2
      <3>3. ASSUME NEW i \in 1 .. Len(queue'), r \in UNION queue'[i] PROVE Queued(r)
        <4>1. i + 1 \in 1 .. Len(queue) /\ queue'[i] = queue[i + 1]
          BY <3>1
        <4> QED BY <3>3, <4>1 DEF Queued
      <3>4. r \in UNION queue[1] => Queued(r)
        BY <3>1 DEF Queued
      <3> QED BY <3>2, <3>3, <3>4 DEF Queued
    <2> QED BY <2>1, <2>3, <2>4 DEF Held, InMap, Swept
  <1> QED BY <1>1, <1>2, <1>3, <1>4

(* ... the end of a write takes out the batch, and a failing flush the     *)
(* rows it had left as well ...                                            *)
LEMMA LetGo ==
    ASSUME HandInv, NEW r \in Recs, NEW p \in Procs
    PROVE  /\ WriteSucceeds(p) \/ (p \in Writers /\ WriterGivesUp(p)) =>
                  (Held(r)' <=> Held(r) /\ r \notin UNION job[p])
           /\ p \in Flushers /\ FlushGivesUp(p) =>
                  (Held(r)' <=> Held(r) /\ r \notin (UNION job[p]) \cup (UNION rows[p]))
  <1> USE DEF HandInv
  <1>1. Alone(r)
    BY DEF AloneInv
  <1>2. ASSUME job' = [job EXCEPT ![p] = {}]
        PROVE  InWrite(r)' <=> InWrite(r) /\ r \notin UNION job[p]
    <2>1. \A q \in Procs : job'[q] = IF q = p THEN {} ELSE job[q]
      BY <1>2 DEF TypeOK
    <2> QED BY <1>1, <2>1 DEF Alone, OneWrite, InWrite
  <1>3. r \in UNION job[p] => ~InMap(r) /\ ~Swept(r) /\ ~Queued(r)
    BY <1>1 DEF Alone, OnePlace, InWrite
  <1>4. ASSUME WriteSucceeds(p) \/ (p \in Writers /\ WriterGivesUp(p))
        PROVE  Held(r)' <=> Held(r) /\ r \notin UNION job[p]
    <2>1. UNCHANGED <<items, rows, queue>> /\ job' = [job EXCEPT ![p] = {}]
      BY <1>4 DEF WriteSucceeds, WriterGivesUp
    <2> QED BY <1>2, <1>3, <2>1 DEF Held, InMap, Swept, Queued
  <1>5. ASSUME p \in Flushers, FlushGivesUp(p)
        PROVE  Held(r)' <=> Held(r) /\ r \notin (UNION job[p]) \cup (UNION rows[p])
    <2>1. UNCHANGED <<items, queue>> /\ job' = [job EXCEPT ![p] = {}]
      BY <1>5 DEF FlushGivesUp
    <2>2. \A g \in Flushers : rows'[g] = IF g = p THEN {} ELSE rows[g]
      BY <1>5 DEF FlushGivesUp, TypeOK
    <2>3. Swept(r)' <=> Swept(r) /\ r \notin UNION rows[p]
      BY <1>1, <1>5, <2>2 DEF Alone, OneFlush, Swept
    <2>4. r \in UNION rows[p] => ~InMap(r) /\ ~Queued(r) /\ ~InWrite(r)
      BY <1>1, <1>5 DEF Alone, OnePlace, Swept
    <2> QED BY <1>2, <1>3, <2>1, <2>3, <2>4 DEF Held, InMap, Queued
  <1> QED BY <1>4, <1>5

(* ... and an insert adds the new record and, in a table that overwrites,  *)
(* takes out the row it replaces.                                          *)
LEMMA Taken ==
    ASSUME HandInv, NEW r \in Recs, NEW n \in Recs, Insert(n), ~Held(n),
           UNCHANGED <<rows, queue, job>>
    PROVE  Held(r)' <=> r = n \/ (Held(r) /\ (Aggregates \/ r \notin items[KeyOf[n]]))
  <1> USE DEF HandInv
  <1>0. KeyOf[r] \in Keys /\ KeyOf[n] \in Keys
    BY KeyAssumption
  <1>1. Alone(r)
    BY DEF AloneInv
  <1>2. InMap(r)' <=> r = n \/ (InMap(r) /\ (Aggregates \/ r \notin items[KeyOf[n]]))
    <2>1. \A k \in Keys : items'[k] = IF k # KeyOf[n] THEN items[k]
                                      ELSE IF Aggregates THEN items[k] \cup {n} ELSE {n}
      BY <1>0 DEF Insert, TypeOK
    <2>2. CASE KeyOf[r] = KeyOf[n]
      <3>1. items'[KeyOf[r]] = IF Aggregates THEN items[KeyOf[n]] \cup {n} ELSE {n}
        BY <1>0, <2>1, <2>2
      <3>2. CASE Aggregates
        BY <2>2, <3>1, <3>2 DEF InMap
      <3>3. CASE ~Aggregates
        BY <2>2, <3>1, <3>3 DEF InMap
      <3> QED BY <3>2, <3>3
    <2>3. CASE KeyOf[r] # KeyOf[n]
      <3>1. r # n /\ r \notin items[KeyOf[n]]
        BY <1>0, <2>3 DEF KeyInv
      <3> QED BY <1>0, <2>1, <2>3, <3>1 DEF InMap
    <2> QED BY <2>2, <2>3
  <1>3. r \in items[KeyOf[n]] => InMap(r)
    BY <1>0 DEF KeyInv, InMap
  <1>4. InMap(r) => ~Swept(r) /\ ~Queued(r) /\ ~InWrite(r)
    BY <1>1 DEF Alone, OnePlace
  <1> QED BY <1>2, <1>3, <1>4 DEF Held, Swept, Queued, InWrite

\* A record that a handler has still to insert was never in the pipeline.
LEMMA FreshIsUntouched ==
    ASSUME HandInv, NEW c \in Clients, NEW n \in todo[c] PROVE n \in Recs /\ ~Touched(n)
  BY DEF HandInv, TypeOK, TraceInv, Inserted

(* What is in the table and in nobody's hands stays so.                    *)
LEMMA DoneStays == HandInv /\ [Next]_vars => Done \subseteq Done'
  <1> SUFFICES ASSUME HandInv, [Next]_vars, NEW r \in Recs, Stored(r), ~Held(r)
               PROVE  Stored(r)' /\ ~Held(r)'
    BY DEF Done
  <1>1. Stored(r)'
    BY CopiesGrow DEF HandInv, Stored
  <1>2. ASSUME NEW c \in Clients, AddOne(c) PROVE ~Held(r)'
    <2>1. PICK n \in todo[c] : Insert(n)
      BY <1>2 DEF AddOne
    <2>2. n \in Recs /\ ~Held(n) /\ n # r
      BY FreshIsUntouched DEF Touched
    <2>3. UNCHANGED <<rows, queue, job>>
      BY <1>2 DEF AddOne, writeVars
    <2> QED BY <2>1, <2>2, <2>3, Taken
  <1>3. ASSUME NEW f \in Flushers, SweepShard(f) \/ Enqueue(f) \/ WriteDirectly(f) PROVE ~Held(r)'
    BY <1>3, HandedOn
  <1>4. ASSUME NEW w \in Writers, Dequeue(w) PROVE ~Held(r)'
    BY <1>4, HandedOn
  <1>5. ASSUME NEW p \in Procs,
               WriteSucceeds(p) \/ (p \in Writers /\ WriterGivesUp(p)) \/ (p \in Flushers /\ FlushGivesUp(p))
        PROVE  ~Held(r)'
    <2>1. CASE WriteSucceeds(p) \/ (p \in Writers /\ WriterGivesUp(p))
      BY <2>1, LetGo
    <2>2. CASE p \in Flushers /\ FlushGivesUp(p)
      BY <2>2, LetGo
    <2> QED BY <1>5, <2>1, <2>2
  <1>6. CASE UNCHANGED <<items, rows, queue, job>>
    BY <1>1, <1>6 DEF Held, InMap, Swept, Queued, InWrite
  <1>7. \/ \E c \in Clients : AddOne(c)
        \/ \E f \in Flushers : FlushStep(f)
        \/ \E p \in Procs : WriteSucceeds(p)
        \/ \E w \in Writers : Dequeue(w) \/ WriterGivesUp(w)
        \/ UNCHANGED <<items, rows, queue, job>>
    BY DEF Next, ClientStep, RetryStep, DatabaseStep, WriterStep, BeginAdd, CountAdded,
           ScanShard, ReturnBelowThreshold, ReturnAndFlush, EndScan, StartAttempt,
           AttemptTimesOut, AttemptErrs, CallCommits, CallFails, ReplyIsLost, WriterExits,
           OrphanEnds, TimerFire, TimerExits, Stop, writeVars, vars
  <1>8. Flushers \subseteq Procs /\ Writers \subseteq Procs
    BY DEF Procs
  <1> QED BY <1>1, <1>2, <1>3, <1>4, <1>5, <1>6, <1>7, <1>8 DEF FlushStep

(* WrittenIsStored: what the counter says is in the table, failed batches, *)
(* timed-out calls and direct writes of flushes notwithstanding.           *)
THEOREM CountedIsStored == Spec => []WrittenIsStored
  <1>0. ASSUME NEW S \in SUBSET Recs PROVE IsFiniteSet(S) /\ Cardinality(S) \in Nat
    BY RecsAssumption, FS_Subset, FS_CardinalityType
  <1>1. Init => WrittenInv
    <2> SUFFICES ASSUME Init PROVE WrittenInv
      OBVIOUS
    <2>1. FullInv /\ written = 0
      BY DEF Init, FullInv
    <2>2. Cardinality(Done) \in Nat
      BY <1>0 DEF Done
    <2> QED BY <2>1, <2>2 DEF WrittenInv
  <1>2. HandInv /\ WrittenInv /\ [Next]_vars => WrittenInv'
    <2> SUFFICES ASSUME HandInv, WrittenInv, [Next]_vars PROVE WrittenInv'
      OBVIOUS
    <2>1. FullInv'
      BY FullInvStep DEF HandInv, WrittenInv
    <2>2. Done \subseteq Recs /\ Done' \subseteq Recs /\ Done \subseteq Done'
      BY DoneStays DEF Done
    <2>3. Cardinality(Done) \in Nat /\ Cardinality(Done') \in Nat /\ Cardinality(Done) <= Cardinality(Done')
      BY <1>0, <2>2, FS_Subset
    <2>4. CASE written' = written
      BY <2>1, <2>3, <2>4 DEF WrittenInv, HandInv, TypeOK
    <2>5. ASSUME NEW p \in Procs, WriteSucceeds(p), written' = written + Cardinality(job[p])
          PROVE  WrittenInv'
      <3> DEFINE B == UNION job[p]
      <3>1. job[p] \in Batches /\ {} \notin job[p] /\ B \subseteq Recs
        BY RecordSets DEF WrittenInv, FullInv, HandInv, TypeOK
      <3>2. \A R, S \in job[p] : \A r \in Recs : r \in R /\ r \in S => R = S
        BY DEF HandInv, AloneInv, Alone, OneWrite
      <3>3. Cardinality(job[p]) <= Cardinality(B)
        BY <3>1, <3>2, RowsWithinRecords
      <3>4. \A r \in B : Held(r) /\ Stored(r) /\ ~Held(r)' /\ Stored(r)'
        <4> SUFFICES ASSUME NEW r \in B PROVE Held(r) /\ Stored(r) /\ ~Held(r)' /\ Stored(r)'
          OBVIOUS
        <4>1. r \in Recs /\ Held(r)
          BY <3>1 DEF Held, InWrite
        <4>2. Stored(r)
          BY <2>5 DEF WriteSucceeds, HandInv, CallInv, Stored
        <4>3. Stored(r)'
          BY <2>5, <4>2 DEF WriteSucceeds, Stored
        <4>4. ~Held(r)'
          BY <2>5, <4>1, LetGo
        <4> QED BY <4>1, <4>2, <4>3, <4>4
      <3>5. Done \cap B = {} /\ Done \cup B \subseteq Done'
        BY <2>2, <3>1, <3>4 DEF Done
      <3>6. Cardinality(Done \cup B) = Cardinality(Done) + Cardinality(B)
        <4>1. Cardinality(Done \cap B) = 0
          BY <3>5, FS_EmptySet
        <4>2. IsFiniteSet(Done) /\ IsFiniteSet(B) /\ Cardinality(B) \in Nat
          BY <1>0, <2>2, <3>1
        <4> HIDE DEF B
        <4>3. Cardinality(Done \cup B) = Cardinality(Done) + Cardinality(B) - Cardinality(Done \cap B)
          BY <4>2, FS_Union
        <4> QED BY <2>3, <4>1, <4>2, <4>3
      <3>7. Cardinality(Done \cup B) <= Cardinality(Done')
        BY <1>0, <2>2, <3>5, FS_Subset
      <3>8. Cardinality(B) \in Nat /\ Cardinality(job[p]) \in Nat /\ written \in Nat
        BY <1>0, <3>1, BatchCount DEF HandInv, TypeOK
      <3>9. written <= Cardinality(Done)
        BY DEF WrittenInv
      <3> HIDE DEF B
      <3> QED BY <2>1, <2>3, <2>5, <3>3, <3>6, <3>7, <3>8, <3>9 DEF WrittenInv
    <2>6. \/ written' = written
          \/ \E p \in Procs : WriteSucceeds(p) /\ written' = written + Cardinality(job[p])
      BY DEF Next, ClientStep, FlushStep, RetryStep, DatabaseStep, WriterStep, BeginAdd, AddOne,
             CountAdded, ScanShard, ReturnBelowThreshold, ReturnAndFlush, EndScan, SweepShard,
             Enqueue, WriteDirectly, FlushGivesUp, StartAttempt, AttemptTimesOut, AttemptErrs,
             WriteSucceeds, CallCommits, CallFails, ReplyIsLost, Dequeue, WriterGivesUp,
             WriterExits, OrphanEnds, TimerFire, TimerExits, Stop, statVars, vars
    <2> QED BY <2>4, <2>5, <2>6
  <1>3. HandInv /\ WrittenInv => WrittenIsStored
    <2> SUFFICES ASSUME HandInv, WrittenInv PROVE WrittenIsStored
      OBVIOUS
    <2> DEFINE S == {r \in Recs : Stored(r)}
    <2>1. Done \subseteq S /\ S \subseteq Recs
      BY DEF Done
    <2>2. IsFiniteSet(S) /\ Cardinality(S) \in Nat /\ Cardinality(Done) \in Nat
      BY <1>0, <2>1
    <2> HIDE DEF S
    <2>3. Cardinality(Done) <= Cardinality(S)
      BY <2>1, <2>2, FS_Subset
    <2>4. written \in Nat /\ written <= Cardinality(Done)
      BY DEF WrittenInv, HandInv, TypeOK
    <2> QED BY <2>2, <2>3, <2>4 DEF S, WrittenIsStored
  <1> QED BY <1>1, <1>2, <1>3, HandInvCorrect, PTL DEF Spec

-----------------------------------------------------------------------------
(* The buffer manager implements Delivery.  Under the refinement mapping a *)
(* record is pending while the pipeline holds it; every step then either   *)
(* accepts, stores, settles or loses records, or changes nothing.          *)

Fresh == unsent \cup UNION {todo[c] : c \in Clients}
Lost  == failed \cup dropped \cup overwritten

\* What Delivery calls pending is what somebody in the pipeline holds.
LEMMA PendingIsHeld == HandInv => Pending = {r \in Recs : Held(r)}
  <1> SUFFICES ASSUME HandInv PROVE Pending = {r \in Recs : Held(r)}
    OBVIOUS
  <1> USE DEF HandInv, TypeOK, Batches, Rows
  <1>1. ASSUME NEW r \in Recs, Held(r) PROVE r \in Pending
    <2>1. KeyOf[r] \in Keys
      BY KeyAssumption
    <2>2. CASE InMap(r)
      BY <2>1, <2>2 DEF InMap, Pending
    <2>3. CASE Swept(r)
      BY <2>3 DEF Swept, Pending
    <2>4. CASE Queued(r)
      BY <2>4 DEF Queued, Pending
    <2>5. CASE InWrite(r)
      BY <2>5 DEF InWrite, Pending
    <2> QED BY <1>1, <2>2, <2>3, <2>4, <2>5 DEF Held
  <1>2. ASSUME NEW r \in Pending PROVE r \in Recs /\ Held(r)
    <2>1. PICK R \in {items[k] : k \in Keys} \cup (UNION {rows[f] : f \in Flushers})
                     \cup (UNION {queue[i] : i \in 1 .. Len(queue)})
                     \cup (UNION {job[p] : p \in Procs}) : r \in R
      BY DEF Pending
    <2>2. CASE \E k \in Keys : R = items[k]
      BY <2>1, <2>2 DEF KeyInv, InMap, Held
    <2>3. CASE \E f \in Flushers : R \in rows[f]
      BY <2>1, <2>3 DEF Swept, Held
    <2>4. CASE \E i \in 1 .. Len(queue) : R \in queue[i]
      BY <2>1, <2>4 DEF Queued, Held
    <2>5. CASE \E p \in Procs : R \in job[p]
      BY <2>1, <2>5 DEF InWrite, Held
    <2> QED BY <2>1, <2>2, <2>3, <2>4, <2>5
  <1> QED BY <1>1, <1>2

(* A step that leaves the places of records alone leaves Delivery alone.   *)
LEMMA DeliveryStutters ==
    ASSUME HandInv, HandInv', Fresh' = Fresh, Lost' = Lost, copies' = copies,
           \A r \in Recs : Held(r)' <=> Held(r)
    PROVE  UNCHANGED D!dvars
  <1>1. HandInv' => (Pending = {r \in Recs : Held(r)})'
    BY PendingIsHeld, PTL
  <1>2. Pending' = Pending
    BY <1>1, PendingIsHeld
  <1> QED BY <1>2 DEF D!dvars, Fresh, Lost

\* Every step of the buffer manager is a step of Delivery or changes none of its state.
LEMMA DeliveryStep ==
    HandInv /\ HandInv' /\ LoadInv /\ [Next]_vars => [D!Next]_D!dvars
  <1> SUFFICES ASSUME HandInv, HandInv', LoadInv, [Next]_vars PROVE [D!Next]_D!dvars
    OBVIOUS
  <1>1. Pending = {r \in Recs : Held(r)} /\ Pending' = {r \in Recs : Held(r)'}
    <2>1. HandInv' => (Pending = {r \in Recs : Held(r)})'
      BY PendingIsHeld, PTL
    <2> QED BY <2>1, PendingIsHeld
  <1>2. \A r \in Recs : Touched(r) => r \notin Fresh
    BY DEF HandInv, TraceInv, Inserted, Fresh
  <1>3. ASSUME NEW c \in Clients, BeginAdd(c) PROVE UNCHANGED D!dvars
    <2>1. PICK M \in SUBSET unsent : todo' = [todo EXCEPT ![c] = M] /\ unsent' = unsent \ M
      BY <1>3 DEF BeginAdd
    <2>2. todo[c] = {} /\ \A d \in Clients : todo'[d] = IF d = c THEN M ELSE todo[d]
      BY <1>3, <2>1 DEF BeginAdd, HandInv, AddInv, TypeOK
    <2>3. Fresh' = Fresh
      BY <2>1, <2>2 DEF Fresh
    <2>4. Lost' = Lost /\ copies' = copies /\ UNCHANGED <<items, rows, queue, job>>
      BY <1>3 DEF BeginAdd, Lost, writeVars, histVars
    <2>5. \A r \in Recs : Held(r)' <=> Held(r)
      BY <2>4 DEF Held, InMap, Swept, Queued, InWrite
    <2> QED BY <2>3, <2>4, <2>5, DeliveryStutters
  <1>4. ASSUME NEW c \in Clients, AddOne(c) PROVE D!Next
    <2>1. PICK n \in todo[c] : Insert(n) /\ todo' = [todo EXCEPT ![c] = todo[c] \ {n}]
      BY <1>4 DEF AddOne
    <2>2. n \in Recs /\ ~Held(n)
      BY FreshIsUntouched DEF Touched
    <2>3. UNCHANGED <<rows, queue, job, unsent, copies, failed, dropped>>
      BY <1>4 DEF AddOne, writeVars
    <2> PICK R : R = IF Aggregates THEN {} ELSE items[KeyOf[n]]
      OBVIOUS
    <2>4. R \subseteq Pending /\ n \notin R
      <3>1. KeyOf[n] \in Keys
        BY <2>2, KeyAssumption
      <3>2. \A r \in items[KeyOf[n]] : r \in Recs /\ InMap(r)
        BY <3>1 DEF HandInv, TypeOK, KeyInv, InMap
      <3> QED BY <1>1, <2>2, <3>2 DEF Held
    <2>5. Pending' = (Pending \cup {n}) \ R
      <3>1. \A r \in Recs : Held(r)' <=> r = n \/ (Held(r) /\ (Aggregates \/ r \notin items[KeyOf[n]]))
        BY <2>1, <2>2, <2>3, Taken
      <3>2. \A r \in Recs : r \in R <=> ~Aggregates /\ r \in items[KeyOf[n]]
        OBVIOUS
      <3> QED BY <1>1, <2>2, <2>4, <3>1, <3>2
    <2>6. Fresh' = Fresh \ {n} /\ n \in Fresh
      <3>1. \A d \in Clients : todo'[d] = IF d = c THEN todo[c] \ {n} ELSE todo[d]
        BY <2>1 DEF HandInv, TypeOK
      <3>2. n \notin unsent /\ \A d \in Clients : d # c => n \notin todo[d]
        BY <2>1 DEF HandInv, AddInv, MsgInv
      <3> QED BY <2>1, <2>3, <3>1, <3>2 DEF Fresh
    <2>7. Lost' = Lost \cup R
      BY <2>1, <2>3 DEF Insert, Lost
    <2>8. D!Accept(n, R)
      BY <2>3, <2>5, <2>6, <2>7 DEF D!Accept, Fresh, Lost
    <2>9. n \in Fresh /\ R \in SUBSET Pending /\ D!Accept(n, R)
      BY <2>4, <2>6, <2>8
    <2> QED BY <2>9 DEF D!Next, Fresh
  <1>5. ASSUME NEW B \in Batches, copies' = CopiesAfter(B), Fresh' = Fresh, Lost' = Lost,
               UNCHANGED <<items, rows, queue, job>>,
               \A r \in UNION B : Touched(r) /\ copies[r] < RetryAttempts
        PROVE  D!Next
    <2>1. \A r \in Recs : Held(r)' <=> Held(r)
      BY <1>5 DEF Held, InMap, Swept, Queued, InWrite
    <2>2. Pending' = Pending
      BY <1>1, <2>1
    <2>3. UNION B \in SUBSET (Recs \ Fresh)
      BY <1>2, <1>5 DEF Batches, Rows
    <2>4. D!Store(UNION B)
      BY <1>5, <2>2, <2>3 DEF D!Store, CopiesAfter, Fresh, Lost
    <2> QED BY <2>3, <2>4 DEF D!Next, Fresh
  <1>6. ASSUME NEW r \in Recs
        PROVE  /\ copies[r] \in Nat /\ Cardinality(Orphaned(r)) \in Nat /\ RetryAttempts \in Nat
               /\ IsFiniteSet(Orphaned(r)) /\ LoadOK(r)
    <2>1. Orphaned(r) \subseteq orphans
      BY DEF Orphaned
    <2> QED BY <2>1, BoundAssumption, FS_Subset, FS_CardinalityType DEF LoadInv, HandInv, TypeOK
  <1>7. ASSUME NEW p \in Procs, CallCommits(p) \/ ReplyIsLost(p) PROVE D!Next
    <2>1. job[p] \in Batches /\ copies' = CopiesAfter(job[p]) /\ call[p] = "running"
          /\ UNCHANGED <<items, rows, queue, job>>
      BY <1>7 DEF CallCommits, ReplyIsLost, HandInv, TypeOK
    <2>2. Fresh' = Fresh /\ Lost' = Lost
      BY <1>7 DEF CallCommits, ReplyIsLost, Fresh, Lost, addVars, histVars
    <2>3. ASSUME NEW r \in UNION job[p] PROVE Touched(r) /\ copies[r] < RetryAttempts
      <3>1. r \in Recs /\ InWrite(r)
        BY <2>1 DEF Batches, Rows, InWrite
      <3>2. Load(r) + 1 <= tries[p] /\ tries[p] \in Nat /\ tries[p] <= RetryAttempts
        BY <1>6, <2>1, <3>1 DEF LoadOK, Running, HandInv, TypeOK
      <3> QED BY <1>6, <3>1, <3>2 DEF Load, Touched, Held
    <2> QED BY <1>5, <2>1, <2>2, <2>3
  <1>8. CASE OrphanEnds
    <2>1. PICK o \in orphans : copies' \in {copies, CopiesAfter(o.batch)}
      BY <1>8 DEF OrphanEnds
    <2>2. Fresh' = Fresh /\ Lost' = Lost /\ UNCHANGED <<items, rows, queue, job>>
      BY <1>8 DEF OrphanEnds, Fresh, Lost, addVars, histVars
    <2>3. CASE copies' = copies
      <3>1. \A r \in Recs : Held(r)' <=> Held(r)
        BY <2>2 DEF Held, InMap, Swept, Queued, InWrite
      <3> QED BY <2>2, <2>3, <3>1, DeliveryStutters
    <2>4. CASE copies' = CopiesAfter(o.batch)
      <3>1. o.batch \in Batches
        BY <2>1 DEF HandInv, TypeOK, Attempt
      <3>2. ASSUME NEW r \in UNION o.batch PROVE Touched(r) /\ copies[r] < RetryAttempts
        <4>1. r \in Recs /\ o \in Orphaned(r)
          BY <2>1, <3>1 DEF Batches, Rows, Orphaned
        <4>2. Cardinality(Orphaned(r)) # 0
          BY <1>6, <4>1, FS_EmptySet
        <4>3. Load(r) <= RetryAttempts
          BY <1>6, <4>1 DEF LoadOK
        <4> QED BY <1>6, <4>1, <4>2, <4>3 DEF Load, Touched
      <3> QED BY <1>5, <2>2, <2>4, <3>1, <3>2
    <2> QED BY <2>1, <2>3, <2>4
  <1>9. ASSUME NEW p \in Procs, WriteSucceeds(p) PROVE D!Next
    <2> DEFINE R == UNION job[p]
    <2>1. Fresh' = Fresh /\ Lost' = Lost /\ copies' = copies
      BY <1>9 DEF WriteSucceeds, Fresh, Lost, addVars, histVars
    <2>2. \A r \in R : r \in Recs /\ Held(r) /\ copies[r] > 0
      BY <1>9 DEF WriteSucceeds, HandInv, TypeOK, CallInv, Batches, Rows, Held, InWrite
    <2>3. \A r \in Recs : Held(r)' <=> Held(r) /\ r \notin R
      BY <1>9, LetGo
    <2> HIDE DEF R
    <2>4. R \in SUBSET Pending /\ Pending' = Pending \ R
      BY <1>1, <2>2, <2>3
    <2>5. D!Settle(R)
      BY <2>1, <2>2, <2>4 DEF D!Settle, Fresh, Lost
    <2> QED BY <2>4, <2>5 DEF D!Next
  <1>10. ASSUME NEW R \in SUBSET Recs, Fresh' = Fresh, Lost' = Lost \cup R, copies' = copies,
                \A r \in R : Held(r), \A r \in Recs : Held(r)' <=> Held(r) /\ r \notin R
         PROVE  D!Next
    <2>1. R \in SUBSET Pending /\ Pending' = Pending \ R
      BY <1>1, <1>10
    <2>2. D!Lose(R)
      BY <1>10, <2>1 DEF D!Lose, Fresh, Lost
    <2> QED BY <2>1, <2>2 DEF D!Next
  <1>11. ASSUME NEW w \in Writers, WriterGivesUp(w) PROVE D!Next
    <2>1. w \in Procs
      BY DEF Procs
    <2>2. Fresh' = Fresh /\ Lost' = Lost \cup (UNION job[w]) /\ copies' = copies
      BY <1>11 DEF WriterGivesUp, Fresh, Lost, addVars
    <2>3. \A r \in UNION job[w] : r \in Recs /\ Held(r)
      BY <2>1 DEF HandInv, TypeOK, Batches, Rows, Held, InWrite
    <2>4. \A r \in Recs : Held(r)' <=> Held(r) /\ r \notin UNION job[w]
      BY <1>11, <2>1, LetGo
    <2> QED BY <1>10, <2>2, <2>3, <2>4
  <1>12. ASSUME NEW f \in Flushers, FlushGivesUp(f) PROVE D!Next
    <2> DEFINE R == (UNION job[f]) \cup (UNION rows[f])
    <2>1. f \in Procs
      BY DEF Procs
    <2>2. Fresh' = Fresh /\ Lost' = Lost \cup R /\ copies' = copies
      BY <1>12 DEF FlushGivesUp, Fresh, Lost, addVars
    <2>3. \A r \in R : r \in Recs /\ Held(r)
      BY <2>1 DEF HandInv, TypeOK, Batches, Rows, Held, InWrite, Swept
    <2>4. \A r \in Recs : Held(r)' <=> Held(r) /\ r \notin R
      BY <1>12, <2>1, LetGo
    <2> HIDE DEF R
    <2> QED BY <1>10, <2>2, <2>3, <2>4
  <1>13. ASSUME NEW f \in Flushers, SweepShard(f) \/ Enqueue(f) \/ WriteDirectly(f)
         PROVE  UNCHANGED D!dvars
    <2>1. Fresh' = Fresh /\ Lost' = Lost /\ copies' = copies
      BY <1>13 DEF SweepShard, Enqueue, WriteDirectly, Fresh, Lost, addVars, writeVars, histVars
    <2>2. \A r \in Recs : Held(r)' <=> Held(r)
      BY <1>13, HandedOn
    <2> QED BY <2>1, <2>2, DeliveryStutters
  <1>14. ASSUME NEW w \in Writers, Dequeue(w) PROVE UNCHANGED D!dvars
    <2>1. Fresh' = Fresh /\ Lost' = Lost /\ copies' = copies
      BY <1>14 DEF Dequeue, Fresh, Lost, addVars, histVars
    <2>2. \A r \in Recs : Held(r)' <=> Held(r)
      BY <1>14, HandedOn
    <2> QED BY <2>1, <2>2, DeliveryStutters
  <1>15. CASE UNCHANGED <<unsent, todo, items, rows, queue, job, copies, failed, dropped, overwritten>>
    <2>1. Fresh' = Fresh /\ Lost' = Lost /\ copies' = copies
      BY <1>15 DEF Fresh, Lost
    <2>2. \A r \in Recs : Held(r)' <=> Held(r)
      BY <1>15 DEF Held, InMap, Swept, Queued, InWrite
    <2> QED BY <2>1, <2>2, DeliveryStutters
  <1>16. \/ \E c \in Clients : BeginAdd(c) \/ AddOne(c)
         \/ \E f \in Flushers : FlushStep(f)
         \/ \E p \in Procs : CallCommits(p) \/ ReplyIsLost(p) \/ WriteSucceeds(p)
         \/ \E w \in Writers : Dequeue(w) \/ WriterGivesUp(w)
         \/ OrphanEnds
         \/ UNCHANGED <<unsent, todo, items, rows, queue, job, copies, failed, dropped, overwritten>>
    BY DEF Next, ClientStep, RetryStep, DatabaseStep, WriterStep, CountAdded, ScanShard,
           ReturnBelowThreshold, ReturnAndFlush, EndScan, StartAttempt, AttemptTimesOut,
           AttemptErrs, CallFails, WriterExits, TimerFire, TimerExits, Stop, addVars,
           writeVars, histVars, vars
  <1> QED BY <1>3, <1>4, <1>7, <1>8, <1>9, <1>11, <1>12, <1>13, <1>14, <1>15, <1>16 DEF FlushStep

(* ImplementsDelivery: a record leaves the pipeline only when it is in the *)
(* table or given up, and is stored at most RetryAttempts times, for every *)
(* interleaving of handlers, flushes, writers, late calls and Stop.        *)
THEOREM DeliveryImplemented == Spec => ImplementsDelivery
  <1>1. Init => D!Init
    <2> SUFFICES ASSUME Init PROVE D!Init
      OBVIOUS
    <2>1. Pending = {}
      BY DEF Init, Pending
    <2>2. Fresh = Recs
      BY DEF Init, Fresh
    <2> QED BY <2>1, <2>2 DEF Init, D!Init, Fresh
  <1>2. HandInv /\ HandInv' /\ LoadInv /\ [Next]_vars => [D!Next]_D!dvars
    BY DeliveryStep
  <1> QED BY <1>1, <1>2, HandInvCorrect, LoadInvCorrect, PTL DEF Spec, ImplementsDelivery, D!Spec
=============================================================================
