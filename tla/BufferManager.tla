--------------------------- MODULE BufferManager ---------------------------
(***************************************************************************)
(* The buffer manager of the telemetry collector (internal/buffer), for    *)
(* one of its five tables: the sharded in-memory map that Publish handlers *)
(* add records to, the flushes that sweep it into batches, the bounded     *)
(* channel of batches, the parallel writers, the retry loop that copies a  *)
(* batch to the database, the flush timer and Stop.                        *)
(*                                                                         *)
(* A record is an opaque value with a key.  A ROW is the set of records    *)
(* that one map entry stands for: the aggregating tables (platform,        *)
(* interface, subinterface) merge a record into the entry of its key, the  *)
(* alarm and notification tables overwrite it.  A BATCH is a set of rows.  *)
(* What a merge does to the fields of a row is not modelled here.          *)
(***************************************************************************)
EXTENDS Integers, Sequences, FiniteSets

CONSTANTS
    Recs,           \* the records that Publish handlers will add
    Keys,           \* aggregation keys
    KeyOf,          \* generate*Key: the key of a record
    NumShards,      \* defaultShardCount (16 in the code)
    ShardOf,        \* getShard: the shard a key hashes to
    Clients,        \* Publish handlers, one per stream
    Writers,        \* ParallelWriters goroutines of this table
    Spawned,        \* goroutines for threshold flushes (bound on how many run at once)
    Timer,          \* the flush of the timer goroutine
    Stopper,        \* the flush of the goroutine that called Stop
    QueueCap,       \* capacity of the write channel (100 in the code)
    MaxBatchSize,   \* writerConfig.MaxBatchSize
    RetryAttempts,  \* writerConfig.RetryAttempts
    FlushThreshold, \* config.FlushThreshold
    Aggregates,     \* TRUE: the table merges records with equal keys
    Env             \* what may happen besides normal operation

Flushers == Spawned \cup {Timer, Stopper}
Procs    == Writers \cup Flushers
Shards   == 1 .. NumShards
Rows     == SUBSET Recs
Batches  == SUBSET Rows

ASSUME RecsAssumption == IsFiniteSet(Recs) /\ IsFiniteSet(Keys)
ASSUME KeyAssumption  == /\ KeyOf \in [Recs -> Keys]
                         /\ NumShards \in Nat \ {0}
                         /\ ShardOf \in [Keys -> 1 .. NumShards]
ASSUME ProcAssumption == /\ Timer # Stopper
                         /\ Timer \notin Spawned \cup Writers
                         /\ Stopper \notin Spawned \cup Writers
                         /\ Spawned \cap Writers = {}
ASSUME BoundAssumption == /\ QueueCap \in Nat \ {0}
                          /\ MaxBatchSize \in Nat \ {0}
                          /\ RetryAttempts \in Nat
                          /\ FlushThreshold \in Nat
                          /\ Aggregates \in BOOLEAN
                          /\ Env \subseteq {"error", "lostReply", "timeout", "stop"}

VARIABLES
    unsent,     \* records no handler has been given yet
    msg,        \* msg[c]: the metrics slice of c's current Add call, {} if none
    todo,       \* todo[c]: its metrics that are not in the map yet
    scanAt,     \* scanAt[c]: next shard that c's Len() reads, 0 if not in Len()
    scanned,    \* scanned[c]: the total of that Len() so far
    items,      \* items[k]: the row of key k, {} if the map has no entry k
    sweepAt,    \* sweepAt[f]: next shard f's SwapAll empties, 0 if not in it
    rows,       \* rows[f]: the rows f has swept and not yet handed on
    queue,      \* the write channel
    job,        \* job[p]: the batch in p's writeWithRetry, {} if none
    tries,      \* tries[p]: attempts that writeWithRetry has started
    call,       \* call[p]: state of the attempt that p is waiting for
    orphans,    \* attempts that timed out and are still running
    copies,     \* copies[r]: how many times r has been committed to the table
    timerOn,    \* the timer goroutine has not returned
    exited,     \* writers that have returned
    stopped,    \* stopChan is closed
    processed, collisions, written, errors, \* the counters of FixedBufferStats
    (* history *)
    overwritten, \* records whose row a later record of the same key replaced
    failed,      \* records of batches whose retries were exhausted
    dropped,     \* records a failing flush still had to hand on
    doubtful,    \* records with an attempt whose outcome p did not learn
    beforeStop   \* records that were in the map before Stop was called

addVars   == <<unsent, msg, todo, scanAt, scanned>>
writeVars == <<job, tries, call, orphans, copies>>
lifeVars  == <<timerOn, exited, stopped, beforeStop>>
statVars  == <<processed, collisions, written, errors>>
histVars  == <<overwritten, failed, dropped, doubtful>>
vars == <<addVars, items, sweepAt, rows, queue, writeVars, lifeVars, statVars, histVars>>

-----------------------------------------------------------------------------
(* Where a record is.                                                      *)

Inserted == Recs \ (unsent \cup UNION {todo[c] : c \in Clients})

InMap(r)    == r \in items[KeyOf[r]]
Swept(r)    == \E f \in Flushers : r \in UNION rows[f]
Queued(r)   == \E i \in 1 .. Len(queue) : r \in UNION queue[i]
InWrite(r)  == \E p \in Procs : r \in UNION job[p]
Stored(r)   == copies[r] > 0
GivenUp(r)  == r \in failed \cup dropped \cup overwritten

-----------------------------------------------------------------------------
Init ==
    /\ unsent = Recs
    /\ msg = [c \in Clients |-> {}]
    /\ todo = [c \in Clients |-> {}]
    /\ scanAt = [c \in Clients |-> 0]
    /\ scanned = [c \in Clients |-> 0]
    /\ items = [k \in Keys |-> {}]
    /\ sweepAt = [f \in Flushers |-> 0]
    /\ rows = [f \in Flushers |-> {}]
    /\ queue = <<>>
    /\ job = [p \in Procs |-> {}]
    /\ tries = [p \in Procs |-> 0]
    /\ call = [p \in Procs |-> "none"]
    /\ orphans = {}
    /\ copies = [r \in Recs |-> 0]
    /\ timerOn = TRUE
    /\ exited = {}
    /\ stopped = FALSE
    /\ beforeStop = {}
    /\ processed = 0 /\ collisions = 0 /\ written = 0 /\ errors = 0
    /\ overwritten = {} /\ failed = {} /\ dropped = {} /\ doubtful = {}

-----------------------------------------------------------------------------
(* The Add*Metrics call of a Publish handler.  The metrics of the call are *)
(* inserted one by one, each under its shard's lock, in an order fixed by  *)
(* the message: any order, since any message may arrive.                   *)

BeginAdd(c) ==
    /\ msg[c] = {}
    /\ \E M \in (SUBSET unsent) \ {{}} :
          /\ msg' = [msg EXCEPT ![c] = M]
          /\ todo' = [todo EXCEPT ![c] = M]
          /\ unsent' = unsent \ M
    /\ UNCHANGED <<scanAt, scanned, items, sweepAt, rows, queue, writeVars,
                   lifeVars, statVars, histVars>>

\* An entry merges with the new record or, in the alarm and notification
\* tables, is replaced by it; only a merge counts as a collision.
Insert(r) ==
    LET old == items[KeyOf[r]] IN
    /\ items' = [items EXCEPT ![KeyOf[r]] = IF Aggregates THEN old \cup {r} ELSE {r}]
    /\ collisions' = IF Aggregates /\ old # {} THEN collisions + 1 ELSE collisions
    /\ overwritten' = IF Aggregates THEN overwritten ELSE overwritten \cup old

AddOne(c) ==
    /\ \E r \in todo[c] :
          /\ Insert(r)
          /\ todo' = [todo EXCEPT ![c] = todo[c] \ {r}]
    /\ UNCHANGED <<unsent, msg, scanAt, scanned, sweepAt, rows, queue, writeVars,
                   lifeVars, processed, written, errors, failed, dropped, doubtful>>

\* All metrics are in: count them and enter Len().
CountAdded(c) ==
    /\ msg[c] # {} /\ todo[c] = {} /\ scanAt[c] = 0
    /\ processed' = processed + Cardinality(msg[c])
    /\ scanAt' = [scanAt EXCEPT ![c] = 1]
    /\ scanned' = [scanned EXCEPT ![c] = 0]
    /\ UNCHANGED <<unsent, msg, todo, items, sweepAt, rows, queue, writeVars,
                   lifeVars, collisions, written, errors, histVars>>

ShardLen(s) == Cardinality({k \in Keys : ShardOf[k] = s /\ items[k] # {}})

FlushIdle(f) == sweepAt[f] = 0 /\ rows[f] = {} /\ job[f] = {}

\* Wrong variant of NeedsFlush: the threshold itself does not flush.
NeedsFlushAboveOnly(total) == total > FlushThreshold

NeedsFlush(total) == total >= FlushThreshold

\* Len() reads the shards one at a time, each under its own lock.
ScanShard(c) ==
    /\ scanAt[c] \in 1 .. NumShards - 1
    /\ scanned' = [scanned EXCEPT ![c] = scanned[c] + ShardLen(scanAt[c])]
    /\ scanAt' = [scanAt EXCEPT ![c] = scanAt[c] + 1]
    /\ UNCHANGED <<unsent, msg, todo, items, sweepAt, rows, queue, writeVars,
                   lifeVars, statVars, histVars>>

EndScan(c) ==
    /\ scanAt[c] = NumShards
    /\ scanAt' = [scanAt EXCEPT ![c] = 0]
    /\ scanned' = [scanned EXCEPT ![c] = 0]
    /\ msg' = [msg EXCEPT ![c] = {}]
    /\ UNCHANGED <<unsent, todo, items, rows, queue, writeVars, lifeVars,
                   statVars, histVars>>

\* The call returns; at the threshold it first starts a flush goroutine.
ReturnBelowThreshold(c) ==
    /\ EndScan(c)
    /\ ~NeedsFlush(scanned[c] + ShardLen(NumShards))
    /\ UNCHANGED sweepAt

ReturnAndFlush(c) ==
    /\ EndScan(c)
    /\ NeedsFlush(scanned[c] + ShardLen(NumShards))
    /\ \E f \in Spawned :
          /\ FlushIdle(f)
          /\ sweepAt' = [sweepAt EXCEPT ![f] = 1]

-----------------------------------------------------------------------------
(* Flush*Metrics: SwapAll, then batch after batch into the channel.        *)

TimerFire ==
    /\ timerOn /\ FlushIdle(Timer)
    /\ sweepAt' = [sweepAt EXCEPT ![Timer] = 1]
    /\ UNCHANGED <<addVars, items, rows, queue, writeVars, lifeVars, statVars, histVars>>

ShardRows(s) == {items[k] : k \in {j \in Keys : ShardOf[j] = s}} \ {{}}

\* Wrong variant of SweepShard: the shard is copied and not replaced.
SweepShardKeepsItems(f) ==
    /\ sweepAt[f] # 0
    /\ rows' = [rows EXCEPT ![f] = rows[f] \cup ShardRows(sweepAt[f])]
    /\ sweepAt' = [sweepAt EXCEPT ![f] = IF sweepAt[f] = NumShards THEN 0 ELSE sweepAt[f] + 1]
    /\ UNCHANGED <<addVars, items, queue, writeVars, lifeVars, statVars, histVars>>

\* SwapAll takes one shard's entries under that shard's lock.
SweepShard(f) ==
    /\ sweepAt[f] # 0
    /\ rows' = [rows EXCEPT ![f] = rows[f] \cup ShardRows(sweepAt[f])]
    /\ items' = [k \in Keys |-> IF ShardOf[k] = sweepAt[f] THEN {} ELSE items[k]]
    /\ sweepAt' = [sweepAt EXCEPT ![f] = IF sweepAt[f] = NumShards THEN 0 ELSE sweepAt[f] + 1]
    /\ UNCHANGED <<addVars, queue, writeVars, lifeVars, statVars, histVars>>

\* The slices metrics[i:end]: full batches and a last one with what is left.
NextBatch(f) ==
    {b \in SUBSET rows[f] : \/ b = rows[f] /\ Cardinality(b) <= MaxBatchSize
                            \/ Cardinality(b) = MaxBatchSize}

ReadyToSend(f) == sweepAt[f] = 0 /\ job[f] = {} /\ rows[f] # {}

\* Wrong variant of Enqueue: one batch more than the channel holds.
EnqueueOneMore(f) ==
    /\ ReadyToSend(f)
    /\ Len(queue) <= QueueCap
    /\ \E b \in NextBatch(f) :
          /\ queue' = Append(queue, b)
          /\ rows' = [rows EXCEPT ![f] = rows[f] \ b]
    /\ UNCHANGED <<addVars, items, sweepAt, writeVars, lifeVars, statVars, histVars>>

\* The select's send case: the channel has room.
Enqueue(f) ==
    /\ ReadyToSend(f)
    /\ Len(queue) < QueueCap
    /\ \E b \in NextBatch(f) :
          /\ queue' = Append(queue, b)
          /\ rows' = [rows EXCEPT ![f] = rows[f] \ b]
    /\ UNCHANGED <<addVars, items, sweepAt, writeVars, lifeVars, statVars, histVars>>

\* Wrong variant of WriteDirectly: a batch that finds the channel full is dropped.
DropWhenFull(f) ==
    /\ ReadyToSend(f)
    /\ Len(queue) >= QueueCap
    /\ \E b \in NextBatch(f) : rows' = [rows EXCEPT ![f] = rows[f] \ b]
    /\ UNCHANGED <<addVars, items, sweepAt, queue, writeVars, lifeVars, statVars, histVars>>

\* The select's default case: the flush writes the batch itself.
WriteDirectly(f) ==
    /\ ReadyToSend(f)
    /\ Len(queue) >= QueueCap
    /\ \E b \in NextBatch(f) :
          /\ job' = [job EXCEPT ![f] = b]
          /\ rows' = [rows EXCEPT ![f] = rows[f] \ b]
    /\ tries' = [tries EXCEPT ![f] = 0]
    /\ UNCHANGED <<addVars, items, sweepAt, queue, call, orphans, copies, lifeVars,
                   statVars, histVars>>

-----------------------------------------------------------------------------
(* writeWithRetry, run by a writer or by a flush.  Each attempt calls the  *)
(* database from a goroutine of its own; the caller waits for its result   *)
(* or for BatchTimeout, and a timed-out call runs on.                      *)

\* Wrong variant of StartAttempt: the loop runs once too often.
StartAttemptOnceMore(p) ==
    /\ job[p] # {} /\ call[p] = "none"
    /\ tries[p] <= RetryAttempts
    /\ tries' = [tries EXCEPT ![p] = tries[p] + 1]
    /\ call' = [call EXCEPT ![p] = "running"]
    /\ UNCHANGED <<addVars, items, sweepAt, rows, queue, job, orphans, copies,
                   lifeVars, statVars, histVars>>

StartAttempt(p) ==
    /\ job[p] # {} /\ call[p] = "none"
    /\ tries[p] < RetryAttempts
    /\ tries' = [tries EXCEPT ![p] = tries[p] + 1]
    /\ call' = [call EXCEPT ![p] = "running"]
    /\ UNCHANGED <<addVars, items, sweepAt, rows, queue, job, orphans, copies,
                   lifeVars, statVars, histVars>>

CopiesAfter(batch) ==
    [r \in Recs |-> IF r \in UNION batch THEN copies[r] + 1 ELSE copies[r]]

\* BatchInsert*: one COPY, which commits all rows of the batch or none.
CallCommits(p) ==
    /\ call[p] = "running"
    /\ copies' = CopiesAfter(job[p])
    /\ call' = [call EXCEPT ![p] = "ok"]
    /\ UNCHANGED <<addVars, items, sweepAt, rows, queue, job, tries, orphans,
                   lifeVars, statVars, histVars>>

CallFails(p) ==
    /\ "error" \in Env
    /\ call[p] = "running"
    /\ call' = [call EXCEPT ![p] = "err"]
    /\ UNCHANGED <<addVars, items, sweepAt, rows, queue, job, tries, orphans, copies,
                   lifeVars, statVars, histVars>>

\* The server commits and the connection breaks before its reply arrives.
ReplyIsLost(p) ==
    /\ "lostReply" \in Env
    /\ call[p] = "running"
    /\ copies' = CopiesAfter(job[p])
    /\ call' = [call EXCEPT ![p] = "err"]
    /\ doubtful' = doubtful \cup UNION job[p]
    /\ UNCHANGED <<addVars, items, sweepAt, rows, queue, job, tries, orphans,
                   lifeVars, statVars, overwritten, failed, dropped>>

\* Wrong variant of AttemptTimesOut: nothing watches BatchTimeout while the call runs.
TimeoutAfterReply(p) ==
    /\ "timeout" \in Env
    /\ call[p] \in {"ok", "err"}
    /\ call' = [call EXCEPT ![p] = "none"]
    /\ doubtful' = doubtful \cup UNION job[p]
    /\ UNCHANGED <<addVars, items, sweepAt, rows, queue, job, tries, orphans, copies,
                   lifeVars, statVars, overwritten, failed, dropped>>

\* Wrong variant of AttemptTimesOut: a late answer is taken for a good one.
TimeoutIsSuccess(p) ==
    /\ "timeout" \in Env
    /\ call[p] # "none"
    /\ call' = [call EXCEPT ![p] = "none"]
    /\ job' = [job EXCEPT ![p] = {}]
    /\ tries' = [tries EXCEPT ![p] = 0]
    /\ orphans' = IF call[p] = "running"
                  THEN orphans \cup {[batch |-> job[p], attempt |-> tries[p]]}
                  ELSE orphans
    /\ UNCHANGED <<addVars, items, sweepAt, rows, queue, copies, lifeVars, statVars, histVars>>

\* ctx.Done(): the select may take it even when the result is there already.
AttemptTimesOut(p) ==
    /\ "timeout" \in Env
    /\ call[p] # "none"
    /\ call' = [call EXCEPT ![p] = "none"]
    /\ orphans' = IF call[p] = "running"
                  THEN orphans \cup {[batch |-> job[p], attempt |-> tries[p]]}
                  ELSE orphans
    /\ doubtful' = doubtful \cup UNION job[p]
    /\ UNCHANGED <<addVars, items, sweepAt, rows, queue, job, tries, copies,
                   lifeVars, statVars, overwritten, failed, dropped>>

\* Wrong variant of AttemptErrs: the loop goes on after a nil error, too.
RetryWhateverReturned(p) ==
    /\ call[p] \in {"ok", "err"}
    /\ call' = [call EXCEPT ![p] = "none"]
    /\ UNCHANGED <<addVars, items, sweepAt, rows, queue, job, tries, orphans, copies,
                   lifeVars, statVars, histVars>>

AttemptErrs(p) ==
    /\ call[p] = "err"
    /\ call' = [call EXCEPT ![p] = "none"]
    /\ UNCHANGED <<addVars, items, sweepAt, rows, queue, job, tries, orphans, copies,
                   lifeVars, statVars, histVars>>

\* A call that nobody waits for any more ends, with or without a commit.
OrphanEnds ==
    /\ \E o \in orphans :
          /\ orphans' = orphans \ {o}
          /\ copies' \in {copies, CopiesAfter(o.batch)}
    /\ UNCHANGED <<addVars, items, sweepAt, rows, queue, job, tries, call, lifeVars,
                   statVars, histVars>>

\* writeWithRetry returns nil: a writer counts the rows, a flush does not.
WriteSucceeds(p) ==
    /\ call[p] = "ok"
    /\ call' = [call EXCEPT ![p] = "none"]
    /\ job' = [job EXCEPT ![p] = {}]
    /\ tries' = [tries EXCEPT ![p] = 0]
    /\ written' = IF p \in Writers THEN written + Cardinality(job[p]) ELSE written
    /\ UNCHANGED <<addVars, items, sweepAt, rows, queue, orphans, copies, lifeVars,
                   processed, collisions, errors, histVars>>

AttemptsExhausted(p) == job[p] # {} /\ call[p] = "none" /\ tries[p] = RetryAttempts

\* Wrong variant of WriterGivesUp: the rows of a failed batch are counted as written.
CountFailedAsWritten(w) ==
    /\ AttemptsExhausted(w)
    /\ job' = [job EXCEPT ![w] = {}]
    /\ tries' = [tries EXCEPT ![w] = 0]
    /\ written' = written + Cardinality(job[w])
    /\ errors' = errors + 1
    /\ failed' = failed \cup UNION job[w]
    /\ UNCHANGED <<addVars, items, sweepAt, rows, queue, call, orphans, copies,
                   lifeVars, processed, collisions, overwritten, dropped, doubtful>>

\* Wrong variant of WriterGivesUp: the writer returns on an error.
WriterQuitsOnError(w) ==
    /\ AttemptsExhausted(w)
    /\ job' = [job EXCEPT ![w] = {}]
    /\ tries' = [tries EXCEPT ![w] = 0]
    /\ errors' = errors + 1
    /\ failed' = failed \cup UNION job[w]
    /\ exited' = exited \cup {w}
    /\ UNCHANGED <<addVars, items, sweepAt, rows, queue, call, orphans, copies, timerOn,
                   stopped, beforeStop, processed, collisions, written, overwritten,
                   dropped, doubtful>>

\* writeWithRetry returns an error: a writer counts it and forgets the batch.
WriterGivesUp(w) ==
    /\ AttemptsExhausted(w)
    /\ job' = [job EXCEPT ![w] = {}]
    /\ tries' = [tries EXCEPT ![w] = 0]
    /\ errors' = errors + 1
    /\ failed' = failed \cup UNION job[w]
    /\ UNCHANGED <<addVars, items, sweepAt, rows, queue, call, orphans, copies,
                   lifeVars, processed, collisions, written, overwritten, dropped, doubtful>>

\* A flush returns the error, and with it forgets the rows it still holds.
FlushGivesUp(f) ==
    /\ AttemptsExhausted(f)
    /\ job' = [job EXCEPT ![f] = {}]
    /\ tries' = [tries EXCEPT ![f] = 0]
    /\ rows' = [rows EXCEPT ![f] = {}]
    /\ failed' = failed \cup UNION job[f]
    /\ dropped' = dropped \cup UNION rows[f]
    /\ UNCHANGED <<addVars, items, sweepAt, queue, call, orphans, copies, lifeVars,
                   statVars, overwritten, doubtful>>

-----------------------------------------------------------------------------
(* The writers' select loop, Stop, and the timer goroutine's exit.         *)

Dequeue(w) ==
    /\ w \notin exited /\ job[w] = {}
    /\ queue # <<>>
    /\ job' = [job EXCEPT ![w] = Head(queue)]
    /\ tries' = [tries EXCEPT ![w] = 0]
    /\ queue' = Tail(queue)
    /\ UNCHANGED <<addVars, items, sweepAt, rows, call, orphans, copies, lifeVars,
                   statVars, histVars>>

\* With stopChan closed the select may return although batches are queued.
WriterExits(w) ==
    /\ w \notin exited /\ job[w] = {}
    /\ stopped
    /\ exited' = exited \cup {w}
    /\ UNCHANGED <<addVars, items, sweepAt, rows, queue, writeVars, timerOn, stopped,
                   beforeStop, statVars, histVars>>

\* Wrong variant of Stop: the channel is closed and nothing is flushed.
StopWithoutFlush ==
    /\ "stop" \in Env
    /\ ~stopped
    /\ stopped' = TRUE
    /\ beforeStop' = Inserted
    /\ UNCHANGED <<addVars, items, sweepAt, rows, queue, writeVars, timerOn, exited,
                   statVars, histVars>>

\* The first Stop closes stopChan and flushes; a second one returns at once.
Stop ==
    /\ "stop" \in Env
    /\ ~stopped
    /\ stopped' = TRUE
    /\ sweepAt' = [sweepAt EXCEPT ![Stopper] = 1]
    /\ beforeStop' = Inserted
    /\ UNCHANGED <<addVars, items, rows, queue, writeVars, timerOn, exited, statVars, histVars>>

TimerExits ==
    /\ timerOn /\ FlushIdle(Timer)
    /\ stopped
    /\ timerOn' = FALSE
    /\ UNCHANGED <<addVars, items, sweepAt, rows, queue, writeVars, exited, stopped,
                   beforeStop, statVars, histVars>>

-----------------------------------------------------------------------------
ClientStep(c) == \/ AddOne(c) \/ CountAdded(c) \/ ScanShard(c)
                 \/ ReturnBelowThreshold(c) \/ ReturnAndFlush(c)
FlushStep(f)  == SweepShard(f) \/ Enqueue(f) \/ WriteDirectly(f) \/ FlushGivesUp(f)
RetryStep(p)  == \/ StartAttempt(p) \/ AttemptTimesOut(p) \/ AttemptErrs(p)
                 \/ WriteSucceeds(p)
DatabaseStep(p) == CallCommits(p) \/ CallFails(p) \/ ReplyIsLost(p)
WriterStep(w) == Dequeue(w) \/ WriterGivesUp(w) \/ WriterExits(w)

Next ==
    \/ \E c \in Clients : BeginAdd(c) \/ ClientStep(c)
    \/ \E f \in Flushers : FlushStep(f)
    \/ \E p \in Procs : RetryStep(p) \/ DatabaseStep(p)
    \/ \E w \in Writers : WriterStep(w)
    \/ OrphanEnds
    \/ TimerFire \/ TimerExits \/ Stop

Spec == Init /\ [][Next]_vars

(* The Go scheduler runs every goroutine that can run, and the timers of   *)
(* the flush loop and of BatchTimeout fire.  Nothing is assumed of the     *)
(* database, of the devices, or of the operator who stops the program.     *)
(* TimerExits is strongly fair: after a flush the timer is armed anew for  *)
(* FlushInterval, so the timer loop's next select finds only stopChan.     *)
Fairness ==
    /\ \A c \in Clients : WF_vars(ClientStep(c))
    /\ \A f \in Flushers : WF_vars(FlushStep(f))
    /\ \A p \in Procs : WF_vars(RetryStep(p))
    /\ \A w \in Writers : WF_vars(WriterStep(w))
    /\ WF_vars(TimerFire) /\ SF_vars(TimerExits)

FairSpec == Spec /\ Fairness

-----------------------------------------------------------------------------
(* Properties.                                                             *)

Attempt == [batch : Batches, attempt : Nat]

\* Every variable stays in its domain: in particular the write channel never
\* exceeds its capacity and no writeWithRetry starts more than RetryAttempts.
TypeOK ==
    /\ unsent \in SUBSET Recs
    /\ msg \in [Clients -> SUBSET Recs] /\ todo \in [Clients -> SUBSET Recs]
    /\ scanAt \in [Clients -> 0 .. NumShards] /\ scanned \in [Clients -> Nat]
    /\ items \in [Keys -> SUBSET Recs]
    /\ sweepAt \in [Flushers -> 0 .. NumShards]
    /\ rows \in [Flushers -> Batches]
    /\ queue \in Seq(Batches) /\ Len(queue) <= QueueCap
    /\ job \in [Procs -> Batches]
    /\ tries \in [Procs -> 0 .. RetryAttempts]
    /\ call \in [Procs -> {"none", "running", "ok", "err"}]
    /\ orphans \in SUBSET Attempt
    /\ copies \in [Recs -> Nat]
    /\ timerOn \in BOOLEAN /\ stopped \in BOOLEAN
    /\ exited \in SUBSET Writers /\ beforeStop \in SUBSET Recs
    /\ processed \in Nat /\ collisions \in Nat /\ written \in Nat /\ errors \in Nat
    /\ overwritten \in SUBSET Recs /\ failed \in SUBSET Recs
    /\ dropped \in SUBSET Recs /\ doubtful \in SUBSET Recs

\* No record that an Add call put into the map vanishes without a trace: until
\* it is in the table it is in the map, in a flush, in the channel or in a
\* write, unless an exhausted retry, a failing flush or an overwrite lost it.
NothingVanishes ==
    \A r \in Inserted :
        InMap(r) \/ Swept(r) \/ Queued(r) \/ InWrite(r) \/ Stored(r) \/ GivenUp(r)

Places == {<<"map", k>> : k \in Keys} \cup {<<"rows", f>> : f \in Flushers}
          \cup {<<"queue", i>> : i \in 1 .. Len(queue)} \cup {<<"job", p>> : p \in Procs}
RowsAt(place) == CASE place[1] = "map"   -> {items[place[2]]}
                   [] place[1] = "rows"  -> rows[place[2]]
                   [] place[1] = "queue" -> queue[place[2]]
                   [] place[1] = "job"   -> job[place[2]]

\* Concurrent sweeps, sends and receives never put a record into two hands: it
\* is in at most one place and in one row of it, and in none once it was lost.
SingleCustody ==
    /\ \A p, q \in Places : p # q => (UNION RowsAt(p)) \cap (UNION RowsAt(q)) = {}
    /\ \A p \in Places : \A R, S \in RowsAt(p) : R # S => R \cap S = {}
    /\ \A p \in Places : (UNION RowsAt(p)) \cap (failed \cup dropped \cup overwritten) = {}

\* writeWithRetry stores a record twice only when an earlier attempt at its
\* batch timed out or lost its reply.
NoDuplicateWithoutDoubt == \A r \in Recs : copies[r] > 1 => r \in doubtful

\* Late commits of timed-out attempts included, a record is stored at most
\* RetryAttempts times.
CopiesBounded == \A r \in Recs : copies[r] <= RetryAttempts

\* TotalRecordsWritten never counts more than the table has.
WrittenIsStored == written <= Cardinality({r \in Recs : Stored(r)})

\* With no Add call under way a map at the flush threshold is being flushed:
\* some SwapAll still has every occupied shard before it.  Len() adds up shard
\* lengths read at different times, so this rests on who reads after whom.
ThresholdHonoured ==
    /\ \A c \in Clients : msg[c] = {}
    /\ \E k \in Keys : items[k] # {}
    /\ Cardinality({k \in Keys : items[k] # {}}) >= FlushThreshold
    => \E f \in Flushers : \A k \in Keys :
          items[k] # {} => sweepAt[f] # 0 /\ sweepAt[f] <= ShardOf[k]

\* The flush of Stop takes everything that was in the map when Stop was called:
\* such a record is in the map only while that SwapAll has yet to reach it.
StopSweepsMap ==
    \A r \in beforeStop :
        InMap(r) => sweepAt[Stopper] # 0 /\ sweepAt[Stopper] <= ShardOf[KeyOf[r]]

\* As long as the program is not stopped, every record in the map gets to the
\* table or is given up, even when database calls never return.
Delivered == \A r \in Recs : InMap(r) ~> (Stored(r) \/ GivenUp(r) \/ stopped)

\* Stop returns, and the writers and the timer goroutine end, even when
\* database calls never return.
StopReturns == stopped ~> (FlushIdle(Stopper) /\ ~timerOn /\ exited = Writers)

\* What a graceful shutdown promises: once the flush of Stop has returned, the
\* goroutines have ended and no database call runs, everything that was in the
\* map when Stop was called is in the table or was given up.
StopWritesEverything ==
    stopped /\ (\A f \in Flushers : FlushIdle(f)) /\ ~timerOn /\ exited = Writers /\ orphans = {}
    => \A r \in beforeStop : Stored(r) \/ GivenUp(r)

-----------------------------------------------------------------------------
(* The pipeline implements Delivery: a record is pending from the Add call *)
(* that inserts it until a write of it returned or gave up.                *)

Pending == UNION (     {items[k] : k \in Keys}
                  \cup (UNION {rows[f] : f \in Flushers})
                  \cup (UNION {queue[i] : i \in 1 .. Len(queue)})
                  \cup (UNION {job[p] : p \in Procs}))

D == INSTANCE Delivery WITH
        fresh <- unsent \cup UNION {todo[c] : c \in Clients},
        pending <- Pending,
        lost <- failed \cup dropped \cup overwritten,
        MaxCopies <- RetryAttempts

\* Every step of the buffer manager is a step of Delivery or changes nothing
\* there: a record leaves the pipeline only when it is in the table or given up.
ImplementsDelivery == D!Spec

=============================================================================
