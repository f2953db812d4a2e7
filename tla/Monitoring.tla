----------------------------- MODULE Monitoring -----------------------------
(***************************************************************************)
(* The metrics loop of main (startMonitoringService), the Prometheus       *)
(* counters and gauges it feeds (internal/monitoring), its alerts, and the *)
(* collector's own connection check.                                       *)
(*                                                                         *)
(* The loop reads three components that go on working while it reads: the  *)
(* counters of the buffer manager, the database pool and the connection    *)
(* registry.  Gauges that only copy a number nothing depends on (buffer    *)
(* lengths, open and idle database connections, memory) are left out.      *)
(***************************************************************************)
EXTENDS Integers, FiniteSets

CONSTANTS
    Conns,                    \* connections of devices
    DataTimeout,              \* c.dataTimeout, in ticks of the clock
    MaxConns,                 \* size of the database pool
    DBConnectionUsagePercent, \* threshold of the configuration
    StalePercent,             \* the 30 of checkAlertThresholds
    MaxRecords,               \* bound: records counted
    MaxErrors                 \* bound: batches given up

ASSUME MonitoringAssumption ==
    /\ IsFiniteSet(Conns)
    /\ DataTimeout \in Nat \ {0} /\ MaxConns \in Nat
    /\ DBConnectionUsagePercent \in Nat /\ StalePercent \in Nat
    /\ MaxRecords \in Nat /\ MaxErrors \in Nat

Absent == -1

VARIABLES
    age,       \* age[c]: time since LastDataTime of c, Absent when not registered
    processed, \* bm.stats.TotalRecordsProcessed
    errors,    \* bm.stats.TotalErrors
    server,    \* prometheusServer # nil
    pc,        \* where the metrics loop is
    toCopy,    \* counters it has still to copy
    seen,      \* bufferStats, dbStats and connStats of this round
    prev,      \* prevProcessedRecords and prevErrorRecords
    exported,  \* the Prometheus counters records_processed{success, error}
    gauges,    \* the Prometheus gauges of the gRPC connections
    alerts,    \* alerts logged in the last round
    warned     \* the last connection check has logged its warning

envVars == <<age, processed, errors>>
vars == <<envVars, server, pc, toCopy, seen, prev, exported, gauges, alerts, warned>>

Counters == {"processed", "errors"}

NothingSeen == [processed |-> 0, errors |-> 0, inUse |-> 0,
                conns |-> [total |-> 0, active |-> 0, stale |-> 0]]

\* prometheusServer is made only when prometheus_enabled is set.
Init ==
    /\ age = [c \in Conns |-> Absent]
    /\ processed = 0 /\ errors = 0
    /\ server \in BOOLEAN
    /\ pc = "idle" /\ toCopy = {} /\ seen = NothingSeen
    /\ prev = [processed |-> 0, errors |-> 0]
    /\ exported = [success |-> 0, error |-> 0]
    /\ gauges = [total |-> 0, active |-> 0, stale |-> 0, zombiePercent |-> 0]
    /\ alerts = {} /\ warned = FALSE

-----------------------------------------------------------------------------
(* The components that the loop watches.                                   *)

registerConnection(c) ==
    /\ age[c] = Absent
    /\ age' = [age EXCEPT ![c] = 0]
    /\ UNCHANGED <<processed, errors>>

unregisterConnection(c) ==
    /\ age[c] # Absent
    /\ age' = [age EXCEPT ![c] = Absent]
    /\ UNCHANGED <<processed, errors>>

updateConnectionActivity(c) ==
    /\ age[c] # Absent
    /\ age' = [age EXCEPT ![c] = 0]
    /\ UNCHANGED <<processed, errors>>

\* Ages beyond the time-out are not told apart.
Tick ==
    /\ age' = [c \in Conns |-> IF age[c] \in {Absent, DataTimeout + 1} THEN age[c]
                                                                   ELSE age[c] + 1]
    /\ UNCHANGED <<processed, errors>>

\* The atomic add of Add*Metrics, for the n records of one call.
CountProcessed(n) ==
    /\ processed + n <= MaxRecords
    /\ processed' = processed + n
    /\ UNCHANGED <<age, errors>>

\* The atomic add of a writer that has given up a batch.
CountError ==
    /\ errors < MaxErrors
    /\ errors' = errors + 1
    /\ UNCHANGED <<age, processed>>

EnvStep ==
    /\ \/ \E c \in Conns : \/ registerConnection(c) \/ unregisterConnection(c)
                           \/ updateConnectionActivity(c)
       \/ \E n \in 1 .. MaxRecords : CountProcessed(n)
       \/ CountError
    /\ UNCHANGED <<server, pc, toCopy, seen, prev, exported, gauges, alerts, warned>>

TimePasses ==
    /\ Tick
    /\ UNCHANGED <<server, pc, toCopy, seen, prev, exported, gauges, alerts, warned>>

-----------------------------------------------------------------------------
(* The connection registry as GetConnectionStats sees it.                  *)

\* Wrong variant: IsActive decides, which is TRUE while a connection is open.
computeConnectionSnapshotByFlag ==
    LET open == {c \in Conns : age[c] # Absent}
    IN [total |-> Cardinality(open), active |-> Cardinality(open), stale |-> 0]

\* One pass under the read lock, so that no connection moves meanwhile.
computeConnectionSnapshot ==
    LET open == {c \in Conns : age[c] # Absent}
    IN [total  |-> Cardinality(open),
        active |-> Cardinality({c \in open : age[c] <= DataTimeout}),
        stale  |-> Cardinality({c \in open : age[c] > DataTimeout})]

\* The connection monitor: a warning in the log when more than half of the
\* connections are stale.  handleConnectionTimeout counts in the same way.
checkConnectionHealth ==
    /\ LET s == computeConnectionSnapshot
       IN warned' = (s.total > 0 /\ 2 * s.stale > s.total)
    /\ UNCHANGED <<envVars, server, pc, toCopy, seen, prev, exported, gauges, alerts>>

-----------------------------------------------------------------------------
(* One round of the metrics loop.                                          *)

TickerFires ==
    /\ pc = "idle"
    /\ pc' = "copying" /\ toCopy' = Counters
    /\ UNCHANGED <<envVars, server, seen, prev, exported, gauges, alerts, warned>>

\* GetStats copies the struct under statsMutex, which the atomic adds do not
\* take: each counter is read at a moment of its own, in any order.
CopyCounter(f) ==
    /\ pc = "copying" /\ f \in toCopy
    /\ seen' = [seen EXCEPT ![f] = IF f = "processed" THEN processed ELSE errors]
    /\ toCopy' = toCopy \ {f}
    /\ pc' = IF toCopy = {f} THEN "pool" ELSE "copying"
    /\ UNCHANGED <<envVars, server, prev, exported, gauges, alerts, warned>>

\* db.GetStats: the number of acquired connections is the pool's affair.
ReadPool ==
    /\ pc = "pool"
    /\ \E n \in 0 .. MaxConns : seen' = [seen EXCEPT !.inUse = n]
    /\ pc' = "conns"
    /\ UNCHANGED <<envVars, server, toCopy, prev, exported, gauges, alerts, warned>>

GetConnectionStats ==
    /\ pc = "conns"
    /\ seen' = [seen EXCEPT !.conns = computeConnectionSnapshot]
    /\ pc' = IF server THEN "export" ELSE "alerts"
    /\ UNCHANGED <<envVars, server, toCopy, prev, exported, gauges, alerts, warned>>

Delta(f) == seen[f] - prev[f]

\* Wrong variant: the totals are added, not what is new since the last round.
UpdateProcessedRecordsTotal ==
    exported' = [success |-> exported.success + seen.processed,
                 error   |-> exported.error + seen.errors]

\* Add() on the two counters; a delta that is not positive adds nothing.
UpdateProcessedRecords ==
    exported' = [success |-> exported.success + (IF Delta("processed") > 0 THEN Delta("processed") ELSE 0),
                 error   |-> exported.error + (IF Delta("errors") > 0 THEN Delta("errors") ELSE 0)]

\* Set() on the connection gauges.  zombiePercent is the whole part of the
\* ratio that UpdateZombieRatio stores as a float.
UpdateGRPCConnections ==
    gauges' = [total |-> seen.conns.total, active |-> seen.conns.active,
               stale |-> seen.conns.stale,
               zombiePercent |-> IF seen.conns.total > 0
                                 THEN (100 * seen.conns.stale) \div seen.conns.total ELSE 0]

\* Wrong variant: a round without new records returns early.
updatePrometheusMetricsSkips ==
    /\ pc = "export"
    /\ IF Delta("processed") = 0
       THEN UNCHANGED <<exported, prev>>
       ELSE /\ UpdateProcessedRecords
            /\ prev' = [processed |-> seen.processed, errors |-> seen.errors]
    /\ UpdateGRPCConnections
    /\ pc' = "alerts"
    /\ UNCHANGED <<envVars, server, toCopy, seen, alerts, warned>>

updatePrometheusMetrics ==
    /\ pc = "export"
    /\ UpdateProcessedRecords
    /\ prev' = [processed |-> seen.processed, errors |-> seen.errors]
    /\ UpdateGRPCConnections
    /\ pc' = "alerts"
    /\ UNCHANGED <<envVars, server, toCopy, seen, alerts, warned>>

\* Wrong variant: the threshold itself raises no alert.
ReachesAbove(part, whole, percent) == whole > 0 /\ (part * 100) \div whole > percent

\* (part * 100) / whole >= percent, in integers.
Reaches(part, whole, percent) == whole > 0 /\ (part * 100) \div whole >= percent

\* What the round has read goes out of scope at its end.
checkAlertThresholds ==
    /\ pc = "alerts"
    /\ alerts' = {a \in {"db", "stale"} :
                    \/ a = "db" /\ Reaches(seen.inUse, MaxConns, DBConnectionUsagePercent)
                    \/ a = "stale" /\ Reaches(seen.conns.stale, seen.conns.total, StalePercent)}
    /\ pc' = "idle" /\ seen' = NothingSeen
    /\ UNCHANGED <<envVars, server, toCopy, prev, exported, gauges, warned>>

LoopStep ==
    \/ TickerFires \/ (\E f \in Counters : CopyCounter(f)) \/ ReadPool
    \/ GetConnectionStats \/ updatePrometheusMetrics \/ checkAlertThresholds

Next == EnvStep \/ TimePasses \/ checkConnectionHealth \/ LoopStep

Spec == Init /\ [][Next]_vars

(* Time passes, the two tickers fire and their goroutines run.  Nothing is *)
(* assumed of devices and records.                                         *)
Fairness == WF_vars(TimePasses) /\ WF_vars(checkConnectionHealth) /\ WF_vars(LoopStep)

FairSpec == Spec /\ Fairness

-----------------------------------------------------------------------------
(* Properties.                                                             *)

Snapshots == [total : Nat, active : Nat, stale : Nat]

\* Every variable stays in its domain: the counters that Prometheus is given
\* are never negative, whatever the races of the copy.
TypeOK ==
    /\ age \in [Conns -> Absent .. DataTimeout + 1]
    /\ processed \in Nat /\ errors \in Nat
    /\ server \in BOOLEAN
    /\ pc \in {"idle", "copying", "pool", "conns", "export", "alerts"}
    /\ toCopy \subseteq Counters
    /\ seen \in [processed : Nat, errors : Nat, inUse : 0 .. MaxConns, conns : Snapshots]
    /\ prev \in [processed : Nat, errors : Nat]
    /\ exported \in [success : Nat, error : Nat]
    /\ gauges \in [total : Nat, active : Nat, stale : Nat, zombiePercent : Nat]
    /\ alerts \subseteq {"db", "stale"} /\ warned \in BOOLEAN

\* The Prometheus counters are sums of differences taken from copies that
\* race with the atomic adds, and they never run ahead of the counters of the
\* buffer manager nor count a record or an error twice: what has been
\* exported is what the last exporting round has seen.
ExportedIsSeen ==
    /\ exported.success = prev.processed /\ exported.error = prev.errors
    /\ exported.success <= processed /\ exported.error <= errors

Counter(f) == IF f = "processed" THEN processed ELSE errors
Copied == IF pc = "copying" THEN Counters \ toCopy
          ELSE IF pc \in {"pool", "conns", "export"} THEN Counters ELSE {}

\* What a round has copied lies between what was last exported and the counter
\* as it is now, so that no difference is negative: the strengthening that
\* makes ExportedIsSeen inductive.
CopiesBetween ==
    \A f \in Copied : prev[f] <= seen[f] /\ seen[f] <= Counter(f)

\* When the buffer manager's counters come to rest, an enabled Prometheus
\* server ends up showing exactly them: no race of the copy with an add loses
\* an increment for good.
ExportCatchesUp ==
    server => \A p \in 0 .. MaxRecords, e \in 0 .. MaxErrors :
                  <>[](processed = p /\ errors = e)
                      => <>[](exported = [success |-> p, error |-> e])

\* The alert on stale connections comes from integer division and the zombie
\* gauge from the same snapshot: after a round of an enabled server an alert
\* is logged exactly when the stale connections are at least StalePercent of
\* all of them.
AlertIsExact ==
    server /\ pc = "idle" =>
        ("stale" \in alerts <=> gauges.total > 0 /\ 100 * gauges.stale >= StalePercent * gauges.total)

Silent(c) == age[c] = DataTimeout + 1

\* If from some time on there are connections and none of them delivers data,
\* both observers end up saying so and go on saying so: the metrics loop with
\* its alert, the connection monitor with its warning.  Keepalives do not hide
\* the silence from the first of them: they stay in the transport, Recv returns
\* messages only, and only a message renews LastDataTime.
SilenceIsNoticed ==
    <>[]((\E c \in Conns : Silent(c)) /\ \A c \in Conns : age[c] # Absent => Silent(c))
        => <>[]("stale" \in alerts /\ warned)
=============================================================================
