-------------------------- MODULE MonitoringProofs --------------------------
(***************************************************************************)
(* The counters that Prometheus shows, for any number of connections,      *)
(* records and errors.                                                     *)
(***************************************************************************)
EXTENDS Monitoring, FiniteSetTheorems, TLAPS

USE DEF Counters, Counter, envVars, vars

\* What GetConnectionStats returns are three natural numbers.
LEMMA SnapshotType == computeConnectionSnapshot \in Snapshots
<1>1. \A S \in SUBSET Conns : Cardinality(S) \in Nat
  BY FS_Subset, FS_CardinalityType, MonitoringAssumption
<1> QED
  BY <1>1 DEF computeConnectionSnapshot, Snapshots

\* The zombie ratio is a natural number: it is 0 when there is no connection.
LEMMA RatioType ==
    ASSUME NEW a \in Nat, NEW b \in Nat, b > 0
    PROVE  (100 * a) \div b \in Nat
<1> DEFINE m == 100 * a
<1>1. m \in Nat
  OBVIOUS
<1> HIDE DEF m
<1>2. m \div b \in Nat
  BY <1>1
<1> QED
  BY <1>2 DEF m

\* Every variable of the metrics loop stays in its domain.
THEOREM TypeCorrect == Spec => []TypeOK
<1>1. ASSUME Init
      PROVE  TypeOK
  <2>1. seen \in [processed : Nat, errors : Nat, inUse : 0 .. MaxConns, conns : Snapshots]
    BY <1>1, MonitoringAssumption DEF Init, NothingSeen, Snapshots
  <2>2. server \in BOOLEAN /\ warned \in BOOLEAN
    BY <1>1, Zenon DEF Init
  <2>3. age \in [Conns -> Absent .. DataTimeout + 1]
    BY <1>1, MonitoringAssumption DEF Init, Absent
  <2> QED
    BY <1>1, <2>1, <2>2, <2>3, Zenon DEF Init, TypeOK
<1>2. ASSUME TypeOK, [Next]_vars
      PROVE  TypeOK'
  <2> USE <1>2, MonitoringAssumption DEF TypeOK
  <2>1. CASE EnvStep
    <3>1. age' \in [Conns -> Absent .. DataTimeout + 1]
      BY <2>1 DEF EnvStep, registerConnection, unregisterConnection,
                  updateConnectionActivity, CountProcessed, CountError, Absent
    <3>2. processed' \in Nat /\ errors' \in Nat
      BY <2>1 DEF EnvStep, registerConnection, unregisterConnection,
                  updateConnectionActivity, CountProcessed, CountError
    <3> QED
      BY <2>1, <3>1, <3>2 DEF EnvStep
  <2>2. CASE TimePasses
    BY <2>2 DEF TimePasses, Tick, Absent
  <2>3. CASE checkConnectionHealth
    BY <2>3 DEF checkConnectionHealth
  <2>4. CASE TickerFires
    BY <2>4 DEF TickerFires
  <2>5. ASSUME NEW f \in Counters, CopyCounter(f)
        PROVE  TypeOK'
    BY <2>5 DEF CopyCounter
  <2>6. CASE ReadPool
    BY <2>6 DEF ReadPool
  <2>7. CASE GetConnectionStats
    BY <2>7, SnapshotType DEF GetConnectionStats
  <2>8. CASE updatePrometheusMetrics
    <3>1. exported' \in [success : Nat, error : Nat]
      BY <2>8 DEF updatePrometheusMetrics, UpdateProcessedRecords, Delta
    <3>2. prev' \in [processed : Nat, errors : Nat]
      BY <2>8 DEF updatePrometheusMetrics
    <3>3. gauges' \in [total : Nat, active : Nat, stale : Nat, zombiePercent : Nat]
      <4>1. seen.conns \in Snapshots
        OBVIOUS
      <4>2. seen.conns.total > 0 => (100 * seen.conns.stale) \div seen.conns.total \in Nat
        BY <4>1, RatioType DEF Snapshots
      <4> QED
        BY <2>8, <4>1, <4>2 DEF updatePrometheusMetrics, UpdateGRPCConnections, Snapshots
    <3> QED
      BY <2>8, <3>1, <3>2, <3>3 DEF updatePrometheusMetrics
  <2>9. CASE checkAlertThresholds
    <3>1. NothingSeen \in [processed : Nat, errors : Nat, inUse : 0 .. MaxConns,
                           conns : Snapshots]
      BY DEF NothingSeen, Snapshots
    <3> QED
      BY <2>9, <3>1 DEF checkAlertThresholds
  <2>10. CASE UNCHANGED vars
    BY <2>10
  <2> QED
    BY <2>1, <2>2, <2>3, <2>4, <2>5, <2>6, <2>7, <2>8, <2>9, <2>10 DEF Next, LoopStep
<1> QED
  BY <1>1, <1>2, PTL DEF Spec

\* The Prometheus counters are what the last exporting round has seen and never
\* ahead of the buffer manager, in every interleaving of the copy with the
\* atomic adds.
THEOREM ExportsOnce == Spec => []ExportedIsSeen
<1>1. Init => ExportedIsSeen /\ CopiesBetween
  BY DEF Init, ExportedIsSeen, CopiesBetween, Copied
<1>2. ASSUME TypeOK, TypeOK', ExportedIsSeen, CopiesBetween, [Next]_vars
      PROVE  ExportedIsSeen' /\ CopiesBetween'
  <2> USE <1>2
  <2>1. CASE EnvStep
    <3>1. /\ processed' >= processed /\ errors' >= errors
          /\ UNCHANGED <<pc, toCopy, seen, prev, exported>>
      BY <2>1 DEF EnvStep, registerConnection, unregisterConnection,
                  updateConnectionActivity, CountProcessed, CountError, TypeOK
    <3>2. ExportedIsSeen'
      BY <3>1 DEF ExportedIsSeen, TypeOK
    <3>3. CopiesBetween'
      BY <3>1 DEF CopiesBetween, Copied, TypeOK
    <3> QED
      BY <3>2, <3>3
  <2>2. CASE TimePasses
    BY <2>2 DEF TimePasses, Tick, ExportedIsSeen, CopiesBetween, Copied
  <2>3. CASE checkConnectionHealth
    BY <2>3 DEF checkConnectionHealth, ExportedIsSeen, CopiesBetween, Copied
  <2>4. CASE TickerFires
    BY <2>4 DEF TickerFires, ExportedIsSeen, CopiesBetween, Copied
  <2>5. ASSUME NEW f \in Counters, CopyCounter(f)
        PROVE  ExportedIsSeen' /\ CopiesBetween'
    <3>1. ExportedIsSeen'
      BY <2>5 DEF CopyCounter, ExportedIsSeen
    <3>2. prev[f] <= Counter(f)
      BY DEF ExportedIsSeen, TypeOK
    <3>3. Copied' = Copied \cup {f}
      BY <2>5 DEF CopyCounter, Copied, TypeOK
    <3>4. seen'[f] = Counter(f) /\ \A g \in Counters : g # f => seen'[g] = seen[g]
      BY <2>5 DEF CopyCounter, TypeOK
    <3>5. UNCHANGED <<prev, processed, errors>>
      BY <2>5 DEF CopyCounter
    <3>6. \A g \in Counters : Counter(g) \in Nat
      BY DEF TypeOK
    <3>7. CopiesBetween'
      <4> SUFFICES ASSUME NEW g \in Copied'
                   PROVE  prev[g] <= seen'[g] /\ seen'[g] <= Counter(g)
        BY <3>5 DEF CopiesBetween
      <4>1. CASE g = f
        BY <4>1, <3>2, <3>4, <3>6
      <4>2. CASE g # f
        <5>1. g \in Copied /\ g \in Counters
          BY <4>2, <3>3 DEF Copied, TypeOK
        <5> QED
          BY <5>1, <4>2, <3>4 DEF CopiesBetween
      <4> QED
        BY <4>1, <4>2
    <3> QED
      BY <3>1, <3>7
  <2>6. CASE ReadPool
    BY <2>6 DEF ReadPool, ExportedIsSeen, CopiesBetween, Copied, TypeOK
  <2>7. CASE GetConnectionStats
    BY <2>7 DEF GetConnectionStats, ExportedIsSeen, CopiesBetween, Copied, TypeOK
  <2>8. CASE updatePrometheusMetrics
    <3>1. /\ prev.processed <= seen.processed /\ seen.processed <= processed
          /\ prev.errors <= seen.errors /\ seen.errors <= errors
      BY <2>8 DEF updatePrometheusMetrics, CopiesBetween, Copied
    <3>2. /\ exported'.success = seen.processed /\ exported'.error = seen.errors
      BY <2>8, <3>1 DEF updatePrometheusMetrics, UpdateProcessedRecords, Delta,
                        ExportedIsSeen, TypeOK
    <3>3. ExportedIsSeen'
      BY <2>8, <3>1, <3>2 DEF updatePrometheusMetrics, ExportedIsSeen
    <3>4. CopiesBetween'
      BY <2>8 DEF updatePrometheusMetrics, CopiesBetween, Copied
    <3> QED
      BY <3>3, <3>4
  <2>9. CASE checkAlertThresholds
    BY <2>9 DEF checkAlertThresholds, ExportedIsSeen, CopiesBetween, Copied
  <2>10. CASE UNCHANGED vars
    BY <2>10 DEF ExportedIsSeen, CopiesBetween, Copied
  <2> QED
    BY <2>1, <2>2, <2>3, <2>4, <2>5, <2>6, <2>7, <2>8, <2>9, <2>10 DEF Next, LoopStep
<1> QED
  BY <1>1, <1>2, TypeCorrect, PTL DEF Spec

-----------------------------------------------------------------------------
(* AlertIsExact speaks of the rest between two rounds, when what the round *)
(* has seen is gone.  It holds because the gauges are set from the very    *)
(* snapshot that the alert is taken from afterwards.                       *)
GaugesAreSeen ==
    server /\ pc = "alerts" =>
        gauges.total = seen.conns.total /\ gauges.stale = seen.conns.stale

\* Quotients in Nat: the code divides integers and compares the whole part.
LEMMA WholePart ==
    ASSUME NEW a \in Nat, NEW b \in Nat \ {0}
    PROVE  /\ a \div b \in Nat
           /\ (a \div b) * b <= a
           /\ a < ((a \div b) + 1) * b
  BY Z3

\* Multiplication keeps the order of natural numbers.
LEMMA TimesGrows ==
    ASSUME NEW p \in Nat, NEW q \in Nat, NEW b \in Nat, p <= q
    PROVE  p * b <= q * b
  BY Z3

\* The whole part of a percentage reaches a whole percentage exactly when the
\* percentage itself does: integer division loses no alert and adds none.
LEMMA ReachesExactly ==
    ASSUME NEW part \in Nat, NEW whole \in Nat, NEW percent \in Nat
    PROVE  Reaches(part, whole, percent) <=> whole > 0 /\ 100 * part >= percent * whole
<1>1. CASE whole = 0
  BY <1>1 DEF Reaches
<1>2. CASE whole # 0
  <2> DEFINE a == part * 100
             q == a \div whole
  <2>1. a \in Nat /\ 100 * part = a
    OBVIOUS
  <2>2. q \in Nat /\ q * whole <= a /\ a < (q + 1) * whole
    BY <1>2, <2>1, WholePart
  <2>3. /\ q * whole \in Nat /\ (q + 1) * whole \in Nat /\ percent * whole \in Nat
    BY <2>2, Z3
  <2> HIDE DEF a, q
  <2>4. ASSUME q >= percent PROVE a >= percent * whole
    <3>1. percent * whole <= q * whole
      BY <2>2, <2>4, TimesGrows
    <3> QED
      BY <2>1, <2>2, <2>3, <3>1
  <2>5. ASSUME q < percent PROVE a < percent * whole
    <3>1. (q + 1) * whole <= percent * whole
      BY <2>2, <2>5, TimesGrows
    <3> QED
      BY <2>1, <2>2, <2>3, <3>1
  <2>6. q >= percent <=> a >= percent * whole
    BY <2>1, <2>2, <2>3, <2>4, <2>5
  <2>7. Reaches(part, whole, percent) <=> q >= percent
    BY <1>2 DEF Reaches, a, q
  <2> QED
    BY <1>2, <2>1, <2>6, <2>7
<1> QED
  BY <1>1, <1>2

\* AlertIsExact: whatever the connections do while a round runs, the alert on
\* stale connections and the gauges that Prometheus shows tell the same story.
THEOREM AlertsAreExact == Spec => []AlertIsExact
<1>1. Init => GaugesAreSeen /\ AlertIsExact
  BY DEF Init, GaugesAreSeen, AlertIsExact
<1>2. ASSUME TypeOK, GaugesAreSeen, AlertIsExact, [Next]_vars
      PROVE  GaugesAreSeen' /\ AlertIsExact'
  <2> USE <1>2
  <2>1. CASE UNCHANGED <<server, pc, seen, gauges, alerts>>
    BY <2>1 DEF GaugesAreSeen, AlertIsExact
  <2>2. CASE EnvStep \/ TimePasses \/ checkConnectionHealth
    BY <2>1, <2>2 DEF EnvStep, TimePasses, checkConnectionHealth
  <2>3. CASE TickerFires \/ (\E f \in Counters : CopyCounter(f)) \/ ReadPool
    <3>1. pc' \notin {"idle", "alerts"}
      BY <2>3 DEF TickerFires, CopyCounter, ReadPool
    <3> QED
      BY <3>1 DEF GaugesAreSeen, AlertIsExact
  <2>4. CASE GetConnectionStats
    <3>1. server' = server /\ pc' # "idle" /\ (server => pc' # "alerts")
      BY <2>4 DEF GetConnectionStats
    <3> QED
      BY <3>1 DEF GaugesAreSeen, AlertIsExact
  <2>5. CASE updatePrometheusMetrics
    <3>1. /\ gauges'.total = seen'.conns.total /\ gauges'.stale = seen'.conns.stale
          /\ pc' = "alerts"
      BY <2>5 DEF updatePrometheusMetrics, UpdateGRPCConnections
    <3> QED
      BY <3>1 DEF GaugesAreSeen, AlertIsExact
  <2>6. CASE checkAlertThresholds
    <3>1. /\ pc = "alerts" /\ pc' = "idle" /\ server' = server /\ gauges' = gauges
          /\ "stale" \in alerts' <=> Reaches(seen.conns.stale, seen.conns.total, StalePercent)
      BY <2>6 DEF checkAlertThresholds
    <3>2. seen.conns.stale \in Nat /\ seen.conns.total \in Nat
      BY DEF TypeOK, Snapshots
    <3>3. "stale" \in alerts' <=> seen.conns.total > 0
                                   /\ 100 * seen.conns.stale >= StalePercent * seen.conns.total
      BY <3>1, <3>2, ReachesExactly, MonitoringAssumption
    <3> QED
      BY <3>1, <3>3 DEF GaugesAreSeen, AlertIsExact
  <2>7. CASE UNCHANGED vars
    BY <2>1, <2>7
  <2> QED
    BY <2>2, <2>3, <2>4, <2>5, <2>6, <2>7 DEF Next, LoopStep
<1> QED
  BY <1>1, <1>2, TypeCorrect, PTL DEF Spec
=============================================================================
