--------------------------- MODULE ThresholdProofs ---------------------------
(***************************************************************************)
(* The flush threshold: why a full map is always being flushed, for every  *)
(* value of the constants of BufferManager.                                *)
(***************************************************************************)
EXTENDS BufferManagerProofs

(* ThresholdHonoured is about the moments without an Add call.  In between *)
(* a full map is WATCHED: by a handler whose Len() has counted at least    *)
(* what is now in the shards it has passed (so that its total will reach   *)
(* the threshold), or by a flush that has every occupied shard before it.  *)

Occupied     == {k \in Keys : items[k] # {}}
Passed(K, n) == {k \in K : ShardOf[k] < n}

Attentive(c) == msg[c] # {} /\ (scanAt[c] # 0 => scanned[c] >= Cardinality(Passed(Occupied, scanAt[c])))
Ahead(f)     == sweepAt[f] # 0 /\ \A k \in Occupied : sweepAt[f] <= ShardOf[k]

WatchInv ==
    Occupied # {} /\ Cardinality(Occupied) >= FlushThreshold
    => (\E c \in Clients : Attentive(c)) \/ (\E f \in Flushers : Ahead(f))

(* Keys are counted without trouble.                                       *)
LEMMA KeyCount == \A K \in SUBSET Keys : IsFiniteSet(K) /\ Cardinality(K) \in Nat
  BY RecsAssumption, FS_Subset, FS_CardinalityType

(* What Len() adds for a shard is what it has then passed in addition.     *)
LEMMA PassedGrows ==
    ASSUME NEW n \in 1 .. NumShards
    PROVE  Cardinality(Passed(Occupied, n + 1)) = Cardinality(Passed(Occupied, n)) + ShardLen(n)
  <1> DEFINE L == {k \in Keys : ShardOf[k] = n /\ items[k] # {}}
             P == Passed(Occupied, n)
  <1>1. Passed(Occupied, n + 1) = P \cup L /\ P \cap L = {}
    BY KeyAssumption DEF Passed, Occupied
  <1>2. P \in SUBSET Keys /\ L \in SUBSET Keys
    BY DEF Passed, Occupied
  <1>3. ShardLen(n) = Cardinality(L)
    BY DEF ShardLen
  <1> HIDE DEF L, P
  <1>4. Cardinality(P \cup L) = Cardinality(P) + Cardinality(L) - Cardinality(P \cap L)
    BY <1>2, KeyCount, FS_Union
  <1>5. Cardinality(P \cap L) = 0
    BY <1>1, FS_EmptySet
  <1>6. Cardinality(P) \in Nat /\ Cardinality(L) \in Nat
    BY <1>2, KeyCount
  <1>7. Cardinality(P \cup L) = Cardinality(P) + Cardinality(L)
    BY <1>4, <1>5, <1>6
  <1> QED BY <1>1, <1>3, <1>7 DEF P

(* A smaller set has passed less.                                          *)
LEMMA FewerKeys ==
    ASSUME NEW K \in SUBSET Keys, NEW L \in SUBSET K PROVE Cardinality(L) <= Cardinality(K)
  BY KeyCount, FS_Subset

\* A map at the threshold keeps somebody who will sweep it, whichever step is taken.
LEMMA WatchInvStep == TypeOK /\ TypeOK' /\ AddInv /\ WatchInv /\ [Next]_vars => WatchInv'
  <1> SUFFICES ASSUME TypeOK, TypeOK', AddInv, WatchInv, [Next]_vars,
                      Occupied' # {}, Cardinality(Occupied') >= FlushThreshold
               PROVE  (\E c \in Clients : Attentive(c)') \/ (\E f \in Flushers : Ahead(f)')
    BY DEF WatchInv
  <1> DEFINE Goal == (\E c \in Clients : Attentive(c)') \/ (\E f \in Flushers : Ahead(f)')
  <1> USE KeyAssumption DEF TypeOK
  <1>1. ASSUME items' = items
        PROVE  /\ Occupied' = Occupied
               /\ (\E c \in Clients : Attentive(c)) \/ (\E f \in Flushers : Ahead(f))
    <2>1. Occupied' = Occupied
      BY <1>1 DEF Occupied
    <2> QED BY <2>1 DEF WatchInv
  <1>2. ASSUME items' = items, NEW c \in Clients,
               \A d \in Clients : d # c =>
                   msg'[d] = msg[d] /\ scanAt'[d] = scanAt[d] /\ scanned'[d] = scanned[d],
               \A f \in Flushers : sweepAt'[f] = sweepAt[f],
               Attentive(c) => Attentive(c)'
        PROVE  Goal
    <2>1. \A d \in Clients : d # c /\ Attentive(d) => Attentive(d)'
      BY <1>1, <1>2 DEF Attentive
    <2>2. \A f \in Flushers : Ahead(f) => Ahead(f)'
      BY <1>1, <1>2 DEF Ahead
    <2> QED BY <1>1, <1>2, <2>1, <2>2
  <1>3. ASSUME NEW f \in Flushers, sweepAt'[f] = 1 PROVE Goal
    <2>1. \A k \in Occupied' : 1 <= ShardOf[k]
      BY DEF Occupied
    <2>2. Ahead(f)'
      BY <1>3, <2>1 DEF Ahead
    <2> QED BY <2>2
  <1>4. ASSUME NEW c \in Clients, BeginAdd(c) PROVE Goal
    <2>1. PICK M \in (SUBSET unsent) \ {{}} : msg' = [msg EXCEPT ![c] = M]
      BY <1>4 DEF BeginAdd
    <2>2. msg'[c] # {} /\ scanAt'[c] = 0
      BY <1>4, <2>1 DEF BeginAdd, AddInv
    <2>3. Attentive(c)'
      BY <2>2 DEF Attentive
    <2> QED BY <2>3
  <1>5. ASSUME NEW c \in Clients, AddOne(c) PROVE Goal
    <2>1. todo[c] # {} /\ msg' = msg /\ scanAt' = scanAt
      BY <1>5 DEF AddOne
    <2>2. msg'[c] # {} /\ scanAt'[c] = 0
      BY <2>1 DEF AddInv
    <2>3. Attentive(c)'
      BY <2>2 DEF Attentive
    <2> QED BY <2>3
  <1>6. ASSUME NEW c \in Clients, CountAdded(c) PROVE Goal
    <2>1. msg'[c] # {} /\ scanAt'[c] = 1 /\ scanned'[c] = 0
      BY <1>6 DEF CountAdded
    <2>2. Passed(Occupied', 1) = {}
      BY DEF Passed, Occupied
    <2>3. Cardinality(Passed(Occupied', 1)) = 0
      BY <2>2, FS_EmptySet
    <2>4. Attentive(c)'
      BY <2>1, <2>3 DEF Attentive
    <2> QED BY <2>4
  <1>7. ASSUME NEW c \in Clients, ScanShard(c) PROVE Goal
    <2>1. /\ items' = items /\ scanAt[c] \in 1 .. NumShards - 1
          /\ scanned'[c] = scanned[c] + ShardLen(scanAt[c]) /\ scanAt'[c] = scanAt[c] + 1
          /\ msg' = msg
          /\ \A d \in Clients : d # c => scanAt'[d] = scanAt[d] /\ scanned'[d] = scanned[d]
          /\ sweepAt' = sweepAt
      BY <1>7 DEF ScanShard
    <2>2. ASSUME Attentive(c) PROVE Attentive(c)'
      <3>1. scanned[c] >= Cardinality(Passed(Occupied, scanAt[c]))
        BY <2>1, <2>2 DEF Attentive
      <3>2. Cardinality(Passed(Occupied, scanAt[c] + 1)) = Cardinality(Passed(Occupied, scanAt[c])) + ShardLen(scanAt[c])
        BY <2>1, PassedGrows
      <3>3. Cardinality(Passed(Occupied, scanAt[c])) \in Nat /\ ShardLen(scanAt[c]) \in Nat /\ scanned[c] \in Nat
        BY KeyCount, ShardCount DEF Passed, Occupied
      <3>4. Passed(Occupied', scanAt'[c]) = Passed(Occupied, scanAt[c] + 1)
        BY <1>1, <2>1
      <3>5. scanned'[c] >= Cardinality(Passed(Occupied', scanAt'[c]))
        BY <2>1, <3>1, <3>2, <3>3, <3>4
      <3> QED BY <2>1, <2>2, <3>5 DEF Attentive
    <2> QED BY <1>2, <2>1, <2>2
  <1>8. ASSUME NEW c \in Clients, ReturnBelowThreshold(c) PROVE Goal
    <2>1. /\ items' = items /\ scanAt[c] = NumShards /\ sweepAt' = sweepAt
          /\ scanned[c] + ShardLen(NumShards) < FlushThreshold
          /\ \A d \in Clients : d # c =>
                 msg'[d] = msg[d] /\ scanAt'[d] = scanAt[d] /\ scanned'[d] = scanned[d]
      <3>1. /\ scanned[c] \in Nat /\ ShardLen(NumShards) \in Nat /\ FlushThreshold \in Nat
            /\ ~(scanned[c] + ShardLen(NumShards) >= FlushThreshold)
        BY <1>8, ShardCount, BoundAssumption DEF ReturnBelowThreshold, NeedsFlush
      <3> QED BY <1>8, <3>1 DEF ReturnBelowThreshold, EndScan
    <2>2. ~Attentive(c)
      <3>1. Passed(Occupied, NumShards + 1) = Occupied
        BY DEF Passed, Occupied
      <3>2. Cardinality(Occupied) = Cardinality(Passed(Occupied, NumShards)) + ShardLen(NumShards)
        BY <3>1, PassedGrows
      <3>3. Cardinality(Occupied) >= FlushThreshold
        BY <1>1, <2>1
      <3>4. /\ Cardinality(Passed(Occupied, NumShards)) \in Nat /\ ShardLen(NumShards) \in Nat
            /\ scanned[c] \in Nat /\ FlushThreshold \in Nat
        BY KeyCount, ShardCount, BoundAssumption DEF Passed, Occupied
      <3> QED BY <2>1, <3>2, <3>3, <3>4 DEF Attentive
    <2> QED BY <1>2, <2>1, <2>2
  <1>9. ASSUME NEW c \in Clients, ReturnAndFlush(c) PROVE Goal
    <2>1. \E f \in Flushers : sweepAt'[f] = 1
      BY <1>9 DEF ReturnAndFlush, Flushers
    <2> QED BY <1>3, <2>1
  <1>10. CASE TimerFire \/ Stop
    <2>1. \E f \in Flushers : sweepAt'[f] = 1
      BY <1>10 DEF TimerFire, Stop, Flushers
    <2> QED BY <1>3, <2>1
  <1>11. ASSUME NEW f \in Flushers, SweepShard(f) PROVE Goal
    <2>1. /\ sweepAt[f] \in 1 .. NumShards /\ UNCHANGED <<msg, scanAt, scanned>>
          /\ \A k \in Keys : items'[k] = IF ShardOf[k] = sweepAt[f] THEN {} ELSE items[k]
          /\ \A g \in Flushers : sweepAt'[g] = IF g # f THEN sweepAt[g]
                                 ELSE IF sweepAt[f] = NumShards THEN 0 ELSE sweepAt[f] + 1
      BY <1>11 DEF SweepShard, addVars
    <2>2. Occupied' = {k \in Occupied : ShardOf[k] # sweepAt[f]}
      BY <2>1 DEF Occupied
    <2>3. Occupied # {} /\ Cardinality(Occupied) >= FlushThreshold
      <3>1. Occupied' \subseteq Occupied /\ Occupied \subseteq Keys /\ Occupied' \subseteq Keys
        BY <2>2 DEF Occupied
      <3>2. Cardinality(Occupied') <= Cardinality(Occupied)
        BY <3>1, FewerKeys
      <3>3. Cardinality(Occupied') \in Nat /\ Cardinality(Occupied) \in Nat /\ FlushThreshold \in Nat
        BY <3>1, KeyCount, BoundAssumption
      <3> QED BY <3>1, <3>2, <3>3
    <2>4. ASSUME NEW c \in Clients, Attentive(c) PROVE Attentive(c)'
      <3> DEFINE n == scanAt[c]
      <3>1. Passed(Occupied, n) \subseteq Keys /\ Passed(Occupied', n) \subseteq Passed(Occupied, n)
        BY <2>1, <2>2 DEF Passed, Occupied
      <3>2. Cardinality(Passed(Occupied', n)) <= Cardinality(Passed(Occupied, n))
            /\ Cardinality(Passed(Occupied', n)) \in Nat /\ Cardinality(Passed(Occupied, n)) \in Nat
        BY <3>1, FewerKeys, KeyCount
      <3>3. Passed(Occupied', scanAt'[c]) = Passed(Occupied', n)
        BY <2>1
      <3> QED BY <2>1, <2>4, <3>2, <3>3 DEF Attentive
    <2>5. ASSUME NEW g \in Flushers, Ahead(g) PROVE Ahead(g)'
      <3>1. CASE g # f
        BY <2>1, <2>2, <2>5, <3>1 DEF Ahead
      <3>2. CASE g = f
        <4>1. \A k \in Occupied' : k \in Keys /\ ShardOf[k] > sweepAt[f]
          <5> SUFFICES ASSUME NEW k \in Occupied' PROVE k \in Keys /\ ShardOf[k] > sweepAt[f]
            OBVIOUS
          <5>1. k \in Occupied /\ k \in Keys /\ ShardOf[k] # sweepAt[f]
            BY <2>2 DEF Occupied
          <5>2. sweepAt[f] <= ShardOf[k] /\ ShardOf[k] \in Nat
            BY <2>5, <3>2, <5>1 DEF Ahead
          <5> QED BY <2>1, <5>1, <5>2
        <4>2. PICK k \in Occupied' : TRUE
          OBVIOUS
        <4>3. sweepAt[f] # NumShards
          BY <4>1, <4>2, <2>1
        <4> QED BY <2>1, <3>2, <4>1, <4>3 DEF Ahead
      <3> QED BY <3>1, <3>2
    <2> QED BY <2>3, <2>4, <2>5 DEF WatchInv
  <1>12. CASE UNCHANGED <<items, msg, scanAt, scanned, sweepAt>>
    <2>1. \A c \in Clients : Attentive(c) => Attentive(c)'
      BY <1>1, <1>12 DEF Attentive
    <2>2. \A f \in Flushers : Ahead(f) => Ahead(f)'
      BY <1>1, <1>12 DEF Ahead
    <2> QED BY <1>1, <1>12, <2>1, <2>2
  <1>13. \/ \E c \in Clients : BeginAdd(c) \/ ClientStep(c)
         \/ \E f \in Flushers : SweepShard(f)
         \/ TimerFire \/ Stop
         \/ UNCHANGED <<items, msg, scanAt, scanned, sweepAt>>
    BY DEF Next, FlushStep, RetryStep, DatabaseStep, WriterStep, Enqueue, WriteDirectly,
           FlushGivesUp, StartAttempt, AttemptTimesOut, AttemptErrs, WriteSucceeds, CallCommits,
           CallFails, ReplyIsLost, Dequeue, WriterGivesUp, WriterExits, OrphanEnds, TimerExits,
           addVars, vars
  <1>14. Goal
    BY <1>4, <1>5, <1>6, <1>7, <1>8, <1>9, <1>10, <1>11, <1>12, <1>13 DEF ClientStep
  <1> QED BY <1>14

(* ThresholdHonoured: although Len() adds up shard lengths that it reads   *)
(* at different times, between other handlers' inserts and flushes' sweeps, *)
(* no map that has reached the threshold is left to the timer.             *)
THEOREM FullMapIsFlushed == Spec => []ThresholdHonoured
  <1>1. Init => AddInv /\ WatchInv
    BY DEF Init, AddInv, WatchInv, Occupied
  <1>2. AddInv /\ WatchInv /\ TypeOK /\ TypeOK' /\ [Next]_vars => AddInv' /\ WatchInv'
    BY AddInvStep, WatchInvStep
  <1>3. WatchInv => ThresholdHonoured
    BY DEF WatchInv, ThresholdHonoured, Occupied, Attentive, Ahead
  <1> QED BY <1>1, <1>2, <1>3, TypeCorrect, PTL DEF Spec
=============================================================================
