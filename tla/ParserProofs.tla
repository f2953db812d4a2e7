---------------------------- MODULE ParserProofs ----------------------------
(***************************************************************************)
(* The shared object pools of the parser, for any number of parsers and    *)
(* any messages: no object is in two hands, what a parser has decoded      *)
(* stays as it is until the parser is done with it, and so no result has a *)
(* metric of another message in it.  From that, what the result of a       *)
(* message is: the rows that the most specific handler makes of its        *)
(* entries, the error that is due, or all its alarms or notifications.     *)
(***************************************************************************)
EXTENDS Parser, FiniteSetTheorems, SequenceTheorems, WellFoundedInduction, TLAPS

PCs == {"idle", "unmarshal", "route", "alarm", "entry", "extract", "release", "deferred",
        "returned"}

\* Where a parser has its two objects.
HasOuter(g) == pc[g] \notin {"idle", "returned"}
HasInner(g) == pc[g] \in {"extract", "release"}

TypeInv ==
    /\ pc \in [Parsers -> PCs]
    /\ outer \in [Parsers -> Objects \cup {None}]
    /\ inner \in [Parsers -> Objects \cup {None}]
    /\ pooled \in [Objects -> {0, 1}]
    /\ DOMAIN content = Objects /\ DOMAIN raw = Parsers /\ DOMAIN out = Parsers
    /\ at \in [Parsers -> Nat \ {0}]

\* An object is in its pool, or in one hand of one parser.
Owned ==
    /\ \A g \in Parsers : /\ HasOuter(g) <=> outer[g] # None
                          /\ HasInner(g) <=> inner[g] # None
                          /\ HasInner(g) => inner[g] # outer[g]
    /\ \A o \in Objects :
          \/ pooled[o] = 1 /\ \A g \in Parsers : outer[g] # o /\ inner[g] # o
          \/ /\ pooled[o] = 0
             /\ \E g \in Parsers : /\ outer[g] = o \/ inner[g] = o
                                   /\ \A h \in Parsers \ {g} : outer[h] # o /\ inner[h] # o

PoolInv == TypeInv /\ Owned

\* None is no object.
LEMMA NoneIsNoObject == None \notin Objects
  BY DEF None, Objects, Pools

\* Every object begins in its pool.
LEMMA PoolInvInit == Init => PoolInv
  BY NoneIsNoObject DEF Init, PoolInv, TypeInv, Owned, PCs, HasOuter, HasInner

\* Get and Put move an object between its pool and one hand.
LEMMA PoolInvStep == PoolInv /\ [Next]_vars => PoolInv'
<1> SUFFICES ASSUME PoolInv, [Next]_vars
             PROVE  PoolInv'
  OBVIOUS
<1> USE NoneIsNoObject DEF PoolInv, TypeInv, Owned, PCs, HasOuter, HasInner
<1>1. ASSUME NEW g \in Parsers, Call(g)
      PROVE  PoolInv'
  BY <1>1, SMTT(30) DEF Call, Available, Get
<1>2. ASSUME NEW g \in Parsers, Unmarshal(g)
      PROVE  PoolInv'
  BY <1>2 DEF Unmarshal
<1>3. ASSUME NEW g \in Parsers, UnmarshalFails(g)
      PROVE  PoolInv'
  BY <1>3 DEF UnmarshalFails, Put
<1>4. ASSUME NEW g \in Parsers, RouteMessage(g)
      PROVE  PoolInv'
  BY <1>4 DEF RouteMessage, ReturnWith
<1>5. ASSUME NEW g \in Parsers, ParseAlarmEntry(g)
      PROVE  PoolInv'
  BY <1>5 DEF ParseAlarmEntry
<1>6. ASSUME NEW g \in Parsers, DecodeEntry(g)
      PROVE  PoolInv'
  BY <1>6 DEF DecodeEntry, Available, Get
<1>7. ASSUME NEW g \in Parsers, EntryFails(g)
      PROVE  PoolInv'
  <2>1. /\ pc[g] = "entry" /\ UNCHANGED <<raw, outer, inner, pooled>>
        /\ DOMAIN content' = DOMAIN content
        /\ DOMAIN out' = DOMAIN out
        /\ pc' = pc \/ pc' = [pc EXCEPT ![g] = "deferred"]
        /\ at' = at \/ at' = [at EXCEPT ![g] = at[g] + 1]
    BY <1>7 DEF EntryFails, ReturnWith, Available
  <2> QED
    BY <2>1
<1>8. ASSUME NEW g \in Parsers, Extract(g)
      PROVE  PoolInv'
  BY <1>8 DEF Extract
<1>9. ASSUME NEW g \in Parsers, Release(g)
      PROVE  PoolInv'
  BY <1>9 DEF Release, Put
<1>10. ASSUME NEW g \in Parsers, EndOfEntries(g)
       PROVE  PoolInv'
  BY <1>10 DEF EndOfEntries, ReturnWith
<1>11. ASSUME NEW g \in Parsers, Deferred(g)
       PROVE  PoolInv'
  BY <1>11 DEF Deferred, Put
<1>12. ASSUME NEW g \in Parsers, Consume(g)
       PROVE  PoolInv'
  BY <1>12 DEF Consume
<1>13. CASE UNCHANGED vars
  BY <1>13 DEF vars
<1> QED
  BY <1>1, <1>2, <1>3, <1>4, <1>5, <1>6, <1>7, <1>8, <1>9, <1>10, <1>11, <1>12, <1>13 DEF Next

\* No object is in two hands, however the parsers interleave.
THEOREM PoolsShared == Spec => []PoolsExclusive
<1>1. PoolInv => PoolsExclusive
  <2> SUFFICES ASSUME PoolInv, NEW o \in Objects
               PROVE  pooled[o] + Cardinality(Holders(o)) = 1
    BY DEF PoolsExclusive
  <2>1. CASE pooled[o] = 1 /\ \A g \in Parsers : outer[g] # o /\ inner[g] # o
    <3>1. Holders(o) = {}
      BY <2>1 DEF Holders
    <3>2. Cardinality({}) = 0
      BY FS_EmptySet
    <3> QED
      BY <2>1, <3>1, <3>2
  <2>2. ASSUME pooled[o] = 0, NEW g \in Parsers, outer[g] = o \/ inner[g] = o,
               \A h \in Parsers \ {g} : outer[h] # o /\ inner[h] # o
        PROVE  pooled[o] + Cardinality(Holders(o)) = 1
    <3>1. Holders(o) = {g}
      BY <2>2 DEF Holders
    <3>2. Cardinality({g}) = 1
      BY FS_Singleton
    <3> QED
      BY <2>2, <3>1, <3>2
  <2> QED
    BY <2>1, <2>2 DEF PoolInv, Owned
<1> QED
  BY <1>1, PoolInvInit, PoolInvStep, PTL DEF Spec

-----------------------------------------------------------------------------
(* What a parser has decoded.                                              *)

\* A parser that has decoded its message, or an entry of it.
HasMessage(g) == pc[g] \in {"route", "alarm", "entry", "extract", "release"}
HasEntry(g)   == pc[g] = "extract"

EntryOf(g) == raw[g].entries[at[g]]

Undisturbed ==
    \A g \in Parsers :
        /\ HasOuter(g) => raw[g] \in Messages[g]
        /\ HasMessage(g) => content[outer[g]] = raw[g] /\ raw[g].decodes
        /\ pc[g] = "alarm" => raw[g].alarm
        /\ pc[g] \in {"entry", "extract", "release"}
              => ~raw[g].alarm /\ FirstMatch(raw[g].path) # 0
        /\ HasEntry(g) => /\ at[g] <= Len(raw[g].entries)
                          /\ content[inner[g]] = EntryOf(g)

HeldInv == PoolInv /\ Undisturbed

\* Objects that a parser holds are not in the pool and not in other hands.
LEMMA Apart ==
    ASSUME PoolInv
    PROVE  /\ \A g \in Parsers : HasOuter(g) => outer[g] \in Objects /\ pooled[outer[g]] = 0
           /\ \A g \in Parsers : HasInner(g) => inner[g] \in Objects /\ pooled[inner[g]] = 0
           /\ \A g, h \in Parsers : g # h /\ HasOuter(g) =>
                 outer[g] # outer[h] /\ outer[g] # inner[h]
           /\ \A g, h \in Parsers : g # h /\ HasInner(g) =>
                 inner[g] # outer[h] /\ inner[g] # inner[h]
           /\ \A g \in Parsers : HasInner(g) => inner[g] # outer[g]
  BY NoneIsNoObject DEF PoolInv, TypeInv, Owned

\* The same of one parser.
UndisturbedAt(g) ==
    /\ HasOuter(g) => raw[g] \in Messages[g]
    /\ HasMessage(g) => content[outer[g]] = raw[g] /\ raw[g].decodes
    /\ pc[g] = "alarm" => raw[g].alarm
    /\ pc[g] \in {"entry", "extract", "release"}
          => ~raw[g].alarm /\ FirstMatch(raw[g].path) # 0
    /\ HasEntry(g) => /\ at[g] <= Len(raw[g].entries)
                      /\ content[inner[g]] = EntryOf(g)

\* A step of one parser that writes to no object but its own, or to one in a
\* pool, leaves the others undisturbed.
LEMMA OthersUndisturbed ==
    ASSUME PoolInv, NEW g \in Parsers, NEW h \in Parsers \ {g}, UndisturbedAt(h),
           pc'[h] = pc[h], raw'[h] = raw[h], outer'[h] = outer[h], inner'[h] = inner[h],
           at'[h] = at[h],
           \A o \in Objects : content'[o] # content[o] =>
              \/ pooled[o] # 0
              \/ HasOuter(g) /\ o = outer[g]
              \/ HasInner(g) /\ o = inner[g]
    PROVE  UndisturbedAt(h)'
<1>1. HasOuter(h) => content'[outer[h]] = content[outer[h]]
  BY Apart
<1>2. HasInner(h) => content'[inner[h]] = content[inner[h]]
  BY Apart
<1>3. (HasMessage(h) => HasOuter(h)) /\ (HasEntry(h) => HasInner(h))
  BY DEF HasMessage, HasOuter, HasEntry, HasInner
<1> QED
  BY <1>1, <1>2, <1>3 DEF UndisturbedAt, HasOuter, HasMessage, HasEntry, EntryOf

\* What a step leaves alone, by its parser.
Steady(g) ==
    \A h \in Parsers \ {g} :
        /\ pc'[h] = pc[h] /\ raw'[h] = raw[h] /\ outer'[h] = outer[h] /\ inner'[h] = inner[h]
        /\ at'[h] = at[h]

Writes(o) == \A p \in Objects : content'[p] # content[p] => p = o

\* Nobody writes to an object that another parser has in hand.
LEMMA UndisturbedStep == PoolInv /\ Undisturbed /\ [Next]_vars => Undisturbed'
<1> SUFFICES ASSUME PoolInv, Undisturbed, [Next]_vars
             PROVE  Undisturbed'
  OBVIOUS
<1>0. \A g \in Parsers : UndisturbedAt(g)
  BY DEF Undisturbed, UndisturbedAt
<1>a. ASSUME NEW g \in Parsers, Steady(g), UndisturbedAt(g)', NEW o,
             o \notin Objects \/ pooled[o] # 0 \/ (HasOuter(g) /\ o = outer[g]) \/ (HasInner(g) /\ o = inner[g]),
             Writes(o)
      PROVE  Undisturbed'
  <2>1. ASSUME NEW h \in Parsers \ {g}
        PROVE  UndisturbedAt(h)'
    <3>1. UndisturbedAt(h)
      BY <1>0
    <3>2. /\ pc'[h] = pc[h] /\ raw'[h] = raw[h] /\ outer'[h] = outer[h] /\ inner'[h] = inner[h]
          /\ at'[h] = at[h]
      BY <1>a DEF Steady
    <3>3. \A p \in Objects : content'[p] # content[p] =>
              \/ pooled[p] # 0
              \/ HasOuter(g) /\ p = outer[g]
              \/ HasInner(g) /\ p = inner[g]
      BY <1>a DEF Writes
    <3> QED
      BY <3>1, <3>2, <3>3, OthersUndisturbed
  <2>2. \A h \in Parsers : UndisturbedAt(h)'
    BY <1>a, <2>1
  <2> QED
    BY <2>2 DEF Undisturbed, UndisturbedAt
<1>b. TypeInv
  BY DEF PoolInv
<1> USE DEF TypeInv, UndisturbedAt, HasOuter, HasInner, HasMessage, HasEntry, EntryOf, Steady, Writes
<1>1. ASSUME NEW g \in Parsers, Call(g)
      PROVE  Undisturbed'
  <2>1. Steady(g) /\ UndisturbedAt(g)' /\ Writes(None)
    BY <1>b, <1>1 DEF Call
  <2> QED
    BY <1>a, <2>1, NoneIsNoObject
<1>2. ASSUME NEW g \in Parsers, Unmarshal(g)
      PROVE  Undisturbed'
  <2>1. HasOuter(g) /\ outer[g] \in Objects
    BY <1>2, Apart DEF Unmarshal
  <2>2. Steady(g) /\ UndisturbedAt(g)' /\ Writes(outer[g])
    BY <1>0, <1>b, <1>2, <2>1 DEF Unmarshal
  <2> QED
    BY <1>a, <2>1, <2>2
<1>3. ASSUME NEW g \in Parsers, UnmarshalFails(g)
      PROVE  Undisturbed'
  <2>1. HasOuter(g) /\ outer[g] \in Objects
    BY <1>3, Apart DEF UnmarshalFails
  <2>2. Steady(g) /\ UndisturbedAt(g)' /\ Writes(outer[g])
    BY <1>0, <1>b, <1>3, <2>1 DEF UnmarshalFails
  <2> QED
    BY <1>a, <2>1, <2>2
<1>4. ASSUME NEW g \in Parsers, RouteMessage(g)
      PROVE  Undisturbed'
  <2>1. Steady(g) /\ UndisturbedAt(g)' /\ Writes(None)
    BY <1>0, <1>b, <1>4 DEF RouteMessage, ReturnWith, Msg
  <2> QED
    BY <1>a, <2>1, NoneIsNoObject
<1>5. ASSUME NEW g \in Parsers, ParseAlarmEntry(g)
      PROVE  Undisturbed'
  <2>1. Steady(g) /\ UndisturbedAt(g)' /\ Writes(None)
    BY <1>0, <1>b, <1>5 DEF ParseAlarmEntry
  <2> QED
    BY <1>a, <2>1, NoneIsNoObject
<1>6. ASSUME NEW g \in Parsers, DecodeEntry(g)
      PROVE  Undisturbed'
  <2>1. PICK o \in Available(HandlerOf(g).pool) :
          /\ inner' = [inner EXCEPT ![g] = o]
          /\ content' = [content EXCEPT ![o] = Entry(g)]
    BY <1>6 DEF DecodeEntry
  <2>2. o \in Objects /\ pooled[o] # 0
    BY <1>b, <2>1 DEF Available
  <2>3. HasOuter(g) /\ outer[g] \in Objects /\ pooled[outer[g]] = 0 /\ o # outer[g]
    BY <1>6, <2>2, Apart DEF DecodeEntry
  <2>4. Msg(g) = raw[g] /\ Entry(g) = EntryOf(g) /\ at[g] <= Len(raw[g].entries)
    BY <1>0, <1>6 DEF DecodeEntry, Msg, MoreEntries, Entry
  <2>5. Steady(g) /\ UndisturbedAt(g)' /\ Writes(o)
    BY <1>0, <1>b, <1>6, <2>1, <2>2, <2>3, <2>4 DEF DecodeEntry
  <2> QED
    BY <1>a, <2>2, <2>5
<1>7. ASSUME NEW g \in Parsers, EntryFails(g)
      PROVE  Undisturbed'
  <2>1. PICK o \in Available(HandlerOf(g).pool) : content' = [content EXCEPT ![o] = Damaged]
    BY <1>7 DEF EntryFails
  <2>2. o \in Objects /\ pooled[o] # 0
    BY <1>b, <2>1 DEF Available
  <2>3. HasOuter(g) /\ outer[g] \in Objects /\ pooled[outer[g]] = 0 /\ o # outer[g]
    BY <1>7, <2>2, Apart DEF EntryFails
  <2>4. /\ pc[g] = "entry" /\ UNCHANGED <<raw, outer, inner>>
        /\ pc' = pc \/ pc' = [pc EXCEPT ![g] = "deferred"]
        /\ at' = at \/ at' = [at EXCEPT ![g] = at[g] + 1]
    BY <1>7 DEF EntryFails, ReturnWith
  <2>5. Steady(g) /\ UndisturbedAt(g)' /\ Writes(o)
    BY <1>0, <1>b, <2>1, <2>2, <2>3, <2>4
  <2> QED
    BY <1>a, <2>2, <2>5
<1>8. ASSUME NEW g \in Parsers, Extract(g)
      PROVE  Undisturbed'
  <2>1. Steady(g) /\ UndisturbedAt(g)' /\ Writes(None)
    BY <1>0, <1>b, <1>8 DEF Extract
  <2> QED
    BY <1>a, <2>1, NoneIsNoObject
<1>9. ASSUME NEW g \in Parsers, Release(g)
      PROVE  Undisturbed'
  <2>1. HasInner(g) /\ inner[g] \in Objects /\ HasOuter(g) /\ outer[g] # inner[g]
    BY <1>9, Apart DEF Release
  <2>2. Steady(g) /\ UndisturbedAt(g)' /\ Writes(inner[g])
    BY <1>0, <1>b, <1>9, <2>1 DEF Release
  <2> QED
    BY <1>a, <2>1, <2>2
<1>10. ASSUME NEW g \in Parsers, EndOfEntries(g)
       PROVE  Undisturbed'
  <2>1. Steady(g) /\ UndisturbedAt(g)' /\ Writes(None)
    BY <1>0, <1>b, <1>10 DEF EndOfEntries, ReturnWith
  <2> QED
    BY <1>a, <2>1, NoneIsNoObject
<1>11. ASSUME NEW g \in Parsers, Deferred(g)
       PROVE  Undisturbed'
  <2>1. HasOuter(g) /\ outer[g] \in Objects
    BY <1>11, Apart DEF Deferred
  <2>2. Steady(g) /\ UndisturbedAt(g)' /\ Writes(outer[g])
    BY <1>0, <1>b, <1>11, <2>1 DEF Deferred
  <2> QED
    BY <1>a, <2>1, <2>2
<1>12. ASSUME NEW g \in Parsers, Consume(g)
       PROVE  Undisturbed'
  <2>1. Steady(g) /\ UndisturbedAt(g)' /\ Writes(None)
    BY <1>0, <1>b, <1>12 DEF Consume
  <2> QED
    BY <1>a, <2>1, NoneIsNoObject
<1>13. CASE UNCHANGED vars
  BY <1>13 DEF vars, Undisturbed
<1> QED
  BY <1>1, <1>2, <1>3, <1>4, <1>5, <1>6, <1>7, <1>8, <1>9, <1>10, <1>11, <1>12, <1>13 DEF Next

-----------------------------------------------------------------------------
(* The metrics.                                                            *)

\* Sixteen routes, and how many metrics their handlers make of an entry.
LEMMA RouteYields ==
    Len(routes) = 16 /\ \A i \in 1 .. 16 : routes[i].handler.yield \in {"always", "one", "each"}
<1> USE DEF Route, Handler
<1>1. Len(routes) = 16
  BY DEF routes
<1>2. /\ routes[1].handler = parseComponentsData
      /\ routes[2].handler = parseComponentTransceiverState
      /\ routes[3].handler = parseComponentCPUState
      /\ routes[4].handler = parseComponentLinecardState
      /\ routes[5].handler = parseComponentPowerSupplyState
      /\ routes[6].handler = parseComponentFanState
      /\ routes[7].handler = parseComponentMemoryState
      /\ routes[8].handler = parseComponentStorageState
      /\ routes[9].handler = parseComponentTemperatureState
      /\ routes[10].handler = parseComponentState
      /\ routes[11].handler = parseSubinterfaceCounters
      /\ routes[12].handler = parseSubinterfaceZteState
      /\ routes[13].handler = parseSubinterfaceState
      /\ routes[14].handler = parseInterfaceCounters
      /\ routes[15].handler = parseInterfaceZteState
      /\ routes[16].handler = parseInterfaceState
  BY DEF routes
<1>3. /\ parseComponentsData.yield \in {"always", "one", "each"}
      /\ parseComponentTransceiverState.yield \in {"always", "one", "each"}
      /\ parseComponentCPUState.yield \in {"always", "one", "each"}
      /\ parseComponentLinecardState.yield \in {"always", "one", "each"}
      /\ parseComponentPowerSupplyState.yield \in {"always", "one", "each"}
      /\ parseComponentFanState.yield \in {"always", "one", "each"}
      /\ parseComponentMemoryState.yield \in {"always", "one", "each"}
      /\ parseComponentStorageState.yield \in {"always", "one", "each"}
      /\ parseComponentTemperatureState.yield \in {"always", "one", "each"}
      /\ parseComponentState.yield \in {"always", "one", "each"}
      /\ parseSubinterfaceCounters.yield \in {"always", "one", "each"}
      /\ parseSubinterfaceZteState.yield \in {"always", "one", "each"}
      /\ parseSubinterfaceState.yield \in {"always", "one", "each"}
      /\ parseInterfaceCounters.yield \in {"always", "one", "each"}
      /\ parseInterfaceZteState.yield \in {"always", "one", "each"}
      /\ parseInterfaceState.yield \in {"always", "one", "each"}
  BY DEF parseComponentsData, parseComponentTransceiverState, parseComponentCPUState,
         parseComponentLinecardState, parseComponentPowerSupplyState,
         parseComponentFanState, parseComponentMemoryState, parseComponentStorageState,
         parseComponentTemperatureState, parseComponentState, parseSubinterfaceCounters,
         parseSubinterfaceZteState, parseSubinterfaceState, parseInterfaceCounters,
         parseInterfaceZteState, parseInterfaceState
<1>4. \A i \in 1 .. 16 : i = 1 \/ i = 2 \/ i = 3 \/ i = 4 \/ i = 5 \/ i = 6 \/ i = 7 \/ i = 8
                         \/ i = 9 \/ i = 10 \/ i = 11 \/ i = 12 \/ i = 13 \/ i = 14 \/ i = 15 \/ i = 16
  OBVIOUS
<1> QED
  BY <1>1, <1>2, <1>3, <1>4

\* A set of natural numbers that is not empty has a least element.
LEMMA LeastElement ==
    ASSUME NEW I \in SUBSET Nat, I # {}
    PROVE  \E m \in I : \A i \in I : m <= i
<1>1. PICK m \in I : \A i \in I : ~(<<i, m>> \in OpToRel(<, Nat))
  BY NatLessThanWellFounded, WFMin
<1>2. \A i \in I : ~(i < m)
  BY <1>1 DEF OpToRel
<1> QED
  BY <1>2

\* The first match is a route.
LEMMA FirstMatchIsRoute ==
    ASSUME NEW path, FirstMatch(path) # 0
    PROVE  FirstMatch(path) \in 1 .. 16
<1>1. PICK I : I = {i \in 1 .. Len(routes) : Matches(routes[i], path)}
  OBVIOUS
<1>2. FirstMatch(path) = IF I # {} THEN Min(I) ELSE 0
  BY <1>1 DEF FirstMatch, SelectInSeq
<1>3. I \subseteq 1 .. 16 /\ I # {}
  BY <1>1, <1>2, RouteYields
<1>4. \E m \in I : \A i \in I : m <= i
  BY <1>3, LeastElement
<1>5. Min(I) \in I
  BY <1>4 DEF Min
<1> QED
  BY <1>2, <1>3, <1>5

\* Repeat yields a sequence of its element.
LEMMA RepeatIsSeq ==
    ASSUME NEW U, NEW row \in U, NEW n \in Nat
    PROVE  Repeat(row, n) \in Seq(U)
  BY DEF Repeat

\* The entry that a parser is at.
LEMMA EntryOfMessage ==
    ASSUME NEW g \in Parsers, raw[g] \in Messages[g], raw[g].decodes, at[g] \in Nat \ {0},
           at[g] <= Len(raw[g].entries)
    PROVE  EntryOf(g) \in Range(raw[g].entries) /\ EntryOf(g).n \in Nat /\ EntryOf(g).m \in Nat
<1>1. /\ raw[g].entries \in Seq(Range(raw[g].entries))
      /\ \A e \in Range(raw[g].entries) : e.n \in Nat /\ e.m \in Nat
  BY MessagesAssumption
<1>2. at[g] \in 1 .. Len(raw[g].entries)
  BY <1>1
<1>3. EntryOf(g) \in Range(raw[g].entries)
  BY <1>1, <1>2, ElementOfSeq DEF EntryOf
<1> QED
  BY <1>1, <1>3

\* A handler makes metrics of the message it is given.
LEMMA HandlerRowsAreOwn ==
    ASSUME NEW m, ~m.alarm, FirstMatch(m.path) # 0, NEW e \in Range(m.entries), e.n \in Nat
    PROVE  HandlerRows(routes[FirstMatch(m.path)].handler, m.system, e) \in Seq(MetricsOf(m))
<1>1. PICK h : h = routes[FirstMatch(m.path)].handler
  OBVIOUS
<1>2. h.yield \in {"always", "one", "each"}
  BY <1>1, FirstMatchIsRoute, RouteYields
<1>3. PICK row : row = [table |-> h.table, system |-> m.system, from |-> e.name]
  OBVIOUS
<1>4. row \in MetricsOf(m)
  BY <1>1, <1>3 DEF MetricsOf
<1>5. PICK n \in Nat : HandlerRows(h, m.system, e) = Repeat(row, n)
  <2>1. CASE h.yield = "always"
    BY <1>3, <2>1 DEF HandlerRows
  <2>2. CASE h.yield = "one"
    BY <1>3, <2>2 DEF HandlerRows
  <2>3. CASE h.yield = "each"
    BY <1>3, <2>3 DEF HandlerRows
  <2> QED
    BY <1>2, <2>1, <2>2, <2>3
<1> QED
  BY <1>1, <1>4, <1>5, RepeatIsSeq

\* So does the alarm parser.
LEMMA AlarmRowsAreOwn ==
    ASSUME NEW m, m.alarm, NEW e \in Range(m.entries), e.n \in Nat, e.m \in Nat
    PROVE  AlarmRows(m, e) \in Seq(MetricsOf(m))
<1>1. /\ AlarmRow(m.system, e) \in MetricsOf(m) /\ BlankAlarm(m.system) \in MetricsOf(m)
      /\ NoteRow(m.system, e) \in MetricsOf(m)
  BY DEF MetricsOf, AlarmRow, BlankAlarm, NoteRow
<1>2. /\ Repeat(AlarmRow(m.system, e), e.n) \in Seq(MetricsOf(m))
      /\ Repeat(NoteRow(m.system, e), e.m) \in Seq(MetricsOf(m))
  BY <1>1, RepeatIsSeq
<1>3. parseCurrentAlarmReportFromGpb(m.system, e) \in Seq(MetricsOf(m))
  <2>1. CASE e.kind = "alarmInfo" /\ e.n > 0
    BY <1>2, <2>1 DEF parseCurrentAlarmReportFromGpb
  <2>2. CASE e.kind = "alarmInfo" /\ e.n = 0
    BY <1>1, <2>2 DEF parseCurrentAlarmReportFromGpb
  <2>3. CASE e.kind = "currentAlarm"
    BY <1>1, <2>3 DEF parseCurrentAlarmReportFromGpb
  <2>4. CASE e.kind \notin {"alarmInfo", "currentAlarm"}
    BY <2>4 DEF parseCurrentAlarmReportFromGpb
  <2> QED
    BY <2>1, <2>2, <2>3, <2>4
<1>4. parseNotificationReportFromGpb(m.system, e) \in Seq(MetricsOf(m))
  BY <1>2 DEF parseNotificationReportFromGpb
<1> QED
  BY <1>3, <1>4 DEF AlarmRows

OutInv == \A g \in Parsers : out[g] \in Seq(MetricsOf(raw[g]))

\* A step that adds rows of the message of its parser to the result.
LEMMA OutInvStep == PoolInv /\ Undisturbed /\ OutInv /\ [Next]_vars => OutInv'
<1> SUFFICES ASSUME PoolInv, Undisturbed, OutInv, [Next]_vars
             PROVE  OutInv'
  OBVIOUS
<1>a. /\ DOMAIN raw = Parsers /\ DOMAIN out = Parsers /\ at \in [Parsers -> Nat \ {0}]
  BY DEF PoolInv, TypeInv
<1>b. ASSUME NEW g \in Parsers, NEW rows \in Seq(MetricsOf(raw[g])), UNCHANGED raw,
             out' = [out EXCEPT ![g] = rows]
      PROVE  OutInv'
  BY <1>a, <1>b DEF OutInv
<1>c. \A U : <<>> \in Seq(U)
  OBVIOUS
<1>1. ASSUME NEW g \in Parsers, Call(g)
      PROVE  OutInv'
  <2>1. \A h \in Parsers : out'[h] = IF h = g THEN <<>> ELSE out[h]
    BY <1>1, <1>a DEF Call
  <2>2. \A h \in Parsers \ {g} : raw'[h] = raw[h]
    BY <1>1, <1>a DEF Call
  <2> QED
    BY <1>c, <2>1, <2>2 DEF OutInv
<1>2. ASSUME NEW g \in Parsers, Unmarshal(g) \/ UnmarshalFails(g) \/ DecodeEntry(g) \/ Release(g)
                               \/ Deferred(g) \/ UNCHANGED vars
      PROVE  OutInv'
  <2>1. UNCHANGED <<raw, out>>
    BY <1>2 DEF Unmarshal, UnmarshalFails, DecodeEntry, Release, Deferred, vars
  <2> QED
    BY <2>1 DEF OutInv
<1>3. ASSUME NEW g \in Parsers, RouteMessage(g) \/ EntryFails(g) \/ EndOfEntries(g)
      PROVE  OutInv'
  <2>1. UNCHANGED raw /\ (out' = out \/ out' = [out EXCEPT ![g] = <<>>] \/ out' = [out EXCEPT ![g] = out[g]])
    BY <1>3 DEF RouteMessage, EntryFails, EndOfEntries, ReturnWith
  <2> QED
    BY <1>b, <1>c, <2>1 DEF OutInv
<1>4. ASSUME NEW g \in Parsers, ParseAlarmEntry(g)
      PROVE  OutInv'
  <2>1. /\ pc[g] = "alarm" /\ UNCHANGED raw
        /\ out' = [out EXCEPT ![g] = out[g] \o AlarmRows(Msg(g), Entry(g))]
        /\ at[g] <= Len(Msg(g).entries)
    BY <1>4 DEF ParseAlarmEntry, MoreEntries
  <2>2. /\ Msg(g) = raw[g] /\ Entry(g) = EntryOf(g)
        /\ raw[g] \in Messages[g] /\ raw[g].decodes /\ raw[g].alarm
    BY <2>1 DEF Undisturbed, HasOuter, HasMessage, Msg, Entry, EntryOf
  <2>3. EntryOf(g) \in Range(raw[g].entries) /\ EntryOf(g).n \in Nat /\ EntryOf(g).m \in Nat
    BY <1>a, <2>1, <2>2, EntryOfMessage
  <2>4. AlarmRows(raw[g], EntryOf(g)) \in Seq(MetricsOf(raw[g]))
    BY <2>2, <2>3, AlarmRowsAreOwn
  <2>5. out[g] \o AlarmRows(raw[g], EntryOf(g)) \in Seq(MetricsOf(raw[g]))
    BY <2>4, ConcatProperties DEF OutInv
  <2> QED
    BY <1>b, <2>1, <2>2, <2>5
<1>5. ASSUME NEW g \in Parsers, Extract(g)
      PROVE  OutInv'
  <2>1. /\ pc[g] = "extract" /\ UNCHANGED raw
        /\ out' = [out EXCEPT ![g] =
                      out[g] \o HandlerRows(HandlerOf(g), Msg(g).system, content[inner[g]])]
    BY <1>5 DEF Extract
  <2>2. /\ Msg(g) = raw[g] /\ content[inner[g]] = EntryOf(g)
        /\ HandlerOf(g) = routes[FirstMatch(raw[g].path)].handler
        /\ raw[g] \in Messages[g] /\ raw[g].decodes /\ ~raw[g].alarm
        /\ FirstMatch(raw[g].path) # 0 /\ at[g] <= Len(raw[g].entries)
    BY <2>1 DEF Undisturbed, HasOuter, HasMessage, HasEntry, Msg, HandlerOf
  <2>3. EntryOf(g) \in Range(raw[g].entries) /\ EntryOf(g).n \in Nat
    BY <1>a, <2>2, EntryOfMessage
  <2>4. HandlerRows(HandlerOf(g), raw[g].system, EntryOf(g)) \in Seq(MetricsOf(raw[g]))
    BY <2>2, <2>3, HandlerRowsAreOwn
  <2>5. out[g] \o HandlerRows(HandlerOf(g), raw[g].system, EntryOf(g)) \in Seq(MetricsOf(raw[g]))
    BY <2>4, ConcatProperties DEF OutInv
  <2> QED
    BY <1>b, <2>1, <2>2, <2>5
<1>6. ASSUME NEW g \in Parsers, Consume(g)
      PROVE  OutInv'
  <2>1. \A h \in Parsers : out'[h] = IF h = g THEN <<>> ELSE out[h]
    BY <1>6, <1>a DEF Consume
  <2>2. \A h \in Parsers \ {g} : raw'[h] = raw[h]
    BY <1>6, <1>a DEF Consume
  <2> QED
    BY <1>c, <2>1, <2>2 DEF OutInv
<1>7. CASE UNCHANGED vars
  BY <1>7 DEF vars, OutInv
<1> QED
  BY <1>1, <1>2, <1>3, <1>4, <1>5, <1>6, <1>7 DEF Next

\* No result has a metric of another message in it, for any number of parsers
\* and any messages.
THEOREM ResultsAreOwn == Spec => []OwnMetricsOnly
<1>1. Init => Undisturbed /\ OutInv
  BY DEF Init, Undisturbed, HasOuter, HasMessage, HasEntry, OutInv
<1>2. OutInv => OwnMetricsOnly
  <2> SUFFICES ASSUME OutInv, NEW g \in Parsers, NEW i \in DOMAIN out[g]
               PROVE  out[g][i] \in MetricsOf(raw[g])
    BY DEF OwnMetricsOnly
  <2>1. out[g] \in Seq(MetricsOf(raw[g]))
    BY DEF OutInv
  <2> QED
    BY <2>1
<1> QED
  BY <1>1, <1>2, PoolInvInit, PoolInvStep, UndisturbedStep, OutInvStep, PTL DEF Spec

-----------------------------------------------------------------------------
(* Flattening.  FlattenSeq is a function on the positions of its argument; *)
(* what holds at one position holds at the next.                           *)

\* Induction, with a set in place of a predicate.
LEMMA Induction ==
    ASSUME NEW S, 0 \in S, \A n \in Nat : n \in S => n + 1 \in S
    PROVE  Nat \subseteq S
<1> SUFFICES ASSUME Nat \ S # {} PROVE FALSE
  OBVIOUS
<1>1. PICK m \in Nat \ S : \A i \in Nat \ S : m <= i
  BY LeastElement
<1>2. m # 0 /\ m - 1 \in Nat /\ m - 1 \in S /\ (m - 1) + 1 = m
  BY <1>1
<1> QED
  BY <1>1, <1>2

\* The function that FlattenSeq computes, up to n.
Flattening(f, s, n) == f = [i \in 1 .. n |-> IF i = 1 THEN s[i] ELSE f[i - 1] \o s[i]]

\* Its values, one by one.
LEMMA FlatteningAt ==
    ASSUME NEW f, NEW s, NEW n, Flattening(f, s, n)
    PROVE  \A i \in 1 .. n : f[i] = IF i = 1 THEN s[i] ELSE f[i - 1] \o s[i]
  BY DEF Flattening

\* There is such a function.
LEMMA FlatteningExists == \A s : \A n \in Nat : \E f : Flattening(f, s, n)
<1> SUFFICES ASSUME NEW s PROVE \A n \in Nat : \E f : Flattening(f, s, n)
  OBVIOUS
<1>1. PICK S : S = {n \in Nat : \E f : Flattening(f, s, n)}
  OBVIOUS
<1>2. 0 \in S
  <2>1. PICK f : f = [i \in 1 .. 0 |-> s[i]]
    OBVIOUS
  <2>2. Flattening(f, s, 0)
    BY <2>1 DEF Flattening
  <2> QED
    BY <1>1, <2>2
<1>3. ASSUME NEW n \in Nat, n \in S
      PROVE  n + 1 \in S
  <2>1. PICK f : Flattening(f, s, n)
    BY <1>1, <1>3
  <2>2. PICK g : g = [i \in 1 .. n + 1 |-> IF i = 1 THEN s[i] ELSE f[i - 1] \o s[i]]
    OBVIOUS
  <2>3. ASSUME NEW i \in 1 .. n PROVE g[i] = f[i]
    <3>1. i \in 1 .. n + 1
      OBVIOUS
    <3>2. f[i] = IF i = 1 THEN s[i] ELSE f[i - 1] \o s[i]
      BY <2>1, FlatteningAt
    <3> QED
      BY <2>2, <3>1, <3>2
  <2>4. \A i \in 1 .. n + 1 : i # 1 => i - 1 \in 1 .. n
    OBVIOUS
  <2>5. g = [i \in 1 .. n + 1 |-> IF i = 1 THEN s[i] ELSE g[i - 1] \o s[i]]
    BY <2>2, <2>3, <2>4
  <2>6. Flattening(g, s, n + 1)
    BY <2>5 DEF Flattening
  <2> QED
    BY <1>1, <2>6
<1> QED
  BY <1>1, <1>2, <1>3, Induction

\* What its values are.
LEMMA FlatteningValues ==
    ASSUME NEW f, NEW s, NEW n \in Nat, Flattening(f, s, n)
    PROVE  /\ n # 0 => f[1] = s[1]
           /\ \A i \in 1 .. n : i + 1 <= n => f[i + 1] = f[i] \o s[i + 1]
<1>1. \A i \in 1 .. n : f[i] = IF i = 1 THEN s[i] ELSE f[i - 1] \o s[i]
  BY FlatteningAt
<1>3. n # 0 => 1 \in 1 .. n
  OBVIOUS
<1>4. n # 0 => f[1] = s[1]
  BY <1>1, <1>3
<1>2. ASSUME NEW i \in 1 .. n, i + 1 <= n
      PROVE  f[i + 1] = f[i] \o s[i + 1]
  <2>1. i + 1 \in 1 .. n /\ i + 1 # 1 /\ (i + 1) - 1 = i
    BY <1>2
  <2> QED
    BY <1>1, <2>1
<1> QED
  BY <1>2, <1>4

\* FlattenSeq is its last value.
LEMMA FlattenIs ==
    ASSUME NEW V, NEW s \in Seq(V), Len(s) # 0
    PROVE  \E f : Flattening(f, s, Len(s)) /\ FlattenSeq(s) = f[Len(s)]
<1>1. FlattenSeq(s) = (CHOOSE f : f = [i \in 1 .. Len(s) |-> IF i = 1 THEN s[i] ELSE f[i - 1] \o s[i]])[Len(s)]
  BY DEF FlattenSeq
<1>2. FlattenSeq(s) = (CHOOSE f : Flattening(f, s, Len(s)))[Len(s)]
  BY <1>1 DEF Flattening
<1>3. \E f : Flattening(f, s, Len(s))
  BY FlatteningExists, LenProperties
<1> QED
  BY <1>2, <1>3, Zenon

\* Sequences that begin alike flatten alike.
LEMMA FlatteningAgrees ==
    ASSUME NEW f, NEW g, NEW s, NEW t, NEW n \in Nat, NEW m \in Nat, n <= m,
           Flattening(f, s, n), Flattening(g, t, m), \A i \in 1 .. n : s[i] = t[i]
    PROVE  \A i \in 1 .. n : f[i] = g[i]
<1>1. PICK S : S = {k \in Nat : 1 <= k /\ k <= n => f[k] = g[k]}
  OBVIOUS
<1>2. 0 \in S
  BY <1>1
<1>3. ASSUME NEW k \in Nat, k \in S
      PROVE  k + 1 \in S
  <2> SUFFICES ASSUME k + 1 <= n PROVE f[k + 1] = g[k + 1]
    BY <1>1
  <2>1. CASE k = 0
    <3>1. n # 0 /\ m # 0 /\ 1 \in 1 .. n
      BY <2>1
    <3>2. f[1] = s[1]
      BY <3>1, FlatteningValues, ZenonT(40)
    <3>3. g[1] = t[1]
      BY <3>1, FlatteningValues, ZenonT(40)
    <3> QED
      BY <2>1, <3>1, <3>2, <3>3
  <2>2. CASE k # 0
    <3>1. k \in 1 .. n /\ k \in 1 .. m /\ k + 1 <= m /\ k + 1 \in 1 .. n
      BY <2>2
    <3>2. f[k + 1] = f[k] \o s[k + 1]
      BY <3>1, FlatteningValues, ZenonT(40)
    <3>3. g[k + 1] = g[k] \o t[k + 1]
      BY <3>1, FlatteningValues, ZenonT(40)
    <3>4. f[k] = g[k]
      BY <1>1, <1>3, <3>1
    <3> QED
      BY <3>1, <3>2, <3>3, <3>4
  <2> QED
    BY <2>1, <2>2
<1>4. \A k \in Nat : k \in S
  BY <1>2, <1>3, Induction
<1> QED
  BY <1>1, <1>4

\* Nothing flattens to nothing.
LEMMA FlattenNone ==
    ASSUME NEW U, NEW s \in Seq(U), Len(s) = 0
    PROVE  s = <<>> /\ FlattenSeq(s) = <<>>
<1>1. s = <<>>
  BY EmptySeq
<1>2. FlattenSeq(s) = s
  BY Zenon DEF FlattenSeq
<1> QED
  BY <1>1, <1>2

\* One sequence more is one concatenation more.
LEMMA FlattenMore ==
    ASSUME NEW U, NEW s \in Seq(Seq(U)), NEW t \in Seq(U)
    PROVE  FlattenSeq(s \o <<t>>) = FlattenSeq(s) \o t
<1>1. PICK v : v = s \o <<t>>
  OBVIOUS
<1>2. PICK n \in Nat : n = Len(s)
  OBVIOUS
<1>3. v \in Seq(Seq(U)) /\ Len(v) = n + 1 /\ v[n + 1] = t /\ \A i \in 1 .. n : s[i] = v[i]
  BY <1>1, <1>2
<1>a. Len(v) # 0
  BY <1>3
<1>b. PICK g : Flattening(g, v, Len(v)) /\ FlattenSeq(v) = g[Len(v)]
  BY <1>3, <1>a, FlattenIs
<1>4. Flattening(g, v, n + 1) /\ FlattenSeq(v) = g[n + 1]
  BY <1>3, <1>b
<1>5. CASE n = 0
  <2>0. g[1] = v[1]
    <3>1. n + 1 \in Nat /\ n + 1 # 0
      OBVIOUS
    <3> QED
      BY <1>4, <3>1, FlatteningValues
  <2>1. FlattenSeq(v) = t
    BY <1>3, <1>4, <1>5, <2>0
  <2>2. s = <<>> /\ FlattenSeq(s) = <<>>
    BY <1>2, <1>5, FlattenNone
  <2> QED
    BY <1>1, <2>1, <2>2
<1>6. CASE n # 0
  <2>1. PICK f : Flattening(f, s, n) /\ FlattenSeq(s) = f[n]
    BY <1>2, <1>6, FlattenIs
  <2>2. f[n] = g[n]
    <3>0. PICK m \in Nat : m = n + 1
      OBVIOUS
    <3>3. n <= m /\ Flattening(g, v, m)
      BY <1>4, <3>0
    <3>2. \A i \in 1 .. n : s[i] = v[i]
      BY <1>3
    <3>1. \A i \in 1 .. n : f[i] = g[i]
      BY <2>1, <3>2, <3>3, FlatteningAgrees
    <3> QED
      BY <1>6, <3>1
  <2>3. g[n + 1] = g[n] \o v[n + 1]
    <3>1. n + 1 \in Nat /\ n \in 1 .. n + 1 /\ n + 1 <= n + 1
      BY <1>6
    <3> QED
      BY <1>4, <3>1, FlatteningValues
  <2> QED
    BY <1>1, <1>3, <1>4, <2>1, <2>2, <2>3
<1> QED
  BY <1>5, <1>6

\* The flattened sequence is one of the elements of its parts.
LEMMA FlattenIsSeq ==
    ASSUME NEW U, NEW s \in Seq(Seq(U))
    PROVE  FlattenSeq(s) \in Seq(U)
<1>1. PICK n \in Nat : n = Len(s)
  OBVIOUS
<1>2. CASE n = 0
  <2>1. FlattenSeq(s) = <<>>
    BY <1>1, <1>2, FlattenNone
  <2> QED
    BY <2>1
<1>3. CASE n # 0
  <2>1. PICK f : Flattening(f, s, n) /\ FlattenSeq(s) = f[n]
    BY <1>1, <1>3, FlattenIs
  <2>2. PICK S : S = {k \in Nat : 1 <= k /\ k <= n => f[k] \in Seq(U)}
    OBVIOUS
  <2>3. 0 \in S
    BY <2>2
  <2>4. ASSUME NEW k \in Nat, k \in S
        PROVE  k + 1 \in S
    <3> SUFFICES ASSUME k + 1 <= n PROVE f[k + 1] \in Seq(U)
      BY <2>2
    <3>0. s[k + 1] \in Seq(U)
      <4>1. k + 1 \in 1 .. Len(s)
        BY <1>1
      <4> QED
        BY <4>1, ElementOfSeq
    <3>1. CASE k = 0
      <4>1. f[1] = s[1]
        BY <1>3, <2>1, FlatteningValues
      <4> QED
        BY <3>0, <3>1, <4>1
    <3>2. CASE k # 0
      <4>1. k \in 1 .. n
        BY <3>2
      <4>2. f[k + 1] = f[k] \o s[k + 1]
        BY <2>1, <4>1, FlatteningValues
      <4>3. f[k] \in Seq(U)
        BY <2>2, <2>4, <4>1
      <4> QED
        BY <3>0, <4>2, <4>3
    <3> QED
      BY <3>1, <3>2
  <2>5. n \in S
    BY <2>3, <2>4, Induction
  <2> QED
    BY <1>3, <2>1, <2>2, <2>5
<1> QED
  BY <1>2, <1>3

\* A sequence grows by its next element.
LEMMA SubSeqGrows ==
    ASSUME NEW V, NEW s \in Seq(V), NEW k \in Nat, k + 1 <= Len(s)
    PROVE  /\ SubSeq(s, 1, k) \in Seq(V) /\ Len(SubSeq(s, 1, k)) = k
           /\ s[k + 1] \in V
           /\ SubSeq(s, 1, k + 1) = SubSeq(s, 1, k) \o <<s[k + 1]>>
<1>1. PICK n \in Nat : n = k + 1
  OBVIOUS
<1>2. 1 \in 1 .. Len(s) /\ n \in 1 .. Len(s) /\ n - 1 = k
  BY <1>1
<1>3. SubSeq(s, 1, n) = SubSeq(s, 1, n - 1) \o <<s[n]>>
  BY <1>2, SubSeqRecursiveSecond
<1>4. s[n] \in V
  BY <1>2, ElementOfSeq
<1>5. SubSeq(s, 1, k) \in Seq(V) /\ Len(SubSeq(s, 1, k)) = k
  <2>1. \A i \in 1 .. k : s[i] \in V
    BY ElementOfSeq
  <2>2. k \in Int /\ 1 \in Int
    OBVIOUS
  <2> QED
    BY <2>1, <2>2, SubSeqProperties
<1> QED
  BY <1>1, <1>2, <1>3, <1>4, <1>5

\* A sequence of one element.
LEMMA OneLong ==
    ASSUME NEW V, NEW x \in V
    PROVE  <<x>> \in Seq(V)
  OBVIOUS

IsJoin(x, V, a, b) == a \in Seq(V) /\ b \in Seq(V) /\ x = a \o b

\* Concatenation is associative.
LEMMA JoinsAssociate ==
    ASSUME NEW V, NEW a, NEW b, NEW c, NEW d, NEW e, NEW x,
           IsJoin(d, V, a, b), IsJoin(e, V, b, c), IsJoin(x, V, d, c)
    PROVE  IsJoin(x, V, a, e)
  BY ConcatAssociative, SMTT(30) DEF IsJoin

\* FlattenSeq distributes over concatenation, one element more.
LEMMA FlattenJoinMore ==
    ASSUME NEW U, NEW s \in Seq(Seq(U)), NEW p \in Seq(Seq(U)), NEW q \in Seq(U),
           FlattenSeq(s \o p) = FlattenSeq(s) \o FlattenSeq(p)
    PROVE  FlattenSeq(s \o (p \o <<q>>)) = FlattenSeq(s) \o FlattenSeq(p \o <<q>>)
<1>1. s \o (p \o <<q>>) = (s \o p) \o <<q>> /\ s \o p \in Seq(Seq(U))
  <2>1. <<q>> \in Seq(Seq(U))
    BY OneLong
  <2>2. s \o p \in Seq(Seq(U)) /\ p \o <<q>> \in Seq(Seq(U))
    BY <2>1, ConcatProperties
  <2>3. PICK d : d = s \o p
    OBVIOUS
  <2>4. PICK e : e = p \o <<q>>
    OBVIOUS
  <2>5. PICK x : x = d \o <<q>>
    OBVIOUS
  <2>6. IsJoin(d, Seq(U), s, p) /\ IsJoin(e, Seq(U), p, <<q>>) /\ IsJoin(x, Seq(U), d, <<q>>)
    BY <2>1, <2>2, <2>3, <2>4, <2>5 DEF IsJoin
  <2>7. IsJoin(x, Seq(U), s, e)
    BY <2>6, JoinsAssociate
  <2> QED
    BY <2>2, <2>3, <2>4, <2>5, <2>7 DEF IsJoin
<1>2. FlattenSeq((s \o p) \o <<q>>) = FlattenSeq(s \o p) \o q
  BY <1>1, FlattenMore
<1>3. FlattenSeq(p \o <<q>>) = FlattenSeq(p) \o q
  BY FlattenMore
<1>4. (FlattenSeq(s) \o FlattenSeq(p)) \o q = FlattenSeq(s) \o (FlattenSeq(p) \o q)
  <2>1. PICK a \in Seq(U) : a = FlattenSeq(s)
    BY FlattenIsSeq
  <2>2. PICK b \in Seq(U) : b = FlattenSeq(p)
    BY FlattenIsSeq
  <2>3. (a \o b) \o q = a \o (b \o q)
    BY SMTT(30)
  <2> QED
    BY <2>1, <2>2, <2>3
<1> QED
  BY <1>1, <1>2, <1>3, <1>4

\* FlattenSeq distributes over concatenation.
LEMMA FlattenJoin ==
    ASSUME NEW U, NEW s \in Seq(Seq(U)), NEW t \in Seq(Seq(U))
    PROVE  FlattenSeq(s \o t) = FlattenSeq(s) \o FlattenSeq(t)
<1>0. FlattenSeq(s) \in Seq(U)
  BY FlattenIsSeq
<1> DEFINE Part(k) == SubSeq(t, 1, k)
<1>1. PICK S : S = {k \in Nat : k <= Len(t) => FlattenSeq(s \o Part(k)) = FlattenSeq(s) \o FlattenSeq(Part(k))}
  OBVIOUS
<1>2. 0 \in S
  <2>1. Part(0) = <<>>
    OBVIOUS
  <2>2. s \o <<>> = s /\ FlattenSeq(<<>>) = <<>> /\ FlattenSeq(s) \o <<>> = FlattenSeq(s)
    <3>1. <<>> \in Seq(Seq(U)) /\ Len(<<>>) = 0
      OBVIOUS
    <3> QED
      BY <1>0, <3>1, FlattenNone, ConcatEmptySeq
  <2> QED
    BY <1>1, <2>1, <2>2
<1>3. ASSUME NEW k \in Nat, k \in S
      PROVE  k + 1 \in S
  <2> SUFFICES ASSUME k + 1 <= Len(t)
               PROVE  FlattenSeq(s \o Part(k + 1)) = FlattenSeq(s) \o FlattenSeq(Part(k + 1))
    BY <1>1
  <2>1. PICK p \in Seq(Seq(U)) : p = Part(k)
    BY SubSeqGrows
  <2>2. PICK q \in Seq(U) : q = t[k + 1]
    BY SubSeqGrows
  <2>3. Part(k + 1) = p \o <<q>>
    BY <2>1, <2>2, SubSeqGrows
  <2>4. FlattenSeq(s \o p) = FlattenSeq(s) \o FlattenSeq(p)
    BY <1>1, <1>3, <2>1
  <2>5. FlattenSeq(s \o (p \o <<q>>)) = FlattenSeq(s) \o FlattenSeq(p \o <<q>>)
    BY <2>4, FlattenJoinMore
  <2> QED
    BY <2>1, <2>2, <2>3, <2>5
<1>4. Len(t) \in S
  <2>1. Nat \subseteq S
    BY <1>2, <1>3, Induction
  <2> QED
    BY <2>1, LenProperties
<1>5. FlattenSeq(s \o Part(Len(t))) = FlattenSeq(s) \o FlattenSeq(Part(Len(t)))
  <2>1. PICK n : n = Len(t)
    OBVIOUS
  <2>2. n \in S /\ n <= n
    BY <1>1, <1>4, <2>1
  <2> QED
    BY <1>1, <2>1, <2>2
<1>6. Part(Len(t)) = t
  BY SubSeqFull
<1> QED
  BY <1>5, <1>6

-----------------------------------------------------------------------------
(* Blank metrics.                                                          *)

\* The metrics of a result, those without content replaced by nothing.
Marks(rs) == [i \in DOMAIN rs |-> IF rs[i].from = "nothing" THEN <<>> ELSE <<rs[i]>>]

\* NotBlank flattens them.
LEMMA NotBlankFlattens == \A rs : NotBlank(rs) = FlattenSeq(Marks(rs))
  BY DEF NotBlank, Marks

\* They are a sequence of sequences.
LEMMA MarksAre ==
    ASSUME NEW U, NEW rs \in Seq(U)
    PROVE  /\ Marks(rs) \in Seq(Seq(U)) /\ Len(Marks(rs)) = Len(rs)
           /\ \A i \in 1 .. Len(rs) : Marks(rs)[i] = IF rs[i].from = "nothing" THEN <<>> ELSE <<rs[i]>>
<1>1. DOMAIN rs = 1 .. Len(rs) /\ Len(rs) \in Nat
  BY LenProperties
<1>2. PICK n \in Nat : n = Len(rs)
  BY <1>1
<1>3. \A i \in 1 .. n : rs[i] \in U
  BY <1>2, ElementOfSeq
<1>4. \A i \in 1 .. n : (IF rs[i].from = "nothing" THEN <<>> ELSE <<rs[i]>>) \in Seq(U)
  BY <1>3
<1>5. Marks(rs) = [i \in 1 .. n |-> IF rs[i].from = "nothing" THEN <<>> ELSE <<rs[i]>>]
  BY <1>1, <1>2 DEF Marks
<1> QED
  BY <1>2, <1>4, <1>5

\* A metric that is none of the blank ones, and one that is.
LEMMA NotBlankOne ==
    ASSUME NEW U, NEW x \in U
    PROVE  NotBlank(<<x>>) = IF x.from = "nothing" THEN <<>> ELSE <<x>>
<1>1. PICK y : y = IF x.from = "nothing" THEN <<>> ELSE <<x>>
  OBVIOUS
<1>2. y \in Seq(U)
  BY <1>1
<1>3. Marks(<<x>>) = <<y>>
  BY <1>1 DEF Marks
<1>4. FlattenSeq(<<>> \o <<y>>) = FlattenSeq(<<>>) \o y
  <2>1. <<>> \in Seq(Seq(U))
    OBVIOUS
  <2> QED
    BY <1>2, <2>1, FlattenMore
<1>5. <<>> \o <<y>> = <<y>> /\ FlattenSeq(<<>>) = <<>> /\ <<>> \o y = y
  <2>1. <<>> \in Seq(U) /\ Len(<<>>) = 0 /\ <<y>> \in Seq(Seq(U))
    BY <1>2
  <2> QED
    BY <1>2, <2>1, FlattenNone, ConcatEmptySeq
<1> QED
  BY <1>1, <1>3, <1>4, <1>5, NotBlankFlattens

\* NotBlank distributes over concatenation.
LEMMA NotBlankJoin ==
    ASSUME NEW U, NEW rs \in Seq(U), NEW qs \in Seq(U)
    PROVE  NotBlank(rs \o qs) = NotBlank(rs) \o NotBlank(qs) /\ NotBlank(rs) \in Seq(U)
<1>1. PICK js \in Seq(U) : js = rs \o qs
  BY ConcatProperties
<1>2. /\ Len(js) = Len(rs) + Len(qs)
      /\ \A i \in 1 .. Len(js) : js[i] = IF i <= Len(rs) THEN rs[i] ELSE qs[i - Len(rs)]
  BY <1>1, ConcatProperties
<1>3. PICK a \in Seq(Seq(U)) : a = Marks(rs)
  BY MarksAre
<1>4. PICK b \in Seq(Seq(U)) : b = Marks(qs)
  BY MarksAre
<1>5. PICK c \in Seq(Seq(U)) : c = Marks(js)
  BY MarksAre
<1>6. c = a \o b
  <2>1. Len(c) = Len(a) + Len(b) /\ Len(a) = Len(rs) /\ Len(b) = Len(qs)
    BY <1>2, <1>3, <1>4, <1>5, MarksAre
  <2>2. a \o b \in Seq(Seq(U)) /\ Len(a \o b) = Len(a) + Len(b)
    BY ConcatProperties
  <2>3. ASSUME NEW i \in 1 .. Len(c)
        PROVE  c[i] = (a \o b)[i]
    <3>1. (a \o b)[i] = IF i <= Len(a) THEN a[i] ELSE b[i - Len(a)]
      BY <2>1, ConcatProperties
    <3>2. js[i] = IF i <= Len(rs) THEN rs[i] ELSE qs[i - Len(rs)]
      BY <1>2, <2>1
    <3>3. c[i] = IF js[i].from = "nothing" THEN <<>> ELSE <<js[i]>>
      BY <1>2, <1>5, <2>1, MarksAre
    <3>4. CASE i <= Len(rs)
      <4>1. i \in 1 .. Len(rs)
        BY <3>4
      <4>2. a[i] = IF rs[i].from = "nothing" THEN <<>> ELSE <<rs[i]>>
        BY <1>3, <4>1, MarksAre
      <4> QED
        BY <2>1, <3>1, <3>2, <3>3, <3>4, <4>2
    <3>5. CASE ~(i <= Len(rs))
      <4>1. PICK j : j = i - Len(rs)
        OBVIOUS
      <4>2. j \in 1 .. Len(qs)
        BY <2>1, <3>5, <4>1
      <4>3. b[j] = IF qs[j].from = "nothing" THEN <<>> ELSE <<qs[j]>>
        BY <1>4, <4>2, MarksAre
      <4> QED
        BY <2>1, <3>1, <3>2, <3>3, <3>5, <4>1, <4>3
    <3> QED
      BY <3>4, <3>5
  <2> QED
    BY <2>1, <2>2, <2>3, SeqEqual
<1> QED
  BY <1>1, <1>3, <1>4, <1>5, <1>6, FlattenJoin, FlattenIsSeq, NotBlankFlattens

\* Nothing is taken from metrics that are not blank.
LEMMA NotBlankAll ==
    ASSUME NEW U, NEW rs \in Seq(U), \A x \in U : x.from # "nothing"
    PROVE  NotBlank(rs) = rs
<1> DEFINE Part(k) == SubSeq(rs, 1, k)
<1>1. PICK S : S = {k \in Nat : k <= Len(rs) => NotBlank(Part(k)) = Part(k)}
  OBVIOUS
<1>2. 0 \in S
  <2>1. Part(0) = <<>>
    OBVIOUS
  <2>2. Marks(<<>>) = <<>>
    BY DEF Marks
  <2>3. FlattenSeq(<<>>) = <<>>
    <3>1. <<>> \in Seq(U) /\ Len(<<>>) = 0
      OBVIOUS
    <3> QED
      BY <3>1, FlattenNone
  <2> QED
    BY <1>1, <2>1, <2>2, <2>3, NotBlankFlattens
<1>3. ASSUME NEW k \in Nat, k \in S
      PROVE  k + 1 \in S
  <2> SUFFICES ASSUME k + 1 <= Len(rs) PROVE NotBlank(Part(k + 1)) = Part(k + 1)
    BY <1>1
  <2>1. PICK p \in Seq(U) : p = Part(k)
    BY SubSeqGrows
  <2>2. PICK x \in U : x = rs[k + 1]
    BY SubSeqGrows
  <2>3. Part(k + 1) = p \o <<x>>
    BY <2>1, <2>2, SubSeqGrows
  <2>4. NotBlank(p) = p
    BY <1>1, <1>3, <2>1
  <2>5. NotBlank(<<x>>) = <<x>>
    BY NotBlankOne
  <2>6. NotBlank(p \o <<x>>) = NotBlank(p) \o NotBlank(<<x>>)
    <3>1. <<x>> \in Seq(U)
      OBVIOUS
    <3> QED
      BY <3>1, NotBlankJoin
  <2> QED
    BY <2>3, <2>4, <2>5, <2>6
<1>4. Len(rs) \in S
  <2>1. Nat \subseteq S
    BY <1>2, <1>3, Induction
  <2> QED
    BY <2>1, LenProperties
<1>5. NotBlank(Part(Len(rs))) = Part(Len(rs))
  <2>1. PICK n : n = Len(rs)
    OBVIOUS
  <2>2. n \in S /\ n <= n
    BY <1>1, <1>4, <2>1
  <2> QED
    BY <1>1, <2>1, <2>2
<1>6. Part(Len(rs)) = rs
  BY SubSeqFull
<1> QED
  BY <1>5, <1>6

-----------------------------------------------------------------------------
(* The route table: of two routes that match, the one with the longer      *)
(* prefix comes first, so that the first match is the best.                *)

\* A path goes on as its prefix does.
LEMMA PrefixPositions ==
    ASSUME NEW U, NEW p \in Seq(U), NEW t \in Seq(U), IsPrefix(p, t)
    PROVE  Len(p) <= Len(t) /\ \A i \in 1 .. Len(p) : t[i] = p[i]
<1>1. PICK n \in Nat : n = Len(p)
  OBVIOUS
<1>2. n <= Len(t) /\ SubSeq(p, 1, n) = SubSeq(t, 1, n)
  BY <1>1 DEF IsPrefix
<1>3. ASSUME NEW i \in 1 .. n
      PROVE  t[i] = p[i]
  BY <1>1, <1>2, <1>3
<1> QED
  BY <1>1, <1>2, <1>3

\* A prefix with one fragment more than p, and with two.
OneAfter(q, p, x)    == q = p \o <<x>>
TwoAfter(q, p, x, y) == q = p \o <<x, y>>

\* What one fragment more means, position by position.
LEMMA OneMore ==
    ASSUME NEW U, NEW p \in Seq(U), NEW n \in Nat, Len(p) = n, NEW x \in U, NEW q, OneAfter(q, p, x)
    PROVE  /\ q \in Seq(U) /\ Len(q) = n + 1 /\ q[n + 1] = x
           /\ \A i \in 1 .. n : q[i] = p[i]
  BY DEF OneAfter

\* The three heads.
OfComponent == "oc-platform:components/component"
OfInterface == "oc-if:interfaces/interface"
OfSub       == "/subinterfaces/subinterface"
Fragments   ==
    {OfComponent, OfInterface, OfSub, "/oc-transceiver:transceiver/state",
     "/cpu/oc-cpu:utilization/state", "/oc-linecard:linecard/state", "/power-supply/state",
     "/fan/state", "/state", "/memory", "/storage", "/temperature", "/counters",
     "/zte-if:state-period"}

\* What they consist of.
LEMMA Heads ==
    ASSUME NEW U, Fragments \subseteq U
    PROVE  /\ Component \in Seq(U) /\ Len(Component) = 1 /\ Component[1] = OfComponent
           /\ Interface \in Seq(U) /\ Len(Interface) = 1 /\ Interface[1] = OfInterface
           /\ Subinterface \in Seq(U) /\ Len(Subinterface) = 2
           /\ Subinterface[1] = OfInterface /\ Subinterface[2] = OfSub
<1>0. OfComponent \in U /\ OfInterface \in U /\ OfSub \in U
  BY DEF Fragments
<1>a. Component = <<OfComponent>> /\ Interface = <<OfInterface>> /\ Subinterface = Interface \o <<OfSub>>
  BY DEF Component, OfComponent, Interface, OfInterface, Subinterface, OfSub
<1>1. Component \in Seq(U) /\ Len(Component) = 1 /\ Component[1] = OfComponent
  BY <1>0, <1>a
<1>2. Interface \in Seq(U) /\ Len(Interface) = 1 /\ Interface[1] = OfInterface
  BY <1>0, <1>a
<1>3. PICK p : p = Interface
  OBVIOUS
<1>4. PICK q : q = Subinterface
  OBVIOUS
<1>5. OneAfter(q, p, OfSub)
  BY <1>a, <1>3, <1>4 DEF OneAfter
<1>6. q \in Seq(U) /\ Len(q) = 2 /\ q[2] = OfSub /\ q[1] = p[1]
  <2>1. PICK n \in Nat : n = 1
    OBVIOUS
  <2>2. q \in Seq(U) /\ Len(q) = n + 1 /\ q[n + 1] = OfSub /\ \A i \in 1 .. n : q[i] = p[i]
    BY <1>0, <1>2, <1>3, <1>5, <2>1, OneMore
  <2> QED
    BY <2>1, <2>2
<1> QED
  BY <1>1, <1>2, <1>3, <1>4, <1>6

\* A path that has p and then x at its beginning.
LEMMA GoesOn ==
    ASSUME NEW U, NEW path \in Seq(U), NEW p \in Seq(U), NEW n \in Nat, Len(p) = n, NEW x \in U,
           NEW q, OneAfter(q, p, x), IsPrefix(q, path)
    PROVE  /\ Len(q) = n + 1 /\ n + 1 <= Len(path) /\ path[n + 1] = x
           /\ \A i \in 1 .. n : path[i] = p[i]
<1>1. /\ q \in Seq(U) /\ Len(q) = n + 1 /\ q[n + 1] = x
      /\ \A i \in 1 .. n : q[i] = p[i]
  BY OneMore
<1>2. Len(q) <= Len(path) /\ \A i \in 1 .. Len(q) : path[i] = q[i]
  BY <1>1, PrefixPositions
<1> QED
  BY <1>1, <1>2

\* Likewise with p, x and y.
LEMMA GoesOnTwice ==
    ASSUME NEW U, NEW path \in Seq(U), NEW p \in Seq(U), NEW n \in Nat, Len(p) = n,
           NEW x \in U, NEW y \in U, NEW q, TwoAfter(q, p, x, y), IsPrefix(q, path)
    PROVE  /\ Len(q) = n + 2 /\ n + 2 <= Len(path) /\ path[n + 1] = x /\ path[n + 2] = y
           /\ \A i \in 1 .. n : path[i] = p[i]
<1>1. PICK r : OneAfter(r, p, x)
  BY DEF OneAfter
<1>2. /\ r \in Seq(U) /\ Len(r) = n + 1 /\ r[n + 1] = x
      /\ \A i \in 1 .. n : r[i] = p[i]
  BY <1>1, OneMore
<1>3. OneAfter(q, r, y)
  <2>1. p \o <<x, y>> = Append(Append(p, x), y)
    OBVIOUS
  <2>2. r = Append(p, x)
    BY <1>1 DEF OneAfter
  <2>3. r \o <<y>> = Append(r, y)
    BY <1>2
  <2> QED
    BY <2>1, <2>2, <2>3 DEF OneAfter, TwoAfter
<1>4. PICK m \in Nat : m = n + 1
  OBVIOUS
<1>5. /\ Len(q) = m + 1 /\ m + 1 <= Len(path) /\ path[m + 1] = y
      /\ \A i \in 1 .. m : path[i] = r[i]
  BY <1>2, <1>3, <1>4, GoesOn
<1> QED
  BY <1>2, <1>4, <1>5

\* The prefix of every route, and which is exact.
LEMMA RouteParts ==
    /\ routes[1].exact /\ \A i \in 2 .. 16 : ~routes[i].exact
    /\ routes[1].prefix = Component
    /\ OneAfter(routes[2].prefix, Component, "/oc-transceiver:transceiver/state")
    /\ OneAfter(routes[3].prefix, Component, "/cpu/oc-cpu:utilization/state")
    /\ OneAfter(routes[4].prefix, Component, "/oc-linecard:linecard/state")
    /\ OneAfter(routes[5].prefix, Component, "/power-supply/state")
    /\ OneAfter(routes[6].prefix, Component, "/fan/state")
    /\ TwoAfter(routes[7].prefix, Component, "/state", "/memory")
    /\ TwoAfter(routes[8].prefix, Component, "/state", "/storage")
    /\ TwoAfter(routes[9].prefix, Component, "/state", "/temperature")
    /\ OneAfter(routes[10].prefix, Component, "/state")
    /\ TwoAfter(routes[11].prefix, Subinterface, "/state", "/counters")
    /\ OneAfter(routes[12].prefix, Subinterface, "/zte-if:state-period")
    /\ OneAfter(routes[13].prefix, Subinterface, "/state")
    /\ TwoAfter(routes[14].prefix, Interface, "/state", "/counters")
    /\ OneAfter(routes[15].prefix, Interface, "/zte-if:state-period")
    /\ OneAfter(routes[16].prefix, Interface, "/state")
<1> USE DEF Route
<1>1. /\ routes[1].exact = TRUE /\ routes[2].exact = FALSE /\ routes[3].exact = FALSE
      /\ routes[4].exact = FALSE /\ routes[5].exact = FALSE /\ routes[6].exact = FALSE
      /\ routes[7].exact = FALSE /\ routes[8].exact = FALSE /\ routes[9].exact = FALSE
      /\ routes[10].exact = FALSE /\ routes[11].exact = FALSE /\ routes[12].exact = FALSE
      /\ routes[13].exact = FALSE /\ routes[14].exact = FALSE /\ routes[15].exact = FALSE
      /\ routes[16].exact = FALSE
  BY DEF routes
<1>2. \A i \in 2 .. 16 : i = 2 \/ i = 3 \/ i = 4 \/ i = 5 \/ i = 6 \/ i = 7 \/ i = 8 \/ i = 9 \/ i = 10
                         \/ i = 11 \/ i = 12 \/ i = 13 \/ i = 14 \/ i = 15 \/ i = 16
  OBVIOUS
<1>3. routes[1].prefix = Component
  BY DEF routes
<1>4. OneAfter(routes[2].prefix, Component, "/oc-transceiver:transceiver/state")
  BY DEF routes, OneAfter
<1>5. OneAfter(routes[3].prefix, Component, "/cpu/oc-cpu:utilization/state")
  BY DEF routes, OneAfter
<1>6. OneAfter(routes[4].prefix, Component, "/oc-linecard:linecard/state")
  BY DEF routes, OneAfter
<1>7. OneAfter(routes[5].prefix, Component, "/power-supply/state")
  BY DEF routes, OneAfter
<1>8. OneAfter(routes[6].prefix, Component, "/fan/state")
  BY DEF routes, OneAfter
<1>9. TwoAfter(routes[7].prefix, Component, "/state", "/memory")
  BY DEF routes, TwoAfter
<1>10. TwoAfter(routes[8].prefix, Component, "/state", "/storage")
  BY DEF routes, TwoAfter
<1>11. TwoAfter(routes[9].prefix, Component, "/state", "/temperature")
  BY DEF routes, TwoAfter
<1>12. OneAfter(routes[10].prefix, Component, "/state")
  BY DEF routes, OneAfter
<1>13. TwoAfter(routes[11].prefix, Subinterface, "/state", "/counters")
  BY DEF routes, TwoAfter
<1>14. OneAfter(routes[12].prefix, Subinterface, "/zte-if:state-period")
  BY DEF routes, OneAfter
<1>15. OneAfter(routes[13].prefix, Subinterface, "/state")
  BY DEF routes, OneAfter
<1>16. TwoAfter(routes[14].prefix, Interface, "/state", "/counters")
  BY DEF routes, TwoAfter
<1>17. OneAfter(routes[15].prefix, Interface, "/zte-if:state-period")
  BY DEF routes, OneAfter
<1>18. OneAfter(routes[16].prefix, Interface, "/state")
  BY DEF routes, OneAfter
<1> QED
  BY <1>1, <1>2, <1>3, <1>4, <1>5, <1>6, <1>7, <1>8, <1>9, <1>10, <1>11, <1>12,
     <1>13, <1>14, <1>15, <1>16, <1>17, <1>18

\* How a path begins that a route matches.
Shape(i, path) ==
    /\ i = 1 => Len(routes[i].prefix) = 1 /\ Len(path) = 1 /\ path[1] = OfComponent
    /\ i = 2 => Len(routes[i].prefix) = 2 /\ Len(path) >= 2
                /\ path[1] = OfComponent /\ path[2] = "/oc-transceiver:transceiver/state"
    /\ i = 3 => Len(routes[i].prefix) = 2 /\ Len(path) >= 2
                /\ path[1] = OfComponent /\ path[2] = "/cpu/oc-cpu:utilization/state"
    /\ i = 4 => Len(routes[i].prefix) = 2 /\ Len(path) >= 2
                /\ path[1] = OfComponent /\ path[2] = "/oc-linecard:linecard/state"
    /\ i = 5 => Len(routes[i].prefix) = 2 /\ Len(path) >= 2
                /\ path[1] = OfComponent /\ path[2] = "/power-supply/state"
    /\ i = 6 => Len(routes[i].prefix) = 2 /\ Len(path) >= 2
                /\ path[1] = OfComponent /\ path[2] = "/fan/state"
    /\ i = 7 => Len(routes[i].prefix) = 3 /\ Len(path) >= 3
                /\ path[1] = OfComponent /\ path[2] = "/state" /\ path[3] = "/memory"
    /\ i = 8 => Len(routes[i].prefix) = 3 /\ Len(path) >= 3
                /\ path[1] = OfComponent /\ path[2] = "/state" /\ path[3] = "/storage"
    /\ i = 9 => Len(routes[i].prefix) = 3 /\ Len(path) >= 3
                /\ path[1] = OfComponent /\ path[2] = "/state" /\ path[3] = "/temperature"
    /\ i = 10 => Len(routes[i].prefix) = 2 /\ Len(path) >= 2
                 /\ path[1] = OfComponent /\ path[2] = "/state"
    /\ i = 11 => Len(routes[i].prefix) = 4 /\ Len(path) >= 4
                 /\ path[1] = OfInterface /\ path[2] = OfSub /\ path[3] = "/state" /\ path[4] = "/counters"
    /\ i = 12 => Len(routes[i].prefix) = 3 /\ Len(path) >= 3
                 /\ path[1] = OfInterface /\ path[2] = OfSub /\ path[3] = "/zte-if:state-period"
    /\ i = 13 => Len(routes[i].prefix) = 3 /\ Len(path) >= 3
                 /\ path[1] = OfInterface /\ path[2] = OfSub /\ path[3] = "/state"
    /\ i = 14 => Len(routes[i].prefix) = 3 /\ Len(path) >= 3
                 /\ path[1] = OfInterface /\ path[2] = "/state" /\ path[3] = "/counters"
    /\ i = 15 => Len(routes[i].prefix) = 2 /\ Len(path) >= 2
                 /\ path[1] = OfInterface /\ path[2] = "/zte-if:state-period"
    /\ i = 16 => Len(routes[i].prefix) = 2 /\ Len(path) >= 2
                 /\ path[1] = OfInterface /\ path[2] = "/state"

\* A path that route i matches, which is p and then x, begins like that.
LEMMA RouteOne ==
    ASSUME NEW U, Fragments \subseteq U, NEW path \in Seq(U), NEW p \in Seq(U),
           NEW n \in Nat, Len(p) = n, NEW x \in Fragments, NEW i \in 2 .. 16,
           Matches(routes[i], path), OneAfter(routes[i].prefix, p, x)
    PROVE  /\ Len(routes[i].prefix) = n + 1 /\ n + 1 <= Len(path) /\ path[n + 1] = x
           /\ \A k \in 1 .. n : path[k] = p[k]
<1>1. PICK q : q = routes[i].prefix
  OBVIOUS
<1>2. IsPrefix(q, path) /\ OneAfter(q, p, x) /\ x \in U
  BY <1>1, RouteParts DEF Matches
<1> QED
  BY <1>1, <1>2, GoesOn

\* Likewise for a route that is p, x and y.
LEMMA RouteTwo ==
    ASSUME NEW U, Fragments \subseteq U, NEW path \in Seq(U), NEW p \in Seq(U),
           NEW n \in Nat, Len(p) = n, NEW x \in Fragments, NEW y \in Fragments, NEW i \in 2 .. 16,
           Matches(routes[i], path), TwoAfter(routes[i].prefix, p, x, y)
    PROVE  /\ Len(routes[i].prefix) = n + 2 /\ n + 2 <= Len(path)
           /\ path[n + 1] = x /\ path[n + 2] = y
           /\ \A k \in 1 .. n : path[k] = p[k]
<1>1. PICK q : q = routes[i].prefix
  OBVIOUS
<1>2. IsPrefix(q, path) /\ TwoAfter(q, p, x, y) /\ x \in U /\ y \in U
  BY <1>1, RouteParts DEF Matches
<1> QED
  BY <1>1, <1>2, GoesOnTwice

\* Which paths a route matches, read off the table.
LEMMA RouteShape ==
    ASSUME NEW path \in Seq(STRING), NEW i \in 1 .. 16, Matches(routes[i], path)
    PROVE  Shape(i, path)
<1>1. PICK U : U = STRING \cup Fragments
  OBVIOUS
<1>2. path \in Seq(U) /\ Fragments \subseteq U
  BY <1>1, SeqMonotonic
<1>3. PICK one \in Nat : one = 1
  OBVIOUS
<1>4. PICK two \in Nat : two = 2
  OBVIOUS
<1>5. /\ Component \in Seq(U) /\ Len(Component) = one /\ Component[1] = OfComponent
      /\ Interface \in Seq(U) /\ Len(Interface) = one /\ Interface[1] = OfInterface
      /\ Subinterface \in Seq(U) /\ Len(Subinterface) = two
      /\ Subinterface[1] = OfInterface /\ Subinterface[2] = OfSub
  BY <1>2, <1>3, <1>4, Heads
<1>6. CASE i = 1
  BY <1>3, <1>5, <1>6, RouteParts DEF Matches, Shape
<1>7. CASE i = 2
  <2>1. /\ OneAfter(routes[i].prefix, Component, "/oc-transceiver:transceiver/state")
        /\ "/oc-transceiver:transceiver/state" \in Fragments
    BY <1>7, RouteParts DEF Fragments
  <2>2. /\ Len(routes[i].prefix) = one + 1 /\ one + 1 <= Len(path)
        /\ path[one + 1] = "/oc-transceiver:transceiver/state"
        /\ \A k \in 1 .. one : path[k] = Component[k]
    BY <1>2, <1>5, <1>7, <2>1, RouteOne
  <2> QED
    BY <1>3, <1>4, <1>5, <1>7, <2>2 DEF Shape
<1>8. CASE i = 3
  <2>1. /\ OneAfter(routes[i].prefix, Component, "/cpu/oc-cpu:utilization/state")
        /\ "/cpu/oc-cpu:utilization/state" \in Fragments
    BY <1>8, RouteParts DEF Fragments
  <2>2. /\ Len(routes[i].prefix) = one + 1 /\ one + 1 <= Len(path)
        /\ path[one + 1] = "/cpu/oc-cpu:utilization/state"
        /\ \A k \in 1 .. one : path[k] = Component[k]
    BY <1>2, <1>5, <1>8, <2>1, RouteOne
  <2> QED
    BY <1>3, <1>4, <1>5, <1>8, <2>2 DEF Shape
<1>9. CASE i = 4
  <2>1. /\ OneAfter(routes[i].prefix, Component, "/oc-linecard:linecard/state")
        /\ "/oc-linecard:linecard/state" \in Fragments
    BY <1>9, RouteParts DEF Fragments
  <2>2. /\ Len(routes[i].prefix) = one + 1 /\ one + 1 <= Len(path)
        /\ path[one + 1] = "/oc-linecard:linecard/state"
        /\ \A k \in 1 .. one : path[k] = Component[k]
    BY <1>2, <1>5, <1>9, <2>1, RouteOne
  <2> QED
    BY <1>3, <1>4, <1>5, <1>9, <2>2 DEF Shape
<1>10. CASE i = 5
  <2>1. /\ OneAfter(routes[i].prefix, Component, "/power-supply/state")
        /\ "/power-supply/state" \in Fragments
    BY <1>10, RouteParts DEF Fragments
  <2>2. /\ Len(routes[i].prefix) = one + 1 /\ one + 1 <= Len(path)
        /\ path[one + 1] = "/power-supply/state"
        /\ \A k \in 1 .. one : path[k] = Component[k]
    BY <1>2, <1>5, <1>10, <2>1, RouteOne
  <2> QED
    BY <1>3, <1>4, <1>5, <1>10, <2>2 DEF Shape
<1>11. CASE i = 6
  <2>1. /\ OneAfter(routes[i].prefix, Component, "/fan/state")
        /\ "/fan/state" \in Fragments
    BY <1>11, RouteParts DEF Fragments
  <2>2. /\ Len(routes[i].prefix) = one + 1 /\ one + 1 <= Len(path)
        /\ path[one + 1] = "/fan/state"
        /\ \A k \in 1 .. one : path[k] = Component[k]
    BY <1>2, <1>5, <1>11, <2>1, RouteOne
  <2> QED
    BY <1>3, <1>4, <1>5, <1>11, <2>2 DEF Shape
<1>12. CASE i = 7
  <2>1. /\ TwoAfter(routes[i].prefix, Component, "/state", "/memory")
        /\ "/state" \in Fragments /\ "/memory" \in Fragments
    BY <1>12, RouteParts DEF Fragments
  <2>2. /\ Len(routes[i].prefix) = one + 2 /\ one + 2 <= Len(path)
        /\ path[one + 1] = "/state" /\ path[one + 2] = "/memory"
        /\ \A k \in 1 .. one : path[k] = Component[k]
    BY <1>2, <1>5, <1>12, <2>1, RouteTwo
  <2> QED
    BY <1>3, <1>4, <1>5, <1>12, <2>2 DEF Shape
<1>13. CASE i = 8
  <2>1. /\ TwoAfter(routes[i].prefix, Component, "/state", "/storage")
        /\ "/state" \in Fragments /\ "/storage" \in Fragments
    BY <1>13, RouteParts DEF Fragments
  <2>2. /\ Len(routes[i].prefix) = one + 2 /\ one + 2 <= Len(path)
        /\ path[one + 1] = "/state" /\ path[one + 2] = "/storage"
        /\ \A k \in 1 .. one : path[k] = Component[k]
    BY <1>2, <1>5, <1>13, <2>1, RouteTwo
  <2> QED
    BY <1>3, <1>4, <1>5, <1>13, <2>2 DEF Shape
<1>14. CASE i = 9
  <2>1. /\ TwoAfter(routes[i].prefix, Component, "/state", "/temperature")
        /\ "/state" \in Fragments /\ "/temperature" \in Fragments
    BY <1>14, RouteParts DEF Fragments
  <2>2. /\ Len(routes[i].prefix) = one + 2 /\ one + 2 <= Len(path)
        /\ path[one + 1] = "/state" /\ path[one + 2] = "/temperature"
        /\ \A k \in 1 .. one : path[k] = Component[k]
    BY <1>2, <1>5, <1>14, <2>1, RouteTwo
  <2> QED
    BY <1>3, <1>4, <1>5, <1>14, <2>2 DEF Shape
<1>15. CASE i = 10
  <2>1. /\ OneAfter(routes[i].prefix, Component, "/state")
        /\ "/state" \in Fragments
    BY <1>15, RouteParts DEF Fragments
  <2>2. /\ Len(routes[i].prefix) = one + 1 /\ one + 1 <= Len(path)
        /\ path[one + 1] = "/state"
        /\ \A k \in 1 .. one : path[k] = Component[k]
    BY <1>2, <1>5, <1>15, <2>1, RouteOne
  <2> QED
    BY <1>3, <1>4, <1>5, <1>15, <2>2 DEF Shape
<1>16. CASE i = 11
  <2>1. /\ TwoAfter(routes[i].prefix, Subinterface, "/state", "/counters")
        /\ "/state" \in Fragments /\ "/counters" \in Fragments
    BY <1>16, RouteParts DEF Fragments
  <2>2. /\ Len(routes[i].prefix) = two + 2 /\ two + 2 <= Len(path)
        /\ path[two + 1] = "/state" /\ path[two + 2] = "/counters"
        /\ \A k \in 1 .. two : path[k] = Subinterface[k]
    BY <1>2, <1>5, <1>16, <2>1, RouteTwo, SMTT(30)
  <2> QED
    BY <1>3, <1>4, <1>5, <1>16, <2>2 DEF Shape
<1>17. CASE i = 12
  <2>1. /\ OneAfter(routes[i].prefix, Subinterface, "/zte-if:state-period")
        /\ "/zte-if:state-period" \in Fragments
    BY <1>17, RouteParts DEF Fragments
  <2>2. /\ Len(routes[i].prefix) = two + 1 /\ two + 1 <= Len(path)
        /\ path[two + 1] = "/zte-if:state-period"
        /\ \A k \in 1 .. two : path[k] = Subinterface[k]
    BY <1>2, <1>5, <1>17, <2>1, RouteOne
  <2> QED
    BY <1>3, <1>4, <1>5, <1>17, <2>2 DEF Shape
<1>18. CASE i = 13
  <2>1. /\ OneAfter(routes[i].prefix, Subinterface, "/state")
        /\ "/state" \in Fragments
    BY <1>18, RouteParts DEF Fragments
  <2>2. /\ Len(routes[i].prefix) = two + 1 /\ two + 1 <= Len(path)
        /\ path[two + 1] = "/state"
        /\ \A k \in 1 .. two : path[k] = Subinterface[k]
    BY <1>2, <1>5, <1>18, <2>1, RouteOne
  <2> QED
    BY <1>3, <1>4, <1>5, <1>18, <2>2 DEF Shape
<1>19. CASE i = 14
  <2>1. /\ TwoAfter(routes[i].prefix, Interface, "/state", "/counters")
        /\ "/state" \in Fragments /\ "/counters" \in Fragments
    BY <1>19, RouteParts DEF Fragments
  <2>2. /\ Len(routes[i].prefix) = one + 2 /\ one + 2 <= Len(path)
        /\ path[one + 1] = "/state" /\ path[one + 2] = "/counters"
        /\ \A k \in 1 .. one : path[k] = Interface[k]
    BY <1>2, <1>5, <1>19, <2>1, RouteTwo
  <2> QED
    BY <1>3, <1>4, <1>5, <1>19, <2>2 DEF Shape
<1>20. CASE i = 15
  <2>1. /\ OneAfter(routes[i].prefix, Interface, "/zte-if:state-period")
        /\ "/zte-if:state-period" \in Fragments
    BY <1>20, RouteParts DEF Fragments
  <2>2. /\ Len(routes[i].prefix) = one + 1 /\ one + 1 <= Len(path)
        /\ path[one + 1] = "/zte-if:state-period"
        /\ \A k \in 1 .. one : path[k] = Interface[k]
    BY <1>2, <1>5, <1>20, <2>1, RouteOne
  <2> QED
    BY <1>3, <1>4, <1>5, <1>20, <2>2 DEF Shape
<1>21. CASE i = 16
  <2>1. /\ OneAfter(routes[i].prefix, Interface, "/state")
        /\ "/state" \in Fragments
    BY <1>21, RouteParts DEF Fragments
  <2>2. /\ Len(routes[i].prefix) = one + 1 /\ one + 1 <= Len(path)
        /\ path[one + 1] = "/state"
        /\ \A k \in 1 .. one : path[k] = Interface[k]
    BY <1>2, <1>5, <1>21, <2>1, RouteOne
  <2> QED
    BY <1>3, <1>4, <1>5, <1>21, <2>2 DEF Shape
<1> QED
  BY <1>6, <1>7, <1>8, <1>9, <1>10, <1>11, <1>12, <1>13, <1>14, <1>15, <1>16,
     <1>17, <1>18, <1>19, <1>20, <1>21

\* Of two routes that match a path the one with the longer prefix comes first
\* in the table.
LEMMA RouteOrder ==
    ASSUME NEW path, NEW i \in 1 .. 16, NEW j \in 1 .. 16, i < j, Shape(i, path), Shape(j, path)
    PROVE  Len(routes[j].prefix) < Len(routes[i].prefix)
<1>0. OfComponent # OfInterface /\ OfSub # "/state" /\ OfSub # "/zte-if:state-period"
  BY DEF OfComponent, OfInterface, OfSub
<1>1. ASSUME i = 1
      PROVE  Len(routes[j].prefix) < Len(routes[i].prefix)
  <2>1. PICK n : n = Len(path)
    OBVIOUS
  <2>2. n = 1
    BY <1>1, <2>1 DEF Shape
  <2>3. n >= 2
    BY <1>1, <2>1 DEF Shape
  <2> QED
    BY <2>2, <2>3
<1>2. ASSUME i = 2
      PROVE  Len(routes[j].prefix) < Len(routes[i].prefix)
  BY <1>0, <1>2 DEF Shape
<1>3. ASSUME i = 3
      PROVE  Len(routes[j].prefix) < Len(routes[i].prefix)
  BY <1>0, <1>3 DEF Shape
<1>4. ASSUME i = 4
      PROVE  Len(routes[j].prefix) < Len(routes[i].prefix)
  BY <1>0, <1>4 DEF Shape
<1>5. ASSUME i = 5
      PROVE  Len(routes[j].prefix) < Len(routes[i].prefix)
  BY <1>0, <1>5 DEF Shape
<1>6. ASSUME i = 6
      PROVE  Len(routes[j].prefix) < Len(routes[i].prefix)
  BY <1>0, <1>6 DEF Shape
<1>7. ASSUME i = 7
      PROVE  Len(routes[j].prefix) < Len(routes[i].prefix)
  <2>1. /\ Len(routes[i].prefix) = 3
        /\ path[1] = OfComponent /\ path[2] = "/state" /\ path[3] = "/memory"
    BY <1>7 DEF Shape
  <2>2. j \in {10}
    BY <1>0, <1>7, <2>1 DEF Shape
  <2>3. Len(routes[j].prefix) = 2
    BY <2>2 DEF Shape
  <2> QED
    BY <2>1, <2>3
<1>8. ASSUME i = 8
      PROVE  Len(routes[j].prefix) < Len(routes[i].prefix)
  <2>1. /\ Len(routes[i].prefix) = 3
        /\ path[1] = OfComponent /\ path[2] = "/state" /\ path[3] = "/storage"
    BY <1>8 DEF Shape
  <2>2. j \in {10}
    BY <1>0, <1>8, <2>1 DEF Shape
  <2>3. Len(routes[j].prefix) = 2
    BY <2>2 DEF Shape
  <2> QED
    BY <2>1, <2>3
<1>9. ASSUME i = 9
      PROVE  Len(routes[j].prefix) < Len(routes[i].prefix)
  <2>1. /\ Len(routes[i].prefix) = 3
        /\ path[1] = OfComponent /\ path[2] = "/state" /\ path[3] = "/temperature"
    BY <1>9 DEF Shape
  <2>2. j \in {10}
    BY <1>0, <1>9, <2>1 DEF Shape
  <2>3. Len(routes[j].prefix) = 2
    BY <2>2 DEF Shape
  <2> QED
    BY <2>1, <2>3
<1>10. ASSUME i = 10
      PROVE  Len(routes[j].prefix) < Len(routes[i].prefix)
  BY <1>0, <1>10 DEF Shape
<1>11. ASSUME i = 11
      PROVE  Len(routes[j].prefix) < Len(routes[i].prefix)
  <2>1. Len(routes[i].prefix) = 4 /\ path[1] = OfInterface /\ path[2] = OfSub /\ path[3] = "/state"
    BY <1>11 DEF Shape
  <2>2. j \in {13}
    BY <1>0, <1>11, <2>1 DEF Shape
  <2>3. Len(routes[j].prefix) = 3
    BY <2>2 DEF Shape
  <2> QED
    BY <2>1, <2>3
<1>12. ASSUME i = 12
      PROVE  Len(routes[j].prefix) < Len(routes[i].prefix)
  BY <1>0, <1>12 DEF Shape
<1>13. ASSUME i = 13
      PROVE  Len(routes[j].prefix) < Len(routes[i].prefix)
  BY <1>0, <1>13 DEF Shape
<1>14. ASSUME i = 14
      PROVE  Len(routes[j].prefix) < Len(routes[i].prefix)
  <2>1. Len(routes[i].prefix) = 3 /\ path[1] = OfInterface /\ path[2] = "/state"
    BY <1>14 DEF Shape
  <2>2. j \in {16}
    BY <1>0, <1>14, <2>1 DEF Shape
  <2>3. Len(routes[j].prefix) = 2
    BY <2>2 DEF Shape
  <2> QED
    BY <2>1, <2>3
<1>15. ASSUME i = 15
      PROVE  Len(routes[j].prefix) < Len(routes[i].prefix)
  BY <1>0, <1>15 DEF Shape
<1> QED
  BY <1>1, <1>2, <1>3, <1>4, <1>5, <1>6, <1>7, <1>8, <1>9, <1>10, <1>11, <1>12, <1>13, <1>14, <1>15

\* The first match is the first of the candidates.
LEMMA FirstMatchIs ==
    ASSUME NEW path
    PROVE  /\ Candidates(path) \subseteq 1 .. 16
           /\ FirstMatch(path) = 0 <=> Candidates(path) = {}
           /\ FirstMatch(path) # 0 => /\ FirstMatch(path) \in Candidates(path)
                                      /\ \A j \in Candidates(path) : FirstMatch(path) <= j
<1>1. PICK I : I = {i \in 1 .. Len(routes) : Matches(routes[i], path)}
  OBVIOUS
<1>2. FirstMatch(path) = IF I # {} THEN Min(I) ELSE 0
  BY <1>1 DEF FirstMatch, SelectInSeq
<1>3. I \subseteq 1 .. 16
  BY <1>1, RouteYields
<1>4. I # {} => \E m \in I : \A i \in I : m <= i
  BY <1>3, LeastElement
<1>5. I # {} => Min(I) \in I /\ \A i \in I : Min(I) <= i
  BY <1>4 DEF Min
<1>6. Candidates(path) = I
  <2>1. DOMAIN routes = 1 .. Len(routes)
    BY DEF routes
  <2> QED
    BY <1>1, <2>1 DEF Candidates
<1>7. FirstMatch(path) # 0 <=> I # {}
  BY <1>2, <1>3, <1>5
<1> QED
  BY <1>2, <1>3, <1>5, <1>6, <1>7

\* The first route that matches has the longest prefix of all that match.
LEMMA FirstIsBest ==
    ASSUME NEW path \in Seq(STRING), Candidates(path) # {}
    PROVE  BestRoute(path) = FirstMatch(path)
<1>1. PICK b : b = FirstMatch(path)
  OBVIOUS
<1>2. b \in Candidates(path) /\ \A j \in Candidates(path) : b <= j
  BY <1>1, FirstMatchIs
<1>3. ASSUME NEW j \in Candidates(path), j # b
      PROVE  Len(routes[j].prefix) < Len(routes[b].prefix)
  <2>1. b \in 1 .. 16 /\ j \in 1 .. 16 /\ b < j
    BY <1>2, <1>3, FirstMatchIs
  <2>2. Shape(b, path) /\ Shape(j, path)
    BY <1>2, <2>1, RouteShape DEF Candidates
  <2> QED
    BY <2>1, <2>2, RouteOrder
<1>4. ASSUME NEW i \in Candidates(path)
      PROVE  Len(routes[i].prefix) \in Nat
  <2>1. i \in 1 .. 16
    BY FirstMatchIs
  <2>2. Shape(i, path)
    BY <2>1, RouteShape DEF Candidates
  <2> QED
    BY <2>1, <2>2 DEF Shape
<1>5. \A j \in Candidates(path) : Len(routes[j].prefix) <= Len(routes[b].prefix)
  BY <1>2, <1>3, <1>4
<1>6. \A i \in Candidates(path) :
          (\A j \in Candidates(path) : Len(routes[j].prefix) <= Len(routes[i].prefix)) => i = b
  BY <1>2, <1>3, <1>4
<1> QED
  BY <1>1, <1>2, <1>5, <1>6 DEF BestRoute

-----------------------------------------------------------------------------
(* The result.  The inductive invariant says how far a parser has come:    *)
(* its result is what the entries before the current one yield.            *)

\* What the entries of a message yield, one by one: PartsOf(m)[i].
PartOf(m, e) ==
    IF m.alarm THEN AlarmRows(m, e)
    ELSE IF e.kind = "garbage" THEN <<>>
    ELSE HandlerRows(routes[FirstMatch(m.path)].handler, m.system, e)
PartsOf(m) == [i \in DOMAIN m.entries |-> PartOf(m, m.entries[i])]

\* A message whose entries are read.
Readable(m) == m.decodes /\ (m.alarm \/ FirstMatch(m.path) # 0)

\* Each part is a sequence of metrics of the message.
LEMMA PartsAre ==
    ASSUME NEW g \in Parsers, NEW m \in Messages[g], Readable(m)
    PROVE  /\ PartsOf(m) \in Seq(Seq(MetricsOf(m))) /\ Len(PartsOf(m)) = Len(m.entries)
           /\ Len(m.entries) \in Nat /\ DOMAIN m.entries = 1 .. Len(m.entries)
           /\ \A i \in 1 .. Len(m.entries) : PartsOf(m)[i] = PartOf(m, m.entries[i])
<1>1. /\ m.entries \in Seq(Range(m.entries))
      /\ \A e \in Range(m.entries) : e.n \in Nat /\ e.m \in Nat
  BY MessagesAssumption DEF Readable
<1>2. DOMAIN m.entries = 1 .. Len(m.entries) /\ Len(m.entries) \in Nat
  BY <1>1, LenProperties
<1>3. PICK n \in Nat : n = Len(m.entries)
  BY <1>2
<1>4. PartsOf(m) = [i \in 1 .. n |-> PartOf(m, m.entries[i])]
  BY <1>2, <1>3 DEF PartsOf
<1>5. ASSUME NEW i \in 1 .. n
      PROVE  PartOf(m, m.entries[i]) \in Seq(MetricsOf(m))
  <2>1. PICK e \in Range(m.entries) : e = m.entries[i]
    BY <1>1, <1>3, ElementOfSeq
  <2>2. CASE m.alarm
    BY <1>1, <2>1, <2>2, AlarmRowsAreOwn DEF PartOf
  <2>3. CASE ~m.alarm /\ e.kind = "garbage"
    <3>1. <<>> \in Seq(MetricsOf(m))
      OBVIOUS
    <3> QED
      BY <2>1, <2>3, <3>1 DEF PartOf
  <2>4. CASE ~m.alarm /\ e.kind # "garbage"
    BY <1>1, <2>1, <2>4, HandlerRowsAreOwn DEF PartOf, Readable
  <2> QED
    BY <2>2, <2>3, <2>4
<1> QED
  BY <1>2, <1>3, <1>4, <1>5

\* The metrics of the first n entries of a message.
RowsUpTo(m, n) == FlattenSeq(SubSeq(PartsOf(m), 1, n))

\* None yet, one part more, and all of them.
LEMMA RowsGrow ==
    ASSUME NEW g \in Parsers, NEW m \in Messages[g], Readable(m)
    PROVE  /\ RowsUpTo(m, 0) = <<>>
           /\ \A n \in Nat : n + 1 <= Len(m.entries)
                 => RowsUpTo(m, n + 1) = RowsUpTo(m, n) \o PartOf(m, m.entries[n + 1])
           /\ RowsUpTo(m, Len(m.entries)) = FlattenSeq(PartsOf(m))
<1>1. PICK U : U = MetricsOf(m)
  OBVIOUS
<1>2. PICK P \in Seq(Seq(U)) : P = PartsOf(m)
  BY <1>1, PartsAre
<1>3. Len(P) = Len(m.entries)
  BY <1>2, PartsAre
<1>4. RowsUpTo(m, 0) = <<>>
  <2>1. SubSeq(P, 1, 0) = <<>>
    OBVIOUS
  <2>2. <<>> \in Seq(U) /\ Len(<<>>) = 0
    OBVIOUS
  <2> QED
    BY <1>2, <2>1, <2>2, FlattenNone DEF RowsUpTo
<1>5. ASSUME NEW n \in Nat, n + 1 <= Len(P)
      PROVE  RowsUpTo(m, n + 1) = RowsUpTo(m, n) \o P[n + 1]
  <2>1. PICK p \in Seq(Seq(U)) : p = SubSeq(P, 1, n)
    BY <1>5, SubSeqGrows
  <2>2. PICK q \in Seq(U) : q = P[n + 1]
    BY <1>5, SubSeqGrows
  <2>3. SubSeq(P, 1, n + 1) = p \o <<q>>
    BY <1>5, <2>1, <2>2, SubSeqGrows
  <2>4. FlattenSeq(p \o <<q>>) = FlattenSeq(p) \o q
    BY FlattenMore
  <2> QED
    BY <1>2, <2>1, <2>2, <2>3, <2>4 DEF RowsUpTo
<1>6. ASSUME NEW n \in Nat, n + 1 <= Len(P)
      PROVE  P[n + 1] = PartOf(m, m.entries[n + 1])
  <2>1. n + 1 \in 1 .. Len(m.entries)
    BY <1>3, <1>6, PartsAre
  <2> QED
    BY <1>2, <2>1, PartsAre
<1>7. SubSeq(P, 1, Len(P)) = P
  BY SubSeqFull
<1> QED
  BY <1>2, <1>3, <1>4, <1>5, <1>6, <1>7 DEF RowsUpTo

\* What the deferred function finds.
Outcome(m, res, rows) ==
    \/ res = "error" /\ rows = <<>> /\ ShouldFail(m)
    \/ /\ res = "ok" /\ ~ShouldFail(m) /\ m.decodes
       /\ rows = IF m.alarm \/ FirstMatch(m.path) # 0 THEN FlattenSeq(PartsOf(m)) ELSE <<>>

Aborts(m) == ~m.alarm /\ routes[FirstMatch(m.path)].handler.onBad = "abort"

\* The first n entries have been read.
ReadUpTo(g, n) ==
    /\ n <= Len(raw[g].entries) /\ out[g] = RowsUpTo(raw[g], n)
    /\ raw[g].alarm \/ raw[g].entries # <<>>
    /\ Aborts(raw[g]) => \A i \in 1 .. n : raw[g].entries[i].kind # "garbage"

ProgressAt(g) ==
    /\ pc[g] \in {"unmarshal", "route"} => at[g] = 1 /\ out[g] = <<>>
    /\ pc[g] \in {"alarm", "entry", "extract"} => \E n \in Nat : at[g] = n + 1 /\ ReadUpTo(g, n)
    /\ pc[g] = "extract" => EntryOf(g).kind # "garbage"
    /\ pc[g] = "release" => ReadUpTo(g, at[g])
    /\ pc[g] \in {"deferred", "returned"} =>
          raw[g] \in Messages[g] /\ Outcome(raw[g], status[g], out[g])

Progress == DOMAIN status = Parsers /\ \A g \in Parsers : ProgressAt(g)

\* ShouldFail in the terms of the table.
LEMMA FailsWhen ==
    ASSUME NEW g \in Parsers, NEW m \in Messages[g], m.decodes
    PROVE  ShouldFail(m) <=> /\ ~m.alarm /\ FirstMatch(m.path) # 0
                             /\ \/ m.entries = <<>>
                                \/ Aborts(m) /\ \E i \in DOMAIN m.entries : m.entries[i].kind = "garbage"
<1>1. m.path \in Seq(STRING)
  BY MessagesAssumption
<1>2. Candidates(m.path) # {} <=> FirstMatch(m.path) # 0
  BY FirstMatchIs
<1>3. Candidates(m.path) # {} => BestRoute(m.path) = FirstMatch(m.path)
  BY <1>1, FirstIsBest
<1> QED
  BY <1>2, <1>3 DEF ShouldFail, Aborts

\* What a parser that has decoded its message reads through its pooled object.
LEMMA HeldMessage ==
    ASSUME PoolInv, Undisturbed, NEW g \in Parsers, HasMessage(g)
    PROVE  /\ Msg(g) = raw[g] /\ Entry(g) = EntryOf(g)
           /\ HandlerOf(g) = routes[FirstMatch(raw[g].path)].handler
           /\ raw[g] \in Messages[g] /\ raw[g].decodes
           /\ pc[g] = "alarm" => raw[g].alarm /\ Readable(raw[g])
           /\ pc[g] \in {"entry", "extract", "release"} =>
                 ~raw[g].alarm /\ FirstMatch(raw[g].path) # 0 /\ Readable(raw[g])
  BY DEF Undisturbed, HasOuter, HasMessage, Msg, Entry, EntryOf, HandlerOf, Readable

\* Reading an entry.
LEMMA ReadMore ==
    ASSUME NEW g \in Parsers, raw[g] \in Messages[g], Readable(raw[g]), NEW n \in Nat,
           n + 1 <= Len(raw[g].entries), ReadUpTo(g, n),
           Aborts(raw[g]) => raw[g].entries[n + 1].kind # "garbage",
           raw'[g] = raw[g], out'[g] = out[g] \o PartOf(raw[g], raw[g].entries[n + 1])
    PROVE  ReadUpTo(g, n + 1)'
<1>1. out'[g] = RowsUpTo(raw[g], n + 1)
  BY RowsGrow DEF ReadUpTo
<1>2. \A i \in 1 .. n + 1 : i \in 1 .. n \/ i = n + 1
  OBVIOUS
<1> QED
  BY <1>1, <1>2 DEF ReadUpTo

\* An entry that yields nothing.
LEMMA NothingMore ==
    ASSUME NEW g \in Parsers, raw[g] \in Messages[g], Readable(raw[g]), NEW n \in Nat,
           ReadUpTo(g, n)
    PROVE  out[g] \o <<>> = out[g]
<1>1. SubSeq(PartsOf(raw[g]), 1, n) \in Seq(Seq(MetricsOf(raw[g])))
  <2>1. PICK P \in Seq(Seq(MetricsOf(raw[g]))) : P = PartsOf(raw[g]) /\ Len(P) = Len(raw[g].entries)
    BY PartsAre
  <2>2. \A i \in 1 .. n : P[i] \in Seq(MetricsOf(raw[g]))
    BY <2>1, ElementOfSeq DEF ReadUpTo
  <2> QED
    BY <2>1, <2>2, SubSeqProperties
<1>2. out[g] \in Seq(MetricsOf(raw[g]))
  BY <1>1, FlattenIsSeq DEF ReadUpTo, RowsUpTo
<1> QED
  BY <1>2, ConcatEmptySeq

\* Nothing has been read before the first entry.
LEMMA ReadNothing ==
    ASSUME NEW g \in Parsers, raw[g] \in Messages[g], Readable(raw[g]), out[g] = <<>>,
           raw[g].alarm \/ raw[g].entries # <<>>
    PROVE  ReadUpTo(g, 0)
<1>1. Len(raw[g].entries) \in Nat /\ RowsUpTo(raw[g], 0) = <<>>
  BY PartsAre, RowsGrow
<1> QED
  BY <1>1 DEF ReadUpTo

\* All of them have been read at the end.
LEMMA ReadAll ==
    ASSUME NEW g \in Parsers, raw[g] \in Messages[g], Readable(raw[g]), NEW n \in Nat,
           ReadUpTo(g, n), ~(n + 1 <= Len(raw[g].entries))
    PROVE  Outcome(raw[g], "ok", out[g])
<1>1. n = Len(raw[g].entries) /\ DOMAIN raw[g].entries = 1 .. n
  BY PartsAre DEF ReadUpTo
<1>2. out[g] = FlattenSeq(PartsOf(raw[g]))
  BY <1>1, RowsGrow DEF ReadUpTo
<1>3. ~ShouldFail(raw[g])
  BY <1>1, FailsWhen DEF ReadUpTo, Readable
<1> QED
  BY <1>2, <1>3 DEF Outcome, Readable

\* Who takes no step makes no progress.
LEMMA OthersProgress ==
    ASSUME NEW g \in Parsers, ProgressAt(g), pc'[g] = pc[g], raw'[g] = raw[g], at'[g] = at[g],
           out'[g] = out[g], status'[g] = status[g]
    PROVE  ProgressAt(g)'
  BY DEF ProgressAt, ReadUpTo, EntryOf, Aborts, Outcome, RowsUpTo

\* Every step of a parser reads one entry more, skips it, or ends with the
\* outcome that is due.
LEMMA ProgressStep == PoolInv /\ Undisturbed /\ Progress /\ [Next]_vars => Progress'
<1> SUFFICES ASSUME PoolInv, Undisturbed, Progress, [Next]_vars
             PROVE  Progress'
  OBVIOUS
<1>a. /\ pc \in [Parsers -> PCs] /\ at \in [Parsers -> Nat \ {0}]
      /\ DOMAIN raw = Parsers /\ DOMAIN out = Parsers /\ DOMAIN status = Parsers
  BY DEF PoolInv, TypeInv, Progress
<1>b. ASSUME NEW g \in Parsers, ProgressAt(g)', DOMAIN status' = Parsers,
             \A h \in Parsers \ {g} : /\ pc'[h] = pc[h] /\ raw'[h] = raw[h] /\ at'[h] = at[h]
                                      /\ out'[h] = out[h] /\ status'[h] = status[h]
      PROVE  Progress'
  <2>1. \A h \in Parsers \ {g} : ProgressAt(h)'
    BY <1>b, OthersProgress DEF Progress
  <2> QED
    BY <1>b, <2>1 DEF Progress
<1>c. \A g \in Parsers : ProgressAt(g)
  BY DEF Progress
<1>1. ASSUME NEW g \in Parsers, Call(g)
      PROVE  Progress'
  <2>1. pc'[g] = "unmarshal" /\ at'[g] = 1 /\ out'[g] = <<>>
    BY <1>1, <1>a DEF Call
  <2>2. ProgressAt(g)'
    BY <2>1 DEF ProgressAt
  <2> QED
    BY <1>1, <1>a, <1>b, <2>2 DEF Call
<1>2. ASSUME NEW g \in Parsers, Unmarshal(g)
      PROVE  Progress'
  <2>1. pc[g] = "unmarshal" /\ pc'[g] = "route" /\ UNCHANGED <<at, out>>
    BY <1>2, <1>a DEF Unmarshal
  <2>2. ProgressAt(g)'
    BY <1>c, <2>1 DEF ProgressAt
  <2> QED
    BY <1>2, <1>a, <1>b, <2>2 DEF Unmarshal
<1>3. ASSUME NEW g \in Parsers, UnmarshalFails(g)
      PROVE  Progress'
  <2>1. /\ pc[g] = "unmarshal" /\ pc'[g] = "returned" /\ status'[g] = "error"
        /\ ~raw[g].decodes /\ UNCHANGED <<raw, out>>
    BY <1>3, <1>a DEF UnmarshalFails
  <2>2. raw[g] \in Messages[g] /\ out[g] = <<>>
    BY <1>c, <2>1 DEF Undisturbed, HasOuter, ProgressAt
  <2>3. Outcome(raw[g], "error", out[g])
    BY <2>1, <2>2 DEF Outcome, ShouldFail
  <2>4. ProgressAt(g)'
    BY <2>1, <2>2, <2>3 DEF ProgressAt
  <2> QED
    BY <1>3, <1>a, <1>b, <2>4 DEF UnmarshalFails
\* The deferred function is run for the outcome that is due.
<1>d. ASSUME NEW g \in Parsers, NEW res \in {"ok", "error"}, ReturnWith(g, res), UNCHANGED raw,
             raw[g] \in Messages[g],
             Outcome(raw[g], res, IF res = "error" THEN <<>> ELSE out[g]),
             \A h \in Parsers \ {g} : at'[h] = at[h]
      PROVE  Progress'
  <2>1. /\ pc'[g] = "deferred" /\ status'[g] = res
        /\ out'[g] = IF res = "error" THEN <<>> ELSE out[g]
    BY <1>a, <1>d DEF ReturnWith
  <2>2. ProgressAt(g)'
    BY <1>d, <2>1 DEF ProgressAt
  <2> QED
    BY <1>a, <1>b, <1>d, <2>2 DEF ReturnWith
<1>4. ASSUME NEW g \in Parsers, RouteMessage(g)
      PROVE  Progress'
  <2>1. pc[g] = "route" /\ UNCHANGED <<raw, at>>
    BY <1>4 DEF RouteMessage
  <2>2. Msg(g) = raw[g] /\ raw[g] \in Messages[g] /\ raw[g].decodes
    BY <2>1, HeldMessage DEF HasMessage
  <2>3. at[g] = 0 + 1 /\ out[g] = <<>>
    BY <1>c, <2>1 DEF ProgressAt
  <2>4. ASSUME pc' = [pc EXCEPT ![g] = "alarm"] \/ pc' = [pc EXCEPT ![g] = "entry"],
               Readable(raw[g]), raw[g].alarm \/ raw[g].entries # <<>>, UNCHANGED <<out, status>>
        PROVE  Progress'
    <3>1. ReadUpTo(g, 0)
      BY <2>2, <2>3, <2>4, ReadNothing
    <3>2. ReadUpTo(g, 0)'
      BY <2>1, <2>4, <3>1 DEF ReadUpTo, RowsUpTo, Aborts
    <3>3. at'[g] = 0 + 1 /\ 0 \in Nat /\ (pc'[g] = "alarm" \/ pc'[g] = "entry")
      BY <1>a, <2>1, <2>3, <2>4
    <3>4. ProgressAt(g)'
      BY <3>2, <3>3 DEF ProgressAt
    <3> QED
      BY <1>a, <1>b, <2>1, <2>4, <3>4
  <2>5. CASE raw[g].alarm /\ pc' = [pc EXCEPT ![g] = "alarm"] /\ UNCHANGED <<out, status>>
    BY <2>2, <2>4, <2>5 DEF Readable
  <2>6. CASE ~raw[g].alarm /\ FirstMatch(raw[g].path) = 0 /\ ReturnWith(g, "ok")
    <3>1. ~ShouldFail(raw[g])
      BY <2>2, <2>6, FailsWhen
    <3>2. Outcome(raw[g], "ok", out[g])
      BY <2>2, <2>3, <2>6, <3>1 DEF Outcome
    <3> QED
      BY <1>d, <2>1, <2>2, <2>6, <3>2
  <2>7. CASE /\ ~raw[g].alarm /\ FirstMatch(raw[g].path) # 0
             /\ raw[g].entries = <<>> /\ ReturnWith(g, "error")
    <3>1. ShouldFail(raw[g])
      BY <2>2, <2>7, FailsWhen
    <3>2. Outcome(raw[g], "error", <<>>)
      BY <3>1 DEF Outcome
    <3> QED
      BY <1>d, <2>1, <2>2, <2>7, <3>2
  <2>8. CASE /\ ~raw[g].alarm /\ FirstMatch(raw[g].path) # 0 /\ raw[g].entries # <<>>
             /\ pc' = [pc EXCEPT ![g] = "entry"] /\ UNCHANGED <<out, status>>
    BY <2>2, <2>4, <2>8 DEF Readable
  <2> QED
    BY <1>4, <2>2, <2>5, <2>6, <2>7, <2>8 DEF RouteMessage
\* At an entry.
<1>e. ASSUME NEW g \in Parsers, pc[g] \in {"alarm", "entry", "extract"}, at[g] <= Len(raw[g].entries)
      PROVE  \E n \in Nat : /\ at[g] = n + 1 /\ n + 1 <= Len(raw[g].entries) /\ ReadUpTo(g, n)
                            /\ EntryOf(g) = raw[g].entries[n + 1]
  BY <1>c, <1>e DEF ProgressAt, EntryOf
<1>5. ASSUME NEW g \in Parsers, ParseAlarmEntry(g)
      PROVE  Progress'
  <2>1. /\ pc[g] = "alarm" /\ at[g] <= Len(Msg(g).entries) /\ UNCHANGED <<pc, raw, status>>
        /\ out' = [out EXCEPT ![g] = out[g] \o AlarmRows(Msg(g), Entry(g))]
        /\ at' = [at EXCEPT ![g] = at[g] + 1]
    BY <1>5 DEF ParseAlarmEntry, MoreEntries
  <2>2. /\ Msg(g) = raw[g] /\ Entry(g) = EntryOf(g) /\ raw[g] \in Messages[g]
        /\ raw[g].alarm /\ Readable(raw[g])
    BY <2>1, HeldMessage DEF HasMessage
  <2>3. PICK n \in Nat : /\ at[g] = n + 1 /\ n + 1 <= Len(raw[g].entries) /\ ReadUpTo(g, n)
                         /\ EntryOf(g) = raw[g].entries[n + 1]
    BY <1>e, <2>1, <2>2
  <2>4. out'[g] = out[g] \o PartOf(raw[g], raw[g].entries[n + 1])
    BY <1>a, <2>1, <2>2, <2>3 DEF PartOf
  <2>5. ReadUpTo(g, n + 1)'
    BY <2>1, <2>2, <2>3, <2>4, ReadMore DEF Aborts
  <2>6. pc'[g] = "alarm" /\ at'[g] = (n + 1) + 1 /\ n + 1 \in Nat
    BY <1>a, <2>1, <2>3
  <2>7. ProgressAt(g)'
    BY <2>5, <2>6 DEF ProgressAt
  <2> QED
    BY <1>a, <1>b, <2>1, <2>7
<1>6. ASSUME NEW g \in Parsers, DecodeEntry(g)
      PROVE  Progress'
  <2>1. /\ pc[g] = "entry" /\ Entry(g).kind # "garbage" /\ pc' = [pc EXCEPT ![g] = "extract"]
        /\ UNCHANGED <<raw, at, out, status>>
    BY <1>6 DEF DecodeEntry
  <2>2. EntryOf(g).kind # "garbage"
    BY <2>1, HeldMessage DEF HasMessage
  <2>3. \E n \in Nat : at[g] = n + 1 /\ ReadUpTo(g, n)
    BY <1>c, <2>1 DEF ProgressAt
  <2>4. \E n \in Nat : at'[g] = n + 1 /\ ReadUpTo(g, n)'
    BY <2>1, <2>3 DEF ReadUpTo, RowsUpTo, Aborts
  <2>5. pc'[g] = "extract" /\ EntryOf(g)'.kind # "garbage"
    BY <1>a, <2>1, <2>2 DEF EntryOf
  <2>6. ProgressAt(g)'
    BY <2>4, <2>5 DEF ProgressAt
  <2> QED
    BY <1>a, <1>b, <2>1, <2>6
<1>7. ASSUME NEW g \in Parsers, EntryFails(g)
      PROVE  Progress'
  <2>1. /\ pc[g] = "entry" /\ at[g] <= Len(Msg(g).entries) /\ Entry(g).kind = "garbage"
        /\ UNCHANGED raw
    BY <1>7 DEF EntryFails, MoreEntries
  <2>2. /\ Msg(g) = raw[g] /\ Entry(g) = EntryOf(g) /\ raw[g] \in Messages[g] /\ raw[g].decodes
        /\ HandlerOf(g) = routes[FirstMatch(raw[g].path)].handler
        /\ ~raw[g].alarm /\ FirstMatch(raw[g].path) # 0 /\ Readable(raw[g])
    BY <2>1, HeldMessage DEF HasMessage
  <2>3. PICK n \in Nat : /\ at[g] = n + 1 /\ n + 1 <= Len(raw[g].entries) /\ ReadUpTo(g, n)
                         /\ EntryOf(g) = raw[g].entries[n + 1]
    BY <1>e, <2>1, <2>2
  <2>4. CASE /\ HandlerOf(g).onBad = "skip" /\ at' = [at EXCEPT ![g] = at[g] + 1]
             /\ UNCHANGED <<pc, out, status>>
    <3>1. ~Aborts(raw[g])
      BY <2>2, <2>4 DEF Aborts
    <3>2. PartOf(raw[g], raw[g].entries[n + 1]) = <<>>
      BY <2>1, <2>2, <2>3 DEF PartOf
    <3>3. out'[g] = out[g] \o PartOf(raw[g], raw[g].entries[n + 1])
      BY <2>2, <2>3, <2>4, <3>2, NothingMore
    <3>4. ReadUpTo(g, n + 1)'
      BY <2>1, <2>2, <2>3, <3>1, <3>3, ReadMore
    <3>5. pc'[g] = "entry" /\ at'[g] = (n + 1) + 1 /\ n + 1 \in Nat
      BY <1>a, <2>1, <2>3, <2>4
    <3>6. ProgressAt(g)'
      BY <3>4, <3>5 DEF ProgressAt
    <3> QED
      BY <1>a, <1>b, <2>1, <2>4, <3>6
  <2>5. CASE HandlerOf(g).onBad = "abort" /\ ReturnWith(g, "error") /\ UNCHANGED at
    <3>1. n + 1 \in DOMAIN raw[g].entries
      BY <2>2, <2>3, PartsAre
    <3>2. ShouldFail(raw[g])
      BY <2>1, <2>2, <2>3, <2>5, <3>1, FailsWhen DEF Aborts
    <3>3. Outcome(raw[g], "error", <<>>)
      BY <3>2 DEF Outcome
    <3> QED
      BY <1>d, <2>1, <2>2, <2>5, <3>3
  <2> QED
    BY <1>7, <2>4, <2>5 DEF EntryFails
<1>8. ASSUME NEW g \in Parsers, Extract(g)
      PROVE  Progress'
  <2>1. /\ pc[g] = "extract" /\ pc' = [pc EXCEPT ![g] = "release"] /\ UNCHANGED <<raw, at, status>>
        /\ out' = [out EXCEPT ![g] =
                      out[g] \o HandlerRows(HandlerOf(g), Msg(g).system, content[inner[g]])]
    BY <1>8 DEF Extract
  <2>2. /\ Msg(g) = raw[g] /\ raw[g] \in Messages[g]
        /\ HandlerOf(g) = routes[FirstMatch(raw[g].path)].handler
        /\ ~raw[g].alarm /\ Readable(raw[g])
    BY <2>1, HeldMessage DEF HasMessage
  <2>3. content[inner[g]] = EntryOf(g) /\ at[g] <= Len(raw[g].entries) /\ EntryOf(g).kind # "garbage"
    BY <1>c, <2>1 DEF Undisturbed, HasEntry, ProgressAt
  <2>4. PICK n \in Nat : /\ at[g] = n + 1 /\ n + 1 <= Len(raw[g].entries) /\ ReadUpTo(g, n)
                         /\ EntryOf(g) = raw[g].entries[n + 1]
    BY <1>e, <2>1, <2>3
  <2>5. out'[g] = out[g] \o PartOf(raw[g], raw[g].entries[n + 1])
    BY <1>a, <2>1, <2>2, <2>3, <2>4 DEF PartOf
  <2>6. ReadUpTo(g, n + 1)'
    BY <2>1, <2>2, <2>3, <2>4, <2>5, ReadMore
  <2>7. ReadUpTo(g, at[g])' /\ pc'[g] = "release"
    BY <1>a, <2>1, <2>4, <2>6
  <2>8. ProgressAt(g)'
    BY <2>7 DEF ProgressAt
  <2> QED
    BY <1>a, <1>b, <2>1, <2>8
<1>9. ASSUME NEW g \in Parsers, Release(g)
      PROVE  Progress'
  <2>1. /\ pc[g] = "release" /\ pc' = [pc EXCEPT ![g] = "entry"]
        /\ at' = [at EXCEPT ![g] = at[g] + 1] /\ UNCHANGED <<raw, out, status>>
    BY <1>9 DEF Release
  <2>2. PICK n \in Nat : n = at[g]
    BY <1>a
  <2>3. ReadUpTo(g, n)
    BY <1>c, <2>1, <2>2 DEF ProgressAt
  <2>4. ReadUpTo(g, n)'
    BY <2>1, <2>3 DEF ReadUpTo, RowsUpTo, Aborts
  <2>5. pc'[g] = "entry" /\ at'[g] = n + 1
    BY <1>a, <2>1, <2>2
  <2>6. ProgressAt(g)'
    BY <2>4, <2>5 DEF ProgressAt
  <2> QED
    BY <1>a, <1>b, <2>1, <2>6
<1>10. ASSUME NEW g \in Parsers, EndOfEntries(g)
       PROVE  Progress'
  <2>1. /\ pc[g] \in {"alarm", "entry"} /\ ~(at[g] <= Len(Msg(g).entries))
        /\ ReturnWith(g, "ok") /\ UNCHANGED <<raw, at>>
    BY <1>10 DEF EndOfEntries, MoreEntries
  <2>2. Msg(g) = raw[g] /\ raw[g] \in Messages[g] /\ Readable(raw[g])
    BY <2>1, HeldMessage DEF HasMessage
  <2>3. PICK n \in Nat : at[g] = n + 1 /\ ReadUpTo(g, n)
    BY <1>c, <2>1 DEF ProgressAt
  <2>4. Outcome(raw[g], "ok", out[g])
    BY <2>1, <2>2, <2>3, ReadAll
  <2> QED
    BY <1>d, <2>1, <2>2, <2>4
<1>11. ASSUME NEW g \in Parsers, Deferred(g)
       PROVE  Progress'
  <2>1. /\ pc[g] = "deferred" /\ pc' = [pc EXCEPT ![g] = "returned"]
        /\ UNCHANGED <<raw, at, out, status>>
    BY <1>11 DEF Deferred
  <2>2. raw[g] \in Messages[g] /\ Outcome(raw[g], status[g], out[g])
    BY <1>c, <2>1 DEF ProgressAt
  <2>3. pc'[g] = "returned" /\ raw'[g] = raw[g] /\ status'[g] = status[g] /\ out'[g] = out[g]
    BY <1>a, <2>1
  <2>4. ProgressAt(g)'
    BY <2>2, <2>3 DEF ProgressAt
  <2> QED
    BY <1>a, <1>b, <2>1, <2>4
<1>12. ASSUME NEW g \in Parsers, Consume(g)
       PROVE  Progress'
  <2>1. pc'[g] = "idle"
    BY <1>12, <1>a DEF Consume
  <2>2. ProgressAt(g)'
    BY <2>1 DEF ProgressAt
  <2> QED
    BY <1>12, <1>a, <1>b, <2>2 DEF Consume
<1>13. CASE UNCHANGED vars
  <2>1. \A g \in Parsers : ProgressAt(g)'
    BY <1>13, <1>c, OthersProgress DEF vars
  <2> QED
    BY <1>13, <1>a, <2>1 DEF vars, Progress
<1> QED
  BY <1>1, <1>2, <1>3, <1>4, <1>5, <1>6, <1>7, <1>8, <1>9, <1>10, <1>11, <1>12, <1>13 DEF Next

\* Progress holds in every reachable state.
LEMMA ProgressCorrect == Spec => []Progress
<1>1. Init => Undisturbed /\ Progress
  BY DEF Init, Undisturbed, HasOuter, HasMessage, HasEntry, Progress, ProgressAt
<1> QED
  BY <1>1, PoolInvInit, PoolInvStep, UndisturbedStep, ProgressStep, PTL DEF Spec

\* For any number of parsers, the result of a message is what the handler with
\* the longest matching prefix makes of it, or the error that is due.
THEOREM ResultsAreDue == Spec => []ResultDependsOnMessageOnly
<1>1. ASSUME NEW g \in Parsers, NEW m \in Messages[g], NEW res, NEW rows, Outcome(m, res, rows)
      PROVE  /\ (res = "error") = ShouldFail(m)
             /\ ShouldFail(m) => rows = <<>>
             /\ m.decodes /\ ~m.alarm /\ ~ShouldFail(m) =>
                   rows = IF Candidates(m.path) = {} THEN <<>> ELSE ExpectedRows(m)
  <2>1. ShouldFail(m) \in BOOLEAN
    BY DEF ShouldFail
  <2>2. (res = "error") = ShouldFail(m) /\ (ShouldFail(m) => rows = <<>>)
    BY <1>1, <2>1 DEF Outcome
  <2>3. ASSUME m.decodes, ~m.alarm, ~ShouldFail(m)
        PROVE  rows = IF Candidates(m.path) = {} THEN <<>> ELSE ExpectedRows(m)
    <3>1. rows = IF FirstMatch(m.path) # 0 THEN FlattenSeq(PartsOf(m)) ELSE <<>>
      BY <1>1, <2>3 DEF Outcome
    <3>2. CASE FirstMatch(m.path) = 0
      BY <3>1, <3>2, FirstMatchIs
    <3>3. CASE FirstMatch(m.path) # 0
      <4>1. Candidates(m.path) # {} /\ m.path \in Seq(STRING)
        BY <2>3, <3>3, FirstMatchIs, MessagesAssumption
      <4>2. BestRoute(m.path) = FirstMatch(m.path)
        BY <4>1, FirstIsBest
      <4>3. ExpectedRows(m) = FlattenSeq(PartsOf(m))
        BY <2>3, <4>2 DEF ExpectedRows, PartsOf, PartOf
      <4> QED
        BY <3>1, <3>3, <4>1, <4>3
    <3> QED
      BY <3>2, <3>3
  <2> QED
    BY <2>2, <2>3
<1>2. Progress => ResultDependsOnMessageOnly
  BY <1>1 DEF Progress, ProgressAt, Returned, ResultDependsOnMessageOnly
<1> QED
  BY <1>2, ProgressCorrect, PTL

\* The alarms of an entry.
AlarmsOf(m, e) ==
    IF e.kind \in {"alarmInfo", "currentAlarm"} THEN Repeat(AlarmRow(m.system, e), e.n) ELSE <<>>

\* An entry yields its alarms, and blank ones, unless notifications are asked for.
LEMMA AlarmsOfEntry ==
    ASSUME NEW g \in Parsers, NEW m \in Messages[g], m.decodes, m.alarm,
           ~IsNoteReport(m) \/ IsAlarmReport(m), NEW e \in Range(m.entries)
    PROVE  NotBlank(AlarmRows(m, e)) = AlarmsOf(m, e)
<1>1. /\ e.n \in Nat /\ e.m \in Nat /\ e.name # "nothing"
      /\ e.kind = "currentAlarm" => e.n = 1
  BY MessagesAssumption
<1>2. PICK row : row = AlarmRow(m.system, e)
  OBVIOUS
<1>3. row.from # "nothing"
  BY <1>1, <1>2 DEF AlarmRow
<1>4. ASSUME NEW n \in Nat
      PROVE  NotBlank(Repeat(row, n)) = Repeat(row, n)
  <2>1. Repeat(row, n) \in Seq({row})
    BY RepeatIsSeq
  <2> QED
    BY <1>3, <2>1, NotBlankAll
<1>5. Repeat(row, 0) = <<>> /\ Repeat(row, 1) = <<row>>
  BY DEF Repeat
<1>6. CASE e.kind = "alarmInfo" /\ e.n > 0
  <2>1. Repeat(row, e.n) # <<>>
    <3>1. 1 \in DOMAIN Repeat(row, e.n)
      BY <1>1, <1>6 DEF Repeat
    <3> QED
      BY <3>1
  <2>2. AlarmRows(m, e) = Repeat(row, e.n)
    BY <1>2, <1>6, <2>1 DEF AlarmRows, parseCurrentAlarmReportFromGpb
  <2> QED
    BY <1>1, <1>2, <1>4, <1>6, <2>2 DEF AlarmsOf
<1>7. CASE e.kind = "alarmInfo" /\ e.n = 0
  <2>1. PICK b : b = BlankAlarm(m.system)
    OBVIOUS
  <2>2. AlarmRows(m, e) = <<b>> /\ b.from = "nothing"
    BY <1>7, <2>1 DEF AlarmRows, parseCurrentAlarmReportFromGpb, BlankAlarm
  <2>3. NotBlank(<<b>>) = <<>>
    BY <2>2, NotBlankOne
  <2> QED
    BY <1>2, <1>5, <1>7, <2>2, <2>3 DEF AlarmsOf
<1>8. CASE e.kind = "currentAlarm"
  <2>1. AlarmRows(m, e) = <<row>>
    BY <1>2, <1>8 DEF AlarmRows, parseCurrentAlarmReportFromGpb
  <2>2. NotBlank(<<row>>) = <<row>>
    BY <1>3, NotBlankOne
  <2> QED
    BY <1>1, <1>2, <1>5, <1>8, <2>1, <2>2 DEF AlarmsOf
<1>9. CASE e.kind \notin {"alarmInfo", "currentAlarm"}
  <2>1. AlarmRows(m, e) = <<>>
    BY <1>9 DEF AlarmRows, parseCurrentAlarmReportFromGpb, parseNotificationReportFromGpb
  <2>2. NotBlank(<<>>) = <<>>
    BY <1>4, <1>5
  <2> QED
    BY <1>9, <2>1, <2>2 DEF AlarmsOf
<1> QED
  BY <1>1, <1>6, <1>7, <1>8, <1>9

\* What NotBlank leaves of a flattened sequence is what it leaves of its parts.
LEMMA NotBlankParts ==
    ASSUME NEW U, NEW P \in Seq(Seq(U)), NEW Q \in Seq(Seq(U)), Len(P) = Len(Q),
           \A i \in 1 .. Len(P) : NotBlank(P[i]) = Q[i]
    PROVE  NotBlank(FlattenSeq(P)) = FlattenSeq(Q)
<1> DEFINE Alike(k) == NotBlank(FlattenSeq(SubSeq(P, 1, k))) = FlattenSeq(SubSeq(Q, 1, k))
<1>1. PICK S : S = {k \in Nat : k <= Len(P) => Alike(k)}
  OBVIOUS
<1>2. 0 \in S
  <2>1. SubSeq(P, 1, 0) = <<>> /\ SubSeq(Q, 1, 0) = <<>>
    OBVIOUS
  <2>2. FlattenSeq(<<>>) = <<>>
    <3>1. <<>> \in Seq(U) /\ Len(<<>>) = 0
      OBVIOUS
    <3> QED
      BY <3>1, FlattenNone
  <2>3. NotBlank(<<>>) = <<>>
    <3>1. Marks(<<>>) = <<>>
      BY DEF Marks
    <3> QED
      BY <2>2, <3>1, NotBlankFlattens
  <2> QED
    BY <1>1, <2>1, <2>2, <2>3
<1>3. ASSUME NEW k \in Nat, k \in S
      PROVE  k + 1 \in S
  <2> SUFFICES ASSUME k + 1 <= Len(P) PROVE Alike(k + 1)
    BY <1>1
  <2>0. k + 1 <= Len(Q)
    OBVIOUS
  <2>1. PICK p \in Seq(Seq(U)) : p = SubSeq(P, 1, k)
    BY SubSeqGrows
  <2>2. PICK x \in Seq(U) : x = P[k + 1]
    BY SubSeqGrows
  <2>3. SubSeq(P, 1, k + 1) = p \o <<x>>
    BY <2>1, <2>2, SubSeqGrows
  <2>4. PICK q \in Seq(Seq(U)) : q = SubSeq(Q, 1, k)
    BY <2>0, SubSeqGrows
  <2>5. PICK y \in Seq(U) : y = Q[k + 1]
    BY <2>0, SubSeqGrows
  <2>6. SubSeq(Q, 1, k + 1) = q \o <<y>>
    BY <2>0, <2>4, <2>5, SubSeqGrows
  <2>7. NotBlank(x) = y
    <3>1. k + 1 \in 1 .. Len(P)
      OBVIOUS
    <3> QED
      BY <2>2, <2>5, <3>1
  <2>8. NotBlank(FlattenSeq(p)) = FlattenSeq(q)
    BY <1>1, <1>3, <2>1, <2>4
  <2>9. NotBlank(FlattenSeq(p) \o x) = NotBlank(FlattenSeq(p)) \o NotBlank(x)
    <3>1. PICK r \in Seq(U) : r = FlattenSeq(p)
      BY FlattenIsSeq
    <3>2. NotBlank(r \o x) = NotBlank(r) \o NotBlank(x)
      BY NotBlankJoin
    <3> QED
      BY <3>1, <3>2
  <2>10. FlattenSeq(p \o <<x>>) = FlattenSeq(p) \o x /\ FlattenSeq(q \o <<y>>) = FlattenSeq(q) \o y
    BY FlattenMore
  <2> QED
    BY <2>3, <2>6, <2>7, <2>8, <2>9, <2>10
<1>4. Len(P) \in S /\ Len(P) \in Nat
  <2>1. Nat \subseteq S
    BY <1>2, <1>3, Induction
  <2> QED
    BY <2>1, LenProperties
<1>5. Alike(Len(P))
  <2>1. PICK n : n = Len(P)
    OBVIOUS
  <2>2. n \in S /\ n <= n
    BY <1>4, <2>1
  <2> QED
    BY <1>1, <2>1, <2>2
<1>6. SubSeq(P, 1, Len(P)) = P /\ SubSeq(Q, 1, Len(Q)) = Q
  BY SubSeqFull
<1> QED
  BY <1>5, <1>6

\* An alarm message yields the alarms in its entries, in their order, or the
\* notifications on their path, whatever else the entries are.
THEOREM NoReportLost == Spec => []ReportsKept
<1>1. ASSUME NEW g \in Parsers, NEW m \in Messages[g], m.decodes, m.alarm,
             ~IsNoteReport(m) \/ IsAlarmReport(m)
      PROVE  NotBlank(FlattenSeq(PartsOf(m))) = AlarmsIn(m)
  <2>1. PICK U : U = MetricsOf(m)
    OBVIOUS
  <2>2. PICK P \in Seq(Seq(U)) : P = PartsOf(m)
    BY <1>1, <2>1, PartsAre DEF Readable
  <2>3. PICK n \in Nat : n = Len(m.entries)
    BY <1>1, PartsAre DEF Readable
  <2>4. /\ Len(P) = n /\ DOMAIN m.entries = 1 .. n
        /\ \A i \in 1 .. n : P[i] = PartOf(m, m.entries[i])
    BY <1>1, <2>2, <2>3, PartsAre DEF Readable
  <2>5. PICK Q : Q = [i \in 1 .. n |-> AlarmsOf(m, m.entries[i])]
    OBVIOUS
  <2>6. AlarmsIn(m) = FlattenSeq(Q)
    BY <2>4, <2>5 DEF AlarmsIn, AlarmsOf
  <2>7. ASSUME NEW i \in 1 .. n
        PROVE  /\ NotBlank(P[i]) = AlarmsOf(m, m.entries[i])
               /\ AlarmsOf(m, m.entries[i]) \in Seq(U)
    <3>1. PICK e \in Range(m.entries) : e = m.entries[i]
      BY <1>1, <2>3, ElementOfSeq, MessagesAssumption
    <3>2. P[i] = AlarmRows(m, e)
      BY <1>1, <2>4, <3>1 DEF PartOf
    <3>3. NotBlank(P[i]) = AlarmsOf(m, e)
      BY <1>1, <3>2, AlarmsOfEntry
    <3>4. AlarmRow(m.system, e) \in U /\ e.n \in Nat
      BY <1>1, <2>1, MessagesAssumption DEF MetricsOf, AlarmRow
    <3>5. AlarmsOf(m, e) \in Seq(U)
      <4>1. Repeat(AlarmRow(m.system, e), e.n) \in Seq(U)
        BY <3>4, RepeatIsSeq
      <4>2. <<>> \in Seq(U)
        OBVIOUS
      <4> QED
        BY <4>1, <4>2 DEF AlarmsOf
    <3> QED
      BY <3>1, <3>3, <3>5
  <2>8. Q \in Seq(Seq(U)) /\ Len(Q) = n
    BY <2>5, <2>7
  <2>9. \A i \in 1 .. Len(P) : NotBlank(P[i]) = Q[i]
    BY <2>4, <2>5, <2>7
  <2>10. NotBlank(FlattenSeq(P)) = FlattenSeq(Q)
    BY <2>4, <2>8, <2>9, NotBlankParts
  <2> QED
    BY <2>2, <2>6, <2>10
<1>2. ASSUME NEW m, m.alarm, IsNoteReport(m), ~IsAlarmReport(m)
      PROVE  FlattenSeq(PartsOf(m)) = NotesIn(m)
  <2>1. \A e : PartOf(m, e) = IF e.kind = "alarmInfo" THEN Repeat(NoteRow(m.system, e), e.m) ELSE <<>>
    BY <1>2 DEF PartOf, AlarmRows, parseNotificationReportFromGpb
  <2>2. PartsOf(m) = [i \in DOMAIN m.entries |->
                         IF m.entries[i].kind = "alarmInfo"
                         THEN Repeat(NoteRow(m.system, m.entries[i]), m.entries[i].m) ELSE <<>>]
    BY <2>1 DEF PartsOf
  <2> QED
    BY <2>2 DEF NotesIn
<1>3. ASSUME NEW g \in Parsers, NEW m \in Messages[g], m.decodes, m.alarm, NEW res, NEW rows,
             Outcome(m, res, rows)
      PROVE  res = "ok" /\ rows = FlattenSeq(PartsOf(m))
  <2>1. ~ShouldFail(m)
    BY <1>3, FailsWhen
  <2> QED
    BY <1>3, <2>1 DEF Outcome
<1>4. Progress => ReportsKept
  <2> SUFFICES ASSUME Progress, NEW g \in Parsers, Returned(g), raw[g].decodes, raw[g].alarm
               PROVE  /\ status[g] = "ok"
                      /\ ~IsNoteReport(raw[g]) \/ IsAlarmReport(raw[g])
                            => NotBlank(out[g]) = AlarmsIn(raw[g])
                      /\ IsNoteReport(raw[g]) /\ ~IsAlarmReport(raw[g]) => out[g] = NotesIn(raw[g])
    BY DEF ReportsKept
  <2>1. raw[g] \in Messages[g] /\ Outcome(raw[g], status[g], out[g])
    BY DEF Progress, ProgressAt, Returned
  <2>2. status[g] = "ok" /\ out[g] = FlattenSeq(PartsOf(raw[g]))
    BY <1>3, <2>1
  <2> QED
    BY <1>1, <1>2, <2>1, <2>2
<1> QED
  BY <1>4, ProgressCorrect, PTL
=============================================================================
