------------------------------- MODULE Parser -------------------------------
(***************************************************************************)
(* ParseTelemetryData (internal/parser), called by every Publish handler   *)
(* at the same time on one shared TelemetryParser.  The messages it        *)
(* decodes into come from sync.Pools: telemetryPool for the message,       *)
(* componentPool and interfacePool for the entries of its DataGpb.         *)
(*                                                                         *)
(* A message on the wire is what proto.Unmarshal makes of it.  An entry    *)
(* that decodes has n elements of the kind that the handler of its path    *)
(* reads (sections, states, subinterfaces); the fields of a metric are     *)
(* reduced to the device and the element it came from.                     *)
(***************************************************************************)
EXTENDS Integers, Sequences, FiniteSets, SequencesExt

CONSTANTS
    Parsers,   \* goroutines inside ParseTelemetryData, one per stream
    Messages   \* Messages[g]: the messages that the device of stream g sends

ASSUME ParserAssumption == IsFiniteSet(Parsers) /\ Parsers # {}
                              /\ \A g \in Parsers : Messages[g] # {}

\* Counts of elements are natural numbers; a bare CurrentAlarm is one alarm;
\* "nothing" is no name, it stands for a metric that came from no element.
ASSUME MessagesAssumption ==
    \A g \in Parsers : \A m \in Messages[g] :
        m.decodes => /\ m.path \in Seq(STRING)
                     /\ m.entries \in Seq(Range(m.entries))
                     /\ \A e \in Range(m.entries) :
                           /\ e.n \in Nat /\ e.m \in Nat /\ e.name # "nothing"
                           /\ e.kind = "currentAlarm" => e.n = 1

-----------------------------------------------------------------------------
(* The handlers: the pool whose objects they decode entries into, the      *)
(* table of their metrics, what an entry that does not decode does to the  *)
(* message (skip: it is left out; abort: the parse fails), and how many    *)
(* metrics an entry yields (one: one if the section is there; always: one  *)
(* with or without sections; each: one per subinterface).                  *)

Handler(pool, table, onBad, yield) ==
    [pool |-> pool, table |-> table, onBad |-> onBad, yield |-> yield]

parseComponentState            == Handler("component", "platform", "skip", "one")
parseComponentsData            == Handler("component", "platform", "skip", "always")
parseComponentFanState         == Handler("component", "platform", "skip", "one")
parseComponentMemoryState      == Handler("component", "platform", "skip", "one")
parseComponentStorageState     == Handler("component", "platform", "abort", "one")
parseComponentTemperatureState == Handler("component", "platform", "abort", "one")
parseComponentPowerSupplyState == Handler("component", "platform", "abort", "one")
parseComponentLinecardState    == Handler("component", "platform", "abort", "one")
parseComponentCPUState         == Handler("component", "platform", "abort", "one")
parseComponentTransceiverState == Handler("component", "platform", "abort", "one")
parseInterfaceState            == Handler("interface", "interface", "abort", "one")
parseInterfaceZteState         == Handler("interface", "interface", "abort", "one")
parseInterfaceCounters         == Handler("interface", "interface", "skip", "one")
parseSubinterfaceState         == Handler("interface", "subinterface", "abort", "each")
parseSubinterfaceZteState      == Handler("interface", "subinterface", "abort", "each")
parseSubinterfaceCounters      == Handler("interface", "subinterface", "abort", "each")

(* A path is a sequence of fragments, cut where the prefixes of the table  *)
(* end, so that strings.HasPrefix is IsPrefix.                             *)
Component    == <<"oc-platform:components/component">>
Interface    == <<"oc-if:interfaces/interface">>
Subinterface == Interface \o <<"/subinterfaces/subinterface">>

Route(path, handler, exact) == [prefix |-> path, handler |-> handler, exact |-> exact]

routes == <<
    Route(Component, parseComponentsData, TRUE),
    Route(Component \o <<"/oc-transceiver:transceiver/state">>, parseComponentTransceiverState, FALSE),
    Route(Component \o <<"/cpu/oc-cpu:utilization/state">>, parseComponentCPUState, FALSE),
    Route(Component \o <<"/oc-linecard:linecard/state">>, parseComponentLinecardState, FALSE),
    Route(Component \o <<"/power-supply/state">>, parseComponentPowerSupplyState, FALSE),
    Route(Component \o <<"/fan/state">>, parseComponentFanState, FALSE),
    Route(Component \o <<"/state", "/memory">>, parseComponentMemoryState, FALSE),
    Route(Component \o <<"/state", "/storage">>, parseComponentStorageState, FALSE),
    Route(Component \o <<"/state", "/temperature">>, parseComponentTemperatureState, FALSE),
    Route(Component \o <<"/state">>, parseComponentState, FALSE),
    Route(Subinterface \o <<"/state", "/counters">>, parseSubinterfaceCounters, FALSE),
    Route(Subinterface \o <<"/zte-if:state-period">>, parseSubinterfaceZteState, FALSE),
    Route(Subinterface \o <<"/state">>, parseSubinterfaceState, FALSE),
    Route(Interface \o <<"/state", "/counters">>, parseInterfaceCounters, FALSE),
    Route(Interface \o <<"/zte-if:state-period">>, parseInterfaceZteState, FALSE),
    Route(Interface \o <<"/state">>, parseInterfaceState, FALSE) >>

Matches(route, path) == IF route.exact THEN path = route.prefix ELSE IsPrefix(route.prefix, path)

\* Wrong variant of FirstMatch: the loop goes on and the last match wins.
LastMatch(path) == SelectLastInSeq(routes, LAMBDA r : Matches(r, path))

\* The position of the first route that matches, 0 if there is none.
FirstMatch(path) == SelectInSeq(routes, LAMBDA r : Matches(r, path))

Repeat(row, n) == [i \in 1 .. n |-> row]

\* The metrics of a decoded entry.
HandlerRows(handler, system, entry) ==
    Repeat([table |-> handler.table, system |-> system, from |-> entry.name],
           CASE handler.yield = "always" -> 1
             [] handler.yield = "one"    -> IF entry.n > 0 THEN 1 ELSE 0
             [] handler.yield = "each"   -> entry.n)

-----------------------------------------------------------------------------
(* Alarm messages.  An entry is an AlarmInfo with n alarms and m           *)
(* notifications, a bare CurrentAlarm, or does not decode.  protobuf takes *)
(* a field of an unexpected wire type for an unknown one, so that an       *)
(* AlarmInfo decodes as a CurrentAlarm with no field set, and a            *)
(* CurrentAlarm as an AlarmInfo without reports.                           *)

AlarmRow(system, entry) == [table |-> "alarm", system |-> system, from |-> entry.name]
BlankAlarm(system)      == [table |-> "alarm", system |-> system, from |-> "nothing"]
NoteRow(system, entry)  == [table |-> "notification", system |-> system, from |-> entry.name]

parseCurrentAlarmReportFromGpb(system, entry) ==
    CASE entry.kind = "alarmInfo" /\ entry.n > 0 -> Repeat(AlarmRow(system, entry), entry.n)
      [] entry.kind = "alarmInfo" /\ entry.n = 0 -> <<BlankAlarm(system)>>
      [] entry.kind = "currentAlarm"             -> <<AlarmRow(system, entry)>>
      [] OTHER                                   -> <<>>

parseNotificationReportFromGpb(system, entry) ==
    IF entry.kind = "alarmInfo" THEN Repeat(NoteRow(system, entry), entry.m) ELSE <<>>

IsAlarmReport(msg) == \/ msg.path = <<"alm:current-alarm-report">>
                      \/ msg.proto = "zxr10.alarm.AlarmReport"
IsNoteReport(msg)  == \/ msg.path = <<"alm:notification-report">>
                      \/ msg.proto = "zxr10.alarm.NotificationReport"

\* Wrong variant of AlarmRows: the case of the notification report comes first.
AlarmRowsNotesFirst(msg, entry) ==
    LET alarms == parseCurrentAlarmReportFromGpb(msg.system, entry)
        notes  == parseNotificationReportFromGpb(msg.system, entry)
    IN  IF IsNoteReport(msg) THEN notes
        ELSE IF IsAlarmReport(msg) \/ alarms # <<>> THEN alarms
        ELSE notes

\* The cases of parseAlarmData in their order, the generic one last; an entry
\* that does not decode is skipped in each of them.
AlarmRows(msg, entry) ==
    LET alarms == parseCurrentAlarmReportFromGpb(msg.system, entry)
        notes  == parseNotificationReportFromGpb(msg.system, entry)
    IN  IF IsAlarmReport(msg) THEN alarms
        ELSE IF IsNoteReport(msg) THEN notes
        ELSE IF alarms # <<>> THEN alarms
        ELSE notes

-----------------------------------------------------------------------------
(* The pools.  Get may return any object that is in the pool; one object   *)
(* per parser and pool stands for those that New allocates.                *)

Pools   == {"telemetry", "component", "interface"}
Objects == [pool : Pools, nr : 1 .. Cardinality(Parsers)]
None    == [pool |-> "none", nr |-> 0]
Unset(kind) == [kind |-> kind, name |-> "", n |-> 0, m |-> 0]
Empty   == Unset("reset")     \* what proto.Reset leaves
NoMessage == [decodes |-> FALSE]
Damaged == Unset("damaged")   \* what a failed proto.Unmarshal leaves

VARIABLES
    pc,       \* pc[g]: what parser g does next
    raw,      \* raw[g]: the bytes it was given
    outer,    \* outer[g]: its telemetryMsg
    inner,    \* inner[g]: its componentInfo or interfaceInfo
    at,       \* at[g]: index into DataGpb
    out,      \* out[g]: the metrics so far
    status,   \* status[g]: "ok" or "error", once it returns
    content,  \* content[o]: what object o holds
    pooled    \* pooled[o]: how many times o is in its pool

vars == <<pc, raw, outer, inner, at, out, status, content, pooled>>

Init ==
    /\ pc = [g \in Parsers |-> "idle"]
    /\ raw = [g \in Parsers |-> NoMessage]
    /\ outer = [g \in Parsers |-> None]
    /\ inner = [g \in Parsers |-> None]
    /\ at = [g \in Parsers |-> 1]
    /\ out = [g \in Parsers |-> <<>>]
    /\ status = [g \in Parsers |-> "ok"]
    /\ content = [o \in Objects |-> Empty]
    /\ pooled = [o \in Objects |-> 1]

Available(pool) == {o \in Objects : o.pool = pool /\ pooled[o] > 0}

Put(o) == pooled' = [pooled EXCEPT ![o] = pooled[o] + 1]
Get(o) == pooled' = [pooled EXCEPT ![o] = pooled[o] - 1]

\* ParseTelemetryData is called: telemetryPool.Get.
Call(g) ==
    /\ pc[g] = "idle"
    /\ \E m \in Messages[g], o \in Available("telemetry") :
          /\ raw' = [raw EXCEPT ![g] = m]
          /\ outer' = [outer EXCEPT ![g] = o]
          /\ Get(o)
    /\ pc' = [pc EXCEPT ![g] = "unmarshal"]
    /\ at' = [at EXCEPT ![g] = 1]
    /\ out' = [out EXCEPT ![g] = <<>>]
    /\ UNCHANGED <<inner, status, content>>

\* proto.Unmarshal of the message, which resets the object first.
Unmarshal(g) ==
    /\ pc[g] = "unmarshal" /\ raw[g].decodes
    /\ content' = [content EXCEPT ![outer[g]] = raw[g]]
    /\ pc' = [pc EXCEPT ![g] = "route"]
    /\ UNCHANGED <<raw, outer, inner, at, out, status, pooled>>

UnmarshalFails(g) ==
    /\ pc[g] = "unmarshal" /\ ~raw[g].decodes
    /\ content' = [content EXCEPT ![outer[g]] = Damaged]
    /\ Put(outer[g])
    /\ outer' = [outer EXCEPT ![g] = None]
    /\ status' = [status EXCEPT ![g] = "error"]
    /\ pc' = [pc EXCEPT ![g] = "returned"]
    /\ UNCHANGED <<raw, inner, at, out>>

Msg(g) == content[outer[g]]

\* The deferred function runs next, whatever the outcome.
ReturnWith(g, outcome) ==
    /\ status' = [status EXCEPT ![g] = outcome]
    /\ out' = [out EXCEPT ![g] = IF outcome = "error" THEN <<>> ELSE out[g]]
    /\ pc' = [pc EXCEPT ![g] = "deferred"]

\* Alarm data first, then the first route that matches; a path without a
\* route gives an empty result, a routed message without entries an error.
RouteMessage(g) ==
    /\ pc[g] = "route"
    /\ \/ /\ Msg(g).alarm
          /\ pc' = [pc EXCEPT ![g] = "alarm"]
          /\ UNCHANGED <<out, status>>
       \/ /\ ~Msg(g).alarm /\ FirstMatch(Msg(g).path) = 0
          /\ ReturnWith(g, "ok")
       \/ /\ ~Msg(g).alarm /\ FirstMatch(Msg(g).path) # 0
          /\ Msg(g).entries = <<>>
          /\ ReturnWith(g, "error")
       \/ /\ ~Msg(g).alarm /\ FirstMatch(Msg(g).path) # 0
          /\ Msg(g).entries # <<>>
          /\ pc' = [pc EXCEPT ![g] = "entry"]
          /\ UNCHANGED <<out, status>>
    /\ UNCHANGED <<raw, outer, inner, at, content, pooled>>

MoreEntries(g) == at[g] <= Len(Msg(g).entries)
Entry(g)       == Msg(g).entries[at[g]]
HandlerOf(g)   == routes[FirstMatch(Msg(g).path)].handler

ParseAlarmEntry(g) ==
    /\ pc[g] = "alarm" /\ MoreEntries(g)
    /\ out' = [out EXCEPT ![g] = out[g] \o AlarmRows(Msg(g), Entry(g))]
    /\ at' = [at EXCEPT ![g] = at[g] + 1]
    /\ UNCHANGED <<pc, raw, outer, inner, status, content, pooled>>

\* Wrong variant of DecodeEntry: the object is back in its pool before it is read.
DecodeEntryPutsBack(g) ==
    /\ pc[g] = "entry" /\ MoreEntries(g) /\ Entry(g).kind # "garbage"
    /\ \E o \in Available(HandlerOf(g).pool) :
          /\ inner' = [inner EXCEPT ![g] = o]
          /\ content' = [content EXCEPT ![o] = Entry(g)]
    /\ pc' = [pc EXCEPT ![g] = "extract"]
    /\ UNCHANGED <<raw, outer, at, out, status, pooled>>

\* Get and Unmarshal of an entry that decodes.
DecodeEntry(g) ==
    /\ pc[g] = "entry" /\ MoreEntries(g) /\ Entry(g).kind # "garbage"
    /\ \E o \in Available(HandlerOf(g).pool) :
          /\ Get(o)
          /\ inner' = [inner EXCEPT ![g] = o]
          /\ content' = [content EXCEPT ![o] = Entry(g)]
    /\ pc' = [pc EXCEPT ![g] = "extract"]
    /\ UNCHANGED <<raw, outer, at, out, status>>

\* Wrong variant of EntryFails: the object is put back and stays in use.
EntryFailsGoesOn(g) ==
    /\ pc[g] = "entry" /\ MoreEntries(g) /\ Entry(g).kind = "garbage"
    /\ \E o \in Available(HandlerOf(g).pool) :
          /\ inner' = [inner EXCEPT ![g] = o]
          /\ content' = [content EXCEPT ![o] = [Entry(g) EXCEPT !.n = 0]]
    /\ pc' = [pc EXCEPT ![g] = "extract"]
    /\ UNCHANGED <<raw, outer, at, out, status, pooled>>

\* Get, a failing Unmarshal and Put; the handler goes on or returns the error.
EntryFails(g) ==
    /\ pc[g] = "entry" /\ MoreEntries(g) /\ Entry(g).kind = "garbage"
    /\ \E o \in Available(HandlerOf(g).pool) : content' = [content EXCEPT ![o] = Damaged]
    /\ \/ /\ HandlerOf(g).onBad = "skip"
          /\ at' = [at EXCEPT ![g] = at[g] + 1]
          /\ UNCHANGED <<pc, out, status>>
       \/ /\ HandlerOf(g).onBad = "abort"
          /\ ReturnWith(g, "error")
          /\ UNCHANGED at
    /\ UNCHANGED <<raw, outer, inner, pooled>>

\* The metrics are made from the two decoded objects.
Extract(g) ==
    /\ pc[g] = "extract"
    /\ out' = [out EXCEPT ![g] =
                  out[g] \o HandlerRows(HandlerOf(g), Msg(g).system, content[inner[g]])]
    /\ pc' = [pc EXCEPT ![g] = "release"]
    /\ UNCHANGED <<raw, outer, inner, at, status, content, pooled>>

\* Reset and Put of the entry's object.
Release(g) ==
    /\ pc[g] = "release"
    /\ content' = [content EXCEPT ![inner[g]] = Empty]
    /\ Put(inner[g])
    /\ inner' = [inner EXCEPT ![g] = None]
    /\ at' = [at EXCEPT ![g] = at[g] + 1]
    /\ pc' = [pc EXCEPT ![g] = "entry"]
    /\ UNCHANGED <<raw, outer, out, status>>

EndOfEntries(g) ==
    /\ pc[g] \in {"alarm", "entry"} /\ ~MoreEntries(g)
    /\ ReturnWith(g, "ok")
    /\ UNCHANGED <<raw, outer, inner, at, content, pooled>>

\* Reset and Put of the message, when ParseTelemetryData returns.
Deferred(g) ==
    /\ pc[g] = "deferred"
    /\ content' = [content EXCEPT ![outer[g]] = Empty]
    /\ Put(outer[g])
    /\ outer' = [outer EXCEPT ![g] = None]
    /\ pc' = [pc EXCEPT ![g] = "returned"]
    /\ UNCHANGED <<raw, inner, at, out, status>>

\* The caller has used the result.
Consume(g) ==
    /\ pc[g] = "returned"
    /\ pc' = [pc EXCEPT ![g] = "idle"]
    /\ out' = [out EXCEPT ![g] = <<>>]
    /\ status' = [status EXCEPT ![g] = "ok"]
    /\ at' = [at EXCEPT ![g] = 1]
    /\ raw' = [raw EXCEPT ![g] = NoMessage]
    /\ UNCHANGED <<outer, inner, content, pooled>>

Next ==
    \E g \in Parsers :
        \/ Call(g) \/ Unmarshal(g) \/ UnmarshalFails(g) \/ RouteMessage(g)
        \/ ParseAlarmEntry(g) \/ DecodeEntry(g) \/ EntryFails(g) \/ Extract(g)
        \/ Release(g) \/ EndOfEntries(g) \/ Deferred(g) \/ Consume(g)

Spec == Init /\ [][Next]_vars

-----------------------------------------------------------------------------
(* What the result should be, read off the message alone.                  *)

\* The route of a path: the exact one, or the one with the longest prefix.
Candidates(path) == {i \in DOMAIN routes : Matches(routes[i], path)}
BestRoute(path)  == CHOOSE i \in Candidates(path) : \A j \in Candidates(path) :
                        Len(routes[j].prefix) <= Len(routes[i].prefix)

ExpectedRows(m) ==
    FlattenSeq([i \in DOMAIN m.entries |->
        IF m.entries[i].kind = "garbage" THEN <<>>
        ELSE HandlerRows(routes[BestRoute(m.path)].handler, m.system, m.entries[i])])

\* A message of telemetry is one that decodes and is no alarm; it fails when
\* it has no entries, or has a bad one and a handler that does not skip it.
ShouldFail(m) ==
    \/ ~m.decodes
    \/ /\ ~m.alarm /\ Candidates(m.path) # {}
       /\ \/ m.entries = <<>>
          \/ /\ routes[BestRoute(m.path)].handler.onBad = "abort"
             /\ \E i \in DOMAIN m.entries : m.entries[i].kind = "garbage"

Returned(g) == pc[g] = "returned"

\* Whatever else is parsed at the same time, the result of a telemetry message
\* is a function of that message: an error when one is due, otherwise the rows
\* that the handler with the longest matching prefix makes of its entries.
ResultDependsOnMessageOnly ==
    \A g \in Parsers : Returned(g) =>
        /\ (status[g] = "error") = ShouldFail(raw[g])
        /\ ShouldFail(raw[g]) => out[g] = <<>>
        /\ raw[g].decodes /\ ~raw[g].alarm /\ ~ShouldFail(raw[g]) =>
              out[g] = IF Candidates(raw[g].path) = {} THEN <<>> ELSE ExpectedRows(raw[g])

Holders(o) == {g \in Parsers : outer[g] = o \/ inner[g] = o}

\* No pooled object is in two hands: it is in its pool once and held by nobody,
\* or held by one parser and not in the pool.
PoolsExclusive == \A o \in Objects : pooled[o] + Cardinality(Holders(o)) = 1

\* The metrics that message m can yield: their table is that of its route, or
\* one of the two for alarms; they come from its device and its entries.
MetricsOf(m) ==
    [table  : IF m.alarm THEN {"alarm", "notification"}
              ELSE {routes[FirstMatch(m.path)].handler.table},
     system : {m.system},
     from   : {"nothing"} \cup {e.name : e \in Range(m.entries)}]

\* No result has a metric of another message in it, although the objects that
\* hold the messages and their entries go from parser to parser.
OwnMetricsOnly ==
    \A g \in Parsers : \A i \in DOMAIN out[g] : out[g][i] \in MetricsOf(raw[g])

NotBlank(rs) == FlattenSeq([i \in DOMAIN rs |->
    IF rs[i].from = "nothing" THEN <<>> ELSE <<rs[i]>>])

AlarmsIn(m) == FlattenSeq([i \in DOMAIN m.entries |->
    LET e == m.entries[i] IN
    IF e.kind \in {"alarmInfo", "currentAlarm"} THEN Repeat(AlarmRow(m.system, e), e.n) ELSE <<>>])
NotesIn(m) == FlattenSeq([i \in DOMAIN m.entries |->
    LET e == m.entries[i] IN
    IF e.kind = "alarmInfo" THEN Repeat(NoteRow(m.system, e), e.m) ELSE <<>>])

\* An alarm message on the path of alarms yields exactly the alarms in its
\* entries, in their order, and none of them is lost to an entry that does not
\* decode; on the path of notifications likewise the notifications.  On any
\* other path it is the alarms too, and no notification is in the result.
ReportsKept ==
    \A g \in Parsers : Returned(g) /\ raw[g].decodes /\ raw[g].alarm =>
        /\ status[g] = "ok"
        /\ ~IsNoteReport(raw[g]) \/ IsAlarmReport(raw[g])
              => NotBlank(out[g]) = AlarmsIn(raw[g])
        /\ IsNoteReport(raw[g]) /\ ~IsAlarmReport(raw[g]) => out[g] = NotesIn(raw[g])
=============================================================================
