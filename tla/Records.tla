------------------------------ MODULE Records ------------------------------
(***************************************************************************)
(* What becomes of the fields of a report: the parser turns wire values    *)
(* into a record (internal/parser), the buffer merges records with equal   *)
(* keys (internal/buffer), the database layer turns a row into columns and *)
(* copies a batch (internal/database).                                     *)
(*                                                                         *)
(* Wire values are natural numbers, 0 being the default that protobuf does *)
(* not transmit.  A field below stands for all fields of its struct with   *)
(* the same type and the same treatment on the whole way.  A name is the   *)
(* sequence of its parts and separators.  Goroutines do not show here: a   *)
(* record is merged under the lock of its shard, and a row that was swept  *)
(* changes no more (BufferManager has the interleavings).                  *)
(***************************************************************************)
EXTENDS Integers, Sequences, FiniteSets, FiniteSetsExt, Functions

CONSTANTS
    Reports,         \* what devices send: see ReportSpace
    MaxReports,      \* bound on the reports of a behaviour
    TicksPerSecond,  \* resolution of MsgTimestamp (1000 in the code)
    Half,            \* 2^31 for a uint32, 2^63 for a uint64
    Unit,            \* 1024*1024 bytes, 10^9 nanoseconds
    TimeColumn       \* name of the time column of the tables of create_tables.sql

ASSUME NumbersAssumption == /\ MaxReports \in Nat
                            /\ TicksPerSecond \in Nat \ {0}
                            /\ Half \in Nat \ {0}
                            /\ Unit \in Nat \ {0}

-----------------------------------------------------------------------------
(* The fields: the section of the protobuf message that carries them, how  *)
(* they are converted, and whether merge*Metric copies them.               *)

Field(section, kind)  == [section |-> section, kind |-> kind, merged |-> FALSE]
Merged(section, kind) == [section |-> section, kind |-> kind, merged |-> TRUE]

\* The fields of two structs, and the function f with key k mapped to v.
Join(F, G) == [f \in (DOMAIN F) \cup (DOMAIN G) |-> IF f \in DOMAIN F THEN F[f] ELSE G[f]]
Put(f, k, v) == [x \in (DOMAIN f) \cup {k} |-> IF x = k THEN v ELSE f[x]]

CommonState == [OperStatus     |-> Merged("common", "string"),
                Uptime         |-> Merged("common", "uptime"),
                UsedPower      |-> Merged("common", "uint"),
                CurrentVoltage |-> Field("common", "string")]
CPUData     == [CPUInstant     |-> Field("cpu", "ratio"),
                CPUInterval    |-> Field("cpu", "scaled"),
                CPUMinTime     |-> Field("cpu", "time"),
                CPUAlarmStatus |-> Merged("cpu", "cpuAlarm")]
MemData     == [MemAvailable   |-> Field("mem", "scaled"),
                MemUsage       |-> Field("mem", "ratio"),
                MemAlarmStatus |-> Merged("mem", "memAlarm"),
                StorageAvailability |-> Field("storage", "ratio")]
TempData    == [TempInstant    |-> Field("temp", "float"),
                TempMinTime    |-> Field("temp", "time"),
                AlarmStatus    |-> Field("temp", "bool"),
                TempStatus     |-> Field("temp", "string")]
FanData     == [FanSpeed       |-> Field("fan", "uint"),
                FanState       |-> Field("fan", "string")]
PowerData   == [PowerEnable    |-> Field("power", "bool"),
                PowerCapacity  |-> Field("power", "float"),
                PowerWorkState |-> Field("power", "string"),
                LinecardPowerAdminState |-> Field("linecard", "string")]
OpticalData == [OpticalInPower |-> Field("optical", "optical"),
                OpticalBiasCurrent    |-> Field("optical", "float"),
                OpticalAlarmLosStatus |-> Field("optical", "losAlarm"),
                OpticalAlarmLosInfoEventID |-> Field("optical", "uint")]

PlatformMetric == Join(CommonState, Join(CPUData, Join(MemData, Join(TempData,
                      Join(FanData, Join(PowerData, OpticalData))))))

CounterFields == [InOctets         |-> Merged("counters", "uint"),
                  InPkts           |-> Field("counters", "uint"),
                  LastClear        |-> Field("counters", "time"),
                  InputUtilization |-> Field("counters", "percent"),
                  InTrafficRate    |-> Field("counters", "rate")]

InterfaceFields ==
    [Ifindex           |-> Field("state", "uint"),
     AdminStatusStr    |-> Merged("state", "admin"),
     OperStatusStr     |-> Merged("state", "oper"),
     PhyStatusStr      |-> Merged("state", "phy"),
     IPv4OperStatusStr |-> Field("state", "ip"),
     LastChange        |-> Field("state", "time"),
     Logical           |-> Field("state", "bool"),
     ZteifIfindex      |-> Field("zte", "uint"),
     ZteifOperStatusStr |-> Field("zte", "oper")]
InterfaceMetric == Join(InterfaceFields, CounterFields)

SubinterfaceFields ==
    [Ifindex           |-> Field("state", "uint"),
     AdminStatusStr    |-> Merged("state", "admin"),
     OperStatusStr     |-> Merged("state", "oper"),
     IPv4OperStatusStr |-> Field("state", "ip"),
     LastChange        |-> Field("state", "time"),
     Logical           |-> Field("state", "bool"),
     ZteifIfindex      |-> Field("zte", "uint"),
     ZteifPhyStatusStr |-> Field("zte", "phy")]
SubinterfaceMetric == Join(SubinterfaceFields, CounterFields)

AlarmReportMetric ==
    [FlowID         |-> Field("alarm", "wide"),
     AlarmTimestamp |-> Field("alarm", "wide"),
     OccurrenceTime |-> Field("alarm", "unixTime"),
     OccurrenceMs   |-> Field("alarm", "narrow"),
     Sort           |-> Field("alarm", "uint"),
     Severity       |-> Field("alarm", "string"),
     Tpid           |-> Field("alarm", "string")]

NotificationReportMetric ==
    [FlowID                |-> Field("note", "wide"),
     NotificationTimestamp |-> Field("note", "wide"),
     OccurTime             |-> Field("note", "unixTime"),
     OccurMs               |-> Field("note", "narrow"),
     Sort                  |-> Field("note", "uint"),
     Classification        |-> Field("note", "string")]

Fields == [platform     |-> PlatformMetric,
           interface    |-> InterfaceMetric,
           subinterface |-> SubinterfaceMetric,
           alarm        |-> AlarmReportMetric,
           notification |-> NotificationReportMetric]
Tables == DOMAIN Fields

\* A report: its element, its time, the sections it has and their values.  It
\* has several if its path is that of whole components (all), otherwise the one
\* its handler reads; a subinterface is reported even without it.  System ids
\* (host names), component and interface names may contain the separator of the
\* keys; the name of a subinterface is its number, which is one part.
ReportSpace(r) ==
    /\ r.all \in BOOLEAN /\ (r.all => r.table = "platform")
    /\ \/ r.all \/ Cardinality(r.sections) = 1
       \/ r.table = "subinterface" /\ r.sections = {}
    /\ r.table \in Tables /\ r.time \in Nat
    /\ \A name \in {r.system, r.name, r.sub} : name \in Seq(Range(name))
    /\ IF r.table = "subinterface" THEN Len(r.sub) = 1 ELSE r.sub = <<>>
    /\ r.sections \subseteq {Fields[r.table][f].section : f \in DOMAIN Fields[r.table]}
    /\ \A f \in DOMAIN r.wire : /\ f \in DOMAIN Fields[r.table]
                                /\ Fields[r.table][f].section \in r.sections
                                /\ r.wire[f] \in Nat
                                /\ Fields[r.table][f].kind \in {"uint", "scaled", "wide", "narrow"}
                                      => r.wire[f] < 2 * Half

ASSUME ReportsAssumption == \A r \in Reports : ReportSpace(r)

-----------------------------------------------------------------------------
(* Conversions of the parser.  A value is what it was made from and how;   *)
(* nil is the pointer that is not set.                                     *)

Value(as, n) == [as |-> as, n |-> n]
nil == Value("nil", 0)

stringPtr(v)       == IF v = 0 THEN nil ELSE Value("text", v)
uintPtr(v)         == IF v = 0 THEN nil ELSE Value("uint", v)
float64Ptr(v)      == IF v = 0 THEN nil ELSE Value("float", v)
opticalPowerPtr(v) == Value("float", IF v = 0 THEN -60 ELSE v)
boolPtr(v)         == Value("bool", v)
\* The zero instant of protobuf is 1970, which is not Go's zero time.
timePtr(v)         == Value("time", v)
formatUptime(v)    == Value("uptime", v)
\* bytesToMB and nanosToSeconds.
bytesToMB(v) == v \div Unit
convertUnixTimestamp(v) == IF v = 0 THEN nil ELSE Value("time", v)

\* How many values of an enumeration have a name of their own.
Named == [alarm |-> 3, admin |-> 4, oper |-> 8, ip |-> 3, phy |-> 3]
convertEnum(enum, v) == Value(IF v < Named[enum] THEN "name" ELSE "UNKNOWN", v)
convertNonZero(enum, v) == IF v = 0 THEN nil ELSE convertEnum(enum, v)

\* The handlers: parseComponentsData, which reads all sections, leaves the
\* state INVALID of a CPU unset, the handler of the memory section that of a
\* memory; both others store it.
Convert(kind, v, all) ==
    CASE kind = "string"   -> stringPtr(v)
      [] kind = "uint"     -> uintPtr(v)
      [] kind \in {"float", "ratio"} -> float64Ptr(v)
      [] kind = "scaled"   -> uintPtr(bytesToMB(v))
      [] kind = "time"     -> timePtr(v)
      [] kind = "bool"     -> boolPtr(v)
      [] kind = "uptime"   -> formatUptime(v)
      [] kind = "optical"  -> opticalPowerPtr(v)
      [] kind = "percent"  -> Value("percent", v * 100)
      [] kind = "rate"     -> Value("text", v)
      [] kind = "unixTime" -> convertUnixTimestamp(v)
      [] kind \in {"wide", "narrow"} -> Value(kind, v)
      [] kind = "losAlarm" -> convertNonZero("alarm", v)
      [] kind = "cpuAlarm" -> IF all THEN convertNonZero("alarm", v) ELSE convertEnum("alarm", v)
      [] kind = "memAlarm" -> IF all THEN convertEnum("alarm", v) ELSE convertNonZero("alarm", v)
      [] OTHER             -> convertEnum(kind, v)

WireValue(r, f) == IF f \in DOMAIN r.wire THEN r.wire[f] ELSE 0

Parsed(r, f) ==
    LET field == Fields[r.table][f] IN
    IF field.section \in r.sections
    THEN Convert(field.kind, WireValue(r, f), r.all) ELSE nil

\* The record, with the reports it was made from (history).
Record(r) == [table |-> r.table, time |-> r.time, system |-> r.system, name |-> r.name,
              sub |-> r.sub, from |-> <<r>>,
              val |-> [f \in DOMAIN Fields[r.table] |-> Parsed(r, f)]]

-----------------------------------------------------------------------------
(* Keys and the merge.                                                     *)

Second(t) == t \div TicksPerSecond

\* Wrong variant of generatePlatformKey: the time is left out.
generatePlatformKeyNoTime(rec) == <<"_">> \o rec.system \o <<"_">> \o rec.name

\* generatePlatformKey and generateInterfaceKey.
generatePlatformKey(rec) == <<Second(rec.time), "_">> \o rec.system \o <<"_">> \o rec.name

generateSubinterfaceKey(rec) == generatePlatformKey(rec) \o <<"_">> \o rec.sub

generateAlarmKey(rec) ==
    rec.system \o <<":", rec.val.FlowID.n, ":", rec.val.AlarmTimestamp.n>>

generateNotificationKey(rec) ==
    rec.system \o <<":", rec.val.FlowID.n, ":", rec.val.NotificationTimestamp.n>>

Key(rec) ==
    CASE rec.table \in {"platform", "interface"} -> generatePlatformKey(rec)
      [] rec.table = "subinterface"              -> generateSubinterfaceKey(rec)
      [] rec.table = "alarm"                     -> generateAlarmKey(rec)
      [] rec.table = "notification"              -> generateNotificationKey(rec)

MaxTime(a, b) == IF a > b THEN a ELSE b

\* Wrong variant of mergeMetric: a field that the new record leaves unset is cleared.
mergeMetricClears(old, new) ==
    [old EXCEPT
        !.val = [f \in DOMAIN old.val |->
                    IF Fields[old.table][f].merged THEN new.val[f] ELSE old.val[f]],
        !.time = MaxTime(old.time, new.time),
        !.from = old.from \o new.from]

\* mergePlatformMetric, mergeInterfaceMetric, mergeSubinterfaceMetric.  The
\* sub-structs of a platform record are created when a merged field is set.
mergeMetric(old, new) ==
    [old EXCEPT
        !.val = [f \in DOMAIN old.val |->
                    IF Fields[old.table][f].merged /\ new.val[f] # nil
                    THEN new.val[f] ELSE old.val[f]],
        !.time = MaxTime(old.time, new.time),
        !.from = old.from \o new.from]

-----------------------------------------------------------------------------
(* The values that an insert hands to pgx.  Platform rows, and the optional *)
(* numbers of alarms, pass through the safe* functions, which keep the bits *)
(* of an unsigned number in a signed one; interface rows do not.           *)

\* Wrong variant of safeUint: a large number is cut to the largest that fits.
safeUintSaturates(v) == IF v.n < Half THEN Value("int", v.n) ELSE Value("int", Half - 1)

safeUint(v) == Value("int", IF v.n < Half THEN v.n ELSE v.n - 2 * Half)
safeNumericString(v) == Value("numeric", v.n)

\* Wrong variant of platformColumn: numbers are handed to pgx as they are.
platformColumnRaw(v) == v

platformColumn(v)     == IF v.as = "uint" THEN safeUint(v) ELSE v
interfaceColumn(v)    == IF v.as = "percent" THEN safeNumericString(v) ELSE v
subinterfaceColumn(v) == IF v.as = "percent" THEN safeNumericString(v) ELSE v
alarmColumn(v)        == IF v.as = "uint" THEN safeUint(v) ELSE v
notificationColumn(v) == IF v.as = "uint" THEN safeUint(v) ELSE v

Column(table, v) ==
    CASE table = "platform"     -> platformColumn(v)
      [] table = "interface"    -> interfaceColumn(v)
      [] table = "subinterface" -> subinterfaceColumn(v)
      [] table = "alarm"        -> alarmColumn(v)
      [] table = "notification" -> notificationColumn(v)

-----------------------------------------------------------------------------
(* The tables of create_tables.sql, and those of the alarms, whose script is *)
(* not in the repository: the type of the column of every field.  INTEGER  *)
(* holds 32 bits and BIGINT 64, which is the width of the numbers in them; *)
(* a wide number is a 32-bit one in a BIGINT.                              *)

platform_metrics == [f \in DOMAIN PlatformMetric |->
    CASE f \in {"UsedPower", "FanSpeed", "OpticalAlarmLosStatus",
                "OpticalAlarmLosInfoEventID"} -> "INTEGER"
      [] f \in {"CPUInterval", "MemAvailable"} -> "BIGINT"
      [] f \in {"CPUInstant", "MemUsage", "StorageAvailability"} -> "NUMERIC(5,2)"
      [] f \in {"TempInstant", "PowerCapacity", "OpticalInPower",
                "OpticalBiasCurrent"} -> "DOUBLE PRECISION"
      [] f \in {"CPUMinTime", "TempMinTime"} -> "TIMESTAMPTZ"
      [] f \in {"AlarmStatus", "PowerEnable"} -> "BOOLEAN"
      [] OTHER -> "TEXT"]

interface_metrics == [f \in DOMAIN InterfaceMetric |->
    CASE f \in {"Ifindex", "ZteifIfindex"} -> "INTEGER"
      [] f \in {"InOctets", "InPkts"} -> "BIGINT"
      [] f = "InputUtilization" -> "NUMERIC(5,2)"
      [] f \in {"LastChange", "LastClear"} -> "TIMESTAMPTZ"
      [] f = "Logical" -> "BOOLEAN"
      [] OTHER -> "TEXT"]

subinterface_metrics == [f \in DOMAIN SubinterfaceMetric |->
    CASE f \in {"Ifindex", "ZteifIfindex"} -> "INTEGER"
      [] f \in {"InOctets", "InPkts"} -> "BIGINT"
      [] f = "InputUtilization" -> "NUMERIC(5,2)"
      [] f \in {"LastChange", "LastClear"} -> "TIMESTAMPTZ"
      [] f = "Logical" -> "BOOLEAN"
      [] OTHER -> "TEXT"]

\* The time stamps of alarms and notifications only serve as keys.
alarm_report == [f \in (DOMAIN AlarmReportMetric) \ {"AlarmTimestamp"} |->
    CASE f = "FlowID" -> "BIGINT"
      [] f \in {"OccurrenceMs", "Sort"} -> "INTEGER"
      [] f = "OccurrenceTime" -> "TIMESTAMPTZ"
      [] OTHER -> "TEXT"]

notification_report == [f \in (DOMAIN NotificationReportMetric) \ {"NotificationTimestamp"} |->
    CASE f = "FlowID" -> "BIGINT"
      [] f \in {"OccurMs", "Sort"} -> "INTEGER"
      [] f = "OccurTime" -> "TIMESTAMPTZ"
      [] OTHER -> "TEXT"]

ColumnTypes == [platform     |-> platform_metrics,
                interface    |-> interface_metrics,
                subinterface |-> subinterface_metrics,
                alarm        |-> alarm_report,
                notification |-> notification_report]

\* Which values pgx can encode for a column of the type.
Accepts(type) ==
    CASE type = "INTEGER" -> {"int", "uint", "narrow"}
      [] type = "BIGINT"  -> {"int", "uint", "narrow", "wide"}
      [] type = "NUMERIC(5,2)" -> {"float", "numeric"}
      [] type = "DOUBLE PRECISION" -> {"float"}
      [] type = "TIMESTAMPTZ" -> {"time"}
      [] type = "BOOLEAN" -> {"bool"}
      [] type = "TEXT" -> {"text", "name", "UNKNOWN", "uptime"}

\* A NULL fits; otherwise the value is of the type and within its range.
Fits(type, col) ==
    \/ col = nil
    \/ /\ col.as \in Accepts(type)
       /\ col.as \in {"uint", "narrow"} => col.n < Half
       /\ type = "NUMERIC(5,2)" => col.n < 1000

\* All inserts name the time column "timestamp"; a COPY that names a column the
\* table does not have is refused.
HasColumns(table) ==
    table \in {"platform", "interface", "subinterface"} => TimeColumn = "timestamp"

-----------------------------------------------------------------------------
VARIABLES
    processed,  \* TotalRecordsProcessed
    collisions, \* KeyCollisions
    buffer,     \* buffer[t]: the map of table t, from keys to records
    stored,     \* stored[t]: rows in the table, with their columns
    (* history *)
    replaced,   \* records that Set overwrote
    taken,      \* rows that flushes took out of the maps
    refused     \* batches that a table refused

vars == <<processed, collisions, buffer, stored, replaced, taken, refused>>

Empty == [k \in {} |-> nil]

Init ==
    /\ processed = 0 /\ collisions = 0 /\ replaced = 0 /\ taken = 0
    /\ buffer = [t \in Tables |-> Empty]
    /\ stored = [t \in Tables |-> {}]
    /\ refused = {}

Aggregating == {"platform", "interface", "subinterface"}

PutUnder(t, key, rec) == buffer' = [buffer EXCEPT ![t] = Put(buffer[t], key, rec)]

\* Wrong variant of AddAggregated: a merge is not counted.
AddAggregatedUncounted(r) ==
    LET new == Record(r)
        key == Key(new)
        old == buffer[r.table]
    IN  /\ processed < MaxReports
        /\ r.table \in Aggregating
        /\ PutUnder(r.table, key, IF key \in DOMAIN old THEN mergeMetric(old[key], new) ELSE new)
        /\ processed' = processed + 1
        /\ UNCHANGED <<collisions, stored, replaced, taken, refused>>

\* A report is parsed and its record goes into the map: AddPlatformMetrics,
\* AddInterfaceMetrics, AddSubinterfaceMetrics.
AddAggregated(r) ==
    LET new == Record(r)
        key == Key(new)
    IN  /\ processed < MaxReports
        /\ r.table \in Aggregating
        /\ \/ /\ key \in DOMAIN buffer[r.table]
              /\ PutUnder(r.table, key, mergeMetric(buffer[r.table][key], new))
              /\ collisions' = collisions + 1
           \/ /\ key \notin DOMAIN buffer[r.table]
              /\ PutUnder(r.table, key, new)
              /\ UNCHANGED collisions
        /\ processed' = processed + 1
        /\ UNCHANGED <<stored, replaced, taken, refused>>

\* AddAlarmReportMetrics, AddNotificationReportMetrics: Set under the key.
AddReplacing(r) ==
    LET new == Record(r)
        key == Key(new)
    IN  /\ processed < MaxReports
        /\ r.table \notin Aggregating
        /\ PutUnder(r.table, key, new)
        /\ replaced' = replaced + (IF key \in DOMAIN buffer[r.table] THEN 1 ELSE 0)
        /\ processed' = processed + 1
        /\ UNCHANGED <<collisions, stored, taken, refused>>

ColumnsOf(rec) == [f \in DOMAIN ColumnTypes[rec.table] |-> Column(rec.table, rec.val[f])]
StoredRow(rec) == [rec |-> rec, col |-> ColumnsOf(rec)]

AllFit(rec) ==
    \A f \in DOMAIN ColumnTypes[rec.table] : Fits(ColumnTypes[rec.table][f], ColumnsOf(rec)[f])

\* A flush takes rows of a map and copies them as one batch: all rows of it
\* go into the table, or none when one of them has a value that does not fit.
CopyBatch(t) ==
    \E keys \in (SUBSET (DOMAIN buffer[t])) \ {{}} :
        LET batch == {buffer[t][k] : k \in keys}
            ok    == HasColumns(t) /\ \A rec \in batch : AllFit(rec)
        IN  /\ buffer' = [buffer EXCEPT ![t] = Restrict(buffer[t], (DOMAIN buffer[t]) \ keys)]
            /\ taken' = taken + Cardinality(keys)
            /\ \/ ok /\ stored' = [stored EXCEPT ![t] = stored[t] \cup {StoredRow(rec) : rec \in batch}]
                     /\ UNCHANGED refused
               \/ ~ok /\ refused' = refused \cup {batch}
                      /\ UNCHANGED stored
            /\ UNCHANGED <<processed, collisions, replaced>>

Next ==
    \/ \E r \in Reports : AddAggregated(r) \/ AddReplacing(r)
    \/ \E t \in Tables : CopyBatch(t)

Spec == Init /\ [][Next]_vars

-----------------------------------------------------------------------------
Buffered == UNION {Range(buffer[t]) : t \in Tables}
InTable  == UNION {{s.rec : s \in stored[t]} : t \in Tables}
Rows     == Buffered \cup InTable \cup UNION refused

\* System id t goes on where s ends, with a separator.
GoesOn(s, t) == /\ Len(s) < Len(t) /\ t[Len(s) + 1] = "_"
                /\ \A i \in 1 .. Len(s) : t[i] = s[i]

SameElement(r, rec) == r.system = rec.system /\ r.name = rec.name /\ r.sub = rec.sub

OneElement(rec) ==
    \A i \in DOMAIN rec.from :
        LET r == rec.from[i] IN
        /\ r.table = rec.table /\ Second(r.time) = Second(rec.time)
        /\ \/ SameElement(r, rec)
           \/ GoesOn(r.system, rec.system) \/ GoesOn(rec.system, r.system)
        /\ rec.table \notin Aggregating => Len(rec.from) = 1

\* A row holds reports of one second and of one table (for alarms and
\* notifications: one report), although keys truncate the time; and no two
\* elements of one device share a row, although keys are joined with a
\* separator that names may contain.  Two devices share one only if the system
\* id of one is that of the other followed by the separator.
RowIsOneElement == \A rec \in Rows : OneElement(rec)

\* A row is that of one device and one component or interface: data is
\* aggregated by time, system id and component or interface.
RowIsOneDevice ==
    \A rec \in Rows : \A i \in DOMAIN rec.from : SameElement(rec.from[i], rec)

\* The reports of a row that have a value for field f, by position.
Having(rec, f) == {i \in DOMAIN rec.from : Parsed(rec.from[i], f) # nil}

\* The time of a row is the latest of its reports; a merged field is that of
\* the last report that had one, any other field that of the first report.
LatestTime(rec) ==
    /\ \A i \in DOMAIN rec.from : rec.from[i].time <= rec.time
    /\ \E i \in DOMAIN rec.from : rec.from[i].time = rec.time
Explained(rec, f) ==
    rec.val[f] = IF ~Fields[rec.table][f].merged THEN Parsed(rec.from[1], f)
                 ELSE IF Having(rec, f) = {} THEN nil
                 ELSE Parsed(rec.from[Max(Having(rec, f))], f)

\* Where the time and the value of every field of a row come from, whatever the
\* order in which its reports arrive.
RowExplained ==
    \A rec \in Rows : LatestTime(rec) /\ \A f \in DOMAIN rec.val : Explained(rec, f)

\* Every record that was counted is a row in a map, a row that a flush took, a
\* collision or a replaced alarm: the counters leave no record out and count
\* none twice.
RecordsCounted ==
    LET Size(t) == Cardinality(DOMAIN buffer[t]) IN
    processed = collisions + replaced + taken + Size("platform") + Size("interface")
                + Size("subinterface") + Size("alarm") + Size("notification")

\* A value that a device reported and the column of its field cannot hold: an
\* unsigned number above the signed range where it is not converted, a percent
\* value of four digits, and any state of the optical alarm, which is a text.
Unstorable(r, f) ==
    LET kind == Fields[r.table][f].kind
        w    == WireValue(r, f)
    IN  \/ kind = "uint" /\ r.table \in {"interface", "subinterface"} /\ w >= Half
        \/ kind = "narrow" /\ w >= Half
        \/ kind = "percent" /\ w >= 10
        \/ kind = "ratio" /\ w >= 1000
        \/ kind = "losAlarm" /\ w > 0

HasUnstorable(batch) ==
    \E rec \in batch : \E i \in DOMAIN rec.from, f \in DOMAIN rec.val : Unstorable(rec.from[i], f)

\* A batch, with all its rows, is refused only for a value that a device did
\* report and its column cannot hold, if the table has the columns at all: no
\* conversion on the way makes a storable value unstorable, and no field but
\* the state of the optical alarm has a column of another type.
RefusedForCause ==
    \A batch \in refused : (\A rec \in batch : HasColumns(rec.table)) => HasUnstorable(batch)

\* An unsigned number is in its signed column without loss: the column tells
\* it from every other one of its width, in the tables that convert numbers
\* and in those that do not.
NumbersRecoverable ==
    \A t \in Tables : \A s \in stored[t] : \A f \in DOMAIN s.col :
        s.rec.val[f].as \in {"uint", "narrow"} =>
            /\ s.col[f].n \in -Half .. Half - 1
            /\ s.col[f].n % (2 * Half) = s.rec.val[f].n

\* The reports that share a row are aggregated: a field that one of them had a
\* value for is not empty in the table.
AggregatedIsKept ==
    \A t \in Tables : \A s \in stored[t] : \A f \in DOMAIN s.col :
        Having(s.rec, f) # {} => s.col[f] # nil
=============================================================================
