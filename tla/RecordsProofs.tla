--------------------------- MODULE RecordsProofs ---------------------------
(***************************************************************************)
(* The rows of the five tables, for any reports and any width of the       *)
(* numbers: which element a row is, where its values come from, what a     *)
(* column keeps of a number, what COPY refuses, and the counters.          *)
(***************************************************************************)
EXTENDS Records, FiniteSetTheorems, SequenceTheorems, TLAPS

-----------------------------------------------------------------------------
(* The fields.                                                             *)

TextKinds == {"string", "uptime", "rate", "cpuAlarm", "memAlarm", "admin", "oper", "phy", "ip"}

Kinds == TextKinds \cup {"uint", "scaled", "narrow", "wide", "float", "optical", "ratio", "percent",
                         "time", "unixTime", "bool", "losAlarm"}

\* The column types that go with a kind of field in table t.  The state of the
\* optical alarm goes with no type.
Suits(t, kind, type) ==
    \/ kind \in TextKinds /\ type = "TEXT"
    \/ kind \in {"uint", "narrow"} /\ type \in {"INTEGER", "BIGINT"}
    \/ kind = "scaled" /\ t = "platform" /\ type = "BIGINT"
    \/ kind = "wide" /\ type = "BIGINT"
    \/ kind \in {"float", "optical"} /\ type = "DOUBLE PRECISION"
    \/ kind = "ratio" /\ type = "NUMERIC(5,2)"
    \/ kind = "percent" /\ t \in {"interface", "subinterface"} /\ type = "NUMERIC(5,2)"
    \/ kind \in {"time", "unixTime"} /\ type = "TIMESTAMPTZ"
    \/ kind = "bool" /\ type = "BOOLEAN"
    \/ kind = "losAlarm"

\* The columns of the fields F of table t suit them.
Typed(t, F, types) ==
    \A f \in DOMAIN F : f \in DOMAIN types => Suits(t, F[f].kind, types[f])

\* The columns of a struct with embedded fields suit it if they suit its parts.
LEMMA TypedJoin ==
    ASSUME NEW F, NEW G, NEW t, NEW types, Typed(t, F, types), Typed(t, G, types)
    PROVE  Typed(t, Join(F, G), types)
  BY DEF Typed, Join

\* The columns of platform_metrics.
LEMMA PlatformTyped == Typed("platform", PlatformMetric, platform_metrics)
<1> USE DEF Typed, Suits, TextKinds, Field, Merged, platform_metrics
<1>1. Typed("platform", CommonState, platform_metrics)
  BY DEF CommonState
<1>2. Typed("platform", CPUData, platform_metrics)
  BY DEF CPUData
<1>3. Typed("platform", MemData, platform_metrics)
  BY DEF MemData
<1>4. Typed("platform", TempData, platform_metrics)
  BY DEF TempData
<1>5. Typed("platform", FanData, platform_metrics)
  BY DEF FanData
<1>6. Typed("platform", PowerData, platform_metrics)
  BY DEF PowerData
<1>7. Typed("platform", OpticalData, platform_metrics)
  BY DEF OpticalData
<1> HIDE DEF Typed, Suits, TextKinds, Field, Merged, platform_metrics
<1> QED
  BY <1>1, <1>2, <1>3, <1>4, <1>5, <1>6, <1>7, TypedJoin DEF PlatformMetric

\* The columns of interface_metrics and subinterface_metrics.
LEMMA InterfacesTyped ==
    /\ Typed("interface", InterfaceMetric, interface_metrics)
    /\ Typed("subinterface", SubinterfaceMetric, subinterface_metrics)
<1> USE DEF Typed, Suits, TextKinds, Field, Merged, interface_metrics, subinterface_metrics
<1>1. /\ Typed("interface", CounterFields, interface_metrics)
      /\ Typed("subinterface", CounterFields, subinterface_metrics)
  BY DEF CounterFields
<1>2. Typed("interface", InterfaceFields, interface_metrics)
  BY DEF InterfaceFields
<1>3. Typed("subinterface", SubinterfaceFields, subinterface_metrics)
  BY DEF SubinterfaceFields
<1> HIDE DEF Typed, Suits, TextKinds, Field, Merged, interface_metrics, subinterface_metrics
<1> QED
  BY <1>1, <1>2, <1>3, TypedJoin DEF InterfaceMetric, SubinterfaceMetric

\* The columns of alarm_report and notification_report.
LEMMA AlarmsTyped ==
    /\ Typed("alarm", AlarmReportMetric, alarm_report)
    /\ Typed("notification", NotificationReportMetric, notification_report)
<1>1. Typed("alarm", AlarmReportMetric, alarm_report)
  <2> SUFFICES ASSUME NEW f \in DOMAIN AlarmReportMetric, f # "AlarmTimestamp"
               PROVE  Suits("alarm", AlarmReportMetric[f].kind, alarm_report[f])
    BY DEF Typed, alarm_report
  <2>1. PICK type : type = alarm_report[f]
    OBVIOUS
  <2>2. type = CASE f = "FlowID" -> "BIGINT"
                 [] f \in {"OccurrenceMs", "Sort"} -> "INTEGER"
                 [] f = "OccurrenceTime" -> "TIMESTAMPTZ"
                 [] OTHER -> "TEXT"
    BY <2>1 DEF alarm_report
  <2>3. Suits("alarm", AlarmReportMetric[f].kind, type)
    BY <2>2 DEF AlarmReportMetric, Suits, TextKinds, Field
  <2> QED
    BY <2>1, <2>3
<1>2. Typed("notification", NotificationReportMetric, notification_report)
  <2> SUFFICES ASSUME NEW f \in DOMAIN NotificationReportMetric, f # "NotificationTimestamp"
               PROVE  Suits("notification", NotificationReportMetric[f].kind, notification_report[f])
    BY DEF Typed, notification_report
  <2>1. PICK type : type = notification_report[f]
    OBVIOUS
  <2>2. type = CASE f = "FlowID" -> "BIGINT"
                 [] f \in {"OccurMs", "Sort"} -> "INTEGER"
                 [] f = "OccurTime" -> "TIMESTAMPTZ"
                 [] OTHER -> "TEXT"
    BY <2>1 DEF notification_report
  <2>3. Suits("notification", NotificationReportMetric[f].kind, type)
    BY <2>2 DEF NotificationReportMetric, Suits, TextKinds, Field
  <2> QED
    BY <2>1, <2>3
<1> QED
  BY <1>1, <1>2

\* The five tables.
LEMMA TableNames == Tables = {"platform", "interface", "subinterface", "alarm", "notification"}
  BY DEF Tables, Fields

\* The columns of every table suit its fields.
LEMMA ColumnsSuit ==
    ASSUME NEW t \in Tables, NEW f \in DOMAIN ColumnTypes[t]
    PROVE  f \in DOMAIN Fields[t] /\ Suits(t, Fields[t][f].kind, ColumnTypes[t][f])
<1>1. CASE t = "platform"
  <2>1. Fields[t] = PlatformMetric /\ ColumnTypes[t] = platform_metrics
    BY <1>1 DEF Fields, ColumnTypes
  <2>2. DOMAIN platform_metrics = DOMAIN PlatformMetric
    BY DEF platform_metrics
  <2> QED
    BY <1>1, <2>1, <2>2, PlatformTyped DEF Typed
<1>2. CASE t = "interface"
  <2>1. Fields[t] = InterfaceMetric /\ ColumnTypes[t] = interface_metrics
    BY <1>2 DEF Fields, ColumnTypes
  <2>2. DOMAIN interface_metrics = DOMAIN InterfaceMetric
    BY DEF interface_metrics
  <2> QED
    BY <1>2, <2>1, <2>2, InterfacesTyped DEF Typed
<1>3. CASE t = "subinterface"
  <2>1. Fields[t] = SubinterfaceMetric /\ ColumnTypes[t] = subinterface_metrics
    BY <1>3 DEF Fields, ColumnTypes
  <2>2. DOMAIN subinterface_metrics = DOMAIN SubinterfaceMetric
    BY DEF subinterface_metrics
  <2> QED
    BY <1>3, <2>1, <2>2, InterfacesTyped DEF Typed
<1>4. CASE t = "alarm"
  <2>1. Fields[t] = AlarmReportMetric /\ ColumnTypes[t] = alarm_report
    BY <1>4 DEF Fields, ColumnTypes
  <2>2. DOMAIN alarm_report \subseteq DOMAIN AlarmReportMetric
    BY DEF alarm_report
  <2> QED
    BY <1>4, <2>1, <2>2, AlarmsTyped DEF Typed
<1>5. CASE t = "notification"
  <2>1. Fields[t] = NotificationReportMetric /\ ColumnTypes[t] = notification_report
    BY <1>5 DEF Fields, ColumnTypes
  <2>2. DOMAIN notification_report \subseteq DOMAIN NotificationReportMetric
    BY DEF notification_report
  <2> QED
    BY <1>5, <2>1, <2>2, AlarmsTyped DEF Typed
<1> QED
  BY <1>1, <1>2, <1>3, <1>4, <1>5, TableNames

-----------------------------------------------------------------------------
(* Conversions.                                                            *)

\* c is what a field of the kind becomes when the device sends w.
Converted(kind, w, c) ==
    \/ c = nil
    \/ kind \in TextKinds /\ c.as \in {"text", "name", "UNKNOWN", "uptime"}
    \/ kind = "uint" /\ c.as = "uint" /\ c.n = w
    \/ kind = "scaled" /\ c.as = "uint" /\ c.n = w \div Unit
    \/ kind = "narrow" /\ c.as = "narrow" /\ c.n = w
    \/ kind = "wide" /\ c.as = "wide"
    \/ kind \in {"float", "optical"} /\ c.as = "float"
    \/ kind = "ratio" /\ c.as = "float" /\ c.n = w
    \/ kind = "percent" /\ c.as = "percent" /\ c.n = w * 100
    \/ kind \in {"time", "unixTime"} /\ c.as = "time"
    \/ kind = "bool" /\ c.as = "bool"
    \/ kind = "losAlarm" /\ w # 0 /\ c.as \in {"name", "UNKNOWN"}

\* What every conversion yields.
LEMMA Conversions ==
    ASSUME NEW kind \in Kinds, NEW w \in Nat, NEW all \in BOOLEAN
    PROVE  Converted(kind, w, Convert(kind, w, all))
<1> USE DEF Value
<1>1. CASE kind \in {"string", "uint", "float", "ratio"}
  BY <1>1, ZenonT(40) DEF Converted, TextKinds, Convert, stringPtr, uintPtr, float64Ptr
<1>2. CASE kind = "scaled"
  BY <1>2 DEF Converted, Convert, uintPtr, bytesToMB
<1>3. CASE kind \in {"time", "bool", "uptime", "optical", "rate", "unixTime"}
  BY <1>3, ZenonT(40) DEF Converted, TextKinds, Convert, timePtr, boolPtr, formatUptime, opticalPowerPtr,
              convertUnixTimestamp
<1>7. CASE kind = "percent"
  <2>1. Convert(kind, w, all) = [as |-> "percent", n |-> w * 100]
    BY <1>7 DEF Convert
  <2> QED
    BY <1>7, <2>1 DEF Converted
<1>4. CASE kind \in {"wide", "narrow"}
  BY <1>4 DEF Converted, Convert
<1>5. CASE kind = "losAlarm"
  <2>1. Convert(kind, w, all) = convertNonZero("alarm", w)
    BY <1>5 DEF Convert
  <2> QED
    BY <1>5, <2>1 DEF Converted, convertNonZero, convertEnum
<1>8. CASE kind \in {"cpuAlarm", "memAlarm"}
  <2>1. Convert(kind, w, all) \in {convertNonZero("alarm", w), convertEnum("alarm", w)}
    BY <1>8 DEF Convert
  <2> QED
    BY <1>8, <2>1 DEF Converted, TextKinds, convertNonZero, convertEnum
<1>6. CASE kind \in {"admin", "oper", "phy", "ip"}
  BY <1>6, ZenonT(40) DEF Converted, TextKinds, Convert, convertEnum
<1> QED
  BY <1>1, <1>2, <1>3, <1>4, <1>5, <1>6, <1>7, <1>8 DEF Kinds, TextKinds

SafeTables == {"platform", "alarm", "notification"}

\* What an insert hands over for a value.
LEMMA ColumnIs ==
    ASSUME NEW t \in Tables, NEW v
    PROVE  /\ v.as \notin {"uint", "percent"} => Column(t, v) = v
           /\ v.as = "uint" => Column(t, v) = IF t \in SafeTables THEN safeUint(v) ELSE v
           /\ v.as = "percent" => Column(t, v) = IF t \in SafeTables THEN v ELSE safeNumericString(v)
  BY TableNames DEF Column, SafeTables, platformColumn, interfaceColumn, subinterfaceColumn,
                    alarmColumn, notificationColumn

\* A value that does not fit a column that suits its field.
LEMMA Refusal ==
    ASSUME NEW t \in Tables, NEW kind, NEW w \in Nat, NEW c, NEW type,
           Suits(t, kind, type), Converted(kind, w, c), ~Fits(type, Column(t, c))
    PROVE  \/ kind = "uint" /\ t \in {"interface", "subinterface"} /\ w >= Half
           \/ kind = "narrow" /\ w >= Half
           \/ kind = "percent" /\ w >= 10
           \/ kind = "ratio" /\ w >= 1000
           \/ kind = "losAlarm" /\ w > 0
<1>0. Half \in Nat
  BY NumbersAssumption
<1>1. CASE c = nil
  <2>1. c.as \notin {"uint", "percent"}
    BY <1>1 DEF nil, Value
  <2>2. Column(t, c) = nil
    BY <1>1, <2>1, ColumnIs
  <2> QED
    BY <2>2 DEF Fits
<1>2. CASE c # nil /\ kind \in {"uint", "scaled"}
  <2>1. c.as = "uint" /\ type \in {"INTEGER", "BIGINT"}
    BY <1>2 DEF Converted, Suits, TextKinds
  <2>2. CASE t \in SafeTables
    <3>1. Column(t, c).as = "int"
      BY <2>1, <2>2, ColumnIs DEF safeUint, Value
    <3> QED
      BY <2>1, <3>1, ZenonT(40) DEF Fits, Accepts
  <2>3. CASE t \notin SafeTables
    <3>1. Column(t, c) = c /\ ~(c.n < Half)
      BY <2>1, <2>3, ColumnIs DEF Fits, Accepts
    <3>2. kind = "uint" /\ c.n = w /\ t \in {"interface", "subinterface"}
      BY <1>2, <2>3, TableNames DEF Converted, Suits, TextKinds, SafeTables
    <3> QED
      BY <1>0, <3>1, <3>2
  <2> QED
    BY <2>2, <2>3
<1>3. CASE c # nil /\ kind = "percent"
  <2>1. c.as = "percent" /\ c.n = w * 100 /\ type = "NUMERIC(5,2)" /\ t \notin SafeTables
    BY <1>3 DEF Converted, Suits, TextKinds, SafeTables
  <2>2. Column(t, c) = safeNumericString(c)
    BY <2>1, ColumnIs
  <2>3. Column(t, c).as = "numeric" /\ Column(t, c).n = c.n
    BY <2>2 DEF safeNumericString, Value
  <2>4. ~(c.n < 1000)
    BY <2>1, <2>3, ZenonT(40) DEF Fits, Accepts
  <2>5. ~(w * 100 < 1000)
    BY <2>1, <2>4, ZenonT(40)
  <2> QED
    BY <1>3, <2>5
<1>4. CASE c # nil /\ kind \notin {"uint", "scaled", "percent", "losAlarm"}
  <2>1. c.as \notin {"uint", "percent"}
    BY <1>4 DEF Converted, TextKinds
  <2>2. ~Fits(type, c)
    BY <2>1, ColumnIs
  <2>3. CASE kind \in TextKinds
    <3>1. c.as \in {"text", "name", "UNKNOWN", "uptime"} /\ type = "TEXT"
      BY <1>4, <2>3 DEF Converted, Suits, TextKinds
    <3> QED
      BY <2>2, <3>1 DEF Fits, Accepts
  <2>4. CASE kind = "narrow"
    <3>1. c.as = "narrow" /\ c.n = w /\ type \in {"INTEGER", "BIGINT"}
      BY <1>4, <2>4 DEF Converted, Suits, TextKinds
    <3>2. ~(c.n < Half)
      BY <2>2, <3>1, ZenonT(40) DEF Fits, Accepts
    <3> QED
      BY <1>0, <2>4, <3>1, <3>2
  <2>5. CASE kind = "ratio"
    <3>1. c.as = "float" /\ c.n = w /\ type = "NUMERIC(5,2)"
      BY <1>4, <2>5 DEF Converted, Suits, TextKinds
    <3>2. ~(c.n < 1000)
      BY <2>2, <3>1, ZenonT(40) DEF Fits, Accepts
    <3>3. ~(w < 1000)
      BY <3>1, <3>2, Zenon
    <3>4. w >= 1000
      BY <3>3
    <3> QED
      BY <2>5, <3>4
  <2>6. CASE kind \in {"wide", "float", "optical", "time", "unixTime", "bool"}
    <3>1. \/ c.as = "wide" /\ type = "BIGINT"
          \/ c.as = "float" /\ type = "DOUBLE PRECISION"
          \/ c.as = "time" /\ type = "TIMESTAMPTZ"
          \/ c.as = "bool" /\ type = "BOOLEAN"
      BY <1>4, <2>6 DEF Converted, Suits, TextKinds
    <3>2. c.as \in Accepts(type) /\ type # "NUMERIC(5,2)" /\ c.as \notin {"uint", "narrow"}
      BY <3>1 DEF Accepts
    <3> QED
      BY <2>2, <3>2, ZenonT(40) DEF Fits
  <2> QED
    BY <1>4, <2>3, <2>4, <2>5, <2>6 DEF Suits
<1>5. CASE c # nil /\ kind = "losAlarm"
  BY <1>5 DEF Converted, TextKinds
<1> QED
  BY <1>1, <1>2, <1>3, <1>4, <1>5

\* Division by the unit keeps a number within its width.
LEMMA Scaled == \A v \in Nat : v < 2 * Half => v \div Unit \in 0 .. 2 * Half - 1
<1> SUFFICES ASSUME NEW v \in Nat, v < 2 * Half
             PROVE  v \div Unit \in 0 .. 2 * Half - 1
  OBVIOUS
<1>1. Unit \in Nat /\ Unit >= 1 /\ Half \in Nat
  BY NumbersAssumption
<1>2. v \div Unit \in Int /\ v \div Unit >= 0 /\ v \div Unit <= v
  BY <1>1, Z3
<1> QED
  BY <1>1, <1>2

\* The two's complement of a number is in range and tells it from the others.
LEMMA TwosComplement ==
    ASSUME NEW n \in 0 .. 2 * Half - 1
    PROVE  LET c == IF n < Half THEN n ELSE n - 2 * Half IN
           c \in -Half .. Half - 1 /\ c % (2 * Half) = n
<1>1. Half \in Nat /\ Half >= 1
  BY NumbersAssumption
<1>2. n \in Nat /\ n < 2 * Half
  BY <1>1
<1>3. CASE n < Half
  BY <1>1, <1>2, <1>3, Z3
<1>4. CASE n >= Half
  <2>1. n - 2 * Half = (2 * Half) * (-1) + n
    BY <1>1, <1>2
  <2>2. (n - 2 * Half) % (2 * Half) = n
    BY <1>1, <1>2, <2>1, Z3
  <2> QED
    BY <1>1, <1>2, <1>4, <2>2
<1> QED
  BY <1>1, <1>2, <1>3, <1>4

-----------------------------------------------------------------------------
(* Keys.  The separator that follows the system id in one key is, in an    *)
(* equal one, the end of the system id or a part of it.                    *)

Joined(c, time, system, name) == ((<<time, c>> \o system) \o <<c>>) \o name

\* x is s followed by t, element by element.
IsConcat(x, s, t) ==
    /\ Len(s) \in Nat /\ Len(t) \in Nat /\ Len(x) = Len(s) + Len(t)
    /\ \A i \in 1 .. Len(s) : x[i] = s[i]
    /\ \A i \in 1 .. Len(t) : x[Len(s) + i] = t[i]

\* Concatenation, by position.
LEMMA Concat ==
    ASSUME NEW U, NEW s \in Seq(U), NEW t \in Seq(U)
    PROVE  s \o t \in Seq(U) /\ IsConcat(s \o t, s, t)
<1>1. \A i \in 1 .. Len(s) + Len(t) : (s \o t)[i] = IF i <= Len(s) THEN s[i] ELSE t[i - Len(s)]
  BY ConcatProperties
<1>2. ASSUME NEW i \in 1 .. Len(t)
      PROVE  (s \o t)[Len(s) + i] = t[i]
  <2>1. Len(s) + i \in 1 .. Len(s) + Len(t) /\ ~(Len(s) + i <= Len(s)) /\ (Len(s) + i) - Len(s) = i
    OBVIOUS
  <2> QED
    BY <1>1, <2>1
<1>3. ASSUME NEW i \in 1 .. Len(s)
      PROVE  (s \o t)[i] = s[i]
  <2>1. i \in 1 .. Len(s) + Len(t) /\ i <= Len(s)
    OBVIOUS
  <2> QED
    BY <1>1, <2>1
<1> QED
  BY <1>2, <1>3, ConcatProperties DEF IsConcat

\* The parts of a key, by position.
IsKey(K, c, a, s, t) ==
    /\ Len(s) \in Nat /\ Len(t) \in Nat /\ Len(K) = 3 + Len(s) + Len(t)
    /\ K[1] = a
    /\ \A i \in 1 .. Len(s) : K[2 + i] = s[i]
    /\ K[3 + Len(s)] = c
    /\ \A i \in 1 .. Len(t) : K[3 + Len(s) + i] = t[i]

\* The key of an element, by position.
LEMMA KeyByPosition ==
    ASSUME NEW U, NEW c \in U, NEW a \in U, NEW s \in Seq(U), NEW t \in Seq(U)
    PROVE  Joined(c, a, s, t) \in Seq(U) /\ IsKey(Joined(c, a, s, t), c, a, s, t)
<1>1. PICK p : p = <<a, c>>
  OBVIOUS
<1>2. PICK q : q = p \o s
  OBVIOUS
<1>3. PICK d : d = <<c>>
  OBVIOUS
<1>4. PICK u : u = q \o d
  OBVIOUS
<1>5. PICK K : K = u \o t
  OBVIOUS
<1>6. Joined(c, a, s, t) = K
  BY <1>1, <1>2, <1>3, <1>4, <1>5, Zenon DEF Joined
<1>7. /\ p \in Seq(U) /\ Len(p) = 2 /\ p[1] = a
      /\ d \in Seq(U) /\ Len(d) = 1 /\ d[1] = c
  BY <1>1, <1>3
<1>8. q \in Seq(U) /\ IsConcat(q, p, s)
  BY <1>2, <1>7, Concat
<1>9. u \in Seq(U) /\ IsConcat(u, q, d)
  BY <1>4, <1>7, <1>8, Concat
<1>10. K \in Seq(U) /\ IsConcat(K, u, t)
  BY <1>5, <1>9, Concat
<1>11. /\ Len(s) \in Nat /\ Len(q) = 2 + Len(s) /\ q[1] = a
       /\ \A i \in 1 .. Len(s) : q[2 + i] = s[i]
  BY <1>7, <1>8 DEF IsConcat
<1>12. /\ Len(u) = 3 + Len(s) /\ \A i \in 1 .. 2 + Len(s) : u[i] = q[i]
       /\ u[3 + Len(s)] = c
  BY <1>7, <1>9, <1>11 DEF IsConcat
<1>13. /\ Len(t) \in Nat /\ Len(K) = 3 + Len(s) + Len(t)
       /\ \A i \in 1 .. 3 + Len(s) : K[i] = u[i]
       /\ \A i \in 1 .. Len(t) : K[3 + Len(s) + i] = t[i]
  BY <1>10, <1>12 DEF IsConcat
<1>14. K[1] = a /\ K[3 + Len(s)] = c
  BY <1>11, <1>12, <1>13
<1>15. \A i \in 1 .. Len(s) : K[2 + i] = s[i]
  BY <1>11, <1>12, <1>13
<1> QED
  BY <1>6, <1>10, <1>11, <1>13, <1>14, <1>15 DEF IsKey

\* v goes on where s ends, with c.
GoesOnWith(c, s, v) == /\ Len(s) < Len(v) /\ v[Len(s) + 1] = c
                       /\ \A i \in 1 .. Len(s) : v[i] = s[i]

\* If one of two equal keys has the shorter system id, the other goes on.
LEMMA LongerGoesOn ==
    ASSUME NEW K, NEW c, NEW a, NEW b, NEW s, NEW t, NEW v, NEW w,
           IsKey(K, c, a, s, t), IsKey(K, c, b, v, w), Len(s) < Len(v)
    PROVE  GoesOnWith(c, s, v)
<1>1. Len(s) + 1 \in 1 .. Len(v) /\ 2 + (Len(s) + 1) = 3 + Len(s)
  BY DEF IsKey
<1>2. v[Len(s) + 1] = c
  <2>1. K[2 + (Len(s) + 1)] = v[Len(s) + 1]
    BY <1>1 DEF IsKey
  <2> QED
    BY <1>1, <2>1 DEF IsKey
<1>3. ASSUME NEW i \in 1 .. Len(s)
      PROVE  v[i] = s[i]
  <2>1. i \in 1 .. Len(v)
    BY DEF IsKey
  <2> QED
    BY <2>1 DEF IsKey
<1> QED
  BY <1>2, <1>3 DEF GoesOnWith

\* Equal keys have equal parts, unless one system id goes on where the other
\* ends.
LEMMA KeyIsUnique ==
    ASSUME NEW U, NEW c \in U, NEW a \in U, NEW b \in U,
           NEW s \in Seq(U), NEW t \in Seq(U), NEW v \in Seq(U), NEW w \in Seq(U),
           Joined(c, a, s, t) = Joined(c, b, v, w)
    PROVE  /\ a = b
           /\ (s = v /\ t = w) \/ GoesOnWith(c, s, v) \/ GoesOnWith(c, v, s)
<1>1. PICK K : K = Joined(c, a, s, t)
  OBVIOUS
<1>2. IsKey(K, c, a, s, t)
  BY <1>1, KeyByPosition
<1>3. IsKey(K, c, b, v, w)
  BY <1>1, KeyByPosition
<1>4. a = b
  BY <1>2, <1>3 DEF IsKey
<1>5. CASE Len(s) < Len(v)
  BY <1>2, <1>3, <1>4, <1>5, LongerGoesOn
<1>6. CASE Len(v) < Len(s)
  BY <1>2, <1>3, <1>4, <1>6, LongerGoesOn
<1>7. CASE Len(s) = Len(v)
  <2>1. Len(t) = Len(w)
    BY <1>2, <1>3, <1>7 DEF IsKey
  <2>2. \A i \in 1 .. Len(s) : s[i] = v[i]
    BY <1>2, <1>3, <1>7 DEF IsKey
  <2>3. s = v
    BY <1>7, <2>2, SeqEqual
  <2>4. \A i \in 1 .. Len(t) : t[i] = w[i]
    BY <1>2, <1>3, <1>7, <2>1 DEF IsKey
  <2>5. t = w
    BY <2>1, <2>4, SeqEqual
  <2> QED
    BY <1>4, <2>3, <2>5
<1>8. Len(s) \in Nat /\ Len(v) \in Nat
  BY <1>2, <1>3 DEF IsKey
<1> QED
  BY <1>5, <1>6, <1>7, <1>8

Appended(c, key, sub) == (key \o <<c>>) \o sub

\* The number of a subinterface is the last part of its key.
LEMMA SubKeyIsUnique ==
    ASSUME NEW U, NEW c \in U, NEW k \in Seq(U), NEW m \in Seq(U),
           NEW s \in Seq(U), NEW t \in Seq(U), Len(s) = 1, Len(t) = 1,
           Appended(c, k, s) = Appended(c, m, t)
    PROVE  k = m /\ s = t
<1>1. PICK d : d = <<c>>
  OBVIOUS
<1>2. PICK x : x = k \o d
  OBVIOUS
<1>3. PICK y : y = m \o d
  OBVIOUS
<1>4. PICK K : K = x \o s
  OBVIOUS
<1>5. K = y \o t
  BY <1>1, <1>2, <1>3, <1>4, Zenon DEF Appended
<1>6. d \in Seq(U) /\ Len(d) = 1
  BY <1>1
<1>7. x \in Seq(U) /\ IsConcat(x, k, d) /\ y \in Seq(U) /\ IsConcat(y, m, d)
  BY <1>2, <1>3, <1>6, Concat
<1>8. IsConcat(K, x, s) /\ IsConcat(K, y, t)
  BY <1>4, <1>5, <1>7, Concat
<1>9. /\ Len(k) \in Nat /\ Len(k) = Len(m) /\ Len(x) = Len(y) /\ Len(x) = Len(k) + 1
  BY <1>6, <1>7, <1>8 DEF IsConcat
<1>10. x = y
  <2>1. \A i \in 1 .. Len(x) : x[i] = y[i]
    BY <1>8, <1>9 DEF IsConcat
  <2> QED
    BY <1>7, <1>9, <2>1, SeqEqual
<1>11. k = m
  <2>1. \A i \in 1 .. Len(k) : k[i] = m[i]
    BY <1>7, <1>9, <1>10 DEF IsConcat
  <2> QED
    BY <1>9, <2>1, SeqEqual
<1>12. s = t
  <2>1. \A i \in 1 .. Len(s) : s[i] = t[i]
    BY <1>8, <1>9 DEF IsConcat
  <2> QED
    BY <2>1, SeqEqual
<1> QED
  BY <1>11, <1>12

-----------------------------------------------------------------------------
(* Rows.                                                                   *)

PartsOf(r) == Range(r.system) \cup Range(r.name) \cup Range(r.sub)
Parts == {"_"} \cup Nat \cup UNION {PartsOf(r) : r \in Reports}

\* What reports are made of.
LEMMA ReportParts ==
    ASSUME NEW r \in Reports
    PROVE  /\ r.table \in Tables /\ r.time \in Nat
           /\ r.system \in Seq(Parts) /\ r.name \in Seq(Parts) /\ r.sub \in Seq(Parts)
           /\ r.table = "subinterface" => Len(r.sub) = 1
           /\ r.table # "subinterface" => r.sub = <<>>
<1>1. ReportSpace(r)
  BY ReportsAssumption
<1>2. /\ Range(r.system) \subseteq Parts /\ Range(r.name) \subseteq Parts
      /\ Range(r.sub) \subseteq Parts
  <2>1. PartsOf(r) \subseteq UNION {PartsOf(q) : q \in Reports}
    OBVIOUS
  <2>2. PartsOf(r) \subseteq Parts
    BY <2>1 DEF Parts
  <2> QED
    BY <2>2 DEF PartsOf
<1>3. \A name \in {r.system, r.name, r.sub} : name \in Seq(Range(name))
  BY <1>1 DEF ReportSpace
<1>4. /\ r.system \in Seq(Range(r.system)) /\ r.name \in Seq(Range(r.name))
      /\ r.sub \in Seq(Range(r.sub))
  BY <1>3
<1>5. r.system \in Seq(Parts) /\ r.name \in Seq(Parts) /\ r.sub \in Seq(Parts)
  BY <1>2, <1>4, SeqMonotonic
<1>6. /\ r.table \in Tables /\ r.time \in Nat
      /\ r.table = "subinterface" => Len(r.sub) = 1
      /\ r.table # "subinterface" => r.sub = <<>>
  BY <1>1 DEF ReportSpace
<1> QED
  BY <1>5, <1>6

\* A field that is merged is that of the last report that had it, and there is
\* a last one.
LastHaving(rec, f) ==
    Having(rec, f) = {} \/ \E m \in Having(rec, f) : \A i \in Having(rec, f) : m >= i

IsRecord(rec) ==
    rec = [table |-> rec.table, time |-> rec.time, system |-> rec.system, name |-> rec.name,
           sub |-> rec.sub, from |-> rec.from, val |-> rec.val]
HasFields(rec) == rec.val = [f \in DOMAIN Fields[rec.table] |-> rec.val[f]]

RowInv(rec) ==
    /\ IsRecord(rec)
    /\ rec.table \in Tables
    /\ rec.from \in Seq(Reports) /\ Len(rec.from) >= 1
    /\ SameElement(rec.from[1], rec)
    /\ OneElement(rec)
    /\ LatestTime(rec)
    /\ HasFields(rec)
    /\ \A f \in DOMAIN rec.val : Explained(rec, f) /\ LastHaving(rec, f)

\* The names of a row are those of its first report.
LEMMA RowParts ==
    ASSUME NEW rec, RowInv(rec)
    PROVE  /\ rec.table \in Tables /\ rec.time \in Nat
           /\ rec.system \in Seq(Parts) /\ rec.name \in Seq(Parts) /\ rec.sub \in Seq(Parts)
           /\ rec.table = "subinterface" => Len(rec.sub) = 1
           /\ rec.table # "subinterface" => rec.sub = <<>>
<1>1. 1 \in DOMAIN rec.from /\ \A i \in DOMAIN rec.from : rec.from[i] \in Reports
  BY DEF RowInv
<1>2. /\ rec.from[1].table = rec.table /\ rec.from[1].system = rec.system
      /\ rec.from[1].name = rec.name /\ rec.from[1].sub = rec.sub
  BY <1>1 DEF RowInv, OneElement, SameElement
<1>3. rec.time \in Nat
  BY <1>1, ReportParts DEF RowInv, LatestTime
<1>4. PICK r \in Reports : r = rec.from[1]
  BY <1>1
<1> QED
  BY <1>2, <1>3, <1>4, ReportParts

\* Seconds of natural times are natural numbers.
LEMMA Seconds == \A time \in Nat : Second(time) \in Nat
<1>1. \A n \in Nat, d \in Nat \ {0} : n \div d \in Nat
  BY Z3
<1> QED
  BY <1>1, NumbersAssumption DEF Second

\* What the keys of two aggregated rows tell.
LEMMA KeyTellsElement ==
    ASSUME NEW x, NEW y, RowInv(x), RowInv(y), x.table = y.table,
           x.table \in Aggregating, Key(x) = Key(y)
    PROVE  /\ Second(x.time) = Second(y.time)
           /\ SameElement(y, x) \/ GoesOn(x.system, y.system) \/ GoesOn(y.system, x.system)
<1>1. PICK c \in Parts : c = "_"
  BY DEF Parts
<1>2. /\ x.system \in Seq(Parts) /\ x.name \in Seq(Parts) /\ x.sub \in Seq(Parts)
      /\ y.system \in Seq(Parts) /\ y.name \in Seq(Parts) /\ y.sub \in Seq(Parts)
  BY RowParts
<1>3. Second(x.time) \in Parts /\ Second(y.time) \in Parts
  BY RowParts, Seconds DEF Parts
<1>4. /\ generatePlatformKey(x) = Joined(c, Second(x.time), x.system, x.name)
      /\ generatePlatformKey(y) = Joined(c, Second(y.time), y.system, y.name)
  BY <1>1, Zenon DEF generatePlatformKey, Joined
<1>5. generatePlatformKey(x) = generatePlatformKey(y)
      => /\ Second(x.time) = Second(y.time)
         /\ \/ x.system = y.system /\ x.name = y.name
            \/ GoesOn(x.system, y.system) \/ GoesOn(y.system, x.system)
  <2> SUFFICES ASSUME generatePlatformKey(x) = generatePlatformKey(y)
               PROVE  /\ Second(x.time) = Second(y.time)
                      /\ \/ x.system = y.system /\ x.name = y.name
                         \/ GoesOn(x.system, y.system) \/ GoesOn(y.system, x.system)
    OBVIOUS
  <2>1. PICK a \in Parts : a = Second(x.time)
    BY <1>3
  <2>2. PICK b \in Parts : b = Second(y.time)
    BY <1>3
  <2>3. PICK s \in Seq(Parts) : s = x.system
    BY <1>2
  <2>4. PICK v \in Seq(Parts) : v = y.system
    BY <1>2
  <2>5. PICK t \in Seq(Parts) : t = x.name
    BY <1>2
  <2>6. PICK w \in Seq(Parts) : w = y.name
    BY <1>2
  <2>7. Joined(c, a, s, t) = Joined(c, b, v, w)
    BY <1>4, <2>1, <2>2, <2>3, <2>4, <2>5, <2>6
  <2>8. a = b /\ ((s = v /\ t = w) \/ GoesOnWith(c, s, v) \/ GoesOnWith(c, v, s))
    BY <2>7, KeyIsUnique
  <2>9. /\ GoesOnWith(c, s, v) => GoesOn(s, v)
        /\ GoesOnWith(c, v, s) => GoesOn(v, s)
    BY <1>1 DEF GoesOnWith, GoesOn
  <2> QED
    BY <2>1, <2>2, <2>3, <2>4, <2>5, <2>6, <2>8, <2>9
<1>6. CASE x.table \in {"platform", "interface"}
  <2>1. Key(x) = generatePlatformKey(x) /\ Key(y) = generatePlatformKey(y)
    BY <1>6 DEF Key
  <2>2. x.sub = y.sub
    BY <1>6, RowParts
  <2> QED
    BY <1>5, <2>1, <2>2 DEF SameElement
<1>7. CASE x.table = "subinterface"
  <2>1. Key(x) = generateSubinterfaceKey(x) /\ Key(y) = generateSubinterfaceKey(y)
    BY <1>7 DEF Key
  <2>2. /\ generateSubinterfaceKey(x) = Appended(c, generatePlatformKey(x), x.sub)
        /\ generateSubinterfaceKey(y) = Appended(c, generatePlatformKey(y), y.sub)
    BY <1>1, Zenon DEF generateSubinterfaceKey, Appended
  <2>3. generatePlatformKey(x) \in Seq(Parts) /\ generatePlatformKey(y) \in Seq(Parts)
    BY <1>2, <1>3, <1>4, KeyByPosition
  <2>4. PICK k \in Seq(Parts) : k = generatePlatformKey(x)
    BY <2>3
  <2>5. PICK m \in Seq(Parts) : m = generatePlatformKey(y)
    BY <2>3
  <2>6. PICK s \in Seq(Parts) : s = x.sub
    BY <1>2
  <2>7. PICK t \in Seq(Parts) : t = y.sub
    BY <1>2
  <2>8. Appended(c, k, s) = Appended(c, m, t)
    BY <2>1, <2>2, <2>4, <2>5, <2>6, <2>7
  <2>9. Len(s) = 1 /\ Len(t) = 1
    BY <1>7, <2>6, <2>7, RowParts
  <2>10. k = m /\ s = t
    BY <2>8, <2>9, SubKeyIsUnique
  <2> QED
    BY <1>5, <2>4, <2>5, <2>6, <2>7, <2>10 DEF SameElement
<1> QED
  BY <1>6, <1>7 DEF Aggregating

\* Max of a set with a greatest element is that element.
LEMMA MaxIs ==
    ASSUME NEW S \in SUBSET Int, NEW m \in S, \A i \in S : m >= i
    PROVE  Max(S) = m
<1>1. \A x \in S : (\A y \in S : x >= y) => x = m
  OBVIOUS
<1> QED
  BY <1>1 DEF Max

\* The record of one report is a row.
LEMMA RecordIsRow ==
    ASSUME NEW r \in Reports
    PROVE  RowInv(Record(r)) /\ Record(r).table = r.table /\ Record(r).from = <<r>>
<1>1. PICK rec : rec = Record(r)
  OBVIOUS
<1>2. /\ rec = [table |-> rec.table, time |-> rec.time, system |-> rec.system, name |-> rec.name,
                sub |-> rec.sub, from |-> rec.from, val |-> rec.val]
      /\ rec.table = r.table /\ rec.time = r.time /\ rec.system = r.system
      /\ rec.name = r.name /\ rec.sub = r.sub /\ rec.from = <<r>>
      /\ rec.val = [f \in DOMAIN Fields[r.table] |-> Parsed(r, f)]
  BY <1>1 DEF Record
<1>3. /\ rec.from \in Seq(Reports) /\ Len(rec.from) = 1 /\ rec.from[1] = r
      /\ DOMAIN rec.from = {1}
  BY <1>2
<1>4. OneElement(rec) /\ SameElement(rec.from[1], rec)
  BY <1>2, <1>3 DEF OneElement, SameElement
<1>5. LatestTime(rec)
  <2>1. r.time \in Nat
    BY ReportParts
  <2> QED
    BY <1>2, <1>3, <2>1 DEF LatestTime
<1>6. ASSUME NEW f \in DOMAIN rec.val
      PROVE  Explained(rec, f) /\ LastHaving(rec, f)
  <2>1. rec.val[f] = Parsed(r, f)
    BY <1>2
  <2>2. Having(rec, f) = IF Parsed(r, f) # nil THEN {1} ELSE {}
    BY <1>3 DEF Having
  <2>3. Max({1}) = 1
    BY MaxIs
  <2> QED
    BY <1>3, <2>1, <2>2, <2>3 DEF Explained, LastHaving
<1>7. RowInv(rec)
  <2>1. IsRecord(rec) /\ HasFields(rec)
    BY <1>2 DEF IsRecord, HasFields
  <2>2. rec.table \in Tables /\ Len(rec.from) >= 1
    <3>1. r.table \in Tables
      BY ReportParts
    <3> QED
      BY <1>2, <1>3, <3>1
  <2> QED
    BY <1>3, <1>4, <1>5, <1>6, <2>1, <2>2 DEF RowInv
<1> QED
  BY <1>1, <1>2, <1>7

\* What a merge with the record of a report does.
LEMMA MergeIsRow ==
    ASSUME NEW old, NEW r \in Reports, RowInv(old), old.table = r.table,
           old.table \in Aggregating, Key(old) = Key(Record(r))
    PROVE  /\ RowInv(mergeMetric(old, Record(r)))
           /\ mergeMetric(old, Record(r)).table = old.table
           /\ Key(mergeMetric(old, Record(r))) = Key(old)
<1>1. PICK new : new = Record(r)
  OBVIOUS
<1>2. RowInv(new) /\ new.table = r.table /\ new.from = <<r>>
  BY <1>1, RecordIsRow
<1>3. /\ Second(old.time) = Second(new.time)
      /\ \/ SameElement(new, old)
         \/ GoesOn(old.system, new.system) \/ GoesOn(new.system, old.system)
  BY <1>1, <1>2, KeyTellsElement
<1>4. PICK m : m = mergeMetric(old, new)
  OBVIOUS
<1>5. PICK n : n = Len(old.from)
  OBVIOUS
<1>6. /\ m = [table |-> m.table, time |-> m.time, system |-> m.system, name |-> m.name,
              sub |-> m.sub, from |-> m.from, val |-> m.val]
      /\ m.table = old.table /\ m.time = MaxTime(old.time, new.time)
      /\ m.system = old.system /\ m.name = old.name /\ m.sub = old.sub
      /\ m.from = old.from \o new.from
      /\ m.val = [f \in DOMAIN old.val |->
                    IF Fields[old.table][f].merged /\ new.val[f] # nil
                    THEN new.val[f] ELSE old.val[f]]
  <2>1. old = [table |-> old.table, time |-> old.time, system |-> old.system, name |-> old.name,
               sub |-> old.sub, from |-> old.from, val |-> old.val]
    BY DEF RowInv, IsRecord
  <2> QED
    BY <1>4, <2>1 DEF mergeMetric
<1>7. /\ old.from \in Seq(Reports) /\ new.from \in Seq(Reports)
      /\ Len(new.from) = 1 /\ new.from[1] = r /\ n \in Nat /\ n >= 1
  BY <1>2, <1>5 DEF RowInv
<1>8. /\ m.from \in Seq(Reports) /\ Len(m.from) = n + 1
      /\ DOMAIN m.from = 1 .. n + 1 /\ DOMAIN old.from = 1 .. n
      /\ \A i \in 1 .. n : m.from[i] = old.from[i]
      /\ m.from[n + 1] = r
  <2>1. m.from \in Seq(Reports) /\ IsConcat(m.from, old.from, new.from)
    BY <1>6, <1>7, Concat
  <2> QED
    BY <1>5, <1>7, <2>1 DEF IsConcat
<1>9. DOMAIN new.from = {1}
  BY <1>2
<1>10. /\ old.time \in Nat /\ new.time \in Nat /\ r.time \in Nat
       /\ new.time = r.time
  BY <1>1, <1>2, RowParts, ReportParts DEF Record
<1>11. OneElement(m)
  <2>1. Second(m.time) = Second(old.time)
    BY <1>3, <1>6 DEF MaxTime
  <2>2. ASSUME NEW i \in 1 .. n
        PROVE  /\ m.from[i].table = m.table /\ Second(m.from[i].time) = Second(m.time)
               /\ \/ SameElement(m.from[i], m)
                  \/ GoesOn(m.from[i].system, m.system) \/ GoesOn(m.system, m.from[i].system)
    BY <1>6, <1>8, <2>1 DEF RowInv, OneElement, SameElement
  <2>3. /\ r.table = m.table /\ Second(r.time) = Second(m.time)
        /\ SameElement(r, m) \/ GoesOn(r.system, m.system) \/ GoesOn(m.system, r.system)
    <3>1. r.system = new.system /\ r.name = new.name /\ r.sub = new.sub
      BY <1>1 DEF Record
    <3> QED
      BY <1>3, <1>6, <1>10, <2>1, <3>1 DEF SameElement
  <2>4. \A i \in DOMAIN m.from : i \in 1 .. n \/ i = n + 1
    BY <1>7, <1>8
  <2> QED
    BY <1>6, <1>8, <2>2, <2>3, <2>4 DEF OneElement
<1>12. LatestTime(m)
  <2>1. /\ \A i \in 1 .. n : old.from[i].time <= old.time
        /\ \E i \in 1 .. n : old.from[i].time = old.time
    BY <1>8 DEF RowInv, LatestTime
  <2>2. ASSUME NEW i \in 1 .. n
        PROVE  old.from[i].time \in Nat
    <3>1. old.from[i] \in Reports
      BY <1>5, <1>7
    <3> QED
      BY <3>1, ReportParts
  <2>3. /\ m.time \in Nat /\ m.time >= old.time /\ m.time >= r.time
        /\ m.time = old.time \/ m.time = r.time
    BY <1>6, <1>10 DEF MaxTime
  <2>4. ASSUME NEW i \in 1 .. n
        PROVE  m.from[i].time <= m.time
    <3>1. m.from[i].time = old.from[i].time
      BY <1>8
    <3> QED
      BY <1>10, <2>3, <2>1, <2>2, <3>1
  <2>5. m.from[n + 1].time <= m.time
    BY <1>8, <2>3
  <2>6. \E i \in 1 .. n + 1 : m.from[i].time = m.time
    <3>1. CASE m.time = old.time
      <4>1. PICK i \in 1 .. n : old.from[i].time = old.time
        BY <2>1
      <4>2. i \in 1 .. n + 1 /\ m.from[i].time = m.time
        BY <1>7, <1>8, <3>1, <4>1
      <4> QED
        BY <4>2
    <3>2. CASE m.time = r.time
      <4>1. n + 1 \in 1 .. n + 1 /\ m.from[n + 1].time = m.time
        BY <1>7, <1>8, <3>2
      <4> QED
        BY <4>1
    <3> QED
      BY <2>3, <3>1, <3>2
  <2>7. \A i \in DOMAIN m.from : i \in 1 .. n \/ i = n + 1
    BY <1>7, <1>8
  <2> QED
    BY <1>8, <2>4, <2>5, <2>6, <2>7 DEF LatestTime
<1>13. /\ DOMAIN m.val = DOMAIN Fields[m.table]
       /\ m.val = [f \in DOMAIN Fields[m.table] |-> m.val[f]]
       /\ DOMAIN old.val = DOMAIN m.val
  <2>1. DOMAIN old.val = DOMAIN Fields[old.table]
    BY DEF RowInv, HasFields
  <2> QED
    BY <1>6, <2>1
<1>14. ASSUME NEW f \in DOMAIN m.val
       PROVE  Explained(m, f) /\ LastHaving(m, f)
  <2>1. new.val[f] = Parsed(r, f)
    <3>1. f \in DOMAIN Fields[r.table]
      BY <1>6, <1>13
    <3> QED
      BY <1>1, <3>1 DEF Record
  <2>2. m.val[f] = IF Fields[old.table][f].merged /\ Parsed(r, f) # nil
                   THEN Parsed(r, f) ELSE old.val[f]
    BY <1>6, <1>13, <2>1
  <2>3. Explained(old, f) /\ LastHaving(old, f)
    BY <1>13 DEF RowInv
  <2>4. m.from[1] = old.from[1]
    BY <1>7, <1>8
  <2>5. Having(old, f) \subseteq 1 .. n
    BY <1>8 DEF Having
  <2>6. CASE Parsed(r, f) # nil
    <3>1. Having(m, f) \subseteq 1 .. n + 1 /\ n + 1 \in Having(m, f)
      BY <1>7, <1>8, <2>6 DEF Having
    <3>2. \A i \in Having(m, f) : n + 1 >= i
      BY <1>7, <3>1
    <3>3. Max(Having(m, f)) = n + 1
      BY <1>7, <3>1, <3>2, MaxIs
    <3>4. LastHaving(m, f)
      BY <3>1, <3>2 DEF LastHaving
    <3>5. Explained(m, f)
      BY <1>6, <1>8, <2>2, <2>3, <2>4, <2>6, <3>1, <3>3 DEF Explained
    <3> QED
      BY <3>4, <3>5
  <2>7. CASE Parsed(r, f) = nil
    <3>1. Having(m, f) = Having(old, f)
      BY <1>7, <1>8, <2>7 DEF Having
    <3>2. LastHaving(m, f)
      BY <2>3, <3>1 DEF LastHaving
    <3>3. m.val[f] = old.val[f] /\ m.table = old.table
      BY <1>6, <2>2, <2>7
    <3>4. CASE Having(old, f) = {}
      <4>1. old.val[f] = IF ~Fields[old.table][f].merged THEN Parsed(old.from[1], f) ELSE nil
        BY <2>3, <3>4 DEF Explained
      <4>2. Explained(m, f)
        BY <2>4, <3>1, <3>3, <3>4, <4>1 DEF Explained
      <4> QED
        BY <3>2, <4>2
    <3>5. CASE Having(old, f) # {}
      <4>1. PICK k \in Having(old, f) : \A i \in Having(old, f) : k >= i
        BY <2>3, <3>5 DEF LastHaving
      <4>2. Max(Having(old, f)) = k
        BY <1>7, <2>5, <4>1, MaxIs
      <4>3. m.from[k] = old.from[k]
        BY <1>8, <2>5
      <4>4. old.val[f] = IF ~Fields[old.table][f].merged THEN Parsed(old.from[1], f)
                         ELSE Parsed(old.from[k], f)
        BY <2>3, <3>5, <4>2 DEF Explained
      <4>5. Explained(m, f)
        BY <2>4, <3>1, <3>3, <3>5, <4>2, <4>3, <4>4 DEF Explained
      <4> QED
        BY <3>2, <4>5
    <3> QED
      BY <3>4, <3>5
  <2> QED
    BY <2>6, <2>7
<1>15. RowInv(m)
  <2>1. IsRecord(m) /\ HasFields(m)
    BY <1>6, <1>13 DEF IsRecord, HasFields
  <2>2. m.table \in Tables /\ Len(m.from) >= 1
    BY <1>6, <1>7, <1>8 DEF RowInv
  <2>3. SameElement(m.from[1], m)
    <3>1. SameElement(old.from[1], old) /\ m.from[1] = old.from[1]
      BY <1>7, <1>8 DEF RowInv
    <3> QED
      BY <1>6, <3>1 DEF SameElement
  <2> QED
    BY <1>8, <1>11, <1>12, <1>14, <2>1, <2>2, <2>3 DEF RowInv
<1>16. Key(m) = Key(old)
  <2>1. Second(m.time) = Second(old.time)
    BY <1>3, <1>6 DEF MaxTime
  <2>2. generatePlatformKey(m) = generatePlatformKey(old)
    BY <1>6, <2>1, Zenon DEF generatePlatformKey
  <2>3. generateSubinterfaceKey(m) = generateSubinterfaceKey(old)
    BY <1>6, <2>2, Zenon DEF generateSubinterfaceKey
  <2> QED
    BY <1>6, <2>2, <2>3 DEF Key, Aggregating
<1> QED
  BY <1>1, <1>4, <1>6, <1>15, <1>16

-----------------------------------------------------------------------------
(* Values and columns.                                                     *)

\* Value v is what field f of report r becomes.
ComesFrom(v, r, f) ==
    LET kind == Fields[r.table][f].kind
        w    == WireValue(r, f)
    IN  /\ w \in Nat
        /\ kind \in {"uint", "scaled", "narrow"} => w < 2 * Half
        /\ Converted(kind, w, v)

\* What a device sends fits the type of its field.
LEMMA WireValues ==
    ASSUME NEW r \in Reports, NEW f \in DOMAIN Fields[r.table]
    PROVE  /\ WireValue(r, f) \in Nat /\ r.all \in BOOLEAN
           /\ Fields[r.table][f].kind \in {"uint", "scaled", "narrow"} => WireValue(r, f) < 2 * Half
<1>1. ReportSpace(r) /\ Half \in Nat /\ Half >= 1
  BY ReportsAssumption, NumbersAssumption
<1>2. CASE f \in DOMAIN r.wire
  <2>1. WireValue(r, f) = r.wire[f]
    BY <1>2 DEF WireValue
  <2> QED
    BY <1>1, <1>2, <2>1 DEF ReportSpace
<1>3. CASE f \notin DOMAIN r.wire
  <2>1. WireValue(r, f) = 0
    BY <1>3 DEF WireValue
  <2> QED
    BY <1>1, <2>1 DEF ReportSpace
<1> QED
  BY <1>2, <1>3

\* A field with a column is of one of the kinds.
LEMMA ColumnKinds ==
    ASSUME NEW t \in Tables, NEW f \in DOMAIN ColumnTypes[t]
    PROVE  Fields[t][f].kind \in Kinds
  BY ColumnsSuit DEF Suits, Kinds

\* The parser does what Conversions says.
LEMMA ParsedValues ==
    ASSUME NEW r \in Reports, NEW f \in DOMAIN ColumnTypes[r.table]
    PROVE  ComesFrom(Parsed(r, f), r, f)
<1>1. f \in DOMAIN Fields[r.table] /\ Fields[r.table][f].kind \in Kinds
  BY ReportParts, ColumnsSuit, ColumnKinds
<1>2. PICK kind \in Kinds : kind = Fields[r.table][f].kind
  BY <1>1
<1>3. PICK w \in Nat : w = WireValue(r, f)
  BY <1>1, WireValues
<1>4. PICK all \in BOOLEAN : all = r.all
  BY <1>1, WireValues
<1>5. Parsed(r, f) = nil \/ Parsed(r, f) = Convert(kind, w, all)
  BY <1>2, <1>3, <1>4 DEF Parsed
<1>6. Converted(kind, w, nil) /\ Converted(kind, w, Convert(kind, w, all))
  BY Conversions DEF Converted
<1>7. kind \in {"uint", "scaled", "narrow"} => w < 2 * Half
  BY <1>1, <1>2, <1>3, WireValues
<1>8. Converted(kind, w, Parsed(r, f))
  BY <1>5, <1>6
<1> QED
  BY <1>2, <1>3, <1>7, <1>8 DEF ComesFrom

\* The value of every column of a row comes from one of its reports.
LEMMA RowValues ==
    ASSUME NEW rec, RowInv(rec), NEW f \in DOMAIN ColumnTypes[rec.table], rec.val[f] # nil
    PROVE  \E i \in DOMAIN rec.from :
              /\ rec.from[i] \in Reports /\ rec.from[i].table = rec.table
              /\ ComesFrom(rec.val[f], rec.from[i], f)
<1>1. /\ DOMAIN rec.val = DOMAIN Fields[rec.table] /\ 1 \in DOMAIN rec.from
      /\ \A i \in DOMAIN rec.from : rec.from[i] \in Reports /\ rec.from[i].table = rec.table
  BY DEF RowInv, HasFields, OneElement
<1>2. \E i \in DOMAIN rec.from : rec.val[f] = Parsed(rec.from[i], f)
  <2>0. f \in DOMAIN rec.val
    BY <1>1, ColumnsSuit DEF RowInv
  <2>1. Explained(rec, f) /\ LastHaving(rec, f)
    BY <2>0 DEF RowInv
  <2>2. CASE ~Fields[rec.table][f].merged
    BY <1>1, <2>1, <2>2 DEF Explained
  <2>3. CASE Fields[rec.table][f].merged
    <3>1. Having(rec, f) # {}
      BY <2>1, <2>3 DEF Explained
    <3>2. PICK m \in Having(rec, f) : \A i \in Having(rec, f) : m >= i
      BY <2>1, <3>1 DEF LastHaving
    <3>3. Having(rec, f) \in SUBSET Int /\ m \in DOMAIN rec.from
      BY DEF Having, RowInv
    <3>4. Max(Having(rec, f)) = m
      BY <3>2, <3>3, MaxIs
    <3> QED
      BY <2>1, <2>3, <3>1, <3>3, <3>4 DEF Explained
  <2> QED
    BY <2>2, <2>3
<1>3. PICK i \in DOMAIN rec.from : rec.val[f] = Parsed(rec.from[i], f)
  BY <1>2
<1>4. PICK r \in Reports : r = rec.from[i]
  BY <1>1
<1>5. f \in DOMAIN ColumnTypes[r.table]
  BY <1>1, <1>4
<1>6. ComesFrom(Parsed(r, f), r, f)
  BY <1>5, ParsedValues
<1> QED
  BY <1>1, <1>3, <1>4, <1>6

\* What a column of a row is made from.
LEMMA ColumnOf ==
    ASSUME NEW rec, NEW f \in DOMAIN ColumnTypes[rec.table]
    PROVE  ColumnsOf(rec)[f] = Column(rec.table, rec.val[f])
  BY DEF ColumnsOf

\* A value that does not fit its column was reported so.
LEMMA Unfit ==
    ASSUME NEW rec, RowInv(rec), ~AllFit(rec)
    PROVE  \E i \in DOMAIN rec.from, f \in DOMAIN rec.val : Unstorable(rec.from[i], f)
<1>1. PICK f \in DOMAIN ColumnTypes[rec.table] :
        ~Fits(ColumnTypes[rec.table][f], ColumnsOf(rec)[f])
  BY DEF AllFit
<1>2. PICK t \in Tables : t = rec.table
  BY DEF RowInv
<1>3. PICK v : v = rec.val[f]
  OBVIOUS
<1>4. PICK type : type = ColumnTypes[t][f]
  OBVIOUS
<1>5. ~Fits(type, Column(t, v))
  BY <1>1, <1>2, <1>3, <1>4, ColumnOf
<1>6. v # nil
  <2> SUFFICES ASSUME v = nil PROVE FALSE
    OBVIOUS
  <2>1. v.as \notin {"uint", "percent"}
    BY DEF nil, Value
  <2>2. Column(t, v) = nil
    BY <2>1, ColumnIs
  <2> QED
    BY <1>5, <2>2 DEF Fits
<1>7. PICK i \in DOMAIN rec.from :
        /\ rec.from[i] \in Reports /\ rec.from[i].table = rec.table
        /\ ComesFrom(v, rec.from[i], f)
  BY <1>1, <1>3, <1>6, RowValues
<1>8. PICK kind : kind = Fields[t][f].kind
  OBVIOUS
<1>9. PICK w \in Nat : w = WireValue(rec.from[i], f)
  BY <1>7 DEF ComesFrom
<1>10. Converted(kind, w, v)
  BY <1>2, <1>7, <1>8, <1>9 DEF ComesFrom
<1>11. f \in DOMAIN Fields[t] /\ Suits(t, kind, type)
  BY <1>1, <1>2, <1>4, <1>8, ColumnsSuit
<1>12. Unstorable(rec.from[i], f)
  <2>1. \/ kind = "uint" /\ t \in {"interface", "subinterface"} /\ w >= Half
        \/ kind = "narrow" /\ w >= Half
        \/ kind = "percent" /\ w >= 10
        \/ kind = "ratio" /\ w >= 1000
        \/ kind = "losAlarm" /\ w > 0
    BY <1>5, <1>10, <1>11, Refusal
  <2> QED
    BY <1>2, <1>7, <1>8, <1>9, <2>1 DEF Unstorable
<1>13. f \in DOMAIN rec.val
  BY <1>2, <1>11 DEF RowInv, HasFields
<1> QED
  BY <1>12, <1>13

\* Which fields have numbers.
LEMMA NumberKinds ==
    ASSUME NEW kind, NEW w, NEW v, Converted(kind, w, v), v.as \in {"uint", "narrow"}
    PROVE  \/ kind \in {"uint", "narrow"} /\ v.n = w
           \/ kind = "scaled" /\ v.n = w \div Unit
  BY DEF Converted, nil, Value

\* A number that fits its column is kept by it.
LEMMA Recoverable ==
    ASSUME NEW rec, RowInv(rec), NEW f \in DOMAIN ColumnTypes[rec.table], AllFit(rec),
           rec.val[f].as \in {"uint", "narrow"}
    PROVE  /\ ColumnsOf(rec)[f].n \in -Half .. Half - 1
           /\ ColumnsOf(rec)[f].n % (2 * Half) = rec.val[f].n
<1>1. PICK v : v = rec.val[f]
  OBVIOUS
<1>2. v # nil
  BY <1>1 DEF nil, Value
<1>3. PICK i \in DOMAIN rec.from :
        /\ rec.from[i] \in Reports /\ rec.from[i].table = rec.table
        /\ ComesFrom(v, rec.from[i], f)
  BY <1>1, <1>2, RowValues
<1>4. Half \in Nat /\ Half >= 1
  BY NumbersAssumption
<1>5. PICK w \in Nat : w = WireValue(rec.from[i], f)
  BY <1>3 DEF ComesFrom
<1>6. w < 2 * Half => w \div Unit \in 0 .. 2 * Half - 1
  BY Scaled
<1>7. v.n \in 0 .. 2 * Half - 1
  <2>1. PICK kind : kind = Fields[rec.from[i].table][f].kind
    OBVIOUS
  <2>2. /\ kind \in {"uint", "scaled", "narrow"} => w < 2 * Half
        /\ Converted(kind, w, v)
    BY <1>3, <1>5, <2>1 DEF ComesFrom
  <2>3. \/ kind \in {"uint", "narrow"} /\ v.n = w
        \/ kind = "scaled" /\ v.n = w \div Unit
    BY <1>1, <2>2, NumberKinds
  <2> QED
    BY <1>4, <1>6, <2>2, <2>3
<1>8. ColumnsOf(rec)[f] = IF v.as = "uint" /\ rec.table \in SafeTables THEN safeUint(v) ELSE v
  <2>1. rec.table \in Tables /\ ColumnsOf(rec)[f] = Column(rec.table, v)
    BY <1>1, ColumnOf DEF RowInv
  <2> QED
    BY <1>1, <2>1, ColumnIs
<1>9. PICK n \in 0 .. 2 * Half - 1 : n = v.n
  BY <1>7
<1>10. PICK c : c = IF n < Half THEN n ELSE n - 2 * Half
  OBVIOUS
<1>11. c \in -Half .. Half - 1 /\ c % (2 * Half) = n
  BY <1>10, TwosComplement
<1>12. CASE v.as = "uint" /\ rec.table \in SafeTables
  BY <1>1, <1>8, <1>9, <1>10, <1>11, <1>12 DEF safeUint, Value
<1>13. CASE ~(v.as = "uint" /\ rec.table \in SafeTables)
  <2>1. ColumnsOf(rec)[f] = v
    BY <1>8, <1>13
  <2>2. v.n < Half
    BY <1>1, <1>2, <2>1, ZenonT(40) DEF AllFit, Fits
  <2>3. c = n
    BY <1>9, <1>10, <2>2
  <2> QED
    BY <1>1, <1>9, <1>11, <2>1, <2>3
<1> QED
  BY <1>12, <1>13

-----------------------------------------------------------------------------
(* The inductive invariant.                                                *)

\* The keys of a map are those of its records, which are rows of its table.
IsMapOf(map, t) ==
    \A k \in DOMAIN map : RowInv(map[k]) /\ map[k].table = t /\ Key(map[k]) = k

BufferInv == DOMAIN buffer = Tables /\ \A t \in Tables : IsMapOf(buffer[t], t)

\* A stored row fits the columns of its table.
StoredInv ==
    /\ DOMAIN stored = Tables
    /\ \A t \in Tables : \A s \in stored[t] :
          /\ s = StoredRow(s.rec)
          /\ RowInv(s.rec)
          /\ AllFit(s.rec)

\* A refused batch consists of rows of one table, one of which does not fit if
\* the table has the columns.
RefusedInv ==
    \A batch \in refused :
        /\ batch # {}
        /\ \E t \in Tables : /\ \A rec \in batch : RowInv(rec) /\ rec.table = t
                             /\ HasColumns(t) => \E rec \in batch : ~AllFit(rec)

RecordsInv == BufferInv /\ StoredInv /\ RefusedInv

\* Putting a row under its key keeps the maps.
LEMMA PutKeepsMaps ==
    ASSUME BufferInv, NEW t \in Tables, NEW rec, RowInv(rec), rec.table = t,
           PutUnder(t, Key(rec), rec)
    PROVE  BufferInv'
<1>1. PICK key : key = Key(rec)
  OBVIOUS
<1>2. PICK map : map = Put(buffer[t], key, rec)
  OBVIOUS
<1>3. /\ DOMAIN map = (DOMAIN buffer[t]) \cup {key}
      /\ \A k \in DOMAIN map : map[k] = IF k = key THEN rec ELSE buffer[t][k]
  BY <1>2 DEF Put
<1>4. IsMapOf(map, t)
  BY <1>1, <1>3 DEF IsMapOf, BufferInv
<1>5. buffer' = [buffer EXCEPT ![t] = map]
  BY <1>1, <1>2 DEF PutUnder
<1>6. DOMAIN buffer' = Tables /\ \A u \in Tables : IsMapOf(buffer'[u], u)
  BY <1>4, <1>5 DEF BufferInv
<1> QED
  BY <1>6 DEF BufferInv

\* An Add that merges into the entry of its key leaves a sound buffer.
LEMMA AggregatedStep ==
    ASSUME RecordsInv, NEW r \in Reports, AddAggregated(r)
    PROVE  RecordsInv'
<1>1. PICK new : new = Record(r)
  OBVIOUS
<1>2. RowInv(new) /\ new.table = r.table /\ r.table \in Tables
  BY <1>1, RecordIsRow, ReportParts
<1>3. CASE Key(new) \in DOMAIN buffer[r.table] /\ PutUnder(r.table, Key(new), mergeMetric(buffer[r.table][Key(new)], new))
  <2>1. PICK old : old = buffer[r.table][Key(new)]
    OBVIOUS
  <2>2. RowInv(old) /\ old.table = r.table /\ Key(old) = Key(new)
    BY <1>2, <1>3, <2>1 DEF RecordsInv, BufferInv, IsMapOf
  <2>3. r.table \in Aggregating
    BY DEF AddAggregated
  <2>4. PICK m : m = mergeMetric(old, new)
    OBVIOUS
  <2>5. RowInv(m) /\ m.table = r.table /\ Key(m) = Key(new)
    BY <1>1, <2>2, <2>3, <2>4, MergeIsRow
  <2>6. PutUnder(r.table, Key(m), m)
    BY <1>3, <2>1, <2>4, <2>5
  <2> QED
    BY <1>2, <2>5, <2>6, PutKeepsMaps DEF RecordsInv, AddAggregated, StoredInv, RefusedInv
<1>4. CASE PutUnder(r.table, Key(new), new)
  BY <1>2, <1>4, PutKeepsMaps DEF RecordsInv, AddAggregated, StoredInv, RefusedInv
<1> QED
  BY <1>1, <1>3, <1>4 DEF AddAggregated

\* An Add that overwrites the entry of its key leaves a sound buffer.
LEMMA ReplacingStep ==
    ASSUME RecordsInv, NEW r \in Reports, AddReplacing(r)
    PROVE  RecordsInv'
<1>1. PICK new : new = Record(r)
  OBVIOUS
<1>2. RowInv(new) /\ new.table = r.table /\ r.table \in Tables
  BY <1>1, RecordIsRow, ReportParts
<1>3. PutUnder(r.table, Key(new), new)
  BY <1>1 DEF AddReplacing
<1> QED
  BY <1>2, <1>3, PutKeepsMaps DEF RecordsInv, AddReplacing, StoredInv, RefusedInv

\* A COPY stores, or refuses, rows of the buffer as they are.
LEMMA CopyStep ==
    ASSUME RecordsInv, NEW t \in Tables, CopyBatch(t)
    PROVE  RecordsInv'
<1>1. PICK keys \in (SUBSET (DOMAIN buffer[t])) \ {{}} :
        LET batch == {buffer[t][k] : k \in keys}
            ok    == HasColumns(t) /\ \A rec \in batch : AllFit(rec)
        IN  /\ buffer' = [buffer EXCEPT ![t] = Restrict(buffer[t], (DOMAIN buffer[t]) \ keys)]
            /\ \/ ok /\ stored' = [stored EXCEPT ![t] = stored[t] \cup {StoredRow(rec) : rec \in batch}]
                     /\ UNCHANGED refused
               \/ ~ok /\ refused' = refused \cup {batch}
                      /\ UNCHANGED stored
  BY DEF CopyBatch
<1>2. PICK batch : batch = {buffer[t][k] : k \in keys}
  OBVIOUS
<1>3. batch # {}
  BY <1>1, <1>2
<1>4. \A rec \in batch : RowInv(rec) /\ rec.table = t
  BY <1>1, <1>2 DEF RecordsInv, BufferInv, IsMapOf
<1>5. BufferInv'
  <2>1. PICK map : map = Restrict(buffer[t], (DOMAIN buffer[t]) \ keys)
    OBVIOUS
  <2>2. DOMAIN map \subseteq DOMAIN buffer[t] /\ \A k \in DOMAIN map : map[k] = buffer[t][k]
    BY <2>1 DEF Restrict
  <2>3. IsMapOf(map, t)
    BY <2>2 DEF RecordsInv, BufferInv, IsMapOf
  <2>4. buffer' = [buffer EXCEPT ![t] = map]
    BY <1>1, <2>1
  <2>5. DOMAIN buffer' = Tables /\ \A u \in Tables : IsMapOf(buffer'[u], u)
    BY <2>3, <2>4 DEF RecordsInv, BufferInv
  <2> QED
    BY <2>5 DEF BufferInv
<1>6. CASE /\ HasColumns(t) /\ \A rec \in batch : AllFit(rec)
           /\ stored' = [stored EXCEPT ![t] = stored[t] \cup {StoredRow(rec) : rec \in batch}]
           /\ UNCHANGED refused
  <2>1. ASSUME NEW rec \in batch
        PROVE  LET s == StoredRow(rec) IN
               /\ s = StoredRow(s.rec)
               /\ RowInv(s.rec)
               /\ AllFit(s.rec)
    <3>1. StoredRow(rec).rec = rec
      BY DEF StoredRow
    <3> QED
      BY <1>4, <1>6, <3>1
  <2>2. \A u \in Tables : \A s \in stored'[u] : s \in stored[u] \/ \E rec \in batch : s = StoredRow(rec)
    BY <1>6 DEF RecordsInv, StoredInv
  <2>3. DOMAIN stored' = Tables
    BY <1>6 DEF RecordsInv, StoredInv
  <2>4. StoredInv'
    <3>1. ASSUME NEW u \in Tables, NEW s \in stored'[u]
          PROVE  /\ s = StoredRow(s.rec)
                 /\ RowInv(s.rec)
                 /\ AllFit(s.rec)
      <4>1. CASE s \in stored[u]
        BY <4>1 DEF RecordsInv, StoredInv
      <4>2. CASE \E rec \in batch : s = StoredRow(rec)
        BY <2>1, <4>2
      <4> QED
        BY <2>2, <4>1, <4>2
    <3> QED
      BY <2>3, <3>1 DEF StoredInv
  <2>5. RefusedInv'
    BY <1>6 DEF RecordsInv, RefusedInv
  <2> QED
    BY <1>5, <2>4, <2>5 DEF RecordsInv
<1>7. CASE /\ ~(HasColumns(t) /\ \A rec \in batch : AllFit(rec))
           /\ refused' = refused \cup {batch}
           /\ UNCHANGED stored
  <2>1. HasColumns(t) => \E rec \in batch : ~AllFit(rec)
    BY <1>7
  <2>2. RefusedInv'
    BY <1>3, <1>4, <1>7, <2>1 DEF RecordsInv, RefusedInv
  <2>3. StoredInv'
    BY <1>7 DEF RecordsInv, StoredInv
  <2> QED
    BY <1>5, <2>2, <2>3 DEF RecordsInv
<1> QED
  BY <1>1, <1>2, <1>6, <1>7

\* The rows are rows, wherever they are, and what was stored fits.
THEOREM RowsAreSound == Spec => []RecordsInv
<1>1. Init => RecordsInv
  BY DEF Init, RecordsInv, BufferInv, StoredInv, RefusedInv, IsMapOf, Empty
<1>2. RecordsInv /\ [Next]_vars => RecordsInv'
  <2> SUFFICES ASSUME RecordsInv, [Next]_vars
               PROVE  RecordsInv'
    OBVIOUS
  <2>1. ASSUME NEW r \in Reports, AddAggregated(r)
        PROVE  RecordsInv'
    BY <2>1, AggregatedStep
  <2>2. ASSUME NEW r \in Reports, AddReplacing(r)
        PROVE  RecordsInv'
    BY <2>2, ReplacingStep
  <2>3. ASSUME NEW t \in Tables, CopyBatch(t)
        PROVE  RecordsInv'
    BY <2>3, CopyStep
  <2>4. CASE UNCHANGED vars
    BY <2>4 DEF vars, RecordsInv, BufferInv, StoredInv, RefusedInv
  <2> QED
    BY <2>1, <2>2, <2>3, <2>4 DEF Next
<1> QED
  BY <1>1, <1>2, PTL DEF Spec

\* Every row, buffered or stored, is sound.
LEMMA RowsHaveInv ==
    ASSUME RecordsInv, NEW rec \in Rows
    PROVE  RowInv(rec)
<1>1. CASE rec \in Buffered
  <2>1. PICK t \in Tables : rec \in Range(buffer[t])
    BY <1>1 DEF Buffered
  <2>2. PICK k \in DOMAIN buffer[t] : rec = buffer[t][k]
    BY <2>1 DEF Range
  <2> QED
    BY <2>2 DEF RecordsInv, BufferInv, IsMapOf
<1>2. CASE rec \in InTable
  <2>1. PICK t \in Tables : rec \in {s.rec : s \in stored[t]}
    BY <1>2 DEF InTable
  <2> QED
    BY <2>1 DEF RecordsInv, StoredInv
<1>3. CASE rec \in UNION refused
  <2>1. PICK batch \in refused : rec \in batch
    BY <1>3
  <2> QED
    BY <2>1, Zenon DEF RecordsInv, RefusedInv
<1> QED
  BY <1>1, <1>2, <1>3 DEF Rows

\* A row holds reports of one second and one table, and of one element unless
\* the system id of one device is that of another followed by the separator:
\* for any names, that is the only way in which two keys coincide.
THEOREM KeysSeparate == Spec => []RowIsOneElement
<1>1. RecordsInv => RowIsOneElement
  BY RowsHaveInv DEF RowIsOneElement, RowInv
<1> QED
  BY <1>1, RowsAreSound, PTL

\* Every field of a row is explained by the reports it was made from.
THEOREM MergesExplained == Spec => []RowExplained
<1>1. RecordsInv => RowExplained
  BY RowsHaveInv DEF RowExplained, RowInv
<1> QED
  BY <1>1, RowsAreSound, PTL

\* A table that has the columns refuses a batch only for a value in it that a
\* device reported and that its column cannot hold.
THEOREM RefusalsHaveCause == Spec => []RefusedForCause
<1>1. RecordsInv => RefusedForCause
  <2> SUFFICES ASSUME RecordsInv, NEW batch \in refused, \A rec \in batch : HasColumns(rec.table)
               PROVE  HasUnstorable(batch)
    BY DEF RefusedForCause
  <2>1. PICK t \in Tables : /\ \A rec \in batch : RowInv(rec) /\ rec.table = t
                            /\ HasColumns(t) => \E rec \in batch : ~AllFit(rec)
    BY Zenon DEF RecordsInv, RefusedInv
  <2>2. HasColumns(t)
    <3>1. batch # {}
      BY Zenon DEF RecordsInv, RefusedInv
    <3>2. PICK rec : rec \in batch
      BY <3>1
    <3> QED
      BY <2>1, <3>2
  <2>3. PICK rec \in batch : ~AllFit(rec)
    BY <2>1, <2>2
  <2>4. \E i \in DOMAIN rec.from, f \in DOMAIN rec.val : Unstorable(rec.from[i], f)
    BY <2>1, <2>3, Unfit
  <2> QED
    BY <2>4 DEF HasUnstorable
<1> QED
  BY <1>1, RowsAreSound, PTL

\* No number loses a bit on the way into its column.
THEOREM ColumnsAreExact == Spec => []NumbersRecoverable
<1>1. RecordsInv => NumbersRecoverable
  <2> SUFFICES ASSUME RecordsInv, NEW t \in Tables, NEW s \in stored[t], NEW f \in DOMAIN s.col,
                      s.rec.val[f].as \in {"uint", "narrow"}
               PROVE  /\ s.col[f].n \in -Half .. Half - 1
                      /\ s.col[f].n % (2 * Half) = s.rec.val[f].n
    BY DEF NumbersRecoverable
  <2>1. PICK rec : rec = s.rec
    OBVIOUS
  <2>2. s = StoredRow(rec) /\ RowInv(rec) /\ AllFit(rec)
    BY <2>1 DEF RecordsInv, StoredInv
  <2>3. s.col = ColumnsOf(rec) /\ DOMAIN s.col = DOMAIN ColumnTypes[rec.table]
    BY <2>2 DEF StoredRow, ColumnsOf
  <2>4. /\ ColumnsOf(rec)[f].n \in -Half .. Half - 1
        /\ ColumnsOf(rec)[f].n % (2 * Half) = rec.val[f].n
    BY <2>1, <2>2, <2>3, Recoverable
  <2> QED
    BY <2>1, <2>3, <2>4
<1> QED
  BY <1>1, RowsAreSound, PTL

-----------------------------------------------------------------------------
(* Counting.                                                               *)

Size(t) == Cardinality(DOMAIN buffer[t])

Sizes == Size("platform") + Size("interface") + Size("subinterface") + Size("alarm")
         + Size("notification")

CountInv ==
    /\ DOMAIN buffer = Tables
    /\ \A t \in Tables : IsFiniteSet(DOMAIN buffer[t])
    /\ processed \in Nat /\ collisions \in Nat /\ replaced \in Nat /\ taken \in Nat
    /\ RecordsCounted

\* The size of a map is a number.
LEMMA SizeIsNat ==
    ASSUME CountInv, NEW t \in Tables
    PROVE  Size(t) \in Nat
  BY FS_CardinalityType DEF CountInv, Size

\* When one map changes its size by d and the counters change by d, too, the
\* count still agrees.
LEMMA CountFollows ==
    ASSUME CountInv, NEW t \in Tables, NEW map, buffer' = [buffer EXCEPT ![t] = map],
           IsFiniteSet(DOMAIN map), NEW d \in Int, Cardinality(DOMAIN map) = Size(t) + d,
           processed' \in Nat, collisions' \in Nat, replaced' \in Nat, taken' \in Nat,
           processed' + collisions + replaced + taken
              = processed + collisions' + replaced' + taken' + d
    PROVE  CountInv'
<1>1. /\ DOMAIN buffer' = Tables /\ buffer'[t] = map
      /\ \A u \in Tables \ {t} : buffer'[u] = buffer[u]
  BY DEF CountInv
<1>2. \A u \in Tables : IsFiniteSet(DOMAIN (buffer'[u]))
  BY <1>1 DEF CountInv
<1>3. Size(t)' = Size(t) + d /\ \A u \in Tables \ {t} : Size(u)' = Size(u)
  BY <1>1 DEF Size
<1>4. /\ Size("platform") \in Nat /\ Size("interface") \in Nat /\ Size("subinterface") \in Nat
      /\ Size("alarm") \in Nat /\ Size("notification") \in Nat
  BY SizeIsNat, TableNames
<1>5. processed = collisions + replaced + taken + Size("platform") + Size("interface")
                  + Size("subinterface") + Size("alarm") + Size("notification")
  BY DEF CountInv, RecordsCounted, Size
<1>6. Sizes \in Nat /\ processed = collisions + replaced + taken + Sizes
  BY <1>4, <1>5, SMTT(30) DEF CountInv, Sizes
<1>7. Sizes' = Sizes + d
  <2>1. t \in {"platform", "interface", "subinterface", "alarm", "notification"}
    BY TableNames
  <2>2. CASE t = "platform"
    <3>1. /\ Size("platform")' = Size("platform") + d
          /\ Size("interface")' = Size("interface")
          /\ Size("subinterface")' = Size("subinterface")
          /\ Size("alarm")' = Size("alarm")
          /\ Size("notification")' = Size("notification")
      BY <1>3, <2>2, TableNames
    <3> QED
      BY <1>4, <3>1 DEF Sizes
  <2>3. CASE t = "interface"
    <3>1. /\ Size("platform")' = Size("platform")
          /\ Size("interface")' = Size("interface") + d
          /\ Size("subinterface")' = Size("subinterface")
          /\ Size("alarm")' = Size("alarm")
          /\ Size("notification")' = Size("notification")
      BY <1>3, <2>3, TableNames
    <3> QED
      BY <1>4, <3>1 DEF Sizes
  <2>4. CASE t = "subinterface"
    <3>1. /\ Size("platform")' = Size("platform")
          /\ Size("interface")' = Size("interface")
          /\ Size("subinterface")' = Size("subinterface") + d
          /\ Size("alarm")' = Size("alarm")
          /\ Size("notification")' = Size("notification")
      BY <1>3, <2>4, TableNames
    <3> QED
      BY <1>4, <3>1 DEF Sizes
  <2>5. CASE t = "alarm"
    <3>1. /\ Size("platform")' = Size("platform")
          /\ Size("interface")' = Size("interface")
          /\ Size("subinterface")' = Size("subinterface")
          /\ Size("alarm")' = Size("alarm") + d
          /\ Size("notification")' = Size("notification")
      BY <1>3, <2>5, TableNames
    <3> QED
      BY <1>4, <3>1 DEF Sizes
  <2>6. CASE t = "notification"
    <3>1. /\ Size("platform")' = Size("platform")
          /\ Size("interface")' = Size("interface")
          /\ Size("subinterface")' = Size("subinterface")
          /\ Size("alarm")' = Size("alarm")
          /\ Size("notification")' = Size("notification") + d
      BY <1>3, <2>6, TableNames
    <3> QED
      BY <1>4, <3>1 DEF Sizes
  <2> QED
    BY <2>1, <2>2, <2>3, <2>4, <2>5, <2>6
<1>8. processed' = collisions' + replaced' + taken' + Sizes'
  <2>1. processed \in Nat /\ collisions \in Nat /\ replaced \in Nat /\ taken \in Nat
    BY DEF CountInv
  <2>2. PICK n \in Nat : n = Sizes
    BY <1>6
  <2>3. processed = collisions + replaced + taken + n /\ Sizes' = n + d
    BY <1>6, <1>7, <2>2
  <2>4. PICK p \in Nat : p = processed'
    OBVIOUS
  <2>5. PICK c \in Nat : c = collisions'
    OBVIOUS
  <2>6. PICK e \in Nat : e = replaced'
    OBVIOUS
  <2>7. PICK k \in Nat : k = taken'
    OBVIOUS
  <2>8. p + collisions + replaced + taken = processed + c + e + k + d
    BY <2>4, <2>5, <2>6, <2>7
  <2>9. p = c + e + k + (n + d)
    BY <2>1, <2>3, <2>8
  <2> QED
    BY <2>3, <2>4, <2>5, <2>6, <2>7, <2>9
<1>9. /\ Size("platform")' \in Nat /\ Size("interface")' \in Nat /\ Size("subinterface")' \in Nat
      /\ Size("alarm")' \in Nat /\ Size("notification")' \in Nat
  BY <1>1, <1>2, FS_CardinalityType, TableNames DEF Size
<1>10. RecordsCounted'
  BY <1>8, <1>9, SMTT(30) DEF RecordsCounted, Sizes, Size
<1> QED
  BY <1>1, <1>2, <1>10 DEF CountInv

\* Putting a record makes a map one larger, or not if it has the key.
LEMMA PutSize ==
    ASSUME CountInv, NEW t \in Tables, NEW key, NEW rec, NEW map, map = Put(buffer[t], key, rec)
    PROVE  /\ IsFiniteSet(DOMAIN map)
           /\ Cardinality(DOMAIN map) = Size(t) + (IF key \in DOMAIN buffer[t] THEN 0 ELSE 1)
<1>1. DOMAIN map = (DOMAIN buffer[t]) \cup {key}
  BY DEF Put
<1>2. IsFiniteSet(DOMAIN buffer[t]) /\ Size(t) \in Nat
  BY SizeIsNat DEF CountInv
<1> QED
  BY <1>1, <1>2, FS_AddElement DEF Size

\* Every record that was counted is in a map, taken, merged or replaced.
THEOREM NothingUncounted == Spec => []RecordsCounted
<1>1. Init => CountInv
  <2> SUFFICES ASSUME Init PROVE CountInv
    OBVIOUS
  <2>1. DOMAIN buffer = Tables /\ \A t \in Tables : DOMAIN buffer[t] = {}
    BY DEF Init, Empty
  <2>2. IsFiniteSet({}) /\ Cardinality({}) = 0
    BY FS_EmptySet
  <2>3. \A t \in Tables : Cardinality(DOMAIN buffer[t]) = 0
    BY <2>1, <2>2
  <2>4. RecordsCounted
    BY <2>3, TableNames DEF Init, RecordsCounted
  <2> QED
    BY <2>1, <2>2, <2>4 DEF Init, CountInv
<1>2. CountInv /\ [Next]_vars => CountInv'
  <2> SUFFICES ASSUME CountInv, [Next]_vars
               PROVE  CountInv'
    OBVIOUS
  <2>0. processed \in Nat /\ collisions \in Nat /\ replaced \in Nat /\ taken \in Nat
    BY DEF CountInv
  <2>1. ASSUME NEW r \in Reports, AddAggregated(r)
        PROVE  CountInv'
    <3>1. PICK t \in Tables : t = r.table
      BY ReportParts
    <3>2. PICK key : key = Key(Record(r))
      OBVIOUS
    <3>3. PICK d \in Int : d = IF key \in DOMAIN buffer[t] THEN 0 ELSE 1
      OBVIOUS
    <3>4. CASE /\ key \in DOMAIN buffer[t]
               /\ PutUnder(t, key, mergeMetric(buffer[t][key], Record(r)))
               /\ collisions' = collisions + 1
      <4>1. PICK map : map = Put(buffer[t], key, mergeMetric(buffer[t][key], Record(r)))
        OBVIOUS
      <4>2. IsFiniteSet(DOMAIN map) /\ Cardinality(DOMAIN map) = Size(t) + d
        BY <3>3, <3>4, <4>1, PutSize
      <4>3. /\ buffer' = [buffer EXCEPT ![t] = map]
            /\ processed' = processed + 1 /\ replaced' = replaced /\ taken' = taken
        BY <2>1, <3>4, <4>1 DEF AddAggregated, PutUnder
      <4>4. /\ processed' \in Nat /\ collisions' \in Nat /\ replaced' \in Nat /\ taken' \in Nat
            /\ processed' + collisions + replaced + taken
                  = processed + collisions' + replaced' + taken' + d
        BY <2>0, <3>3, <3>4, <4>3
      <4> QED
        BY <4>2, <4>3, <4>4, CountFollows
    <3>5. CASE /\ key \notin DOMAIN buffer[t]
               /\ PutUnder(t, key, Record(r))
               /\ UNCHANGED collisions
      <4>1. PICK map : map = Put(buffer[t], key, Record(r))
        OBVIOUS
      <4>2. IsFiniteSet(DOMAIN map) /\ Cardinality(DOMAIN map) = Size(t) + d
        BY <3>3, <3>5, <4>1, PutSize
      <4>3. /\ buffer' = [buffer EXCEPT ![t] = map]
            /\ processed' = processed + 1 /\ replaced' = replaced /\ taken' = taken
        BY <2>1, <3>5, <4>1 DEF AddAggregated, PutUnder
      <4>4. /\ processed' \in Nat /\ collisions' \in Nat /\ replaced' \in Nat /\ taken' \in Nat
            /\ processed' + collisions + replaced + taken
                  = processed + collisions' + replaced' + taken' + d
        BY <2>0, <3>3, <3>5, <4>3
      <4> QED
        BY <4>2, <4>3, <4>4, CountFollows
    <3> QED
      BY <2>1, <3>1, <3>2, <3>4, <3>5 DEF AddAggregated
  <2>2. ASSUME NEW r \in Reports, AddReplacing(r)
        PROVE  CountInv'
    <3>1. PICK t \in Tables : t = r.table
      BY ReportParts
    <3>2. PICK key : key = Key(Record(r))
      OBVIOUS
    <3>3. PICK map : map = Put(buffer[t], key, Record(r))
      OBVIOUS
    <3>4. PICK d \in Int : d = IF key \in DOMAIN buffer[t] THEN 0 ELSE 1
      OBVIOUS
    <3>5. IsFiniteSet(DOMAIN map) /\ Cardinality(DOMAIN map) = Size(t) + d
      BY <3>3, <3>4, PutSize
    <3>6. /\ buffer' = [buffer EXCEPT ![t] = map]
          /\ processed' = processed + 1 /\ collisions' = collisions /\ taken' = taken
          /\ replaced' = replaced + (1 - d)
      BY <2>2, <3>1, <3>2, <3>3, <3>4 DEF AddReplacing, PutUnder
    <3>7. /\ processed' \in Nat /\ collisions' \in Nat /\ replaced' \in Nat /\ taken' \in Nat
          /\ processed' + collisions + replaced + taken
                = processed + collisions' + replaced' + taken' + d
      BY <2>0, <3>4, <3>6
    <3> QED
      BY <3>5, <3>6, <3>7, CountFollows
  <2>3. ASSUME NEW t \in Tables, CopyBatch(t)
        PROVE  CountInv'
    <3>1. PICK keys \in (SUBSET (DOMAIN buffer[t])) \ {{}} :
            /\ buffer' = [buffer EXCEPT ![t] = Restrict(buffer[t], (DOMAIN buffer[t]) \ keys)]
            /\ taken' = taken + Cardinality(keys)
            /\ UNCHANGED <<processed, collisions, replaced>>
      BY <2>3 DEF CopyBatch
    <3>2. PICK map : map = Restrict(buffer[t], (DOMAIN buffer[t]) \ keys)
      OBVIOUS
    <3>3. DOMAIN map = (DOMAIN buffer[t]) \ keys
      BY <3>2 DEF Restrict
    <3>4. IsFiniteSet(DOMAIN buffer[t])
      BY DEF CountInv
    <3>5. IsFiniteSet(keys) /\ Cardinality(keys) \in Nat
      BY <3>4, FS_Subset, FS_CardinalityType
    <3>6. IsFiniteSet(DOMAIN map) /\ Cardinality(DOMAIN map) \in Nat
      BY <3>3, <3>4, FS_Subset, FS_CardinalityType
    <3>7. Size(t) = Cardinality(DOMAIN map) + Cardinality(keys)
      <4>1. (DOMAIN map) \cup keys = DOMAIN buffer[t] /\ (DOMAIN map) \cap keys = {}
        BY <3>3
      <4>2. Cardinality((DOMAIN map) \cup keys)
              = Cardinality(DOMAIN map) + Cardinality(keys) - Cardinality((DOMAIN map) \cap keys)
        BY <3>5, <3>6, FS_Union
      <4>3. Cardinality({}) = 0
        BY FS_EmptySet
      <4> QED
        <5>1. Cardinality(DOMAIN buffer[t]) = Cardinality(DOMAIN map) + Cardinality(keys) - 0
          BY <4>1, <4>2, <4>3
        <5> QED
          BY <3>5, <3>6, <5>1 DEF Size
    <3>8. PICK d \in Int : d = -Cardinality(keys)
      BY <3>5
    <3>9. Cardinality(DOMAIN map) = Size(t) + d
      BY <3>5, <3>6, <3>7, <3>8
    <3>10. /\ processed' \in Nat /\ collisions' \in Nat /\ replaced' \in Nat /\ taken' \in Nat
           /\ processed' + collisions + replaced + taken
                 = processed + collisions' + replaced' + taken' + d
      BY <2>0, <3>1, <3>5, <3>8
    <3>11. buffer' = [buffer EXCEPT ![t] = map]
      BY <3>1, <3>2
    <3> QED
      BY <3>6, <3>9, <3>10, <3>11, CountFollows
  <2>4. CASE UNCHANGED vars
    BY <2>4 DEF vars, CountInv, RecordsCounted
  <2> QED
    BY <2>1, <2>2, <2>3, <2>4 DEF Next
<1>3. CountInv => RecordsCounted
  BY DEF CountInv
<1> QED
  BY <1>1, <1>2, <1>3, PTL DEF Spec
=============================================================================
