------------------------------ MODULE MCParser ------------------------------
(* Instances of Parser for TLC. *)
EXTENDS Parser, TLC

CONSTANTS g1, g2

Bad == [kind |-> "garbage", name |-> "x", n |-> 0, m |-> 0]
Good(name, n) == [kind |-> "element", name |-> name, n |-> n, m |-> 0]
Info(name, n, m) == [kind |-> "alarmInfo", name |-> name, n |-> n, m |-> m]
Single(name) == [kind |-> "currentAlarm", name |-> name, n |-> 1, m |-> 0]

Telemetry(system, path, entries) ==
    [decodes |-> TRUE, alarm |-> FALSE, system |-> system, path |-> path,
     proto |-> "other", entries |-> entries]
Alarm(system, path, proto, entries) ==
    [decodes |-> TRUE, alarm |-> TRUE, system |-> system, path |-> path,
     proto |-> proto, entries |-> entries]
Broken == [decodes |-> FALSE, alarm |-> FALSE, system |-> "none", path |-> <<>>,
           proto |-> "other", entries |-> <<>>]

NoneOrTwo(E, F) == {<<>>} \cup {<<e, f>> : e \in E, f \in F}

\* Every route, paths that go on below it, and paths without one.
RoutePaths == {routes[i].prefix : i \in DOMAIN routes}
Paths == RoutePaths
         \cup {p \o <<"/leaf">> : p \in {Component, Component \o <<"/state">>,
                                       Subinterface \o <<"/state", "/counters">>}}
         \cup {<<"oc-if:interfaces">>, Subinterface}
Elements(name) == {Bad, Good(name, 0), Good(name, 2)}

AlarmPaths  == {<<"alm:current-alarm-report">>, <<"alm:notification-report">>, <<"alm:other">>}
AlarmProtos == {"zxr10.alarm.AlarmReport", "zxr10.alarm.NotificationReport", "other"}
Reports(name) == {Bad, Single(name), Info(name, 0, 1), Info(name, 2, 1)}

\* Every path, without entries and with two, the first of every shape, the
\* second damaged or with several elements.
EveryMessage ==
    {Broken}
    \cup {Telemetry("d1", p, es) : p \in Paths, es \in NoneOrTwo(Elements("a"), {Bad, Good("b", 2)})}
    \cup {Alarm("d1", p, q, es) : p \in AlarmPaths, q \in AlarmProtos,
                                  es \in NoneOrTwo(Reports("a"), {Bad, Info("b", 2, 1)})}

\* Messages of a second device that meet the others in each of the pools.
Interference ==
    {Telemetry("d2", Component \o <<"/fan/state">>, <<Bad, Good("a", 1)>>),
     Telemetry("d2", Subinterface \o <<"/state", "/counters">>, <<Good("a", 2), Bad>>)}

TwoDevices == (g1 :> EveryMessage) @@ (g2 :> Interference)
=============================================================================
