----------------------------- MODULE MCRecords -----------------------------
(* Instances of Records for TLC. *)
EXTENDS Records

\* Host names, one of which goes on where the other ends.
Router  == <<"r">>
Router1 == <<"r", "_", "1">>

Card   == <<"card">>
Card1  == <<"card", "_", "1">>
Port   == <<"port">>

Single(t, name, sub, time, section, wire) ==
    [table |-> t, all |-> FALSE, system |-> Router, name |-> name, sub |-> sub,
     time |-> time, sections |-> {section}, wire |-> wire]
Whole(name, time, sections, wire) ==
    [table |-> "platform", all |-> TRUE, system |-> Router, name |-> name, sub |-> <<>>,
     time |-> time, sections |-> sections, wire |-> wire]
Component(name, time, section, wire) == Single("platform", name, <<>>, time, section, wire)

\* Component 1_card of device r and component card of device r_1.
TwoDevices == {Component(<<"1", "_", "card">>, 0, "common", [OperStatus |-> 1]),
               [Component(Card, 0, "common", [OperStatus |-> 2]) EXCEPT !.system = Router1]}

\* The state of the optical alarm of a transceiver.
LosReports == {Component(Port, 0, "optical", [OpticalAlarmLosStatus |-> n]) : n \in {0, 1}}

\* Two sections of one component that arrive in one second.
TwoSections == {Component(Card, 0, "cpu", [CPUInstant |-> 1]),
                Component(Card, 1, "temp", [TempInstant |-> 1])}

PlatformReports ==
    {Component(Card, t, "common", [OperStatus |-> t, UsedPower |-> p, CurrentVoltage |-> 1]) :
        t \in {0, 1, 2}, p \in {0, Half, 2 * Half - 1}}
    \cup {Component(Card, 1, "cpu", [CPUInstant |-> c, CPUAlarmStatus |-> c]) : c \in {0, 3}}
    \cup {Component(Card1, 0, "fan", [FanSpeed |-> Half - 1]),
          Component(Card, 0, "optical", [OpticalAlarmLosInfoEventID |-> Half]),
          Component(Card, 1, "mem", [MemAvailable |-> Unit - 1, MemUsage |-> 1]),
          Component(Card1, 1, "cpu", [CPUInstant |-> 1000]),
          Component(Card1, 0, "storage", [StorageAvailability |-> 999]),
          Component(Card, 0, "linecard", [LinecardPowerAdminState |-> 1]),
          Whole(Card, 0, {}, Empty),
          Whole(Card, 1, {"cpu", "mem", "power"}, [CPUAlarmStatus |-> 0, PowerEnable |-> 1])}
    \cup TwoDevices \cup LosReports

InterfaceReports ==
    {Single("interface", Port, <<>>, t, "counters", [InOctets |-> n, InPkts |-> n, InputUtilization |-> u]) :
        t \in {0, 1}, n \in {0, 1, Half}, u \in {1, 10}}
    \cup {Single("interface", Port, <<>>, 1, "state", [Ifindex |-> n, OperStatusStr |-> n]) :
              n \in {Half - 1, 2 * Half - 1}}
    \cup {Single("interface", Port, <<>>, 0, "zte", [ZteifIfindex |-> 1])}

OtherReports ==
    {Single("subinterface", n, <<"7">>, 0, "counters", [InOctets |-> v]) :
        n \in {Card, Card1}, v \in {1, Half}}
    \cup {[Single("subinterface", Card, <<"7">>, 1, "state", Empty) EXCEPT !.sections = {}]}
    \cup {Single("alarm", <<>>, <<>>, t, "alarm", [FlowID |-> 1, OccurrenceMs |-> m, Sort |-> Half]) :
              t \in {0, 1}, m \in {1, Half}}
    \cup {Single("notification", <<>>, <<>>, 0, "note", [FlowID |-> n, Sort |-> n]) : n \in {1, 2 * Half - 1}}

AllReports == PlatformReports \cup InterfaceReports \cup OtherReports
=============================================================================
