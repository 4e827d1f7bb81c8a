------------------------------ MODULE MCRobot -------------------------------
(***************************************************************************)
(* Values of Robot's constants for TLC.  The times are scaled down: the    *)
(* code's 300 / 10 / 50 / 100 ms become a few each and the word wraps      *)
(* every 8 or 16, so that periods, timeouts and wraps overlap in every way.*)
(***************************************************************************)
EXTENDS Robot

Line(kind, a, b) == [kind |-> kind, args |-> <<a, b>>]

Velocity(linear) == Line("Velocity", linear, 0)
Press   == Line("EmergencyStop", 1, 0)
Clear   == Line("ClearFaults", 0, 0)
LampOn  == Line("Lamp", 1, 0)

Estop(value) == Command("SetEmergencyStop", "High", 0, <<value, 0>>)
Bumper == Command("BumperChanged", "High", 0, <<0, 1>>)

PanelState(estop, front, rear) ==
    [estop_asserted |-> estop, front_bumper_pressed |-> front,
     rear_bumper_pressed |-> rear]

PanelQuiet   == {PanelState(FALSE, FALSE, FALSE)}
PanelAll     == {PanelState(e, f, r) : e, f, r \in BOOLEAN}

NoEvents == {}
SafetyEvents == {Estop(0), Estop(1), Bumper}

Mixed == {Velocity(1), LampOn, Clear}
PressLines == {Velocity(1), Press, LampOn}
Turning == {Velocity(2), Velocity(-2), Line("Velocity", 0, 2), Line("Velocity", 2, -2)}
ClearAndPress == {Velocity(1), Clear, Press}
=============================================================================
