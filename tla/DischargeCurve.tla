--------------------------- MODULE DischargeCurve ---------------------------
(***************************************************************************)
(* From a power sample to a state of charge, in integer units: the first   *)
(* half of BatteryGauge::update, with lookup_soc.                          *)
(***************************************************************************)
EXTENDS BatteryGauge, Sequences, FiniteSetsExt

CONSTANTS
    Curve,            \* curve: a sequence of [volts, soc], ascending
    GaugeResistance   \* internal_resistance_ohm

ASSUME CurveAssumption ==
    /\ Curve \in Seq([volts : Nat, soc : 0 .. FullSoc])
    /\ \A i, j \in DOMAIN Curve :
          i <= j => Curve[i].volts <= Curve[j].volts /\ Curve[i].soc <= Curve[j].soc
    /\ GaugeResistance \in Nat

\* Between the points around it, linearly; outside the curve, its nearer end.
LookupSoc(ocv) ==
    IF Curve = <<>> THEN FullSoc
    ELSE IF ocv <= Curve[1].volts THEN Curve[1].soc
    ELSE IF ocv >= Curve[Len(Curve)].volts THEN Curve[Len(Curve)].soc
    ELSE LET i    == Min({j \in DOMAIN Curve : ocv <= Curve[j].volts})
             from == Curve[i - 1]
         IN  from.soc + ((Curve[i].soc - from.soc) * (ocv - from.volts))
                          \div (Curve[i].volts - from.volts)

\* A plausible slip: the drop subtracted once more instead of undone.
Mut_OpenCircuit_WrongSign(sample) ==
    sample.terminal_volts - sample.current_a * GaugeResistance

OpenCircuit(sample) == sample.terminal_volts + sample.current_a * GaugeResistance
=============================================================================
