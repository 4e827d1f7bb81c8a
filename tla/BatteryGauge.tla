---------------------------- MODULE BatteryGauge ----------------------------
(***************************************************************************)
(* auk::power::BatteryGauge::update, on the charge that the discharge      *)
(* curve gives for a sample (lookup_soc of the compensated voltage), in    *)
(* integer units.                                                          *)
(***************************************************************************)
EXTENDS Integers

CONSTANTS
    FullSoc,         \* the 1.0 reported before the first sample
    CriticalSoc,     \* critical_soc
    RiseThreshold,   \* kPackChangeThreshold
    RiseSamples      \* kPackChangeSamples: 8 in the code

ASSUME GaugeAssumption ==
    /\ FullSoc \in Nat
    /\ CriticalSoc \in 0 .. FullSoc
    /\ RiseThreshold \in Nat \ {0}
    /\ RiseSamples \in Nat \ {0}

GaugeType == [soc : 0 .. FullSoc, has_reading : BOOLEAN, rise_samples : 0 .. RiseSamples]

FreshGauge == [soc |-> FullSoc, has_reading |-> FALSE, rise_samples |-> 0]

\* A plausible slip: a small rise does not end the run of large ones.
Mut_AfterRise_SmallKeepsRun(g, measured) ==
    IF measured - g.soc < RiseThreshold THEN g
    ELSE IF g.rise_samples + 1 < RiseSamples THEN [g EXCEPT !.rise_samples = @ + 1]
    ELSE [g EXCEPT !.soc = measured, !.rise_samples = 0]

\* A plausible slip: any rise that lasts is believed, however small.
Mut_AfterRise_AnySize(g, measured) ==
    IF g.rise_samples + 1 < RiseSamples THEN [g EXCEPT !.rise_samples = @ + 1]
    ELSE [g EXCEPT !.soc = measured, !.rise_samples = 0]

\* A plausible slip: one sample more than configured.
Mut_AfterRise_OneTooMany(g, measured) ==
    IF measured - g.soc < RiseThreshold THEN [g EXCEPT !.rise_samples = 0]
    ELSE IF g.rise_samples < RiseSamples THEN [g EXCEPT !.rise_samples = @ + 1]
    ELSE [g EXCEPT !.soc = measured, !.rise_samples = 0]

\* The charge reads higher than before: believed only when large and sustained.
AfterRise(g, measured) ==
    IF measured - g.soc < RiseThreshold THEN [g EXCEPT !.rise_samples = 0]
    ELSE IF g.rise_samples + 1 < RiseSamples THEN [g EXCEPT !.rise_samples = @ + 1]
    ELSE [g EXCEPT !.soc = measured, !.rise_samples = 0]

\* A plausible slip: the threshold applied to a falling charge as well.
Mut_GaugeUpdate_FiltersFalls(g, measured) ==
    IF ~g.has_reading THEN [g EXCEPT !.soc = measured, !.has_reading = TRUE]
    ELSE IF g.soc - measured >= RiseThreshold
    THEN [g EXCEPT !.soc = measured, !.rise_samples = 0]
    ELSE AfterRise(g, measured)

GaugeUpdate(g, measured) ==
    IF ~g.has_reading THEN [g EXCEPT !.soc = measured, !.has_reading = TRUE]
    ELSE IF measured <= g.soc THEN [g EXCEPT !.soc = measured, !.rise_samples = 0]
    ELSE AfterRise(g, measured)

IsCritical(g) == g.soc <= CriticalSoc
=============================================================================
