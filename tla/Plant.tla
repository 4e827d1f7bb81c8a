------------------------------- MODULE Plant --------------------------------
(***************************************************************************)
(* The analogue side of Robot::run_control, one period at a time: the      *)
(* gauge is fed with a power sample of the loaded pack, and one of the two *)
(* ramps follows its target, or is reset while motion is not allowed.      *)
(***************************************************************************)
EXTENDS DischargeCurve, SlewLimiter

CONSTANTS
    MaxSpeed,        \* bound: targets are within -MaxSpeed .. MaxSpeed
    Accel, Decel,    \* the two limits of the ramp, per period
    PackVolts,       \* the open-circuit voltages that packs have
    LoadCurrents,    \* the load currents that occur
    PackResistance   \* the pack's own

\* The drop that the configured resistance leaves out of account at most.
UnseenDrop == Max(LoadCurrents) * (PackResistance - GaugeResistance)

\* The configured resistance is "optimistic" (battery_gauge.hpp:19-24), but not
\* so much that a load looks like another pack.
ASSUME PlantAssumption ==
    /\ MaxSpeed \in Nat
    /\ {Accel, Decel} \subseteq Nat \ {0}
    /\ PackVolts \subseteq Nat /\ LoadCurrents \subseteq Nat
    /\ \E peak \in LoadCurrents : \A load \in LoadCurrents : load <= peak
    /\ PackResistance \in Nat /\ GaugeResistance <= PackResistance
    /\ \A volts \in PackVolts :
          LookupSoc(volts) - LookupSoc(volts - UnseenDrop) < RiseThreshold

VARIABLES
    pack,      \* the open-circuit voltage of the pack
    gauge,     \* gauge_
    current,   \* the ramp's current_
    target     \* what the ramp is asked for

\* Ghost variables.
VARIABLES
    ramped,    \* the last change of current came from update()
    recent,    \* the last RiseSamples charges measured, oldest first
    swapped    \* the gauge has not caught up with the pack since it was swapped

vars == <<pack, gauge, current, target, ramped, recent, swapped>>

Speed == -MaxSpeed .. MaxSpeed

\* Type invariant: the output stays within the range of the targets, and a run
\* of rises is accepted before it exceeds its length (slew_limiter.cpp:46-53,
\* battery_gauge.cpp:81-88).
TypeOK ==
    /\ gauge \in GaugeType
    /\ gauge.rise_samples < RiseSamples
    /\ current \in Speed /\ target \in Speed
    /\ ramped \in BOOLEAN
    /\ recent \in Seq(0 .. FullSoc) /\ Len(recent) <= RiseSamples
    /\ pack \in PackVolts /\ swapped \in BOOLEAN

Init ==
    /\ gauge = FreshGauge
    /\ current = 0 /\ target = 0
    /\ ramped = FALSE
    /\ recent = <<>>
    /\ pack \in PackVolts
    /\ swapped = FALSE

\* Another setpoint, or another permission from the interlock.
Retarget ==
    /\ target' \in Speed
    /\ UNCHANGED <<pack, gauge, current, ramped, recent, swapped>>

Discharge ==
    /\ pack' \in {volts \in PackVolts : volts < pack}
    /\ UNCHANGED <<gauge, current, target, ramped, recent, swapped>>

\* Another pack, or this one charged.
Swap ==
    /\ pack' \in PackVolts
    /\ swapped' = TRUE
    /\ UNCHANGED <<gauge, current, target, ramped, recent>>

\* The terminals of a loaded pack read low.
PowerSample(load) ==
    [terminal_volts |-> pack - load * PackResistance, current_a |-> load]

UpdateGauge ==
    \E load \in LoadCurrents :
       LET measured == LookupSoc(OpenCircuit(PowerSample(load)))
       IN  /\ gauge' = GaugeUpdate(gauge, measured)
           /\ recent' = Append(IF Len(recent) = RiseSamples THEN Tail(recent) ELSE recent,
                               measured)
           /\ swapped' = (swapped /\ gauge'.soc # measured)

\* The interlock may stop for a reason of its own as well.
RunControl ==
    /\ UpdateGauge
    /\ \/ /\ ~IsCritical(gauge')
          /\ current' = Slew(current, target, Accel, Decel)
          /\ ramped' = TRUE
       \/ /\ current' = 0
          /\ ramped' = FALSE
    /\ UNCHANGED <<pack, target>>

Next == Retarget \/ Discharge \/ Swap \/ RunControl

\* run_control() runs every period; nothing forces a setpoint.
Spec == Init /\ [][Next]_vars /\ WF_vars(RunControl)

-----------------------------------------------------------------------------
(* The gauge *)

LargeRises(soc, samples) ==
    \A i \in 1 .. Len(samples) : samples[i] - soc >= RiseThreshold

\* The charge shown rises only after an unbroken run of large rises: no spike
\* resets the gauge (battery_gauge.cpp:74-77).
RiseIsSustained ==
    [][gauge.has_reading /\ gauge'.soc > gauge.soc =>
         Len(recent') = RiseSamples /\ LargeRises(gauge.soc, recent')]_vars

\* The charge shown is never more than the pack last measured: a falling charge
\* is followed at once, and so is a critical one (battery_gauge.cpp:67-72).
NeverFlattering ==
    gauge.has_reading => gauge.soc <= recent[Len(recent)]

\* A new pack is noticed: the gauge never sits below a full run of large rises
\* (battery_gauge.cpp:78-86).
NewPackNoticed == ~(Len(recent) = RiseSamples /\ LargeRises(gauge.soc, recent))

\* Load never makes a pack look emptier than the unseen drop does for one sample,
\* however the low readings that it leaves behind add up (battery_gauge.cpp:57-75).
LoadIsBounded ==
    gauge.has_reading /\ ~swapped => LookupSoc(pack - UnseenDrop) <= gauge.soc

\* Charge does not rise while discharging: what load took off the charge shown
\* stays off when the load goes, and with it a stop for a critical pack, until
\* the pack is swapped (battery_gauge.hpp:53-58).
OnlySwapsRaise ==
    [][gauge.has_reading /\ gauge'.soc > gauge.soc => swapped]_vars

-----------------------------------------------------------------------------
(* The ramp *)

Between(x, a, b) == (a <= x /\ x <= b) \/ (b <= x /\ x <= a)

\* The output moves towards the target and never past it
\* (slew_limiter.cpp:45-53).
NoOvershoot == [][ramped' /\ target' = target => Between(current', current, target)]_vars

\* Speeding up in one direction takes at most one acceleration step a period,
\* reversing robot or not (slew_limiter.cpp:22-27).
GentleStart ==
    [][current' # current /\ ramped' /\ current * current' >= 0 =>
         Magnitude(current') <= Magnitude(current) + Accel]_vars

\* Slowing down uses the whole braking limit, in either direction, and a stop
\* is a stop at once (slew_limiter.cpp:22-27, robot.cpp:217).
FirmStop ==
    [][RunControl /\ current * target >= 0 /\ Magnitude(target) < Magnitude(current) =>
         \/ current' \in {target, 0}
         \/ Magnitude(current) - Magnitude(current') >= Decel]_vars

\* A target that stays put is reached, unless the robot is stopped: neither the
\* pack nor the gauge can keep the ramp from it (slew_limiter.cpp:45-53).
Settles == <>[]ramped /\ <>[][target' = target]_target => <>[](current = target)
=============================================================================
