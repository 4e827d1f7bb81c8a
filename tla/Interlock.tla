----------------------------- MODULE Interlock ------------------------------
(***************************************************************************)
(* auk::safety::Interlock: the decision what motion is permitted, as pure  *)
(* operators on the safety inputs.  A fault set is the set of its flags.   *)
(***************************************************************************)
EXTENDS Millis

CONSTANT CommandTimeout   \* kCommandTimeoutMs: 300 in the code

ASSUME InterlockAssumption == CommandTimeout \in Nat

Fault == {"EmergencyStop", "FrontBumper", "RearBumper", "LinkLost",
          "CommandStale", "BatteryCritical", "SafetyQueueLost"}

\* Faulted until proven otherwise: what faults() says before the first update.
InitialFaults == {"EmergencyStop", "LinkLost"}

\* A plausible slip: the comparison people reach for, wrong across the wrap.
Mut_Stale_Naive(then, now) == now > then /\ now - then > CommandTimeout

Stale(then, now) == ElapsedSince(then, now) > CommandTimeout

SafetyInputs ==
    [estop_asserted : BOOLEAN, front_bumper_pressed : BOOLEAN,
     rear_bumper_pressed : BOOLEAN, link_up : BOOLEAN, battery_critical : BOOLEAN,
     safety_queue_overflowed : BOOLEAN, last_command_ms : MillisRange]

Faults(in, now) ==
    {f \in Fault :
        \/ f = "EmergencyStop"   /\ in.estop_asserted
        \/ f = "FrontBumper"     /\ in.front_bumper_pressed
        \/ f = "RearBumper"      /\ in.rear_bumper_pressed
        \/ f = "LinkLost"        /\ ~in.link_up
        \/ f = "BatteryCritical" /\ in.battery_critical
        \/ f = "SafetyQueueLost" /\ in.safety_queue_overflowed
        \/ f = "CommandStale"    /\ Stale(in.last_command_ms, now)}

Blocking(faults) == faults \ {"FrontBumper", "RearBumper"}

MotionAllowed(faults) == Blocking(faults) = {}

ZeroTwist == [linear |-> 0, angular |-> 0]

\* A plausible slip: the two bumpers mixed up.
Mut_Permit_BumpersSwapped(faults, request) ==
    IF ~MotionAllowed(faults) THEN ZeroTwist
    ELSE IF \/ "FrontBumper" \in faults /\ request.linear < 0
            \/ "RearBumper"  \in faults /\ request.linear > 0
         THEN [request EXCEPT !.linear = 0]
         ELSE request

\* A bumper removes only the component that drives further into it.
Permit(faults, request) ==
    IF ~MotionAllowed(faults) THEN ZeroTwist
    ELSE IF \/ "FrontBumper" \in faults /\ request.linear > 0
            \/ "RearBumper"  \in faults /\ request.linear < 0
         THEN [request EXCEPT !.linear = 0]
         ELSE request
=============================================================================
