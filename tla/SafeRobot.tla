----------------------------- MODULE SafeRobot ------------------------------
(***************************************************************************)
(* What the firmware promises to the people around the robot: with torque  *)
(* on it has heard from its operator lately, torque comes on from a        *)
(* standstill, off means off, and a restart begins with torque off.        *)
(***************************************************************************)
EXTENDS DifferentialDrive

CONSTANTS
    Limit,        \* the longest silence that torque survives
    FirstSpeed    \* the fastest a wheel turns when torque comes on

VARIABLES
    running,    \* the firmware is up
    torque,     \* the output stage is enabled
    wheels,     \* its setpoint
    heard       \* age of the newest setpoint received

vars == <<running, torque, wheels, heard>>

Init == ~running /\ ~torque /\ wheels = ZeroWheels /\ heard = 0

Start ==
    /\ ~running /\ running'
    /\ ~torque' /\ wheels' = ZeroWheels
    /\ heard' \in Nat

\* Nobody tells the output stage: it stays as it is until the next Start.
Restart ==
    /\ running /\ ~running'
    /\ heard' = 0
    /\ UNCHANGED <<torque, wheels>>

Hear ==
    /\ running
    /\ heard' \in 0 .. Limit
    /\ UNCHANGED <<running, torque, wheels>>

Wait ==
    /\ running
    /\ heard' = heard + 1
    /\ torque => heard' <= Limit
    /\ UNCHANGED <<running, torque, wheels>>

SlowWheels == [left : -FirstSpeed .. FirstSpeed, right : -FirstSpeed .. FirstSpeed]

Enable ==
    /\ running /\ ~torque /\ heard <= Limit
    /\ torque' /\ wheels' \in SlowWheels
    /\ UNCHANGED <<running, heard>>

Move ==
    /\ running /\ torque
    /\ wheels' \in WheelSpeeds
    /\ UNCHANGED <<running, torque, heard>>

Cut ==
    /\ running
    /\ ~torque' /\ wheels' = ZeroWheels
    /\ UNCHANGED <<running, heard>>

Next == Start \/ Restart \/ Hear \/ Wait \/ Enable \/ Move \/ Cut

Spec == Init /\ [][Next]_vars
=============================================================================
