------------------------- MODULE DifferentialDrive --------------------------
(***************************************************************************)
(* auk::control::DifferentialDrive on integer speeds: the conversion of a  *)
(* body twist to two wheel speeds with proportional saturation.            *)
(***************************************************************************)
EXTENDS Integers

CONSTANTS
    HalfTrack,   \* half the track width, as the moment arm of the yaw rate
    MaxWheel     \* the fastest a wheel can be asked to turn

ASSUME DriveAssumption ==
    /\ HalfTrack \in Nat \ {0}
    /\ MaxWheel \in Nat \ {0}

AbsMax(a, b) ==
    LET abs(x) == IF x < 0 THEN -x ELSE x
    IN  IF abs(a) > abs(b) THEN abs(a) ELSE abs(b)

\* x * num / den, rounded towards zero; num and den are positive.
Scaled(x, num, den) ==
    IF x < 0 THEN -((-x * num) \div den) ELSE (x * num) \div den

WheelSpeeds == [left : Int, right : Int]

ZeroWheels == [left |-> 0, right |-> 0]

\* A plausible slip: each wheel is limited by itself.
Mut_ToWheels_LimitsApart(twist) ==
    LET differential == twist.angular * HalfTrack
        limited(x) == IF x > MaxWheel THEN MaxWheel ELSE IF x < -MaxWheel THEN -MaxWheel ELSE x
    IN  [left |-> limited(twist.linear - differential),
         right |-> limited(twist.linear + differential)]

\* Both wheels are scaled together, so their ratio survives saturation.
ToWheels(twist) ==
    LET differential == twist.angular * HalfTrack
        left  == twist.linear - differential
        right == twist.linear + differential
        peak  == AbsMax(left, right)
    IN  IF peak > MaxWheel
        THEN [left |-> Scaled(left, MaxWheel, peak), right |-> Scaled(right, MaxWheel, peak)]
        ELSE [left |-> left, right |-> right]
=============================================================================
