---------------------------- MODULE SlewLimiter -----------------------------
(***************************************************************************)
(* auk::control::SlewLimiter::update.  Speeds are integers in a unit small *)
(* enough that one control period's step, limit * dt_s, is one as well;    *)
(* accel and decel are those steps.  A step <= 0 is a disabled limit.      *)
(***************************************************************************)
EXTENDS Integers

Magnitude(x) == IF x < 0 THEN -x ELSE x

CrossesZero(current, target) == current * target < 0

\* A plausible slip: taking the sign of the change for its sense, so that a
\* reversing robot brakes at the acceleration limit and speeds up at the other.
Mut_StepLimit_BySign(current, target, accel, decel) ==
    IF target > current THEN accel ELSE decel

StepLimit(current, target, accel, decel) ==
    IF Magnitude(target) > Magnitude(current) /\ ~CrossesZero(current, target)
    THEN accel ELSE decel

\* A plausible slip: no final short step, so the ramp runs past its target.
Mut_Slew_Overshoots(current, target, accel, decel) ==
    LET step == StepLimit(current, target, accel, decel)
    IN  IF target = current THEN current
        ELSE IF step <= 0 THEN target
        ELSE IF target > current THEN current + step ELSE current - step

Slew(current, target, accel, decel) ==
    LET step == StepLimit(current, target, accel, decel)
    IN  IF step <= 0 \/ Magnitude(target - current) <= step THEN target
        ELSE IF target > current THEN current + step ELSE current - step
=============================================================================
