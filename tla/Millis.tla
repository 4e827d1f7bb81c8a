------------------------------- MODULE Millis -------------------------------
(***************************************************************************)
(* Wrap-safe millisecond arithmetic: auk::core::Millis, elapsed_since and  *)
(* the Deadline class of include/auk/core/deadline.hpp.                    *)
(*                                                                         *)
(* A Millis is an unsigned word; the code's word holds 2^32 values and the *)
(* runs use a small WordSize so that the clock wraps many times in a run.  *)
(* A deadline is a record of the two members of class Deadline.            *)
(***************************************************************************)
EXTENDS Integers

CONSTANT WordSize   \* number of values of a Millis: 2^32 in the code

ASSUME WordSizeAssumption == WordSize \in Nat \ {0}

MillisRange == 0 .. WordSize - 1

\* The subtraction is unsigned, so it is taken modulo the word.
ElapsedSince(then, now) == (now - then) % WordSize

\* A plausible slip: arithmetic in a type wider than the word never wraps.
Mut_Later_NoWrap(t, ms) == t + ms

\* A clock that is read ms milliseconds after it read t.
Later(t, ms) == (t + ms) % WordSize

DeadlineType == [start : MillisRange, period : MillisRange]

\* A plausible slip: rounding the comparison in the task's favour.
Mut_Expired_Early(dl, now) == ElapsedSince(dl.start, now) + 1 >= dl.period

Expired(dl, now) == ElapsedSince(dl.start, now) >= dl.period

\* A plausible slip: re-arming from now lets the lateness accumulate.
Mut_ArmPeriodic_FromNow(dl, now) == [dl EXCEPT !.start = now]

\* A plausible slip: never resynchronising replays every missed period.
Mut_ArmPeriodic_NoResync(dl, now) ==
    [dl EXCEPT !.start = Later(@, dl.period)]

\* The doubling is unsigned as well, hence the second % WordSize.
ArmPeriodic(dl, now) ==
    LET late   == ElapsedSince(dl.start, now)
        resync == dl.period = 0 \/ late >= (2 * dl.period) % WordSize
    IN  [dl EXCEPT !.start = IF resync THEN now ELSE Later(@, dl.period)]
=============================================================================
