------------------------------ MODULE Deadline ------------------------------
(***************************************************************************)
(* A periodic task gated by a Deadline, the way Robot::step gates its      *)
(* control and telemetry activities: poll the deadline with the clock, and *)
(* when it has expired re-arm it with arm_periodic and do one period of    *)
(* work.  The polls come as late as they like, up to MaxGap milliseconds   *)
(* apart (in the robot the watchdog resets the part beyond that).          *)
(***************************************************************************)
EXTENDS Millis

CONSTANTS
    Period,   \* the task's period_ms
    MaxGap,   \* longest time between two polls
    Horizon   \* bound: how long a behaviour is followed, in true milliseconds

ASSUME DeadlineAssumption ==
    /\ Period \in Nat \ {0}
    /\ MaxGap \in Nat \ {0}
    /\ Horizon \in Nat
    /\ 2 * Period < WordSize          \* 2 * period_ms_ must not overflow
    /\ Period + MaxGap < WordSize     \* an unnoticed wrap would hide an expiry

VARIABLES
    now,        \* the hardware clock, as Clock::now_ms() reads it
    due,        \* the Deadline
    sincePoll,  \* true milliseconds since the last poll
    age,        \* ghost: true milliseconds since the deadline was built
    driven,     \* ghost: time the task believes it has covered, one Period a run
    skipped     \* ghost: TRUE once a poll came a whole period late

vars == <<now, due, sincePoll, age, driven, skipped>>

\* Type invariant: the clock and the deadline's members stay within the word
\* (deadline.hpp:80-81), the ghosts within their bounds.
TypeOK ==
    /\ now \in MillisRange
    /\ due \in DeadlineType
    /\ sincePoll \in 0 .. MaxGap
    /\ age \in 0 .. Horizon
    /\ driven \in Nat
    /\ skipped \in BOOLEAN

-----------------------------------------------------------------------------
\* Milliseconds the schedule is behind the clock.
Lag == ElapsedSince(due.start, now)

\* The deadline is built from whatever the clock reads at that moment.
Init ==
    /\ now \in MillisRange
    /\ due = [start |-> now, period |-> Period]
    /\ sincePoll = 0
    /\ age = 0
    /\ driven = 0
    /\ skipped = FALSE

Tick ==
    /\ sincePoll < MaxGap
    /\ age < Horizon
    /\ now' = Later(now, 1)
    /\ sincePoll' = sincePoll + 1
    /\ age' = age + 1
    /\ UNCHANGED <<due, driven, skipped>>

PollEarly ==
    /\ ~Expired(due, now)
    /\ sincePoll' = 0
    /\ UNCHANGED <<now, due, age, driven, skipped>>

PollDue ==
    /\ Expired(due, now)
    /\ due' = ArmPeriodic(due, now)
    /\ driven' = driven + due.period
    /\ skipped' = (skipped \/ Lag >= 2 * Period)
    /\ sincePoll' = 0
    /\ UNCHANGED <<now, age>>

Next == Tick \/ PollEarly \/ PollDue

Spec == Init /\ [][Next]_vars

-----------------------------------------------------------------------------
\* The work done never represents more time than has passed: dead reckoning
\* and the slew limiters, which advance by one fixed period a run
\* (robot.cpp:188, 224), can fall behind the clock but never run ahead of it.
NeverAhead == driven + Lag <= age

\* Lateness does not accumulate: until a poll comes a whole period late, the runs
\* so far cover everything up to the last due moment, however late each poll was
\* (deadline.hpp:53-56).
NoDrift == ~skipped => driven + Lag = age

\* A poll never leaves the deadline expired, however late it came: the next
\* run is separated by real time and a backlog is never replayed in a burst
\* (deadline.hpp:58-62).
NoBurst == sincePoll = 0 => ~Expired(due, now)

\* The lag stays far from the word size, so an expiry is never mistaken for a
\* fresh deadline when the clock wraps (deadline.hpp:15-19).
NoAlias == Lag < Period + MaxGap
=============================================================================
