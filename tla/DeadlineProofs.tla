--------------------------- MODULE DeadlineProofs ---------------------------
(***************************************************************************)
(* The properties of Deadline for every period, gap and word size.         *)
(***************************************************************************)
EXTENDS Deadline, MillisTheorems

\* The inductive invariant.  The lag is at most what the last poll left, less
\* than a period, plus the time since; the assumption on MaxGap then keeps it
\* below the word size, so the wrapped subtraction is the true difference.
IInv ==
    /\ TypeOK
    /\ due.period = Period
    /\ Lag < Period + sincePoll
    /\ NeverAhead
    /\ NoDrift

\* Arming with arm_periodic: either one period is used up, or the start moves
\* to now.
LEMMA ArmEffect ==
    ASSUME IInv, Expired(due, now), NEW armed, armed = ArmPeriodic(due, now)
    PROVE  /\ armed \in DeadlineType
           /\ armed.period = Period
           /\ \/ Lag < 2 * Period /\ ElapsedSince(armed.start, now) = Lag - Period
              \/ Lag >= 2 * Period /\ ElapsedSince(armed.start, now) = 0
           /\ ElapsedSince(armed.start, now) < Period
<1>1. /\ now \in MillisRange
      /\ due.start \in MillisRange
      /\ due.period = Period
      /\ Period \in MillisRange
      /\ due = [start |-> due.start, period |-> Period]
  BY DeadlineAssumption, WordSizeAssumption DEF IInv, TypeOK, DeadlineType, MillisRange
<1>2. Lag \in Nat /\ Lag < WordSize
  BY <1>1, ElapsedType, WordSizeAssumption DEF Lag, MillisRange
<1>3. Lag >= Period
  BY <1>1 DEF Expired, Lag
<1>4. (2 * Period) % WordSize = 2 * Period
  BY DeadlineAssumption, WordSizeAssumption
<1>5. ElapsedSince(Later(due.start, Period), now) = Lag - Period
  BY <1>1, <1>3, ElapsedAdvance, DeadlineAssumption DEF Lag
<1>6. Later(due.start, Period) \in MillisRange
  BY <1>1, LaterType, DeadlineAssumption DEF MillisRange
<1>7. CASE Lag >= 2 * Period
  <2>1. armed = [start |-> now, period |-> Period]
    BY <1>1, <1>4, <1>7 DEF ArmPeriodic, Lag
  <2>2. ElapsedSince(now, now) = 0
    BY <1>1, ElapsedSelf
  <2>3. armed.start = now /\ armed.period = Period /\ armed \in DeadlineType
    BY <1>1, <2>1 DEF DeadlineType
  <2> QED BY <1>7, <2>2, <2>3, DeadlineAssumption
<1>8. CASE ~(Lag >= 2 * Period)
  <2>1. armed = [start |-> Later(due.start, Period), period |-> Period]
    BY <1>1, <1>4, <1>8, DeadlineAssumption DEF ArmPeriodic, Lag
  <2>2. /\ armed.start = Later(due.start, Period)
        /\ armed.period = Period
        /\ armed \in DeadlineType
    BY <1>1, <1>6, <2>1 DEF DeadlineType
  <2> QED BY <1>2, <1>5, <1>8, <2>2, DeadlineAssumption
<1> QED BY <1>7, <1>8

\* The invariant holds from construction on.
THEOREM IInvHolds == Spec => []IInv
<1>1. Init => IInv
  <2> SUFFICES ASSUME Init PROVE IInv
    OBVIOUS
  <2>1. Lag = 0 /\ due.period = Period
    BY ElapsedSelf DEF Init, Lag
  <2>2. due \in DeadlineType
    BY DeadlineAssumption, WordSizeAssumption DEF Init, DeadlineType, MillisRange
  <2>3. TypeOK
    <3>1. /\ now \in MillisRange
          /\ sincePoll = 0 /\ age = 0 /\ driven = 0 /\ skipped \in BOOLEAN
      BY DEF Init
    <3> QED BY <2>2, <3>1, DeadlineAssumption DEF TypeOK
  <2> QED
    BY <2>1, <2>3, DeadlineAssumption DEF Init, IInv, NeverAhead, NoDrift
<1>2. IInv /\ [Next]_vars => IInv'
  <2> SUFFICES ASSUME IInv, [Next]_vars PROVE IInv'
    OBVIOUS
  <2>0. /\ now \in MillisRange /\ due \in DeadlineType
        /\ due.start \in MillisRange /\ due.period = Period
        /\ Lag \in Nat /\ Lag < WordSize
    <3>1. /\ now \in MillisRange /\ due \in DeadlineType
          /\ due.start \in MillisRange /\ due.period = Period
      BY DEF IInv, TypeOK, DeadlineType
    <3>2. Lag \in MillisRange
      BY <3>1, ElapsedType DEF Lag
    <3>3. Lag \in Nat /\ Lag < WordSize
      BY <3>2, WordSizeAssumption DEF MillisRange
    <3> QED BY <3>1, <3>3
  <2>1. CASE Tick
    <3>1. Lag + 1 < WordSize
      BY <2>0, <2>1, DeadlineAssumption, WordSizeAssumption DEF IInv, TypeOK, Tick
    <3>2. Lag' = Lag + 1
      BY <2>0, <2>1, <3>1, ElapsedTick DEF Tick, Lag
    <3>3. now' \in MillisRange
      BY <2>0, <2>1, LaterType DEF Tick, MillisRange
    <3> QED
      BY <2>0, <2>1, <3>2, <3>3, DeadlineAssumption
      DEF Tick, IInv, TypeOK, NeverAhead, NoDrift
  <2>2. CASE PollEarly
    <3>1. Lag < Period
      BY <2>0, <2>2, DeadlineAssumption DEF PollEarly, Expired, Lag
    <3>2. Lag' = Lag
      BY <2>2 DEF PollEarly, Lag
    <3> QED
      BY <2>0, <2>2, <3>1, <3>2, DeadlineAssumption
      DEF PollEarly, IInv, TypeOK, NeverAhead, NoDrift
  <2>3. CASE PollDue
    <3>1. Expired(due, now)
      BY <2>3 DEF PollDue
    <3>2. /\ due' \in DeadlineType
          /\ due'.period = Period
          /\ \/ Lag < 2 * Period /\ Lag' = Lag - Period
             \/ Lag >= 2 * Period /\ Lag' = 0
          /\ Lag' < Period
      BY <2>3, <3>1, ArmEffect DEF PollDue, Lag
    <3>3. Lag >= Period
      BY <2>0, <3>1 DEF Expired, Lag
    <3>4. driven' = driven + Period /\ driven' \in Nat
      BY <2>0, <2>3, DeadlineAssumption DEF PollDue, IInv, TypeOK
    <3>5. TypeOK'
      BY <2>3, <3>2, <3>4, DeadlineAssumption DEF PollDue, IInv, TypeOK
    <3>6. NeverAhead'
      BY <2>0, <2>3, <3>2, <3>3, <3>4, DeadlineAssumption
      DEF PollDue, IInv, TypeOK, NeverAhead
    <3>7. NoDrift'
      <4>1. CASE Lag < 2 * Period /\ Lag' = Lag - Period
        <5>1. skipped' <=> skipped
          BY <2>0, <2>3, <4>1, DeadlineAssumption DEF PollDue, IInv, TypeOK
        <5> QED
          BY <2>0, <2>3, <3>4, <4>1, <5>1, DeadlineAssumption
          DEF PollDue, IInv, TypeOK, NoDrift
      <4>2. CASE Lag >= 2 * Period
        BY <2>0, <2>3, <4>2 DEF PollDue, NoDrift
      <4> QED BY <3>2, <4>1, <4>2
    <3> QED
      BY <2>3, <3>2, <3>5, <3>6, <3>7, DeadlineAssumption DEF PollDue, IInv
  <2>4. CASE UNCHANGED vars
    BY <2>4 DEF vars, IInv, TypeOK, NeverAhead, NoDrift, Lag
  <2> QED BY <2>1, <2>2, <2>3, <2>4 DEF Next
<1> QED BY <1>1, <1>2, PTL DEF Spec

\* Every variable keeps its type; in particular the clock and the deadline stay
\* words (deadline.hpp:10, 80-81).
THEOREM TypeCorrect == Spec => []TypeOK
<1>1. IInv => TypeOK
  BY DEF IInv
<1> QED BY <1>1, IInvHolds, PTL

\* The periods worked off never exceed the time that has passed, whatever the
\* lateness of the polls and wherever the clock wraps (robot.cpp:188).
THEOREM RunsNeverAhead == Spec => []NeverAhead
<1>1. IInv => NeverAhead
  BY DEF IInv
<1> QED BY <1>1, IInvHolds, PTL

\* Without a skipped period the schedule does not drift (deadline.hpp:53-56).
THEOREM ScheduleNoDrift == Spec => []NoDrift
<1>1. IInv => NoDrift
  BY DEF IInv
<1> QED BY <1>1, IInvHolds, PTL

\* No burst of catch-up runs: a poll leaves the deadline in the future
\* (deadline.hpp:58-62).
THEOREM PollsNeverBurst == Spec => []NoBurst
<1>1. IInv => NoBurst
  <2> SUFFICES ASSUME IInv PROVE NoBurst
    OBVIOUS
  <2>1. Lag \in Nat
    BY ElapsedType, WordSizeAssumption DEF IInv, TypeOK, DeadlineType, Lag, MillisRange
  <2> QED BY <2>1, DeadlineAssumption DEF IInv, NoBurst, Expired, Lag
<1> QED BY <1>1, IInvHolds, PTL

\* A wrapped clock is never mistaken for a deadline that is not due yet
\* (deadline.hpp:15-19).
THEOREM ExpiryNeverAliases == Spec => []NoAlias
<1>1. IInv => NoAlias
  <2> SUFFICES ASSUME IInv PROVE NoAlias
    OBVIOUS
  <2>1. Lag \in Nat
    BY ElapsedType, WordSizeAssumption DEF IInv, TypeOK, DeadlineType, Lag, MillisRange
  <2> QED BY <2>1, DeadlineAssumption DEF IInv, TypeOK, NoAlias
<1> QED BY <1>1, IInvHolds, PTL
=============================================================================
