--------------------------- MODULE MillisTheorems ---------------------------
(***************************************************************************)
(* What the modular arithmetic of Millis computes, for every WordSize.     *)
(***************************************************************************)
EXTENDS Millis, TLAPS

\* A clock reading is a word again.
LEMMA LaterType ==
    ASSUME NEW t \in MillisRange, NEW ms \in Nat
    PROVE  Later(t, ms) \in MillisRange
  BY WordSizeAssumption DEF Later, MillisRange

LEMMA ElapsedType ==
    ASSUME NEW then \in MillisRange, NEW now \in MillisRange
    PROVE  ElapsedSince(then, now) \in MillisRange
  BY WordSizeAssumption DEF ElapsedSince, MillisRange

LEMMA ElapsedNat ==
    ASSUME NEW then \in MillisRange, NEW now \in MillisRange
    PROVE  ElapsedSince(then, now) \in Nat
<1>1. \A x \in MillisRange : x \in Nat
  BY WordSizeAssumption DEF MillisRange
<1> QED BY <1>1, ElapsedType

\* elapsed_since by cases: either the clock has not wrapped in between, or it
\* has wrapped once.
LEMMA ElapsedCases ==
    ASSUME NEW then \in MillisRange, NEW now \in MillisRange
    PROVE  ElapsedSince(then, now) =
             IF now >= then THEN now - then ELSE now - then + WordSize
  BY WordSizeAssumption DEF ElapsedSince, MillisRange

\* A short advance by cases.
LEMMA LaterCases ==
    ASSUME NEW t \in MillisRange, NEW ms \in MillisRange
    PROVE  Later(t, ms) = IF t + ms < WordSize THEN t + ms ELSE t + ms - WordSize
  BY WordSizeAssumption DEF Later, MillisRange

\* Nothing has elapsed since this very moment.
LEMMA ElapsedSelf ==
    ASSUME NEW t \in MillisRange
    PROVE  ElapsedSince(t, t) = 0
  BY ElapsedCases, WordSizeAssumption DEF MillisRange

\* One tick of the clock makes every age one older, until it wraps.
LEMMA ElapsedTick ==
    ASSUME NEW then \in MillisRange, NEW now \in MillisRange,
           ElapsedSince(then, now) + 1 < WordSize
    PROVE  ElapsedSince(then, Later(now, 1)) = ElapsedSince(then, now) + 1
<1>0. CASE WordSize = 1
  BY <1>0, ElapsedType, WordSizeAssumption DEF MillisRange
<1>1. CASE WordSize > 1
  <2>1. Later(now, 1) = IF now + 1 < WordSize THEN now + 1 ELSE 0
    BY <1>1, LaterCases, WordSizeAssumption DEF MillisRange
  <2>2. Later(now, 1) \in MillisRange
    BY LaterType DEF MillisRange
  <2> QED
    BY <2>1, <2>2, ElapsedCases, WordSizeAssumption DEF MillisRange
<1> QED BY <1>0, <1>1, WordSizeAssumption

\* Moving the start of an interval forward, but not past now, shortens it by
\* exactly as much.
LEMMA ElapsedAdvance ==
    ASSUME NEW then \in MillisRange, NEW now \in MillisRange,
           NEW ms \in Nat, ms <= ElapsedSince(then, now)
    PROVE  ElapsedSince(Later(then, ms), now) = ElapsedSince(then, now) - ms
<1>1. ElapsedSince(then, now) \in MillisRange
  BY ElapsedType DEF MillisRange
<1>2. ms \in MillisRange
  BY <1>1, WordSizeAssumption DEF MillisRange
<1>3. Later(then, ms) \in MillisRange
  BY LaterType DEF MillisRange
<1>4. ElapsedSince(then, now) =
        IF now >= then THEN now - then ELSE now - then + WordSize
  BY ElapsedCases
<1>5. ElapsedSince(Later(then, ms), now) =
        IF now >= Later(then, ms) THEN now - Later(then, ms)
        ELSE now - Later(then, ms) + WordSize
  BY <1>3, ElapsedCases
<1>6. Later(then, ms) =
        IF then + ms < WordSize THEN then + ms ELSE then + ms - WordSize
  BY <1>2, LaterCases
<1> QED
  BY <1>4, <1>5, <1>6, <1>2, WordSizeAssumption DEF MillisRange

\* Of two moments that lie behind now, the later one is younger: the time
\* between them is the difference of their ages.
LEMMA ElapsedBetween ==
    ASSUME NEW a \in MillisRange, NEW b \in MillisRange, NEW now \in MillisRange,
           ElapsedSince(b, now) <= ElapsedSince(a, now)
    PROVE  ElapsedSince(a, b) = ElapsedSince(a, now) - ElapsedSince(b, now)
  BY ElapsedCases, WordSizeAssumption DEF MillisRange

\* One tick makes an age at most one older, the wrap included.
LEMMA ElapsedTickAtMost ==
    ASSUME NEW then \in MillisRange, NEW now \in MillisRange
    PROVE  ElapsedSince(then, Later(now, 1)) <= ElapsedSince(then, now) + 1
<1> DEFINE before == ElapsedSince(then, now)
           after  == ElapsedSince(then, Later(now, 1))
<1>1. Later(now, 1) \in MillisRange
  BY LaterType, 1 \in Nat
<1>2. before \in MillisRange /\ after \in MillisRange
  BY <1>1, ElapsedType
<1>3. before + 1 < WordSize => after = before + 1
  BY ElapsedTick
<1> HIDE DEF before, after
<1>4. after <= before + 1
  BY <1>2, <1>3, WordSizeAssumption DEF MillisRange
<1> QED BY <1>4 DEF before, after

\* Two ages add up as long as the sum stays below the word size.
LEMMA ElapsedCompose ==
    ASSUME NEW a \in MillisRange, NEW b \in MillisRange, NEW now \in MillisRange,
           ElapsedSince(a, b) + ElapsedSince(b, now) < WordSize
    PROVE  ElapsedSince(a, now) = ElapsedSince(a, b) + ElapsedSince(b, now)
  BY ElapsedCases, WordSizeAssumption DEF MillisRange

\* A deadline armed again with arm_periodic is less than a period late.
LEMMA ArmPeriodicLag ==
    ASSUME NEW dl \in DeadlineType, NEW t \in MillisRange,
           2 * dl.period < WordSize, dl.period # 0, Expired(dl, t)
    PROVE  /\ ArmPeriodic(dl, t).period = dl.period
           /\ ElapsedSince(ArmPeriodic(dl, t).start, t) < dl.period
<1> DEFINE late == ElapsedSince(dl.start, t)
<1>1. /\ dl.start \in MillisRange
      /\ dl.period \in MillisRange
      /\ dl.period \in Nat
      /\ dl = [start |-> dl.start, period |-> dl.period]
  BY DEF DeadlineType, MillisRange
<1>2. late \in Nat /\ late >= dl.period
  BY <1>1, ElapsedType DEF Expired, MillisRange
<1>3. (2 * dl.period) % WordSize = 2 * dl.period
  BY <1>1, WordSizeAssumption
<1>4. CASE late >= 2 * dl.period
  <2>1. ArmPeriodic(dl, t) = [start |-> t, period |-> dl.period]
    BY <1>1, <1>3, <1>4 DEF ArmPeriodic
  <2>2. ElapsedSince(t, t) = 0
    BY ElapsedSelf
  <2> QED BY <1>1, <2>1, <2>2
<1>5. CASE ~(late >= 2 * dl.period)
  <2>1. ArmPeriodic(dl, t) = [start |-> Later(dl.start, dl.period), period |-> dl.period]
    BY <1>1, <1>3, <1>5 DEF ArmPeriodic
  <2>2. ElapsedSince(Later(dl.start, dl.period), t) = late - dl.period
    BY <1>1, <1>2, ElapsedAdvance
  <2> QED BY <1>1, <1>2, <1>5, <2>1, <2>2
<1> QED BY <1>4, <1>5
=============================================================================
