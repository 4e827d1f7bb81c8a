---------------------------- MODULE PlantProofs ----------------------------
(***************************************************************************)
(* The gauge and the ramp, for every discharge curve, pack, load, rise     *)
(* filter, speed range and pair of limits.                                 *)
(***************************************************************************)
EXTENDS Plant, SequenceTheorems, FiniteSetTheorems, TLAPS

-----------------------------------------------------------------------------
(* The curve *)

\* A set of indices has a first one, and that is its Min.
LEMMA MinOfIndices ==
    ASSUME NEW S \in SUBSET Nat, S # {}
    PROVE  Min(S) \in S /\ \A y \in S : Min(S) <= y
<1> DEFINE Below == {0 .. x : x \in S}
<1>1. Below \subseteq FiniteSubsetsOf(Nat) /\ Below # {}
  <2>1. \A x \in Nat : 0 .. x \in SUBSET Nat /\ IsFiniteSet(0 .. x)
    BY FS_Interval
  <2> QED BY <2>1 DEF FiniteSubsetsOf
<1>2. PICK b \in Below : \A c \in Below : ~(<<c, b>> \in StrictSubsetOrdering(Nat))
  <2> HIDE DEF Below
  <2> QED BY <1>1, FS_StrictSubsetOrderingWellFounded, WFMin
<1>3. PICK x \in S : b = 0 .. x
  BY <1>2
<1>4. ASSUME NEW y \in S, y < x
      PROVE  FALSE
  <2>1. 0 .. y \in Below
    OBVIOUS
  <2>2. 0 .. y \subseteq 0 .. x /\ 0 .. y # 0 .. x /\ 0 .. y \subseteq Nat /\ 0 .. x \subseteq Nat
    <3>1. x \in 0 .. x /\ x \notin 0 .. y
      BY <1>4
    <3> QED BY <1>4, <3>1
  <2>3. <<0 .. y, 0 .. x>> \in StrictSubsetOrdering(Nat)
    BY <2>2 DEF StrictSubsetOrdering
  <2> QED BY <1>2, <1>3, <2>1, <2>3
<1>5. \E m \in S : \A y \in S : m <= y
  BY <1>4
<1> QED BY <1>5 DEF Min

LEMMA PeakLoad ==
    /\ Max(LoadCurrents) \in Nat
    /\ \A load \in LoadCurrents : load \in Nat /\ load <= Max(LoadCurrents)
<1>1. PICK peak \in LoadCurrents : \A load \in LoadCurrents : peak >= load
  BY PlantAssumption
<1>2. Max(LoadCurrents) \in LoadCurrents /\ \A load \in LoadCurrents : Max(LoadCurrents) >= load
  BY <1>1 DEF Max
<1> QED BY <1>2, PlantAssumption

LEMMA DivBounds ==
    ASSUME NEW a \in Nat, NEW x \in Nat, NEW d \in Nat \ {0}, x <= d
    PROVE  /\ (a * x) \div d \in Nat
           /\ (a * x) \div d <= a
  OBVIOUS

LEMMA DivMonotone ==
    ASSUME NEW a \in Nat, NEW x \in Nat, NEW y \in Nat, NEW d \in Nat \ {0}, x <= y
    PROVE  (a * x) \div d <= (a * y) \div d
  OBVIOUS

\* The first point of the curve that is not below the voltage, and the line to it.
PointAbove(ocv) == Min({j \in DOMAIN Curve : ocv <= Curve[j].volts})

OnLine(i, ocv) ==
    Curve[i - 1].soc + ((Curve[i].soc - Curve[i - 1].soc) * (ocv - Curve[i - 1].volts))
                            \div (Curve[i].volts - Curve[i - 1].volts)

Inside(ocv) == Curve[1].volts < ocv /\ ocv < Curve[Len(Curve)].volts

LEMMA CurveFacts ==
    /\ Len(Curve) \in Nat /\ DOMAIN Curve = 1 .. Len(Curve)
    /\ \A i \in 1 .. Len(Curve) : /\ Curve[i].volts \in Nat
                                  /\ Curve[i].soc \in Nat /\ Curve[i].soc <= FullSoc
    /\ \A i, j \in 1 .. Len(Curve) :
          i <= j => Curve[i].volts <= Curve[j].volts /\ Curve[i].soc <= Curve[j].soc
    /\ FullSoc \in Nat
    /\ Curve # <<>> => Len(Curve) # 0
<1> DEFINE Point == [volts : Nat, soc : 0 .. FullSoc]
<1>1. Curve \in Seq(Point) /\ FullSoc \in Nat
  BY CurveAssumption, GaugeAssumption
<1>2. \A p \in Point : p.volts \in Nat /\ p.soc \in Nat /\ p.soc <= FullSoc
  BY <1>1
<1> HIDE DEF Point
<1>3. /\ Len(Curve) \in Nat /\ DOMAIN Curve = 1 .. Len(Curve)
      /\ \A i \in 1 .. Len(Curve) : Curve[i] \in Point
      /\ Curve # <<>> => Len(Curve) # 0
  BY <1>1
<1> QED BY <1>1, <1>2, <1>3, CurveAssumption

LEMMA PointAboveFacts ==
    ASSUME NEW ocv \in Int, Curve # <<>>, Inside(ocv)
    PROVE  /\ PointAbove(ocv) \in 2 .. Len(Curve)
           /\ Curve[PointAbove(ocv) - 1].volts < ocv
           /\ ocv <= Curve[PointAbove(ocv)].volts
           /\ \A j \in 1 .. Len(Curve) : ocv <= Curve[j].volts => PointAbove(ocv) <= j
<1> DEFINE S == {j \in DOMAIN Curve : ocv <= Curve[j].volts}
<1>1. Len(Curve) \in 1 .. Len(Curve) /\ S \in SUBSET Nat /\ S # {}
  BY CurveFacts DEF Inside
<1>2. PointAbove(ocv) \in S /\ \A y \in S : PointAbove(ocv) <= y
  <2> HIDE DEF S
  <2>1. Min(S) \in S /\ \A y \in S : Min(S) <= y
    BY <1>1, MinOfIndices
  <2> QED BY <2>1 DEF PointAbove, S
<1>3. PointAbove(ocv) \in 1 .. Len(Curve) /\ ocv <= Curve[PointAbove(ocv)].volts
  BY <1>2, CurveFacts
<1>4. PointAbove(ocv) # 1
  <2>1. 1 \in 1 .. Len(Curve)
    BY <1>3, CurveFacts
  <2>2. Curve[1].volts \in Nat /\ Curve[1].volts < ocv
    BY <2>1, CurveFacts DEF Inside
  <2> QED BY <1>3, <2>2
<1>5. PointAbove(ocv) - 1 \in 1 .. Len(Curve)
  BY <1>3, <1>4, CurveFacts
<1>6. ~(ocv <= Curve[PointAbove(ocv) - 1].volts)
  <2> SUFFICES ASSUME ocv <= Curve[PointAbove(ocv) - 1].volts PROVE FALSE
    OBVIOUS
  <2>1. PointAbove(ocv) - 1 \in S
    BY <1>5, CurveFacts
  <2> QED BY <1>2, <1>3, <2>1
<1> QED BY <1>2, <1>3, <1>4, <1>5, <1>6, CurveFacts

LEMMA LookupCases ==
    ASSUME NEW ocv
    PROVE  LookupSoc(ocv) = IF Curve = <<>> THEN FullSoc
                            ELSE IF ocv <= Curve[1].volts THEN Curve[1].soc
                            ELSE IF ocv >= Curve[Len(Curve)].volts
                            THEN Curve[Len(Curve)].soc
                            ELSE OnLine(PointAbove(ocv), ocv)
  BY Zenon DEF LookupSoc, OnLine, PointAbove

LEMMA CurveEnds ==
    ASSUME Curve # <<>>
    PROVE  LET n == Len(Curve)
           IN  /\ n \in Nat \ {0} /\ 1 \in 1 .. n /\ n \in 1 .. n
               /\ Curve[1].soc \in 0 .. FullSoc /\ Curve[n].soc \in 0 .. FullSoc
               /\ Curve[1].soc <= Curve[n].soc
               /\ Curve[1].volts \in Nat /\ Curve[n].volts \in Nat
<1>1. LET n == Len(Curve) IN n \in Nat \ {0} /\ 1 \in 1 .. n /\ n \in 1 .. n /\ 1 <= n
  BY CurveFacts
<1> QED BY <1>1, CurveFacts

LEMMA LookupInside ==
    ASSUME NEW ocv \in Int, Curve # <<>>, Inside(ocv)
    PROVE  LookupSoc(ocv) = OnLine(PointAbove(ocv), ocv)
<1>1. ~(ocv <= Curve[1].volts) /\ ~(ocv >= Curve[Len(Curve)].volts)
  BY CurveEnds DEF Inside
<1> QED BY <1>1, LookupCases

LEMMA LookupOutside ==
    ASSUME NEW ocv \in Int, Curve # <<>>, ~Inside(ocv)
    PROVE  LookupSoc(ocv) \in {Curve[1].soc, Curve[Len(Curve)].soc}
<1>1. ocv <= Curve[1].volts \/ ocv >= Curve[Len(Curve)].volts
  BY CurveEnds DEF Inside
<1> QED BY <1>1, LookupCases

\* A line joins two neighbours of the curve.
LEMMA CurveStep ==
    ASSUME NEW i \in 2 .. Len(Curve)
    PROVE  /\ Curve[i].soc \in Nat /\ Curve[i - 1].soc \in Nat
           /\ Curve[i].volts \in Nat /\ Curve[i - 1].volts \in Nat
           /\ Curve[i - 1].soc <= Curve[i].soc
<1>1. i \in 1 .. Len(Curve) /\ i - 1 \in 1 .. Len(Curve) /\ i - 1 <= i
  BY CurveFacts
<1> QED BY <1>1, CurveFacts

\* On a line the charge lies between its ends, and does not fall as the voltage
\* rises.
LEMMA OnLineBounds ==
    ASSUME NEW i \in 2 .. Len(Curve), NEW ocv \in Int,
           Curve[i - 1].volts < ocv, ocv <= Curve[i].volts
    PROVE  /\ OnLine(i, ocv) \in Int
           /\ Curve[i - 1].soc <= OnLine(i, ocv) /\ OnLine(i, ocv) <= Curve[i].soc
<1> DEFINE p == Curve[i - 1].soc
           q == Curve[i].soc
           from == Curve[i - 1].volts
           to == Curve[i].volts
           a == q - p
           x == ocv - from
           d == to - from
<1>1. /\ p \in Nat /\ q \in Nat /\ from \in Nat /\ to \in Nat
      /\ p <= q /\ from < ocv /\ ocv <= to
  BY CurveStep
<1>2. a \in Nat /\ x \in Nat /\ d \in Nat \ {0} /\ x <= d
  <2> HIDE DEF p, q, from, to
  <2> QED BY <1>1
<1>3. (a * x) \div d \in Nat /\ (a * x) \div d <= a
  <2> HIDE DEF a, x, d
  <2> QED BY <1>2, DivBounds
<1>4. OnLine(i, ocv) = p + (a * x) \div d
  BY Zenon DEF OnLine
<1>5. q = p + a
  <2> HIDE DEF p, q
  <2> QED BY <1>1
<1>6. /\ OnLine(i, ocv) \in Int
      /\ p <= OnLine(i, ocv) /\ OnLine(i, ocv) <= q
  <2> HIDE DEF a, x, d, p, q
  <2> QED BY <1>1, <1>2, <1>3, <1>4, <1>5
<1> QED BY <1>6

LEMMA OnLineMonotone ==
    ASSUME NEW i \in 2 .. Len(Curve), NEW v \in Int, NEW w \in Int, v <= w,
           Curve[i - 1].volts < v, w <= Curve[i].volts
    PROVE  OnLine(i, v) <= OnLine(i, w)
<1> DEFINE p == Curve[i - 1].soc
           q == Curve[i].soc
           from == Curve[i - 1].volts
           to == Curve[i].volts
           a == q - p
           x == v - from
           y == w - from
           d == to - from
<1>1. /\ p \in Nat /\ q \in Nat /\ from \in Nat /\ to \in Nat
      /\ p <= q /\ from < v /\ w <= to
  BY CurveStep
<1>2. /\ a \in Nat /\ x \in Nat /\ y \in Nat /\ d \in Nat \ {0}
      /\ x <= y /\ x <= d /\ y <= d
  <2> HIDE DEF p, q, from, to
  <2> QED BY <1>1
<1>3. /\ (a * x) \div d \in Nat /\ (a * y) \div d \in Nat
      /\ (a * x) \div d <= (a * y) \div d
  <2> HIDE DEF a, x, y, d
  <2> QED BY <1>2, DivBounds, DivMonotone
<1>4. /\ OnLine(i, v) = p + (a * x) \div d
      /\ OnLine(i, w) = p + (a * y) \div d
  BY Zenon DEF OnLine
<1> HIDE DEF a, x, y, d, p
<1> QED BY <1>1, <1>2, <1>3, <1>4

\* A charge, whatever the voltage.
LEMMA LookupType ==
    ASSUME NEW ocv \in Int
    PROVE  LookupSoc(ocv) \in 0 .. FullSoc
<1>1. CASE Curve = <<>>
  BY <1>1, CurveFacts, LookupCases
<1>2. CASE Curve # <<>> /\ ~Inside(ocv)
  BY <1>2, LookupOutside, CurveEnds
<1>3. CASE Curve # <<>> /\ Inside(ocv)
  <2> DEFINE i == PointAbove(ocv)
  <2>1. i \in 2 .. Len(Curve) /\ Curve[i - 1].volts < ocv /\ ocv <= Curve[i].volts
    BY <1>3, PointAboveFacts
  <2> HIDE DEF i
  <2>2. /\ OnLine(i, ocv) \in Int
        /\ Curve[i - 1].soc <= OnLine(i, ocv) /\ OnLine(i, ocv) <= Curve[i].soc
    BY <2>1, OnLineBounds
  <2>3. i \in 1 .. Len(Curve) /\ i - 1 \in 1 .. Len(Curve)
    BY <2>1, CurveFacts
  <2>4. LookupSoc(ocv) = OnLine(i, ocv)
    BY <1>3, LookupInside DEF i
  <2> QED BY <2>2, <2>3, <2>4, CurveFacts
<1> QED BY <1>1, <1>2, <1>3

\* A higher voltage never means less charge.
LEMMA LookupMonotone ==
    ASSUME NEW v \in Int, NEW w \in Int, v <= w
    PROVE  LookupSoc(v) <= LookupSoc(w)
<1>0. LookupSoc(v) \in Int /\ LookupSoc(w) \in Int /\ LookupSoc(v) <= FullSoc
  <2>1. LookupSoc(v) \in 0 .. FullSoc /\ LookupSoc(w) \in 0 .. FullSoc
    BY LookupType
  <2>2. FullSoc \in Nat
    BY CurveFacts
  <2> QED BY <2>1, <2>2
<1>1. CASE Curve = <<>>
  BY <1>1, CurveFacts, LookupCases
<1> SUFFICES ASSUME Curve # <<>> PROVE LookupSoc(v) <= LookupSoc(w)
  BY <1>1
<1> DEFINE n == Len(Curve)
           i == PointAbove(v)
           k == PointAbove(w)
<1>2. /\ n \in Nat \ {0} /\ 1 \in 1 .. n /\ n \in 1 .. n
      /\ Curve[1].soc \in Nat /\ Curve[n].soc \in Nat /\ Curve[1].soc <= Curve[n].soc
      /\ Curve[1].volts \in Nat /\ Curve[n].volts \in Nat
  BY CurveEnds, CurveFacts
<1>3. /\ v <= Curve[1].volts => LookupSoc(v) = Curve[1].soc
      /\ w <= Curve[1].volts => LookupSoc(w) = Curve[1].soc
      /\ w > Curve[1].volts /\ w >= Curve[n].volts => LookupSoc(w) = Curve[n].soc
      /\ v > Curve[1].volts /\ v >= Curve[n].volts => LookupSoc(v) = Curve[n].soc
  BY <1>2, LookupCases
<1>4. ASSUME Inside(v)
      PROVE  /\ i \in 2 .. n /\ Curve[i - 1].volts < v /\ v <= Curve[i].volts
             /\ LookupSoc(v) = OnLine(i, v)
             /\ Curve[i - 1].soc <= LookupSoc(v) /\ LookupSoc(v) <= Curve[i].soc
             /\ Curve[1].soc <= LookupSoc(v) /\ LookupSoc(v) <= Curve[n].soc
  <2>1. i \in 2 .. n /\ Curve[i - 1].volts < v /\ v <= Curve[i].volts
    BY <1>4, PointAboveFacts
  <2>2. LookupSoc(v) = OnLine(i, v)
    BY <1>4, LookupInside
  <2> HIDE DEF i
  <2>3. Curve[i - 1].soc <= OnLine(i, v) /\ OnLine(i, v) <= Curve[i].soc
    BY <2>1, OnLineBounds
  <2>4. i \in 1 .. n /\ i - 1 \in 1 .. n /\ 1 <= i - 1 /\ i <= n
    BY <2>1, <1>2
  <2>5. Curve[1].soc <= Curve[i - 1].soc /\ Curve[i].soc <= Curve[n].soc
        /\ Curve[i].soc \in Nat /\ Curve[i - 1].soc \in Nat
    BY <1>2, <2>4, CurveFacts
  <2> QED BY <1>0, <1>2, <2>1, <2>2, <2>3, <2>5
<1>5. ASSUME Inside(w)
      PROVE  /\ k \in 2 .. n /\ Curve[k - 1].volts < w /\ w <= Curve[k].volts
             /\ LookupSoc(w) = OnLine(k, w)
             /\ Curve[k - 1].soc <= LookupSoc(w)
             /\ Curve[1].soc <= LookupSoc(w)
  <2>1. k \in 2 .. n /\ Curve[k - 1].volts < w /\ w <= Curve[k].volts
    BY <1>5, PointAboveFacts
  <2>2. LookupSoc(w) = OnLine(k, w)
    BY <1>5, LookupInside
  <2> HIDE DEF k
  <2>3. Curve[k - 1].soc <= OnLine(k, w)
    BY <2>1, OnLineBounds
  <2>4. k - 1 \in 1 .. n /\ 1 <= k - 1
    BY <2>1, <1>2
  <2>5. Curve[1].soc <= Curve[k - 1].soc /\ Curve[k - 1].soc \in Nat
    BY <1>2, <2>4, CurveFacts
  <2> QED BY <1>0, <1>2, <2>1, <2>2, <2>3, <2>5
<1>6. ASSUME Inside(v), Inside(w)
      PROVE  LookupSoc(v) <= LookupSoc(w)
  <2>1. i <= k
    <3>1. k \in 1 .. n /\ v <= Curve[k].volts
      BY <1>2, <1>5, <1>6, CurveFacts
    <3> QED BY <1>6, <3>1, PointAboveFacts
  <2>2. CASE i = k
    <3> HIDE DEF i, k
    <3>1. OnLine(i, v) <= OnLine(i, w)
      BY <1>4, <1>5, <1>6, <2>2, OnLineMonotone
    <3> QED BY <1>4, <1>5, <1>6, <2>2, <3>1
  <2>3. CASE i # k
    <3> HIDE DEF i, k
    <3>1. i \in 1 .. n /\ k - 1 \in 1 .. n /\ i <= k - 1
      BY <1>2, <1>4, <1>5, <1>6, <2>1, <2>3
    <3>2. Curve[i].soc <= Curve[k - 1].soc /\ Curve[i].soc \in Nat /\ Curve[k - 1].soc \in Nat
      BY <3>1, CurveFacts
    <3> QED BY <1>0, <1>4, <1>5, <1>6, <3>2
  <2> QED BY <2>2, <2>3
<1> HIDE DEF i, k
<1>7. CASE v <= Curve[1].volts
  BY <1>0, <1>2, <1>3, <1>5, <1>7 DEF Inside
<1>8. CASE v > Curve[1].volts /\ w >= Curve[n].volts
  BY <1>0, <1>2, <1>3, <1>4, <1>8 DEF Inside
<1>9. CASE v > Curve[1].volts /\ w < Curve[n].volts
  BY <1>2, <1>6, <1>9 DEF Inside
<1> QED BY <1>2, <1>7, <1>8, <1>9

-----------------------------------------------------------------------------
(* The ramp *)

LEMMA SignOfProduct ==
    ASSUME NEW x \in Int, NEW y \in Int
    PROVE  /\ x * y \in Int
           /\ x * y < 0 <=> (x < 0 /\ y > 0) \/ (x > 0 /\ y < 0)
  OBVIOUS

LEMMA RampConstants == Accel \in Nat \ {0} /\ Decel \in Nat \ {0} /\ MaxSpeed \in Nat
  BY PlantAssumption

\* A step of the ramp, by what limits it.
LEMMA SlewStep ==
    ASSUME NEW x \in Int, NEW goal \in Int
    PROVE  /\ Slew(x, goal, Accel, Decel) \in Int
           /\ Between(Slew(x, goal, Accel, Decel), x, goal)
           /\ \/ Slew(x, goal, Accel, Decel) = goal
              \/ Magnitude(Slew(x, goal, Accel, Decel) - x) = StepLimit(x, goal, Accel, Decel)
           /\ Magnitude(Slew(x, goal, Accel, Decel) - x) <= StepLimit(x, goal, Accel, Decel)
<1> DEFINE step == StepLimit(x, goal, Accel, Decel)
<1>1. step \in Nat \ {0}
  BY RampConstants DEF StepLimit
<1>2. Slew(x, goal, Accel, Decel) =
        IF step <= 0 \/ Magnitude(goal - x) <= step THEN goal
        ELSE IF goal > x THEN x + step ELSE x - step
  BY DEF Slew
<1> HIDE DEF step
<1>3. CASE Magnitude(goal - x) <= step
  <2>1. Slew(x, goal, Accel, Decel) = goal
    BY <1>2, <1>3
  <2> QED BY <1>3, <2>1 DEF Between, step
<1>4. CASE ~(Magnitude(goal - x) <= step)
  <2>1. Slew(x, goal, Accel, Decel) = IF goal > x THEN x + step ELSE x - step
    BY <1>1, <1>2, <1>4
  <2>2. CASE goal > x
    <3>1. step < goal - x
      BY <1>1, <1>4, <2>2 DEF Magnitude
    <3>2. Slew(x, goal, Accel, Decel) = x + step /\ Magnitude((x + step) - x) = step
      BY <1>1, <2>1, <2>2 DEF Magnitude
    <3> QED BY <1>1, <2>2, <3>1, <3>2 DEF Between, step
  <2>3. CASE ~(goal > x)
    <3>1. step < x - goal
      BY <1>1, <1>4, <2>3 DEF Magnitude
    <3>2. Slew(x, goal, Accel, Decel) = x - step /\ Magnitude((x - step) - x) = step
      BY <1>1, <2>1, <2>3 DEF Magnitude
    <3> QED BY <1>1, <2>3, <3>1, <3>2 DEF Between, step
  <2> QED BY <2>2, <2>3
<1> QED BY <1>3, <1>4

Opposite(x, y) == (x < 0 /\ y > 0) \/ (x > 0 /\ y < 0)

\* A value between x and goal, on x's side of zero, is near x or no faster than it.
LEMMA NoFasterThan ==
    ASSUME NEW x \in Int, NEW goal \in Int, NEW y \in Int, NEW a \in Nat,
           Between(y, x, goal), ~Opposite(x, y),
           \/ Magnitude(y - x) <= a
           \/ Magnitude(goal) <= Magnitude(x)
           \/ Opposite(x, goal)
    PROVE  Magnitude(y) <= Magnitude(x) + a
<1>1. CASE Magnitude(y - x) <= a
  BY <1>1 DEF Magnitude
<1>2. CASE Magnitude(goal) <= Magnitude(x)
  BY <1>2 DEF Magnitude, Between, Opposite
<1>3. CASE Opposite(x, goal)
  BY <1>3 DEF Magnitude, Between, Opposite
<1> QED BY <1>1, <1>2, <1>3

\* A step of d towards a slower goal on the same side slows down by d.
LEMMA SlowerBy ==
    ASSUME NEW x \in Int, NEW goal \in Int, NEW y \in Int, NEW d \in Nat,
           Between(y, x, goal), ~Opposite(x, goal),
           Magnitude(goal) < Magnitude(x), Magnitude(y - x) = d
    PROVE  Magnitude(x) - Magnitude(y) >= d
  BY DEF Magnitude, Between, Opposite

\* What a step leaves of the ramp: at rest, moved by update(), or reset.
LEMMA RampMoves ==
    ASSUME [Next]_vars
    PROVE  \/ current' = current /\ ramped' = ramped
           \/ current' = Slew(current, target, Accel, Decel) /\ ramped' = TRUE /\ target' = target
           \/ current' = 0 /\ ramped' = FALSE
<1>1. ASSUME RunControl
      PROVE  \/ current' = Slew(current, target, Accel, Decel) /\ ramped' = TRUE /\ target' = target
             \/ current' = 0 /\ ramped' = FALSE
  BY <1>1, Zenon DEF RunControl
<1>2. ASSUME Retarget \/ Discharge \/ Swap \/ UNCHANGED vars
      PROVE  current' = current /\ ramped' = ramped
  BY <1>2 DEF Retarget, Discharge, Swap, vars
<1> QED BY <1>1, <1>2 DEF Next

\* The speeds of the ramp alone; they do not depend on the gauge.
RampType == current \in Speed /\ target \in Speed /\ ramped \in BOOLEAN

LEMMA RampTypeInit == Init => RampType
<1>1. 0 \in Speed
  BY RampConstants DEF Speed
<1> QED BY <1>1, Zenon DEF Init, RampType

LEMMA RampTypeStep == RampType /\ [Next]_vars => RampType'
<1> SUFFICES ASSUME RampType, [Next]_vars PROVE RampType'
  OBVIOUS
<1> USE RampConstants
<1>1. current \in Int /\ target \in Int
  BY DEF RampType, Speed
<1>2. Slew(current, target, Accel, Decel) \in Speed
  <2> DEFINE s == Slew(current, target, Accel, Decel)
  <2>1. s \in Int /\ Between(s, current, target)
    BY <1>1, SlewStep
  <2> HIDE DEF s
  <2>2. s \in Speed
    BY <2>1 DEF RampType, Speed, Between
  <2> QED BY <2>2 DEF s
<1>3. current' \in Speed /\ ramped' \in BOOLEAN
  <2>1. 0 \in Speed
    BY DEF Speed
  <2> QED BY <1>2, <2>1, RampMoves, Zenon DEF RampType
<1>4. target' \in Speed
  BY DEF Next, Retarget, Discharge, Swap, RunControl, vars, RampType
<1> QED BY <1>3, <1>4 DEF RampType

LEMMA RampInvariant == Spec => []RampType
  BY RampTypeInit, RampTypeStep, PTL DEF Spec

\* The output moves towards the target and never past it (slew_limiter.cpp:45-53).
THEOREM NeverOvershoots == Spec => NoOvershoot
<1>1. RampType /\ [Next]_vars =>
        [ramped' /\ target' = target => Between(current', current, target)]_vars
  <2> SUFFICES ASSUME RampType, [Next]_vars, ramped', target' = target
               PROVE  Between(current', current, target)
    OBVIOUS
  <2>1. current \in Int /\ target \in Int
    BY RampConstants DEF RampType, Speed
  <2>2. CASE current' = current
    BY <2>1, <2>2 DEF Between
  <2>3. CASE current' = Slew(current, target, Accel, Decel)
    BY <2>1, <2>3, SlewStep
  <2> QED BY <2>2, <2>3, RampMoves
<1> QED BY <1>1, RampInvariant, PTL DEF Spec, NoOvershoot

\* Speeding up in one direction takes at most one acceleration step a period,
\* reversing robot or not (slew_limiter.cpp:22-27).
THEOREM StartsGently == Spec => GentleStart
<1>1. RampType /\ [Next]_vars =>
        [current' # current /\ ramped' /\ current * current' >= 0 =>
           Magnitude(current') <= Magnitude(current) + Accel]_vars
  <2> SUFFICES ASSUME RampType, [Next]_vars, current' # current, ramped',
                      current * current' >= 0
               PROVE  Magnitude(current') <= Magnitude(current) + Accel
    OBVIOUS
  <2>1. current \in Int /\ target \in Int /\ current' \in Int
    BY RampTypeStep, RampConstants DEF RampType, Speed
  <2>2. current' = Slew(current, target, Accel, Decel)
    BY RampMoves
  <2>3. /\ Between(current', current, target)
        /\ Magnitude(current' - current) <= StepLimit(current, target, Accel, Decel)
    BY <2>1, <2>2, SlewStep
  <2>4. ~Opposite(current, current')
    <3> DEFINE c == current'
    <3>1. c \in Int /\ current * c >= 0
      BY <2>1
    <3> HIDE DEF c
    <3>2. ~Opposite(current, c)
      BY <2>1, <3>1, SignOfProduct DEF Opposite
    <3> QED BY <3>2 DEF c
  <2>5. \/ Magnitude(current' - current) <= Accel
        \/ Magnitude(target) <= Magnitude(current)
        \/ Opposite(current, target)
    <3>1. CASE CrossesZero(current, target)
      BY <2>1, <3>1, SignOfProduct DEF CrossesZero, Opposite
    <3>2. CASE ~CrossesZero(current, target) /\ Magnitude(target) > Magnitude(current)
      BY <2>3, <3>2 DEF StepLimit
    <3>3. Magnitude(target) \in Int /\ Magnitude(current) \in Int
      BY <2>1 DEF Magnitude
    <3> QED BY <3>1, <3>2, <3>3
  <2> QED BY <2>1, <2>3, <2>4, <2>5, RampConstants, NoFasterThan
<1> QED BY <1>1, RampInvariant, PTL DEF Spec, GentleStart

\* Slowing down uses the whole braking limit, in either direction, and a stop is a
\* stop at once (slew_limiter.cpp:22-27, robot.cpp:217).
THEOREM StopsFirmly == Spec => FirmStop
<1>1. RampType /\ [Next]_vars =>
        [RunControl /\ current * target >= 0 /\ Magnitude(target) < Magnitude(current) =>
           \/ current' \in {target, 0}
           \/ Magnitude(current) - Magnitude(current') >= Decel]_vars
  <2> SUFFICES ASSUME RampType, RunControl, current * target >= 0,
                      Magnitude(target) < Magnitude(current), current' \notin {target, 0}
               PROVE  Magnitude(current) - Magnitude(current') >= Decel
    OBVIOUS
  <2>1. current \in Int /\ target \in Int
    BY RampConstants DEF RampType, Speed
  <2>2. current' = Slew(current, target, Accel, Decel)
    BY DEF RunControl
  <2>3. StepLimit(current, target, Accel, Decel) = Decel
    BY <2>1 DEF StepLimit, Magnitude
  <2>4. /\ current' \in Int /\ Between(current', current, target)
        /\ Magnitude(current' - current) = Decel
    BY <2>1, <2>2, <2>3, SlewStep
  <2>5. ~Opposite(current, target)
    BY <2>1, SignOfProduct DEF Opposite
  <2> QED BY <2>1, <2>4, <2>5, RampConstants, SlowerBy
<1> QED BY <1>1, RampInvariant, PTL DEF Spec, FirmStop

-----------------------------------------------------------------------------
(* The gauge *)

\* The charge measured k periods before the last one.
Back(samples, k) == samples[Len(samples) - k]

\* rise_samples counts the large rises that ended the samples, and no more.
RunInv ==
    /\ gauge.rise_samples <= Len(recent)
    /\ \A k \in 0 .. gauge.rise_samples - 1 : Back(recent, k) - gauge.soc >= RiseThreshold
    /\ gauge.rise_samples < Len(recent) =>
          Back(recent, gauge.rise_samples) - gauge.soc < RiseThreshold

\* Nothing is measured before the first reading, and something from then on.
FirstReading ==
    IF gauge.has_reading THEN recent # <<>> ELSE gauge = FreshGauge /\ recent = <<>>

GaugeTyped ==
    /\ gauge \in GaugeType
    /\ gauge.rise_samples < RiseSamples
    /\ recent \in Seq(0 .. FullSoc) /\ Len(recent) <= RiseSamples
    /\ pack \in PackVolts /\ swapped \in BOOLEAN

PlantInv == GaugeTyped /\ FirstReading /\ RunInv /\ NeverFlattering /\ LoadIsBounded

\* What a sample does to the gauge: the first is taken, a fall is followed, a
\* small rise is ignored, a large one is counted, and the last of a run believed.
GaugeStep(g, m, h) ==
    /\ h \in [soc : {g.soc, m}, has_reading : {TRUE},
              rise_samples : {0, g.rise_samples, g.rise_samples + 1}]
    /\ \/ ~g.has_reading /\ h.soc = m /\ h.rise_samples = g.rise_samples
       \/ g.has_reading /\ m <= g.soc /\ h.soc = m /\ h.rise_samples = 0
       \/ /\ g.has_reading /\ m > g.soc /\ m - g.soc < RiseThreshold
          /\ h.soc = g.soc /\ h.rise_samples = 0
       \/ /\ g.has_reading /\ m > g.soc /\ ~(m - g.soc < RiseThreshold)
          /\ g.rise_samples + 1 < RiseSamples
          /\ h.soc = g.soc /\ h.rise_samples = g.rise_samples + 1
       \/ /\ g.has_reading /\ m > g.soc /\ ~(m - g.soc < RiseThreshold)
          /\ ~(g.rise_samples + 1 < RiseSamples)
          /\ h.soc = m /\ h.rise_samples = 0

LEMMA GaugeSteps ==
    ASSUME NEW g \in GaugeType, NEW m \in 0 .. FullSoc
    PROVE  GaugeStep(g, m, GaugeUpdate(g, m))
<1> DEFINE h == GaugeUpdate(g, m)
<1>1. /\ g.soc \in Int /\ g.has_reading \in BOOLEAN /\ g.rise_samples \in Int /\ m \in Int
      /\ g = [soc |-> g.soc, has_reading |-> g.has_reading,
              rise_samples |-> g.rise_samples]
  BY CurveFacts, GaugeAssumption DEF GaugeType
<1>2. CASE ~g.has_reading
  <2>1. h = [soc |-> m, has_reading |-> TRUE, rise_samples |-> g.rise_samples]
    BY <1>1, <1>2 DEF GaugeUpdate
  <2> QED BY <1>2, <2>1 DEF GaugeStep
<1>3. CASE g.has_reading /\ m <= g.soc
  <2>1. h = [soc |-> m, has_reading |-> TRUE, rise_samples |-> 0]
    BY <1>1, <1>3 DEF GaugeUpdate
  <2> QED BY <1>3, <2>1 DEF GaugeStep
<1> SUFFICES ASSUME g.has_reading, m > g.soc
             PROVE  GaugeStep(g, m, h)
  <2>1. m <= g.soc \/ m > g.soc
    BY <1>1
  <2> QED BY <1>2, <1>3, <2>1
<1>4. h = AfterRise(g, m)
  BY <1>1 DEF GaugeUpdate
<1> HIDE DEF h
<1>5. CASE m - g.soc < RiseThreshold
  <2>1. h = [soc |-> g.soc, has_reading |-> TRUE, rise_samples |-> 0]
    BY <1>1, <1>4, <1>5 DEF AfterRise
  <2> QED BY <1>5, <2>1 DEF GaugeStep
<1>6. CASE ~(m - g.soc < RiseThreshold) /\ g.rise_samples + 1 < RiseSamples
  <2>1. h = [soc |-> g.soc, has_reading |-> TRUE, rise_samples |-> g.rise_samples + 1]
    BY <1>1, <1>4, <1>6 DEF AfterRise
  <2> QED BY <1>6, <2>1 DEF GaugeStep
<1>7. CASE ~(m - g.soc < RiseThreshold) /\ ~(g.rise_samples + 1 < RiseSamples)
  <2>1. h = [soc |-> m, has_reading |-> TRUE, rise_samples |-> 0]
    BY <1>1, <1>4, <1>7 DEF AfterRise
  <2> QED BY <1>7, <2>1 DEF GaugeStep
<1> QED BY <1>5, <1>6, <1>7

\* The window of samples moves on by one.
Moved(samples, v) ==
    Append(IF Len(samples) = RiseSamples THEN Tail(samples) ELSE samples, v)

LEMMA WindowMoves ==
    ASSUME NEW samples \in Seq(0 .. FullSoc), Len(samples) <= RiseSamples,
           NEW v \in 0 .. FullSoc
    PROVE  /\ Moved(samples, v) \in Seq(0 .. FullSoc) /\ Moved(samples, v) # <<>>
           /\ Len(Moved(samples, v)) =
                 (IF Len(samples) = RiseSamples THEN RiseSamples ELSE Len(samples) + 1)
           /\ Back(Moved(samples, v), 0) = v
           /\ \A k \in 1 .. Len(Moved(samples, v)) - 1 :
                 Back(Moved(samples, v), k) = Back(samples, k - 1)
<1> DEFINE next == Moved(samples, v)
           S == 0 .. FullSoc
           n == RiseSamples
           kept == IF Len(samples) = n THEN Tail(samples) ELSE samples
<1>0. n \in Nat \ {0} /\ samples \in Seq(S) /\ v \in S /\ Len(samples) <= n
  BY GaugeAssumption
<1>3. next = Append(kept, v)
  BY DEF Moved
<1> HIDE DEF S, n, next
<1>1. Len(samples) \in Nat
  BY <1>0
<1>2. /\ kept \in Seq(S)
      /\ Len(kept) = (IF Len(samples) = n THEN n - 1 ELSE Len(samples))
      /\ \A i \in 1 .. Len(kept) : kept[i] = samples[i + (Len(samples) - Len(kept))]
  <2>1. CASE Len(samples) = n
    <3>1. samples # <<>>
      BY <1>0, <2>1
    <3>2. /\ Tail(samples) \in Seq(S) /\ Len(Tail(samples)) = n - 1
          /\ \A i \in 1 .. n - 1 : Tail(samples)[i] = samples[i + 1]
      BY <1>0, <2>1, <3>1, HeadTailProperties
    <3>3. kept = Tail(samples) /\ n - (n - 1) = 1
      BY <1>0, <2>1
    <3> QED BY <2>1, <3>2, <3>3
  <2>2. CASE Len(samples) # n
    <3>1. kept = samples
      BY <2>2
    <3> HIDE DEF kept
    <3>2. \A i \in 1 .. Len(samples) : samples[i] = samples[i + (Len(samples) - Len(samples))]
      BY <1>1
    <3> QED BY <1>0, <2>2, <3>1, <3>2
  <2> QED BY <2>1, <2>2
<1> HIDE DEF kept
<1>4. /\ next \in Seq(S) /\ Len(next) = Len(kept) + 1 /\ next[Len(next)] = v
      /\ \A i \in 1 .. Len(kept) : next[i] = kept[i]
  <2>1. kept \in Seq(S) /\ v \in S
    BY <1>0, <1>2
  <2> DEFINE longer == Append(kept, v)
  <2>2. /\ longer \in Seq(S) /\ Len(longer) = Len(kept) + 1
        /\ longer[Len(kept) + 1] = v
        /\ \A i \in 1 .. Len(kept) : longer[i] = kept[i]
    BY <2>1, AppendProperties
  <2> HIDE DEF longer
  <2>3. longer[Len(longer)] = v
    BY <2>2
  <2>4. next = longer
    BY <1>3 DEF longer
  <2> QED BY <2>2, <2>3, <2>4
<1>5. Len(kept) \in Nat
  BY <1>2
<1>6. ASSUME NEW k \in 1 .. Len(next) - 1
      PROVE  Back(next, k) = Back(samples, k - 1)
  <2>1. Len(next) - k \in 1 .. Len(kept)
    BY <1>4, <1>5, <1>6
  <2>2. (Len(next) - k) + (Len(samples) - Len(kept)) = Len(samples) - (k - 1)
    <3> DEFINE l == Len(next)
               p == Len(kept)
               q == Len(samples)
    <3>1. l \in Int /\ p \in Int /\ q \in Int /\ k \in Int /\ l = p + 1
      BY <1>1, <1>4, <1>5
    <3> HIDE DEF l, p, q
    <3>2. (l - k) + (q - p) = q - (k - 1)
      BY <3>1
    <3> QED BY <3>2 DEF l, p, q
  <2> QED BY <1>2, <1>4, <2>1, <2>2 DEF Back
<1>7. Back(next, 0) = v /\ next # <<>>
  BY <1>4, <1>5 DEF Back
<1> QED BY <1>1, <1>2, <1>4, <1>6, <1>7 DEF S, n, next

\* The open-circuit voltage computed under load is short of the pack's by the
\* unseen drop at most.
LEMMA OpenCircuitBounds ==
    ASSUME NEW volts \in Nat, NEW load \in LoadCurrents,
           NEW ocv,
           ocv = (volts - load * PackResistance) + load * GaugeResistance
    PROVE  /\ ocv \in Int /\ volts - UnseenDrop \in Int
           /\ volts - UnseenDrop <= ocv /\ ocv <= volts
<1> DEFINE p == PackResistance
           q == GaugeResistance
           peak == Max(LoadCurrents)
<1>1. /\ p \in Nat /\ q \in Nat /\ q <= p
      /\ peak \in Nat /\ load \in Nat /\ load <= peak
  BY PlantAssumption, CurveAssumption, PeakLoad
<1>2. UnseenDrop = peak * (p - q) /\ ocv = (volts - load * p) + load * q
  BY DEF UnseenDrop
<1> HIDE DEF p, q, peak
<1>3. load * (p - q) \in Nat /\ peak * (p - q) \in Nat /\ load * (p - q) <= peak * (p - q)
  <2>1. \A x, a, b \in Nat : a <= b => a * x \in Nat /\ b * x \in Nat /\ a * x <= b * x
    OBVIOUS
  <2>2. p - q \in Nat
    BY <1>1
  <2> QED BY <1>1, <2>1, <2>2
<1>4. ocv = volts - load * (p - q)
  BY <1>1, <1>2
<1> QED BY <1>2, <1>3, <1>4

\* What a sample under load measures.
Measured(load) == LookupSoc(OpenCircuit(PowerSample(load)))

\* The least charge that a load can make the pack show.
LeastCharge == LookupSoc(pack - UnseenDrop)

LEMMA MeasuredBounds ==
    ASSUME pack \in PackVolts, NEW load \in LoadCurrents
    PROVE  /\ Measured(load) \in 0 .. FullSoc
           /\ LeastCharge <= Measured(load)
           /\ Measured(load) - LeastCharge < RiseThreshold
<1> DEFINE ocv == OpenCircuit(PowerSample(load))
<1>1. pack \in Nat
  BY PlantAssumption
<1>2. ocv = (pack - load * PackResistance) + load * GaugeResistance
  BY DEF OpenCircuit, PowerSample
<1>3. Measured(load) = LookupSoc(ocv)
  BY DEF Measured
<1> HIDE DEF ocv
<1>4. /\ ocv \in Int /\ pack - UnseenDrop \in Int
      /\ pack - UnseenDrop <= ocv /\ ocv <= pack
  BY <1>1, <1>2, OpenCircuitBounds
<1>5. /\ LookupSoc(ocv) \in 0 .. FullSoc /\ LookupSoc(pack) \in 0 .. FullSoc
      /\ LeastCharge \in 0 .. FullSoc
  BY <1>1, <1>4, LookupType DEF LeastCharge
<1>6. LeastCharge <= LookupSoc(ocv) /\ LookupSoc(ocv) <= LookupSoc(pack)
  BY <1>1, <1>4, LookupMonotone DEF LeastCharge
<1>7. LookupSoc(pack) - LeastCharge < RiseThreshold
  BY PlantAssumption DEF LeastCharge
<1> QED BY <1>3, <1>5, <1>6, <1>7, GaugeAssumption

LEMMA PlantInit == Init => PlantInv
<1> SUFFICES ASSUME Init PROVE PlantInv
  OBVIOUS
<1>1. FreshGauge \in GaugeType /\ FreshGauge.rise_samples = 0 /\ FreshGauge.has_reading = FALSE
  BY GaugeAssumption DEF FreshGauge, GaugeType
<1>2. GaugeTyped
  <2>1. <<>> \in Seq(0 .. FullSoc) /\ Len(<<>>) = 0
    OBVIOUS
  <2>2. gauge = FreshGauge /\ recent = <<>> /\ pack \in PackVolts /\ swapped = FALSE
    BY DEF Init
  <2>3. Len(recent) <= RiseSamples /\ gauge.rise_samples < RiseSamples
    BY <1>1, <2>1, <2>2, GaugeAssumption
  <2> QED BY <1>1, <2>1, <2>2, <2>3 DEF GaugeTyped
<1>3. FirstReading
  BY <1>1 DEF Init, FirstReading
<1>4. RunInv
  BY <1>1 DEF Init, RunInv
<1>5. NeverFlattering /\ LoadIsBounded
  BY <1>1 DEF Init, NeverFlattering, LoadIsBounded
<1> QED BY <1>2, <1>3, <1>4, <1>5 DEF PlantInv

\* The terms on which a sample meets the gauge and its window.
LEMMA SampleTaken ==
    ASSUME PlantInv, UpdateGauge
    PROVE  \E m \in 0 .. FullSoc :
              /\ LeastCharge <= m /\ m - LeastCharge < RiseThreshold
              /\ gauge' = GaugeUpdate(gauge, m)
              /\ recent' \in Seq(0 .. FullSoc) /\ recent' # <<>>
              /\ Len(recent') = (IF Len(recent) = RiseSamples THEN RiseSamples
                                 ELSE Len(recent) + 1)
              /\ Back(recent', 0) = m
              /\ \A k \in 1 .. Len(recent') - 1 : Back(recent', k) = Back(recent, k - 1)
              /\ swapped' = (swapped /\ gauge'.soc # m)
<1>1. PICK load \in LoadCurrents :
         /\ gauge' = GaugeUpdate(gauge, Measured(load))
         /\ recent' = Append(IF Len(recent) = RiseSamples THEN Tail(recent) ELSE recent,
                             Measured(load))
         /\ swapped' = (swapped /\ gauge'.soc # Measured(load))
  BY DEF UpdateGauge, Measured
<1> DEFINE m == Measured(load)
<1>2. m \in 0 .. FullSoc /\ LeastCharge <= m /\ m - LeastCharge < RiseThreshold
  BY MeasuredBounds DEF PlantInv, GaugeTyped
<1>3. /\ recent \in Seq(0 .. FullSoc) /\ Len(recent) <= RiseSamples
      /\ RiseSamples \in Nat \ {0}
  BY GaugeAssumption DEF PlantInv, GaugeTyped
<1> HIDE DEF m
<1>4. recent' = Append(IF Len(recent) = RiseSamples THEN Tail(recent) ELSE recent, m)
  BY <1>1 DEF m
<1>5. /\ recent' \in Seq(0 .. FullSoc) /\ recent' # <<>>
      /\ Len(recent') = (IF Len(recent) = RiseSamples THEN RiseSamples ELSE Len(recent) + 1)
      /\ Back(recent', 0) = m
      /\ \A k \in 1 .. Len(recent') - 1 : Back(recent', k) = Back(recent, k - 1)
  <2>1. recent' = Moved(recent, m)
    BY <1>4 DEF Moved
  <2>2. recent \in Seq(0 .. FullSoc) /\ Len(recent) <= RiseSamples /\ m \in 0 .. FullSoc
    BY <1>2, <1>3
  <2> QED BY <2>1, <2>2, WindowMoves
<1>6. gauge' = GaugeUpdate(gauge, m) /\ swapped' = (swapped /\ gauge'.soc # m)
  BY <1>1 DEF m
<1> QED BY <1>2, <1>5, <1>6

\* One sample preserves the part of the invariant about the gauge.
LEMMA SamplePreserves ==
    ASSUME PlantInv, UpdateGauge
    PROVE  /\ gauge' \in GaugeType /\ gauge'.rise_samples < RiseSamples
           /\ recent' \in Seq(0 .. FullSoc) /\ Len(recent') <= RiseSamples
           /\ swapped' \in BOOLEAN
           /\ FirstReading' /\ RunInv' /\ NeverFlattering'
           /\ gauge'.has_reading /\ ~swapped' => LeastCharge <= gauge'.soc
<1>1. PICK m \in 0 .. FullSoc :
         /\ LeastCharge <= m /\ m - LeastCharge < RiseThreshold
         /\ gauge' = GaugeUpdate(gauge, m)
         /\ recent' \in Seq(0 .. FullSoc) /\ recent' # <<>>
         /\ Len(recent') = (IF Len(recent) = RiseSamples THEN RiseSamples
                            ELSE Len(recent) + 1)
         /\ Back(recent', 0) = m
         /\ \A k \in 1 .. Len(recent') - 1 : Back(recent', k) = Back(recent, k - 1)
         /\ swapped' = (swapped /\ gauge'.soc # m)
  BY SampleTaken
<1> DEFINE g == gauge
           h == gauge'
           r == g.rise_samples
           n == Len(recent)
           w == Len(recent')
           T == RiseThreshold
<1>2. /\ g \in GaugeType /\ g.soc \in 0 .. FullSoc /\ g.has_reading \in BOOLEAN
      /\ r \in Nat /\ r < RiseSamples /\ n \in Nat /\ n <= RiseSamples
      /\ recent \in Seq(0 .. FullSoc) /\ swapped \in BOOLEAN
  BY GaugeAssumption DEF PlantInv, GaugeTyped, GaugeType
<1>3. /\ m \in Nat /\ m <= FullSoc /\ RiseSamples \in Nat \ {0} /\ T \in Nat \ {0}
      /\ w \in Nat \ {0} /\ w = (IF n = RiseSamples THEN RiseSamples ELSE n + 1)
  BY <1>1, <1>2, GaugeAssumption
<1>4. /\ h \in [soc : {g.soc, m}, has_reading : {TRUE}, rise_samples : {0, r, r + 1}]
      /\ \/ ~g.has_reading /\ h.soc = m /\ h.rise_samples = r
         \/ g.has_reading /\ m <= g.soc /\ h.soc = m /\ h.rise_samples = 0
         \/ /\ g.has_reading /\ m > g.soc /\ m - g.soc < T
            /\ h.soc = g.soc /\ h.rise_samples = 0
         \/ /\ g.has_reading /\ m > g.soc /\ ~(m - g.soc < T)
            /\ r + 1 < RiseSamples
            /\ h.soc = g.soc /\ h.rise_samples = r + 1
         \/ /\ g.has_reading /\ m > g.soc /\ ~(m - g.soc < T)
            /\ ~(r + 1 < RiseSamples)
            /\ h.soc = m /\ h.rise_samples = 0
  <2>1. GaugeStep(gauge, m, gauge')
    BY <1>1, <1>2, GaugeSteps
  <2> QED BY <2>1 DEF GaugeStep
<1>5. /\ r <= n
      /\ \A k \in 0 .. r - 1 : Back(recent, k) - g.soc >= T
      /\ r < n => Back(recent, r) - g.soc < T
      /\ IF g.has_reading THEN recent # <<>> ELSE g = FreshGauge /\ recent = <<>>
  BY DEF PlantInv, RunInv, FirstReading
<1>6. ~g.has_reading => r = 0
  BY <1>5 DEF FreshGauge
<1>7. /\ Back(recent', 0) = m
      /\ \A k \in 1 .. w - 1 : Back(recent', k) = Back(recent, k - 1)
  BY <1>1
<1>8. h.has_reading = TRUE /\ h.soc \in {g.soc, m} /\ h.soc \in Nat /\ h.soc <= FullSoc
      /\ h.rise_samples \in {0, r, r + 1}
  <2>1. /\ h.has_reading = TRUE /\ h.soc \in {g.soc, m}
        /\ h.rise_samples \in {0, r, r + 1}
    BY <1>4
  <2>2. g.soc \in Nat /\ g.soc <= FullSoc
    BY <1>2, GaugeAssumption
  <2> QED BY <1>3, <2>1, <2>2
<1>9. h.soc <= m
  <2>1. h.soc = m \/ (h.soc = g.soc /\ m > g.soc)
    BY <1>4, Zenon
  <2>2. m \in Int /\ g.soc \in Int
    BY <1>2, <1>3, GaugeAssumption
  <2> QED BY <2>1, <2>2
<1>10. h.rise_samples \in Nat /\ h.rise_samples < RiseSamples
  <2>1. 0 < RiseSamples /\ r \in Nat /\ r + 1 \in Nat
    BY <1>2, <1>3
  <2> QED BY <1>2, <1>4, <2>1
<1>11. h \in GaugeType
  <2>1. h.soc \in 0 .. FullSoc /\ h.rise_samples \in 0 .. RiseSamples
    BY <1>3, <1>8, <1>10, GaugeAssumption
  <2>2. h = [soc |-> h.soc, has_reading |-> h.has_reading, rise_samples |-> h.rise_samples]
    BY <1>4
  <2> QED BY <1>8, <2>1, <2>2 DEF GaugeType
<1>12. FirstReading'
  BY <1>1, <1>8 DEF FirstReading
<1>13. NeverFlattering'
  <2>1. recent'[Len(recent')] = m
    <3>1. w - 0 = w
      BY <1>3
    <3> QED BY <1>7, <3>1 DEF Back
  <2> QED BY <1>9, <2>1 DEF NeverFlattering
<1>14. RunInv'
  <2>1. CASE h.rise_samples = 0 /\ m - h.soc < T
    <3>1. h.rise_samples <= w /\ 0 .. h.rise_samples - 1 = {}
      BY <1>3, <2>1
    <3> QED BY <1>7, <2>1, <3>1 DEF RunInv
  <2>2. CASE g.has_reading /\ ~(m - g.soc < T) /\ h.soc = g.soc /\ h.rise_samples = r + 1
             /\ r + 1 < RiseSamples
    <3>1. r + 1 <= w
      BY <1>2, <1>3, <1>5
    <3>2. ASSUME NEW k \in 0 .. r
          PROVE  Back(recent', k) - g.soc >= T
      <4>1. CASE k = 0
        BY <1>2, <1>3, <1>7, <2>2, <4>1
      <4>2. CASE k # 0
        <5>1. k \in 1 .. w - 1 /\ k - 1 \in 0 .. r - 1
          BY <1>2, <1>3, <3>1, <4>2
        <5> QED BY <1>5, <1>7, <5>1
      <4> QED BY <4>1, <4>2
    <3>3. r + 1 < w => Back(recent', r + 1) - g.soc < T
      <4> SUFFICES ASSUME r + 1 < w PROVE Back(recent', r + 1) - g.soc < T
        OBVIOUS
      <4>1. r + 1 \in 1 .. w - 1 /\ (r + 1) - 1 = r /\ r < n
        BY <1>2, <1>3, <2>2
      <4> QED BY <1>5, <1>7, <4>1
    <3>4. 0 .. h.rise_samples - 1 = 0 .. r
      BY <1>2, <2>2
    <3> QED BY <2>2, <3>1, <3>2, <3>3, <3>4 DEF RunInv
  <2>3. m - m < T
    BY <1>3
  <2> QED BY <1>4, <1>6, <2>1, <2>2, <2>3
<1>15. swapped' \in BOOLEAN
  BY <1>1, Zenon
<1>16. ASSUME ~swapped' PROVE LeastCharge <= h.soc
  <2>1. CASE h.soc = m
    BY <1>1, <2>1
  <2>2. CASE h.soc # m
    <3>1. ~swapped
      BY <1>1, <1>16, <2>2, Zenon
    <3>2. g.has_reading /\ h.soc = g.soc
      BY <1>4, <1>8, <2>2
    <3> QED BY <3>1, <3>2 DEF PlantInv, LoadIsBounded, LeastCharge
  <2> QED BY <2>1, <2>2
<1>17. Len(recent') <= RiseSamples
  BY <1>2, <1>3
<1> QED BY <1>1, <1>10, <1>11, <1>12, <1>13, <1>14, <1>15, <1>16, <1>17

LEMMA PlantStep == PlantInv /\ [Next]_vars => PlantInv'
<1> SUFFICES ASSUME PlantInv, [Next]_vars PROVE PlantInv'
  OBVIOUS
<1>1. CASE RunControl
  <2>1. UpdateGauge /\ pack' = pack
    BY <1>1 DEF RunControl
  <2>2. /\ gauge' \in GaugeType /\ gauge'.rise_samples < RiseSamples
        /\ recent' \in Seq(0 .. FullSoc) /\ Len(recent') <= RiseSamples
        /\ swapped' \in BOOLEAN
        /\ FirstReading' /\ RunInv' /\ NeverFlattering'
        /\ gauge'.has_reading /\ ~swapped' => LeastCharge <= gauge'.soc
    BY <2>1, SamplePreserves
  <2>3. GaugeTyped'
    BY <2>1, <2>2 DEF PlantInv, GaugeTyped
  <2>4. LoadIsBounded'
    BY <2>1, <2>2 DEF LoadIsBounded, LeastCharge
  <2> QED BY <2>2, <2>3, <2>4 DEF PlantInv
<1>2. CASE Retarget \/ UNCHANGED vars
  <2>1. UNCHANGED <<pack, gauge, recent, swapped>>
    BY <1>2 DEF Retarget, vars
  <2> QED BY <2>1 DEF PlantInv, GaugeTyped, FirstReading, RunInv, Back, NeverFlattering,
                      LoadIsBounded
<1>3. CASE Discharge
  <2>1. pack' \in PackVolts /\ pack' < pack /\ UNCHANGED <<gauge, recent, swapped>>
    BY <1>3 DEF Discharge
  <2>2. /\ pack \in Nat /\ pack' \in Nat /\ UnseenDrop \in Int
        /\ gauge.soc \in Nat
    <3>1. UnseenDrop \in Int
      BY PeakLoad, PlantAssumption, CurveAssumption DEF UnseenDrop
    <3> QED BY <2>1, <3>1, PlantAssumption, GaugeAssumption DEF PlantInv, GaugeTyped, GaugeType
  <2>3. LoadIsBounded'
    <3>1. /\ pack - UnseenDrop \in Int /\ pack' - UnseenDrop \in Int
          /\ pack' - UnseenDrop <= pack - UnseenDrop
      <4>1. \A x, y \in Nat : \A u \in Int :
               y < x => x - u \in Int /\ y - u \in Int /\ y - u <= x - u
        OBVIOUS
      <4> QED BY <2>1, <2>2, <4>1, Zenon
    <3> DEFINE low  == pack' - UnseenDrop
               high == pack - UnseenDrop
    <3> HIDE DEF low, high
    <3>2. low \in Int /\ high \in Int /\ low <= high
      BY <3>1 DEF low, high
    <3>3. /\ LookupSoc(low) <= LookupSoc(high)
          /\ LookupSoc(low) \in 0 .. FullSoc /\ LookupSoc(high) \in 0 .. FullSoc
      BY <3>2, LookupMonotone, LookupType
    <3>4. gauge.has_reading /\ ~swapped => LookupSoc(high) <= gauge.soc
      BY DEF PlantInv, LoadIsBounded, high
    <3>5. gauge.has_reading /\ ~swapped => LookupSoc(low) <= gauge.soc
      <4>1. \A x, y \in 0 .. FullSoc : \A z \in Nat : x <= y /\ y <= z => x <= z
        BY GaugeAssumption
      <4> QED BY <2>2, <3>3, <3>4, <4>1, Zenon
    <3>6. /\ UnseenDrop' = UnseenDrop
          /\ LookupSoc(pack - UnseenDrop)' = LookupSoc(low)
      BY DEF low
    <3> QED BY <2>1, <3>5, <3>6 DEF LoadIsBounded
  <2> QED BY <2>1, <2>3 DEF PlantInv, GaugeTyped, FirstReading, RunInv, Back, NeverFlattering
<1>4. CASE Swap
  <2>1. pack' \in PackVolts /\ swapped' = TRUE /\ UNCHANGED <<gauge, recent>>
    BY <1>4 DEF Swap
  <2> QED BY <2>1 DEF PlantInv, GaugeTyped, FirstReading, RunInv, Back, NeverFlattering,
                      LoadIsBounded
<1> QED BY <1>1, <1>2, <1>3, <1>4 DEF Next

LEMMA PlantInvariant == Spec => []PlantInv
  BY PlantInit, PlantStep, PTL DEF Spec

\* The output stays within the range of the targets, and a run of rises is accepted
\* before it exceeds its length (slew_limiter.cpp:46-53, battery_gauge.cpp:81-88).
THEOREM TypeCorrect == Spec => []TypeOK
<1>1. PlantInv /\ RampType => TypeOK
  BY DEF PlantInv, GaugeTyped, RampType, TypeOK
<1> QED BY <1>1, PlantInvariant, RampInvariant, PTL

\* A falling charge is followed at once, a critical one too (battery_gauge.cpp:67-72).
THEOREM ChargeNeverFlattered == Spec => []NeverFlattering
<1>1. PlantInv => NeverFlattering
  BY DEF PlantInv
<1> QED BY <1>1, PlantInvariant, PTL

\* A full run of large rises is believed by its last sample: a new pack does not stay
\* unnoticed (battery_gauge.cpp:78-86).
THEOREM NewPackIsNoticed == Spec => []NewPackNoticed
<1>1. PlantInv => NewPackNoticed
  <2> SUFFICES ASSUME PlantInv, Len(recent) = RiseSamples, LargeRises(gauge.soc, recent)
               PROVE  FALSE
    BY DEF NewPackNoticed
  <2> DEFINE r == gauge.rise_samples
             i == Len(recent) - r
  <2>1. /\ r \in Nat /\ r < RiseSamples /\ RiseSamples \in Nat
        /\ recent \in Seq(0 .. FullSoc) /\ gauge.soc \in Int /\ RiseThreshold \in Int
    BY GaugeAssumption DEF PlantInv, GaugeTyped, GaugeType
  <2>2. i \in 1 .. Len(recent)
    BY <2>1
  <2>3. recent[i] - gauge.soc < RiseThreshold
    BY <2>1 DEF PlantInv, RunInv, Back
  <2>4. recent[i] - gauge.soc >= RiseThreshold
    BY <2>2 DEF LargeRises
  <2>5. recent[i] \in Int
    <3>1. \A j \in 1 .. Len(recent) : recent[j] \in 0 .. FullSoc
      BY <2>1, GaugeAssumption
    <3> QED BY <2>2, <3>1, GaugeAssumption
  <2> HIDE DEF i
  <2> QED BY <2>1, <2>3, <2>4, <2>5
<1> QED BY <1>1, PlantInvariant, PTL

\* Load never makes a pack look emptier than the unseen drop does for one sample,
\* however the low readings that it leaves behind add up (battery_gauge.cpp:57-75).
THEOREM LoadStaysBounded == Spec => []LoadIsBounded
<1>1. PlantInv => LoadIsBounded
  BY DEF PlantInv
<1> QED BY <1>1, PlantInvariant, PTL

\* A rise of the charge shown is a sample's, which ended a full run of large ones.
LEMMA RiseStep ==
    ASSUME PlantInv, [Next]_vars, gauge.has_reading, gauge'.soc > gauge.soc
    PROVE  /\ UpdateGauge
           /\ \E m \in 0 .. FullSoc :
                 /\ m - LeastCharge < RiseThreshold /\ m - gauge.soc >= RiseThreshold
                 /\ gauge.rise_samples + 1 >= RiseSamples
                 /\ Len(recent') = (IF Len(recent) = RiseSamples THEN RiseSamples
                                    ELSE Len(recent) + 1)
                 /\ Back(recent', 0) = m
                 /\ \A k \in 1 .. Len(recent') - 1 :
                       Back(recent', k) = Back(recent, k - 1)
<1>1. gauge \in GaugeType /\ gauge.soc \in Int /\ gauge.rise_samples \in Int
  BY GaugeAssumption DEF PlantInv, GaugeTyped, GaugeType
<1>2. UpdateGauge
  <2>1. CASE RunControl
    BY <2>1 DEF RunControl
  <2>2. CASE Retarget \/ Discharge \/ Swap \/ UNCHANGED vars
    <3>1. gauge' = gauge
      BY <2>2 DEF Retarget, Discharge, Swap, vars
    <3> QED BY <1>1, <3>1
  <2> QED BY <2>1, <2>2 DEF Next
<1>3. PICK m \in 0 .. FullSoc :
         /\ m - LeastCharge < RiseThreshold
         /\ gauge' = GaugeUpdate(gauge, m)
         /\ Len(recent') = (IF Len(recent) = RiseSamples THEN RiseSamples
                            ELSE Len(recent) + 1)
         /\ Back(recent', 0) = m
         /\ \A k \in 1 .. Len(recent') - 1 : Back(recent', k) = Back(recent, k - 1)
  BY <1>2, SampleTaken
<1>4. m \in Int /\ RiseThreshold \in Int /\ RiseSamples \in Int
  BY GaugeAssumption
<1>5. GaugeStep(gauge, m, gauge')
  BY <1>1, <1>3, GaugeSteps
<1>6. ~(m - gauge.soc < RiseThreshold) /\ ~(gauge.rise_samples + 1 < RiseSamples)
  <2>1. ~(gauge'.soc = gauge.soc) /\ ~(gauge'.soc = m /\ m <= gauge.soc)
    BY <1>1, <1>4
  <2> QED BY <1>5, <2>1 DEF GaugeStep
<1>7. m - gauge.soc >= RiseThreshold /\ gauge.rise_samples + 1 >= RiseSamples
  BY <1>1, <1>4, <1>6
<1> QED BY <1>2, <1>3, <1>7

\* The charge shown rises only after an unbroken run of large rises: no spike
\* resets the gauge (battery_gauge.cpp:74-77).
THEOREM RisesAreSustained == Spec => RiseIsSustained
<1>1. PlantInv /\ [Next]_vars =>
        [gauge.has_reading /\ gauge'.soc > gauge.soc =>
           Len(recent') = RiseSamples /\ LargeRises(gauge.soc, recent')]_vars
  <2> SUFFICES ASSUME PlantInv, [Next]_vars, gauge.has_reading, gauge'.soc > gauge.soc
               PROVE  Len(recent') = RiseSamples /\ LargeRises(gauge.soc, recent')
    OBVIOUS
  <2> DEFINE r == gauge.rise_samples
             w == Len(recent')
  <2>1. PICK m \in 0 .. FullSoc :
           /\ m - gauge.soc >= RiseThreshold /\ r + 1 >= RiseSamples
           /\ w = (IF Len(recent) = RiseSamples THEN RiseSamples ELSE Len(recent) + 1)
           /\ Back(recent', 0) = m
           /\ \A k \in 1 .. w - 1 : Back(recent', k) = Back(recent, k - 1)
    BY RiseStep
  <2>2. /\ r \in Nat /\ r < RiseSamples /\ RiseSamples \in Nat
        /\ Len(recent) \in Nat /\ Len(recent) <= RiseSamples /\ r <= Len(recent)
        /\ \A k \in 0 .. r - 1 : Back(recent, k) - gauge.soc >= RiseThreshold
    BY GaugeAssumption DEF PlantInv, GaugeTyped, GaugeType, RunInv
  <2>3. w = RiseSamples /\ r = w - 1 /\ w \in Nat
    BY <2>1, <2>2
  <2>4. ASSUME NEW i \in 1 .. w
        PROVE  recent'[i] - gauge.soc >= RiseThreshold
    <3> DEFINE k == w - i
    <3>1. k \in 0 .. w - 1 /\ w - k = i
      BY <2>3
    <3>2. recent'[i] = Back(recent', k)
      BY <3>1 DEF Back
    <3> HIDE DEF k
    <3>3. CASE k = 0
      BY <2>1, <3>2, <3>3
    <3>4. CASE k # 0
      <4>1. k \in 1 .. w - 1 /\ k - 1 \in 0 .. r - 1
        BY <2>3, <3>1, <3>4
      <4> QED BY <2>1, <2>2, <3>2, <4>1
    <3> QED BY <3>3, <3>4
  <2> QED BY <2>3, <2>4 DEF LargeRises
<1> QED BY <1>1, PlantInvariant, PTL DEF Spec, RiseIsSustained

\* Charge does not rise while discharging: what load took off the charge shown stays
\* off when the load goes, and with it a stop for a critical pack, until the pack is
\* swapped (battery_gauge.hpp:53-58).
THEOREM SwapsAloneRaise == Spec => OnlySwapsRaise
<1>1. PlantInv /\ [Next]_vars =>
        [gauge.has_reading /\ gauge'.soc > gauge.soc => swapped]_vars
  <2> SUFFICES ASSUME PlantInv, [Next]_vars, gauge.has_reading, gauge'.soc > gauge.soc,
                      ~swapped
               PROVE  FALSE
    OBVIOUS
  <2>1. PICK m \in 0 .. FullSoc :
           m - LeastCharge < RiseThreshold /\ m - gauge.soc >= RiseThreshold
    BY RiseStep
  <2>2. LeastCharge <= gauge.soc
    BY DEF PlantInv, LoadIsBounded, LeastCharge
  <2>3. LeastCharge \in 0 .. FullSoc
    <3>1. pack - UnseenDrop \in Int
      <4>1. UnseenDrop \in Int /\ pack \in Nat
        BY PeakLoad, PlantAssumption, CurveAssumption DEF UnseenDrop, PlantInv, GaugeTyped
      <4> QED BY <4>1
    <3> QED BY <3>1, LookupType DEF LeastCharge
  <2>4. gauge.soc \in Int /\ m \in Int /\ LeastCharge \in Int /\ RiseThreshold \in Int
    BY <2>3, GaugeAssumption DEF PlantInv, GaugeTyped, GaugeType
  <2> QED BY <2>1, <2>2, <2>4
<1> QED BY <1>1, PlantInvariant, PTL DEF Spec, OnlySwapsRaise
=============================================================================
