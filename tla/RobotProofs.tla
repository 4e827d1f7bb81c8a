---------------------------- MODULE RobotProofs -----------------------------
(***************************************************************************)
(* Theorems about the robot's loop, for every period, timeout, queue size, *)
(* ramp and set of inputs: its types, and what torque, faults, ramps,      *)
(* wheels and frames have to do with each other.                           *)
(***************************************************************************)
EXTENDS Robot, MillisTheorems

\* A step of a ramp is a speed.
LEMMA SlewType ==
    ASSUME NEW current \in Int, NEW target \in Int, NEW accel \in Int, NEW decel \in Int
    PROVE  Slew(current, target, accel, decel) \in Int
  BY DEF Slew, StepLimit, Magnitude, CrossesZero

LEMMA AbsMaxType ==
    ASSUME NEW a \in Int, NEW b \in Int
    PROVE  AbsMax(a, b) \in Nat
  BY DEF AbsMax

LEMMA ScaledType ==
    ASSUME NEW x \in Int, NEW num \in Nat, NEW den \in Nat \ {0}
    PROVE  Scaled(x, num, den) \in Int
<1> DEFINE p == x * num
           q == (-x) * num
<1>1. p \in Int /\ q \in Int
  OBVIOUS
<1>2. p \div den \in Int /\ q \div den \in Int
  <2> HIDE DEF p, q
  <2> QED BY <1>1
<1> QED BY <1>2 DEF Scaled

LEMMA ToWheelsType ==
    ASSUME NEW twist \in Twist
    PROVE  ToWheels(twist) \in WheelSpeeds
<1> DEFINE differential == twist.angular * HalfTrack
           left  == twist.linear - differential
           right == twist.linear + differential
           peak  == AbsMax(left, right)
<1>1. differential \in Int
  BY DriveAssumption DEF Twist
<1>2. left \in Int /\ right \in Int
  BY <1>1 DEF Twist
<1>3. peak \in Nat
  BY <1>2, AbsMaxType
<1>4. CASE peak > MaxWheel
  <2>1. peak \in Nat \ {0} /\ MaxWheel \in Nat
    BY <1>3, <1>4, DriveAssumption
  <2>2. Scaled(left, MaxWheel, peak) \in Int /\ Scaled(right, MaxWheel, peak) \in Int
    BY <1>2, <2>1, ScaledType
  <2>3. ToWheels(twist) = [left |-> Scaled(left, MaxWheel, peak),
                           right |-> Scaled(right, MaxWheel, peak)]
    BY <1>4 DEF ToWheels
  <2> QED BY <2>2, <2>3 DEF WheelSpeeds
<1>5. CASE ~(peak > MaxWheel)
  <2>1. ToWheels(twist) = [left |-> left, right |-> right]
    BY <1>5 DEF ToWheels
  <2> QED BY <1>2, <2>1 DEF WheelSpeeds
<1> QED BY <1>4, <1>5

LEMMA GaugeUpdateType ==
    ASSUME NEW g \in GaugeType, NEW measured \in 0 .. FullSoc
    PROVE  GaugeUpdate(g, measured) \in GaugeType
<1>1. /\ g.soc \in 0 .. FullSoc
      /\ g.has_reading \in BOOLEAN
      /\ g.rise_samples \in 0 .. RiseSamples
      /\ g = [soc |-> g.soc, has_reading |-> g.has_reading,
              rise_samples |-> g.rise_samples]
  BY DEF GaugeType
<1>2. RiseSamples \in Nat \ {0} /\ FullSoc \in Nat /\ RiseThreshold \in Nat
  BY GaugeAssumption
<1>3. \A n \in 0 .. RiseSamples :
         /\ [g EXCEPT !.rise_samples = n] \in GaugeType
         /\ [g EXCEPT !.soc = measured, !.rise_samples = n] \in GaugeType
  BY <1>1 DEF GaugeType
<1>4. [g EXCEPT !.soc = measured, !.has_reading = TRUE] \in GaugeType
  BY <1>1 DEF GaugeType
<1>5. 0 \in 0 .. RiseSamples
  BY <1>2
<1>6. CASE g.rise_samples + 1 < RiseSamples
  <2>1. g.rise_samples + 1 \in 0 .. RiseSamples
    BY <1>1, <1>2, <1>6
  <2>2. [g EXCEPT !.rise_samples = @ + 1] \in GaugeType
    BY <1>3, <2>1
  <2> QED BY <1>3, <1>4, <1>5, <2>2 DEF GaugeUpdate, AfterRise
<1>7. CASE ~(g.rise_samples + 1 < RiseSamples)
  BY <1>3, <1>4, <1>5, <1>7 DEF GaugeUpdate, AfterRise
<1> QED BY <1>6, <1>7

LEMMA ArmPeriodicType ==
    ASSUME NEW dl \in DeadlineType, NEW t \in MillisRange
    PROVE  ArmPeriodic(dl, t) \in DeadlineType
<1>1. /\ dl.start \in MillisRange
      /\ dl.period \in MillisRange
      /\ dl.period \in Nat
      /\ dl = [start |-> dl.start, period |-> dl.period]
  BY DEF DeadlineType, MillisRange
<1>2. Later(dl.start, dl.period) \in MillisRange
  BY <1>1, LaterType
<1> QED BY <1>1, <1>2 DEF ArmPeriodic, DeadlineType

\* A permitted twist is a twist.
LEMMA PermitType ==
    ASSUME NEW fs, NEW request \in Twist
    PROVE  Permit(fs, request) \in Twist
  BY DEF Permit, Twist, ZeroTwist

-----------------------------------------------------------------------------
(* The bus *)

LEMMA EnqueueType ==
    ASSUME NEW S, NEW q \in Seq(S), NEW v \in S, NEW capacity \in Nat \ {0},
           Len(q) <= capacity
    PROVE  /\ Enqueue(q, capacity, v) \in Seq(S)
           /\ Len(Enqueue(q, capacity, v)) <= capacity
<1>1. CASE Len(q) = capacity
  <2>1. q # <<>>
    BY <1>1
  <2>2. Tail(q) \in Seq(S) /\ Len(Tail(q)) = capacity - 1
    BY <1>1, <2>1
  <2>3. Enqueue(q, capacity, v) = Append(Tail(q), v)
    BY <1>1 DEF Enqueue
  <2> QED BY <2>2, <2>3
<1>2. CASE Len(q) # capacity
  BY <1>2 DEF Enqueue
<1> QED BY <1>1, <1>2

\* The counter of dropped commands stays in its range.
LEMMA DroppedType ==
    ASSUME NEW b, b.dropped \in 0 .. DroppedMax, NEW lane, NEW capacity
    PROVE  DroppedAfter(b, lane, capacity) \in 0 .. DroppedMax
  BY BusAssumption DEF DroppedAfter, SaturatingIncrement

\* Posting keeps the lanes within their capacities, and the latch set.
LEMMA PostType ==
    ASSUME NEW b \in BusType(CommandType), NEW c \in CommandType
    PROVE  /\ Post(b, c) \in BusType(CommandType)
           /\ b.highOverflowed => Post(b, c).highOverflowed
<1> DEFINE H == Enqueue(b.high, HighCapacity, c)
           N == Enqueue(b.normal, NormalCapacity, c)
           L == Enqueue(b.low, LowCapacity, c)
<1>1. /\ b.high \in Seq(CommandType) /\ Len(b.high) <= HighCapacity
      /\ b.normal \in Seq(CommandType) /\ Len(b.normal) <= NormalCapacity
      /\ b.low \in Seq(CommandType) /\ Len(b.low) <= LowCapacity
      /\ b.highOverflowed \in BOOLEAN
      /\ b.dropped \in 0 .. DroppedMax
      /\ b = [high |-> b.high, normal |-> b.normal, low |-> b.low,
              highOverflowed |-> b.highOverflowed, dropped |-> b.dropped]
  BY DEF BusType, Buses
<1>2. /\ HighCapacity \in Nat \ {0}
      /\ NormalCapacity \in Nat \ {0}
      /\ LowCapacity \in Nat \ {0}
  BY BusAssumption DEF NormalCapacity
<1>3. /\ H \in Seq(CommandType) /\ Len(H) <= HighCapacity
      /\ N \in Seq(CommandType) /\ Len(N) <= NormalCapacity
      /\ L \in Seq(CommandType) /\ Len(L) <= LowCapacity
  BY <1>1, <1>2, EnqueueType
<1>4. c.priority \in {"High", "Normal", "Low"}
  BY DEF CommandType
<1>5. CASE c.priority = "High"
  <2>1. CASE Refuses(b.high, HighCapacity, FALSE)
    <3>1. Post(b, c) = [high |-> b.high, normal |-> b.normal, low |-> b.low,
                        highOverflowed |-> TRUE, dropped |-> b.dropped]
      BY <1>1, <1>5, <2>1 DEF Post, PostHigh
    <3> QED BY <1>1, <3>1 DEF BusType, Buses
  <2>2. CASE ~Refuses(b.high, HighCapacity, FALSE)
    <3>1. Post(b, c) = [high |-> H, normal |-> b.normal, low |-> b.low,
                        highOverflowed |-> b.highOverflowed, dropped |-> b.dropped]
      BY <1>1, <1>5, <2>2 DEF Post, PostHigh
    <3> HIDE DEF H
    <3> QED BY <1>1, <1>3, <3>1 DEF BusType, Buses
  <2> QED BY <2>1, <2>2
<1>6. CASE c.priority = "Normal"
  <2> DEFINE D == DroppedAfter(b, b.normal, NormalCapacity)
  <2>1. Post(b, c) = [high |-> b.high, normal |-> N, low |-> b.low,
                      highOverflowed |-> b.highOverflowed, dropped |-> D]
    BY <1>1, <1>6 DEF Post, PostNormal
  <2>2. D \in 0 .. DroppedMax
    BY <1>1, DroppedType
  <2> HIDE DEF N, D
  <2> QED BY <1>1, <1>3, <2>1, <2>2 DEF BusType, Buses
<1>7. CASE c.priority = "Low"
  <2> DEFINE D == DroppedAfter(b, b.low, LowCapacity)
  <2>1. Post(b, c) = [high |-> b.high, normal |-> b.normal, low |-> L,
                      highOverflowed |-> b.highOverflowed, dropped |-> D]
    BY <1>1, <1>7 DEF Post, PostLow
  <2>2. D \in 0 .. DroppedMax
    BY <1>1, DroppedType
  <2> HIDE DEF L, D
  <2> QED BY <1>1, <1>3, <2>1, <2>2 DEF BusType, Buses
<1> QED BY <1>4, <1>5, <1>6, <1>7

\* Every parsed line becomes a command.
LEMMA FromLineType ==
    ASSUME NEW l \in ParsedCommand, NEW t \in MillisRange
    PROVE  FromLine(l, t) \in CommandType
<1>1. 0 \in MillisRange
  BY WordSizeAssumption DEF MillisRange
<1> QED BY <1>1 DEF FromLine, ParsedCommand, CommandType, Command

\* Applying a command to the demand.
LEMMA AppliedType ==
    ASSUME NEW d \in DemandType, NEW c \in CommandType
    PROVE  Applied(d, c) \in DemandType
<1>1. /\ c.values[1] \in Int /\ c.values[2] \in Int
      /\ c.timestamp \in MillisRange
  BY DEF CommandType
<1>2. [linear |-> c.values[1], angular |-> c.values[2]] \in Twist
  BY <1>1 DEF Twist
<1>3. (c.values[1] # 0) \in BOOLEAN
  OBVIOUS
<1> QED BY <1>1, <1>2, <1>3 DEF Applied, DemandType

-----------------------------------------------------------------------------
(* Types *)

LEMMA ZeroTypes ==
    /\ 0 \in MillisRange
    /\ ZeroTwist \in Twist
    /\ ZeroWheels \in WheelSpeeds
    /\ FreshDemand \in DemandType
    /\ FreshSnapshot \in SnapshotType
    /\ FreshGauge \in GaugeType
    /\ Unarmed \in DeadlineType
    /\ InitialFaults \subseteq Fault
    /\ EmptyBus \in BusType(CommandType)
<1>1. 0 \in MillisRange
  BY WordSizeAssumption DEF MillisRange
<1>2. ZeroTwist \in Twist /\ ZeroWheels \in WheelSpeeds
  BY DEF ZeroTwist, ZeroWheels, Twist, WheelSpeeds
<1>3. FreshDemand \in DemandType
  BY <1>1, <1>2 DEF FreshDemand, DemandType
<1>4. FreshSnapshot \in SnapshotType
  BY <1>2, BusAssumption DEF FreshSnapshot, SnapshotType
<1>5. FreshGauge \in GaugeType
  BY GaugeAssumption DEF FreshGauge, GaugeType
<1>6. Unarmed \in DeadlineType
  BY <1>1 DEF Unarmed, DeadlineType
<1>7. InitialFaults \subseteq Fault
  BY DEF InitialFaults, Fault
<1>8. EmptyBus \in BusType(CommandType)
  <2>1. <<>> \in Seq(CommandType) /\ Len(<<>>) = 0
    OBVIOUS
  <2>2. EmptyBus \in Buses(CommandType)
    BY <2>1, BusAssumption DEF EmptyBus, Buses
  <2> QED BY <2>1, <2>2, BusAssumption DEF EmptyBus, BusType, NormalCapacity
<1> QED BY <1>1, <1>2, <1>3, <1>4, <1>5, <1>6, <1>7, <1>8

LEMMA TypeInit == Init => TypeOK
<1> SUFFICES ASSUME Init PROVE TypeOK
  OBVIOUS
<1>1. now \in MillisRange
  BY RobotAssumption DEF Init
<1>2. /\ 0 \in 0 .. MaxLines
      /\ 0 \in 0 .. MaxSilence
      /\ NoPress \in NoPress .. 2
  BY RobotAssumption DEF NoPress
<1> QED BY <1>1, <1>2, ZeroTypes DEF Init, TypeOK, Phases

LEMMA TypeBegin == TypeOK /\ Begin => TypeOK'
<1> SUFFICES ASSUME TypeOK, Begin PROVE TypeOK'
  OBVIOUS
<1>1. /\ ControlPeriod \in MillisRange
      /\ TelemetryPeriod \in MillisRange
      /\ CommandTimeout + 1 \in 0 .. MaxSilence
  BY RobotAssumption, InterlockAssumption
<1>2. now \in MillisRange
  BY DEF TypeOK
<1>3. (now - CommandTimeout - 1) % WordSize \in MillisRange
  BY <1>2, InterlockAssumption, WordSizeAssumption DEF MillisRange
<1>4. demand' \in DemandType
  BY <1>3 DEF TypeOK, Begin, StageOff, DemandType
<1>5. control_due' \in DeadlineType /\ telemetry_due' \in DeadlineType
  BY <1>1, <1>2 DEF Begin, StageOff, DeadlineType
<1> QED BY <1>1, <1>2, <1>4, <1>5, ZeroTypes DEF TypeOK, Begin, StageOff, Phases

LEMMA TypeReset == TypeOK /\ WatchdogReset => TypeOK'
<1> SUFFICES ASSUME TypeOK, WatchdogReset PROVE TypeOK'
  OBVIOUS
<1>1. now' \in MillisRange
  BY RobotAssumption DEF WatchdogReset
<1>2. /\ 0 \in 0 .. MaxLines
      /\ 0 \in 0 .. MaxSilence
      /\ NoPress \in NoPress .. 2
  BY RobotAssumption DEF NoPress
<1> QED BY <1>1, <1>2, ZeroTypes DEF TypeOK, WatchdogReset, Phases

\* Nothing becomes older than MaxSilence, because heard is at most silence.
LEMMA TypeTick == TypeOK /\ heard <= silence /\ Tick => TypeOK'
<1> SUFFICES ASSUME TypeOK, heard <= silence, Tick PROVE TypeOK'
  OBVIOUS
<1>1. now' \in MillisRange
  BY LaterType DEF TypeOK, Tick
<1>2. silence' \in 0 .. MaxSilence /\ heard' \in 0 .. MaxSilence
  BY RobotAssumption DEF TypeOK, Tick
<1> QED BY <1>1, <1>2 DEF TypeOK, Tick, control, drive, timers

\* What posting leaves behind is well typed.
LEMMA TypePost ==
    ASSUME TypeOK, NEW c \in CommandType, PostCommand(c)
    PROVE  /\ bus' \in BusType(CommandType)
           /\ evalsSincePress' \in NoPress .. 2
<1>1. bus' \in BusType(CommandType)
  BY PostType DEF TypeOK, PostCommand
<1>2. PressAfter(c) \in NoPress .. 2
  BY DEF PressAfter, TypeOK, NoPress
<1> QED BY <1>1, <1>2 DEF TypeOK, PostCommand

LEMMA TypeIsrPost == TypeOK /\ IsrPost => TypeOK'
<1> SUFFICES ASSUME TypeOK, IsrPost PROVE TypeOK'
  OBVIOUS
<1>1. PICK c \in CommandType : PostCommand(c)
  BY IsrAssumption DEF IsrPost
<1> QED BY <1>1, TypePost DEF TypeOK, IsrPost, time, control, drive, timers

LEMMA TypeBeginStep == TypeOK /\ BeginStep => TypeOK'
  BY DEF TypeOK, BeginStep, Phases, time, control, drive, timers

\* A fresh setpoint is no older than the step that reads it.
LEMMA TypeReceiveLine ==
    TypeOK /\ ElapsedSince(stepNow, now) <= MaxSilence /\ ReceiveLine => TypeOK'
<1> SUFFICES ASSUME TypeOK, ElapsedSince(stepNow, now) <= MaxSilence, ReceiveLine
             PROVE  TypeOK'
  OBVIOUS
<1>1. PICK l \in Lines :
         /\ PostCommand(FromLine(l, stepNow))
         /\ heard' = IF l.kind = "Velocity" THEN ElapsedSince(stepNow, now) ELSE heard
  BY DEF ReceiveLine
<1>2. FromLine(l, stepNow) \in CommandType
  BY RobotAssumption, FromLineType DEF TypeOK
<1>3. ElapsedSince(stepNow, now) \in MillisRange
  BY ElapsedType DEF TypeOK
<1>4. heard' \in 0 .. MaxSilence
  BY <1>1, <1>3, RobotAssumption, WordSizeAssumption DEF TypeOK, MillisRange
<1>5. linesLeft' \in 0 .. MaxLines
  BY RobotAssumption DEF TypeOK, ReceiveLine
<1> QED BY <1>1, <1>2, <1>4, <1>5, TypePost
        DEF TypeOK, ReceiveLine, control, drive, timers

LEMMA TypeGateControl == TypeOK /\ GateControl => TypeOK'
<1> SUFFICES ASSUME TypeOK, GateControl PROVE TypeOK'
  OBVIOUS
<1>1. control_due' \in DeadlineType
  BY ArmPeriodicType DEF TypeOK, GateControl
<1>2. phase' \in Phases
  BY DEF GateControl, Phases
<1> QED BY <1>1, <1>2 DEF TypeOK, GateControl, time, control, drive

LEMMA TypeDrainHigh == TypeOK /\ DrainHigh => TypeOK'
<1> SUFFICES ASSUME TypeOK, DrainHigh PROVE TypeOK'
  OBVIOUS
<1>1. bus.high \in Seq(CommandType) /\ bus.high # <<>> /\ Len(bus.high) <= HighCapacity
  BY DEF TypeOK, BusType, Buses, DrainHigh
<1>2. /\ Head(bus.high) \in CommandType
      /\ Tail(bus.high) \in Seq(CommandType)
      /\ Len(Tail(bus.high)) <= HighCapacity
  BY <1>1, BusAssumption
<1>3. demand' \in DemandType
  BY <1>2, AppliedType DEF TypeOK, DrainHigh
<1>4. bus' \in BusType(CommandType)
  BY <1>2 DEF TypeOK, DrainHigh, BusType, Buses
<1> QED BY <1>3, <1>4 DEF TypeOK, DrainHigh, time, control, drive, timers

LEMMA RestType ==
    ASSUME NEW S, NEW lane \in Seq(S), NEW capacity \in Nat, Len(lane) <= capacity
    PROVE  /\ Rest(lane) \in Seq(S)
           /\ Len(Rest(lane)) <= capacity
           /\ lane # <<>> => Head(lane) \in S
  BY DEF Rest

LEMMA TypeTakeLower == TypeOK /\ TakeLower => TypeOK'
<1> SUFFICES ASSUME TypeOK, TakeLower PROVE TypeOK'
  OBVIOUS
<1>1. /\ bus.normal \in Seq(CommandType) /\ Len(bus.normal) <= NormalCapacity
      /\ bus.low \in Seq(CommandType) /\ Len(bus.low) <= LowCapacity
      /\ NormalCapacity \in Nat /\ LowCapacity \in Nat
  BY BusAssumption DEF TypeOK, BusType, Buses, NormalCapacity
<1>2. /\ Rest(bus.normal) \in Seq(CommandType)
      /\ Len(Rest(bus.normal)) <= NormalCapacity
      /\ bus.normal # <<>> => Head(bus.normal) \in CommandType
      /\ Rest(bus.low) \in Seq(CommandType)
      /\ Len(Rest(bus.low)) <= LowCapacity
      /\ bus.low # <<>> => Head(bus.low) \in CommandType
  BY <1>1, RestType
<1>3. bus' \in BusType(CommandType)
  BY <1>2 DEF TypeOK, TakeLower, BusType, Buses
<1>4. AppliedFirst(demand, bus.normal) \in DemandType
  BY <1>2, AppliedType DEF AppliedFirst, TypeOK
<1>5. demand' \in DemandType
  BY <1>2, <1>4, AppliedType DEF AppliedFirst, TakeLower
<1>6. silence' \in 0 .. MaxSilence
  BY DEF TypeOK, TakeLower
<1> QED BY <1>3, <1>5, <1>6
        DEF TypeOK, TakeLower, Phases, control, drive, timers

\* One step of both ramps, from a twist towards a twist, is a twist.
LEMMA RampType ==
    ASSUME NEW from \in Twist, NEW to \in Twist
    PROVE  [linear  |-> Slew(from.linear, to.linear, LinearAccel, LinearDecel),
            angular |-> Slew(from.angular, to.angular, AngularAccel, AngularDecel)]
             \in Twist
<1>1. /\ Slew(from.linear, to.linear, LinearAccel, LinearDecel) \in Int
      /\ Slew(from.angular, to.angular, AngularAccel, AngularDecel) \in Int
  BY SlewType, RobotAssumption DEF Twist
<1> QED BY <1>1 DEF Twist

\* Both outcomes of run_control leave well-typed outputs.
LEMMA TypeDrive ==
    ASSUME TypeOK, NEW allowed \in Twist, Drive(allowed)
    PROVE  /\ ramp' \in Twist /\ commanded' \in Twist
           /\ estop_engaged' \in BOOLEAN /\ torque' \in BOOLEAN
           /\ wheels' \in WheelSpeeds
<1>1. (IF estop_engaged THEN ZeroTwist ELSE ramp) \in Twist
  BY ZeroTypes DEF TypeOK
<1>2. ramp' \in Twist /\ commanded' \in Twist
  BY <1>1, RampType DEF Drive
<1>3. wheels' \in WheelSpeeds
  BY <1>2, ToWheelsType DEF Drive
<1> QED BY <1>2, <1>3 DEF Drive, TypeOK

LEMMA TypeHalt ==
    ASSUME TypeOK, Halt
    PROVE  /\ ramp' \in Twist /\ commanded' \in Twist
           /\ estop_engaged' \in BOOLEAN /\ torque' \in BOOLEAN
           /\ wheels' \in WheelSpeeds
  BY ZeroTypes DEF Halt, TypeOK

LEMMA TypeRunControl == TypeOK /\ RunControl => TypeOK'
<1> SUFFICES ASSUME TypeOK, RunControl PROVE TypeOK'
  OBVIOUS
<1>1. gauge' \in GaugeType
  BY GaugeUpdateType, RobotAssumption DEF TypeOK, RunControl
<1>2. faults' \subseteq Fault
  BY DEF RunControl, Faults
<1>3. evalsSincePress' \in NoPress .. 2
  BY DEF RunControl, TypeOK, NoPress
<1>4. /\ ramp' \in Twist /\ commanded' \in Twist
      /\ estop_engaged' \in BOOLEAN /\ torque' \in BOOLEAN
      /\ wheels' \in WheelSpeeds
  <2>1. Permit(faults', demand.requested) \in Twist
    BY PermitType DEF TypeOK, DemandType
  <2>2. CASE Drive(Permit(faults', demand.requested))
    BY <2>1, <2>2, TypeDrive
  <2>3. CASE Halt
    BY <2>3, TypeHalt
  <2> QED BY <2>2, <2>3 DEF RunControl
<1> QED BY <1>1, <1>2, <1>3, <1>4 DEF TypeOK, RunControl, Phases, time, timers

LEMMA TypeFinishStep == TypeOK /\ FinishStep => TypeOK'
<1> SUFFICES ASSUME TypeOK, FinishStep PROVE TypeOK'
  OBVIOUS
<1>1. telemetry_due' \in DeadlineType
  BY ArmPeriodicType DEF TypeOK, FinishStep
<1>2. Frame \in SnapshotType
  BY DEF Frame, SnapshotType, TypeOK, DemandType, BusType, Buses
<1>3. snapshot' \in SnapshotType
  BY <1>2 DEF TypeOK, FinishStep
<1> QED BY <1>1, <1>3 DEF TypeOK, FinishStep, Phases, time, control, drive

-----------------------------------------------------------------------------
(* The ages of the setpoints within a step; TypeOK is inductive with them. *)

InStep == phase \in {"link", "drain", "evaluate", "finish"}

AgesOrdered ==
    /\ heard <= silence
    /\ InStep => ElapsedSince(stepNow, now) <= heard

LEMMA AgesStep == TypeOK /\ AgesOrdered /\ [Next]_vars => AgesOrdered'
<1> SUFFICES ASSUME TypeOK, AgesOrdered, [Next]_vars PROVE AgesOrdered'
  OBVIOUS
<1>1. /\ heard \in Nat /\ silence \in Nat
      /\ now \in MillisRange /\ stepNow \in MillisRange
      /\ ElapsedSince(stepNow, now) \in Nat
  BY ElapsedType, RobotAssumption DEF TypeOK, MillisRange
<1>2. CASE Begin
  BY <1>2, InterlockAssumption DEF Begin, StageOff, AgesOrdered, InStep
<1>3. CASE WatchdogReset
  BY <1>3 DEF WatchdogReset, AgesOrdered, InStep
<1>4. CASE Tick
  <2>1. ElapsedSince(stepNow, Later(now, 1)) <= ElapsedSince(stepNow, now) + 1
    BY <1>1, ElapsedTickAtMost
  <2>2. ElapsedSince(stepNow, Later(now, 1)) \in Nat
    BY <1>1, LaterType, ElapsedType DEF MillisRange
  <2> QED BY <1>1, <1>4, <2>1, <2>2 DEF Tick, AgesOrdered, InStep
<1>5. CASE BeginStep
  BY <1>1, <1>5, ElapsedSelf DEF BeginStep, AgesOrdered, InStep, time
<1>6. CASE ReceiveLine
  BY <1>1, <1>6 DEF ReceiveLine, AgesOrdered, InStep
<1>7. CASE TakeLower
  BY <1>1, <1>7 DEF TakeLower, AgesOrdered, InStep
<1>8. CASE IsrPost \/ GateControl \/ DrainHigh \/ RunControl \/ FinishStep \/ UNCHANGED vars
  BY <1>8 DEF IsrPost, GateControl, DrainHigh, RunControl, FinishStep, vars, time,
              AgesOrdered, InStep
<1> QED BY <1>2, <1>3, <1>4, <1>5, <1>6, <1>7, <1>8 DEF Next, Loop

LEMMA TypeStep == TypeOK /\ AgesOrdered /\ [Next]_vars => TypeOK'
<1> SUFFICES ASSUME TypeOK, AgesOrdered, [Next]_vars PROVE TypeOK'
  OBVIOUS
<1>1. CASE ReceiveLine
  <2>1. ElapsedSince(stepNow, now) <= heard /\ heard <= silence
    BY <1>1 DEF AgesOrdered, InStep, ReceiveLine
  <2>2. ElapsedSince(stepNow, now) \in Nat
    BY ElapsedNat DEF TypeOK
  <2>3. heard \in Nat /\ silence \in Nat /\ silence <= MaxSilence /\ MaxSilence \in Nat
    BY RobotAssumption DEF TypeOK
  <2>4. ElapsedSince(stepNow, now) <= MaxSilence
    BY <2>1, <2>2, <2>3
  <2> QED BY <1>1, <2>4, TypeReceiveLine
<1>2. CASE Tick
  BY <1>2, TypeTick DEF AgesOrdered
<1>3. CASE UNCHANGED vars
  <2>1. UNCHANGED <<phase, time, stepNow, linesLeft, bus, demand>>
    BY <1>3 DEF vars
  <2>2. UNCHANGED <<control, timers, snapshot, last_kick, evalsSincePress>>
    BY <1>3 DEF vars
  <2> QED BY <2>1, <2>2 DEF TypeOK, time, control, drive, timers
<1> QED BY <1>1, <1>2, <1>3, TypeBegin, TypeReset, TypeIsrPost, TypeBeginStep,
           TypeGateControl, TypeDrainHigh, TypeTakeLower, TypeRunControl,
           TypeFinishStep DEF Next, Loop

LEMMA TypeInvariant == Spec => [](TypeOK /\ AgesOrdered)
<1>1. Init => TypeOK /\ AgesOrdered
  <2>1. Init => AgesOrdered
    BY DEF Init, AgesOrdered, InStep
  <2> QED BY <2>1, TypeInit
<1>2. (TypeOK /\ AgesOrdered) /\ [Next]_vars => (TypeOK /\ AgesOrdered)'
  BY TypeStep, AgesStep
<1> QED BY <1>1, <1>2, PTL DEF Spec

\* Every variable keeps its type and the lanes their capacities, whatever the
\* loop, the interrupts and the watchdog do (robot.hpp:91-120).
THEOREM TypeCorrect == Spec => []TypeOK
  BY TypeInvariant, PTL

-----------------------------------------------------------------------------
(* Torque, faults, ramps and frames *)

\* The inductive invariant.  Off, the members are as the constructors leave
\* them, while the driver board may still hold torque; the ramps never leave
\* the commanded speed; and a reported loss is one that the bus remembers.
SafetyInv ==
    /\ ~Running => /\ faults = InitialFaults
                   /\ ramp = ZeroTwist
                   /\ commanded = ZeroTwist
                   /\ snapshot = FreshSnapshot
    /\ TorqueMirrorsFaults
    /\ NothingLeftOver
    /\ ramp = commanded
    /\ "SafetyQueueLost" \in faults => bus.highOverflowed
    /\ FrameCoherent

LEMMA InitialFaultsBlock ==
    Blocking(InitialFaults) # {} /\ "SafetyQueueLost" \notin InitialFaults
  BY DEF Blocking, InitialFaults

LEMMA SafetyInit == Init => SafetyInv
  BY InitialFaultsBlock
     DEF Init, SafetyInv, Running, TorqueMirrorsFaults, NothingLeftOver, FrameCoherent,
         FreshSnapshot

\* What the two outcomes of run_control do to the output stage: the flag and
\* the stage change together, once.
LEMMA DriveEffect ==
    ASSUME TypeOK, Running, SafetyInv, NEW allowed, Drive(allowed)
    PROVE  torque' = TRUE /\ estop_engaged' = FALSE /\ ramp' = commanded'
  BY DEF TypeOK, SafetyInv, TorqueMirrorsFaults, Drive

LEMMA HaltEffect ==
    ASSUME TypeOK, Running, SafetyInv, Halt
    PROVE  /\ torque' = FALSE
           /\ estop_engaged' = TRUE
           /\ ramp' = ZeroTwist
           /\ commanded' = ZeroTwist
           /\ wheels' = ZeroWheels
<1>1. estop_engaged \in BOOLEAN /\ torque \in BOOLEAN
  BY DEF TypeOK
<1>2. CASE estop_engaged = TRUE
  BY <1>1, <1>2 DEF SafetyInv, TorqueMirrorsFaults, NothingLeftOver, Halt
<1>3. CASE estop_engaged = FALSE
  BY <1>1, <1>3 DEF Halt
<1> QED BY <1>1, <1>2, <1>3

LEMMA SafetyRunControl == TypeOK /\ SafetyInv /\ RunControl => SafetyInv'
<1> SUFFICES ASSUME TypeOK, SafetyInv, RunControl PROVE SafetyInv'
  OBVIOUS
<1>1. Running /\ Running'
  BY DEF RunControl, Running
<1>2. "SafetyQueueLost" \in faults' => bus'.highOverflowed
  BY DEF RunControl, Faults, SafetyInputsOf
<1>3. FrameCoherent'
  BY DEF SafetyInv, RunControl, FrameCoherent
<1>4. CASE MotionAllowed(faults')
  <2>1. Drive(Permit(faults', demand.requested))
    BY <1>4 DEF RunControl
  <2>2. torque' = TRUE /\ estop_engaged' = FALSE /\ ramp' = commanded'
    BY <1>1, <2>1, DriveEffect
  <2> QED BY <1>1, <1>2, <1>3, <1>4, <2>2
          DEF SafetyInv, TorqueMirrorsFaults, NothingLeftOver, MotionAllowed
<1>5. CASE ~MotionAllowed(faults')
  <2>1. Halt
    BY <1>5 DEF RunControl
  <2>2. /\ torque' = FALSE /\ estop_engaged' = TRUE
        /\ ramp' = ZeroTwist /\ commanded' = ZeroTwist /\ wheels' = ZeroWheels
    BY <1>1, <2>1, HaltEffect
  <2> QED BY <1>1, <1>2, <1>3, <1>5, <2>2
          DEF SafetyInv, TorqueMirrorsFaults, NothingLeftOver, MotionAllowed
<1> QED BY <1>4, <1>5

\* Posting may set the latch and never clears it.
LEMMA LatchSticks ==
    ASSUME TypeOK, NEW c \in CommandType, PostCommand(c)
    PROVE  bus.highOverflowed => bus'.highOverflowed
  BY PostType DEF TypeOK, PostCommand

LEMMA SafetyStep == TypeOK /\ SafetyInv /\ [Next]_vars => SafetyInv'
<1> SUFFICES ASSUME TypeOK, SafetyInv, [Next]_vars PROVE SafetyInv'
  OBVIOUS
<1> USE DEF SafetyInv, Running, TorqueMirrorsFaults, NothingLeftOver, FrameCoherent
<1>1. CASE Begin
  BY <1>1, InitialFaultsBlock DEF Begin, StageOff
<1>2. CASE WatchdogReset
  BY <1>2, InitialFaultsBlock DEF WatchdogReset, FreshSnapshot
<1>3. CASE Tick \/ BeginStep \/ GateControl \/ UNCHANGED vars
  BY <1>3 DEF Tick, BeginStep, GateControl, vars, time, control, drive
<1>4. CASE IsrPost
  <2>1. PICK c \in CommandType : PostCommand(c)
    BY <1>4, IsrAssumption DEF IsrPost
  <2>2. bus.highOverflowed => bus'.highOverflowed
    BY <2>1, LatchSticks
  <2> QED BY <1>4, <2>2 DEF IsrPost, control, drive
<1>5. CASE ReceiveLine
  <2>1. PICK c \in CommandType : PostCommand(c)
    BY <1>5, RobotAssumption, FromLineType DEF ReceiveLine, TypeOK
  <2>2. bus.highOverflowed => bus'.highOverflowed
    BY <2>1, LatchSticks
  <2> QED BY <1>5, <2>2 DEF ReceiveLine, control, drive
<1>6. CASE DrainHigh \/ TakeLower
  <2>1. bus'.highOverflowed = bus.highOverflowed
    BY <1>6 DEF DrainHigh, TakeLower, TypeOK, BusType, Buses
  <2> QED BY <1>6, <2>1 DEF DrainHigh, TakeLower, control, drive
<1>7. CASE FinishStep
  <2>1. \/ snapshot'.faults = faults /\ snapshot'.commanded = commanded
        \/ snapshot' = snapshot
    BY <1>7 DEF FinishStep, Frame
  <2> QED BY <1>7, <2>1 DEF FinishStep, control, drive
<1>8. CASE RunControl
  BY <1>8, SafetyRunControl
<1> QED BY <1>1, <1>2, <1>3, <1>4, <1>5, <1>6, <1>7, <1>8 DEF Next, Loop

LEMMA SafetyInvariant == Spec => [](TypeOK /\ SafetyInv)
<1>1. TypeOK /\ SafetyInv /\ [Next]_vars => SafetyInv'
  BY SafetyStep
<1> QED BY <1>1, SafetyInit, TypeInvariant, PTL DEF Spec

\* estop_engaged_ mirrors the output stage, and torque is off exactly while a
\* blocking fault is reported (robot.cpp:190-220).
THEOREM MirrorsFaults == Spec => []TorqueMirrorsFaults
<1>1. SafetyInv => TorqueMirrorsFaults
  BY DEF SafetyInv
<1> QED BY <1>1, SafetyInvariant, PTL

\* With torque off there is nothing left over to resume (robot.cpp:209-211).
THEOREM NothingToResume == Spec => []NothingLeftOver
<1>1. SafetyInv => NothingLeftOver
  BY DEF SafetyInv
<1> QED BY <1>1, SafetyInvariant, PTL

\* A frame that reports a blocking fault commands no motion
\* (telemetry.hpp:13-19, robot.cpp:301-311).
THEOREM FramesCoherent == Spec => []FrameCoherent
<1>1. SafetyInv => FrameCoherent
  BY DEF SafetyInv
<1> QED BY <1>1, SafetyInvariant, PTL

-----------------------------------------------------------------------------
(* What a step may never do *)

\* The commanded speed and the faults change together, in run_control, or the
\* part restarts.
LEMMA OnlyRunControl ==
    ASSUME Next, ~RunControl, ~WatchdogReset
    PROVE  faults' = faults /\ commanded' = commanded /\ (torque' = TRUE => torque = TRUE)
  BY DEF Next, Loop, Begin, StageOff, Tick, IsrPost, BeginStep, ReceiveLine, GateControl,
         DrainHigh, TakeLower, FinishStep, control, drive

\* No step of a running loop clears the latch.
LEMMA LatchStays ==
    ASSUME TypeOK, Next, Running', bus.highOverflowed
    PROVE  bus'.highOverflowed
<1>1. CASE IsrPost
  <2>1. PICK c \in CommandType : PostCommand(c)
    BY <1>1, IsrAssumption DEF IsrPost
  <2> QED BY <2>1, LatchSticks
<1>2. CASE ReceiveLine
  <2>1. PICK c \in CommandType : PostCommand(c)
    BY <1>2, RobotAssumption, FromLineType DEF ReceiveLine, TypeOK
  <2> QED BY <2>1, LatchSticks
<1>3. CASE DrainHigh \/ TakeLower
  BY <1>3 DEF DrainHigh, TakeLower, TypeOK, BusType, Buses
<1>4. CASE WatchdogReset
  BY <1>4 DEF WatchdogReset, Running
<1>5. CASE Begin \/ Tick \/ BeginStep \/ GateControl \/ RunControl \/ FinishStep
  BY <1>5 DEF Begin, Tick, BeginStep, GateControl, RunControl, FinishStep
<1> QED BY <1>1, <1>2, <1>3, <1>4, <1>5 DEF Next, Loop

\* A refused event sets it.
LEMMA RefusalIsLatched ==
    ASSUME TypeOK, EventRefused
    PROVE  bus'.highOverflowed
<1>1. PICK c : c.priority = "High" /\ PostCommand(c)
  BY DEF EventRefused
<1>2. Len(bus.high) = HighCapacity
  BY DEF EventRefused
<1> QED BY <1>1, <1>2 DEF PostCommand, Post, PostHigh, Refuses, TypeOK, BusType, Buses

\* A refused safety event is on record at once, reported by every evaluation after
\* it and never unreported, until the part restarts (command.cpp:12-22,
\* interlock.cpp:33-35).
THEOREM LossStaysReported == Spec => LossIsFinal
<1> DEFINE Final ==
      Running' =>
        /\ EventRefused \/ bus.highOverflowed => bus'.highOverflowed
        /\ RunControl /\ bus.highOverflowed => "SafetyQueueLost" \in faults'
        /\ "SafetyQueueLost" \in faults => "SafetyQueueLost" \in faults'
        /\ "SafetyQueueLost" \in faults' => ~torque'
<1>1. ASSUME TypeOK, SafetyInv, SafetyInv', [Next]_vars PROVE [Final]_vars
  <2> SUFFICES ASSUME Next, Running'
               PROVE  Final
    BY <1>1
  <2>1. EventRefused \/ bus.highOverflowed => bus'.highOverflowed
    BY <1>1, LatchStays, RefusalIsLatched
  <2>2. RunControl /\ bus.highOverflowed => "SafetyQueueLost" \in faults'
    BY DEF RunControl, Faults, Fault, SafetyInputsOf
  <2>3. ASSUME "SafetyQueueLost" \in faults
        PROVE  "SafetyQueueLost" \in faults'
    <3>1. CASE RunControl
      BY <1>1, <2>2, <2>3, <3>1 DEF SafetyInv, RunControl, Running
    <3>2. CASE ~RunControl
      <4>1. ~WatchdogReset
        BY DEF WatchdogReset, Running
      <4> QED BY <2>3, <3>2, <4>1, OnlyRunControl
    <3> QED BY <3>1, <3>2
  <2>4. ASSUME "SafetyQueueLost" \in faults'
        PROVE  ~torque'
    <3>1. Blocking(faults') # {}
      BY <2>4 DEF Blocking
    <3>2. torque' <=> Blocking(faults') = {}
      BY <1>1 DEF SafetyInv, TorqueMirrorsFaults, Running
    <3> QED BY <3>1, <3>2
  <2> QED BY <2>1, <2>2, <2>3, <2>4
<1> QED BY <1>1, SafetyInvariant, PTL DEF Spec, LossIsFinal

\* From a standstill a ramp takes at most one acceleration step.
LEMMA SlewFromRest ==
    ASSUME NEW target \in Int, NEW accel \in Int, NEW decel \in Int, accel > 0
    PROVE  Magnitude(Slew(0, target, accel, decel)) <= accel
<1>1. StepLimit(0, target, accel, decel) = IF target = 0 THEN decel ELSE accel
  BY DEF StepLimit, Magnitude, CrossesZero
<1> QED BY <1>1 DEF Slew, Magnitude

LEMMA SoftStep ==
    ASSUME LinearAccel > 0, AngularAccel > 0, TypeOK, SafetyInv, Next, ~torque, torque'
    PROVE  /\ RunControl
           /\ Magnitude(commanded'.linear) <= LinearAccel
           /\ Magnitude(commanded'.angular) <= AngularAccel
           /\ wheels' = ToWheels(commanded')
<1>1. RunControl
  <2>1. ~WatchdogReset
    BY DEF WatchdogReset
  <2> QED BY <2>1
          DEF TypeOK, Next, Loop, Begin, StageOff, Tick, IsrPost, BeginStep, ReceiveLine,
              GateControl, DrainHigh, TakeLower, FinishStep, control, drive
<1>2. estop_engaged
  BY <1>1 DEF SafetyInv, TorqueMirrorsFaults, Running, RunControl
<1> DEFINE to == Permit(faults', demand.requested)
<1>3. Drive(to)
  BY <1>1 DEF RunControl, Halt
<1>4. to \in Twist
  BY PermitType DEF TypeOK, DemandType
<1>5. commanded' = [linear  |-> Slew(0, to.linear, LinearAccel, LinearDecel),
                    angular |-> Slew(0, to.angular, AngularAccel, AngularDecel)]
  BY <1>2, <1>3 DEF Drive, ZeroTwist
<1>6. wheels' = ToWheels(commanded')
  BY <1>3 DEF Drive
<1> HIDE DEF to
<1> QED BY <1>1, <1>4, <1>5, <1>6, SlewFromRest, RobotAssumption DEF Twist

\* Motion starts from a standstill: re-enabling torque commands at most one
\* step of an enabled acceleration limit (robot.cpp:194-196).
THEOREM StartsSoftly ==
    ASSUME LinearAccel > 0, AngularAccel > 0
    PROVE  Spec => SoftStart
<1> DEFINE Soft == ~torque /\ torque' =>
                     /\ Magnitude(commanded'.linear) <= LinearAccel
                     /\ Magnitude(commanded'.angular) <= AngularAccel
<1>1. ASSUME TypeOK, SafetyInv, [Next]_vars PROVE [Soft]_vars
  <2> SUFFICES ASSUME Next, ~torque, torque'
               PROVE  /\ Magnitude(commanded'.linear) <= LinearAccel
                      /\ Magnitude(commanded'.angular) <= AngularAccel
    BY <1>1
  <2> QED BY <1>1, SoftStep
<1> QED BY <1>1, SafetyInvariant, PTL DEF Spec, SoftStart

\* A ramp towards zero or beyond does not stay on this side, unless it shrinks.
LEMMA SlewDownwards ==
    ASSUME NEW current \in Int, NEW target \in Int,
           NEW accel \in Int, NEW decel \in Int, target <= 0
    PROVE  LET next == Slew(current, target, accel, decel)
           IN  next <= 0 \/ next < current
  BY DEF Slew, StepLimit, Magnitude, CrossesZero

LEMMA SlewUpwards ==
    ASSUME NEW current \in Int, NEW target \in Int,
           NEW accel \in Int, NEW decel \in Int, target >= 0
    PROVE  LET next == Slew(current, target, accel, decel)
           IN  next >= 0 \/ next > current
  BY DEF Slew, StepLimit, Magnitude, CrossesZero

\* A pressed bumper removes the component of the request that drives into it.
LEMMA PermitAtBumper ==
    ASSUME NEW fs, NEW request \in Twist
    PROVE  /\ "FrontBumper" \in fs => Permit(fs, request).linear <= 0
           /\ "RearBumper" \in fs => Permit(fs, request).linear >= 0
  BY DEF Permit, Twist, ZeroTwist

\* While a bumper is pressed the commanded speed into it shrinks to zero and
\* stays there (interlock.hpp:84-86, robot.cpp:198-204).
THEOREM BumperRespected == Spec => NeverIntoBumper
<1> DEFINE Away == /\ "FrontBumper" \in faults' =>
                        commanded'.linear <= 0 \/ commanded'.linear < commanded.linear
                   /\ "RearBumper" \in faults' =>
                        commanded'.linear >= 0 \/ commanded'.linear > commanded.linear
<1>1. ASSUME TypeOK, SafetyInv, [Next]_vars PROVE [Away]_<<commanded, faults>>
  <2> SUFFICES ASSUME Next, ~UNCHANGED <<commanded, faults>> PROVE Away
    BY <1>1 DEF vars, control, drive
  <2>1. CASE WatchdogReset
    BY <2>1 DEF WatchdogReset, InitialFaults
  <2>2. CASE RunControl
    <3> DEFINE to   == Permit(faults', demand.requested)
               from == IF estop_engaged THEN ZeroTwist ELSE ramp
    <3>1. CASE Halt
      BY <3>1 DEF Halt, ZeroTwist
    <3>2. CASE Drive(to)
      <4>1. from \in Twist /\ to \in Twist
        BY <1>1, PermitType, ZeroTypes DEF TypeOK, DemandType
      <4>2. from = commanded
        <5>1. estop_engaged => commanded = ZeroTwist
          BY <1>1, <2>2
             DEF SafetyInv, TorqueMirrorsFaults, NothingLeftOver, Running, RunControl
        <5> QED BY <1>1, <5>1 DEF SafetyInv
      <4>3. commanded'.linear = Slew(from.linear, to.linear, LinearAccel, LinearDecel)
        BY <3>2 DEF Drive
      <4>4. /\ "FrontBumper" \in faults' => to.linear <= 0
            /\ "RearBumper" \in faults' => to.linear >= 0
        BY <1>1, PermitAtBumper DEF TypeOK, DemandType
      <4> HIDE DEF from, to
      <4>5. from.linear \in Int /\ to.linear \in Int
        BY <4>1 DEF Twist
      <4> QED BY <4>2, <4>3, <4>4, <4>5, SlewDownwards, SlewUpwards, RobotAssumption
    <3> QED BY <2>2, <3>1, <3>2 DEF RunControl
  <2>3. CASE ~WatchdogReset /\ ~RunControl
    BY <2>3, OnlyRunControl
  <2> QED BY <2>1, <2>2, <2>3
<1> QED BY <1>1, SafetyInvariant, PTL DEF Spec, NeverIntoBumper

-----------------------------------------------------------------------------
(* Saturation *)

LEMMA Quotient ==
    ASSUME NEW p \in Nat, NEW den \in Nat \ {0}
    PROVE  /\ p \div den \in Nat
           /\ den * (p \div den) <= p /\ p < den * (p \div den) + den
  OBVIOUS

LEMMA QuotientOfMultiple ==
    ASSUME NEW num \in Nat, NEW den \in Nat \ {0}
    PROVE  (den * num) \div den = num
  OBVIOUS

\* The faster wheel is scaled exactly, the slower one within its rounding.
LEMMA ScaledRemainder ==
    ASSUME NEW x \in Int, NEW num \in Nat, NEW den \in Nat \ {0}
    PROVE  /\ Scaled(x, num, den) \in Int
           /\ -den < x * num - den * Scaled(x, num, den)
           /\ x * num - den * Scaled(x, num, den) < den
<1>1. CASE x < 0
  <2> DEFINE p == -x * num
             q == p \div den
  <2>1. p \in Nat
    BY <1>1
  <2>2. q \in Nat /\ den * q <= p /\ p < den * q + den
    BY <2>1, Quotient
  <2>3. Scaled(x, num, den) = -q
    BY <1>1 DEF Scaled
  <2>4. x * num = -p /\ den * (-q) = -(den * q) /\ den * q \in Int
    BY <2>2
  <2> HIDE DEF p, q
  <2> QED BY <2>1, <2>2, <2>3, <2>4
<1>2. CASE x >= 0
  <2> DEFINE p == x * num
             q == p \div den
  <2>1. p \in Nat
    BY <1>2
  <2>2. q \in Nat /\ den * q <= p /\ p < den * q + den
    BY <2>1, Quotient
  <2>3. Scaled(x, num, den) = q
    BY <1>2 DEF Scaled
  <2>4. den * q \in Int
    BY <2>2
  <2> HIDE DEF q
  <2> QED BY <2>1, <2>2, <2>3, <2>4
<1> QED BY <1>1, <1>2

LEMMA ScaledPeak ==
    ASSUME NEW num \in Nat, NEW den \in Nat \ {0}
    PROVE  Scaled(den, num, den) = num /\ Scaled(-den, num, den) = -num
  BY QuotientOfMultiple DEF Scaled

LEMMA ScaledWithin ==
    ASSUME NEW x \in Int, NEW num \in Nat \ {0}, NEW den \in Nat \ {0},
           -den <= x, x <= den
    PROVE  -num <= Scaled(x, num, den) /\ Scaled(x, num, den) <= num
<1> DEFINE q == Scaled(x, num, den)
<1>1. q \in Int /\ -den < x * num - den * q /\ x * num - den * q < den
  BY ScaledRemainder
<1>2. (den - x) * num \in Nat /\ (den + x) * num \in Nat
  OBVIOUS
<1>3. /\ (den - x) * num = den * num - x * num /\ (den + x) * num = den * num + x * num
      /\ den * num \in Int /\ x * num \in Int
  OBVIOUS
<1> HIDE DEF q
<1>4. den * q < den * num + den /\ -(den * num) - den < den * q /\ den * q \in Int
  <2> DEFINE a == den * num
             b == x * num
             c == den * q
  <2>1. a \in Int /\ b \in Int /\ c \in Int
    BY <1>1
  <2>2. a - b \in Nat /\ a + b \in Nat /\ -den < b - c /\ b - c < den
    BY <1>1, <1>2, <1>3
  <2> HIDE DEF a, b, c
  <2>3. c < a + den /\ -a - den < c
    BY <2>1, <2>2
  <2> QED BY <2>1, <2>3 DEF a, b, c
<1>5. q <= num
  <2> SUFFICES ASSUME q >= num + 1 PROVE FALSE
    BY <1>1
  <2>1. (q - num - 1) * den \in Nat
    BY <1>1
  <2>2. (q - num - 1) * den = den * q - den * num - den
    BY <1>1
  <2> QED BY <1>1, <1>3, <1>4, <2>1, <2>2
<1>6. -num <= q
  <2> SUFFICES ASSUME q <= -num - 1 PROVE FALSE
    BY <1>1
  <2>1. (-num - 1 - q) * den \in Nat
    BY <1>1
  <2>2. (-num - 1 - q) * den = -(den * num) - den - den * q
    BY <1>1
  <2> QED BY <1>1, <1>3, <1>4, <2>1, <2>2
<1> QED BY <1>5, <1>6 DEF q

\* A wheel at its limit, and the other within a peak of the arc asked for.
AtPeak(wa, wb, a, b, num, peak) ==
    /\ wa = num \/ wa = -num
    /\ wa * b - wb * a \in Int
    /\ -peak <= wa * b - wb * a /\ wa * b - wb * a <= peak

LEMMA PeakWheel ==
    ASSUME NEW a \in Int, NEW b \in Int, NEW num \in Nat \ {0}, NEW peak \in Nat \ {0},
           a = peak \/ a = -peak, -peak <= b, b <= peak
    PROVE  AtPeak(Scaled(a, num, peak), Scaled(b, num, peak), a, b, num, peak)
<1> DEFINE wa == Scaled(a, num, peak)
           wb == Scaled(b, num, peak)
           rest == b * num - peak * wb
<1>1. /\ wb \in Int /\ -num <= wb /\ wb <= num
      /\ rest \in Int /\ -peak < rest /\ rest < peak
  <2>1. wb \in Int /\ -peak < rest /\ rest < peak
    BY ScaledRemainder
  <2>2. -num <= wb /\ wb <= num
    BY ScaledWithin
  <2>3. rest \in Int
    BY <2>1
  <2> QED BY <2>1, <2>2, <2>3
<1>2. CASE a = peak
  <2>1. wa = num
    BY <1>2, ScaledPeak
  <2> HIDE DEF wa, wb
  <2>2. wa * b - wb * a = rest
    BY <1>1, <1>2, <2>1
  <2> HIDE DEF rest
  <2>3. AtPeak(wa, wb, a, b, num, peak)
    BY <1>1, <2>1, <2>2 DEF AtPeak
  <2> QED BY <2>3 DEF wa, wb
<1>3. CASE a = -peak
  <2>1. wa = -num
    BY <1>3, ScaledPeak
  <2> HIDE DEF wa, wb
  <2>2. wa * b - wb * a = -rest
    <3>1. (-num) * b = -(b * num) /\ wb * (-peak) = -(peak * wb)
      BY <1>1
    <3>2. b * num \in Int /\ peak * wb \in Int
      BY <1>1
    <3> QED BY <1>3, <2>1, <3>1, <3>2
  <2> HIDE DEF rest
  <2>3. AtPeak(wa, wb, a, b, num, peak)
    BY <1>1, <2>1, <2>2 DEF AtPeak
  <2> QED BY <2>3 DEF wa, wb
<1> QED BY <1>2, <1>3

\* One wheel turns as fast as it can, the other within a peak of the arc.
LEMMA SaturatedArc ==
    ASSUME NEW left \in Int, NEW right \in Int, NEW peak \in Nat \ {0},
           peak = AbsMax(left, right)
    PROVE  LET wl == Scaled(left, MaxWheel, peak)
               wr == Scaled(right, MaxWheel, peak)
           IN  /\ Magnitude(wl * right - wr * left) <= peak
               /\ AbsMax(wl, wr) = MaxWheel
<1> DEFINE wl == Scaled(left, MaxWheel, peak)
           wr == Scaled(right, MaxWheel, peak)
           arc == wl * right - wr * left
<1>1. MaxWheel \in Nat \ {0}
  BY DriveAssumption
<1>2. /\ -peak <= left /\ left <= peak /\ -peak <= right /\ right <= peak
      /\ left = peak \/ left = -peak \/ right = peak \/ right = -peak
  BY DEF AbsMax
<1>3. /\ wl \in Int /\ -MaxWheel <= wl /\ wl <= MaxWheel
      /\ wr \in Int /\ -MaxWheel <= wr /\ wr <= MaxWheel
  BY <1>1, <1>2, ScaledRemainder, ScaledWithin
<1>4. /\ wl = MaxWheel \/ wl = -MaxWheel \/ wr = MaxWheel \/ wr = -MaxWheel
      /\ arc \in Int /\ -peak <= arc /\ arc <= peak
  <2>1. CASE left = peak \/ left = -peak
    <3>1. AtPeak(wl, wr, left, right, MaxWheel, peak)
      BY <1>1, <1>2, <2>1, PeakWheel, Zenon
    <3>2. /\ wl = MaxWheel \/ wl = -MaxWheel
          /\ arc \in Int /\ -peak <= arc /\ arc <= peak
      BY <3>1, Zenon DEF AtPeak
    <3> HIDE DEF wl, wr, arc
    <3> QED BY <3>2
  <2>2. CASE right = peak \/ right = -peak
    <3> DEFINE cra == wr * left - wl * right
    <3>0. AtPeak(wr, wl, right, left, MaxWheel, peak)
      BY <1>1, <1>2, <2>2, PeakWheel, Zenon
    <3>1. /\ wr = MaxWheel \/ wr = -MaxWheel
          /\ cra \in Int /\ -peak <= cra /\ cra <= peak
      BY <3>0, Zenon DEF AtPeak
    <3> HIDE DEF wl, wr
    <3>2. arc = -cra
      <4>1. wr * left \in Int /\ wl * right \in Int
        BY <1>3
      <4> QED BY <4>1
    <3> HIDE DEF arc, cra
    <3> QED BY <3>1, <3>2
  <2> QED BY <1>2, <2>1, <2>2
<1> HIDE DEF wl, wr, arc
<1>5. Magnitude(arc) <= peak
  BY <1>4 DEF Magnitude
<1>6. AbsMax(wl, wr) = MaxWheel
  BY <1>1, <1>3, <1>4 DEF AbsMax
<1> QED BY <1>5, <1>6 DEF wl, wr, arc

\* With torque on the wheels hold what was last commanded.
LEMMA WheelsHold ==
    TypeOK /\ SafetyInv /\ (Running /\ torque => wheels = ToWheels(commanded)) /\ [Next]_vars
      => (Running /\ torque => wheels = ToWheels(commanded))'
<1> SUFFICES ASSUME TypeOK, SafetyInv, [Next]_vars, Running', torque',
                    Running /\ torque => wheels = ToWheels(commanded)
             PROVE  wheels' = ToWheels(commanded')
  OBVIOUS
<1>1. CASE RunControl
  <2>1. Running
    BY <1>1 DEF RunControl, Running
  <2>2. CASE Halt
    BY <2>1, <2>2, HaltEffect
  <2>3. CASE Drive(Permit(faults', demand.requested))
    BY <2>3 DEF Drive
  <2> QED BY <1>1, <2>2, <2>3 DEF RunControl
<1>2. CASE ~RunControl
  <2>1. Running /\ UNCHANGED <<torque, wheels, commanded>>
    BY <1>2 DEF Next, Loop, Begin, StageOff, WatchdogReset, Tick, IsrPost, BeginStep,
                ReceiveLine, GateControl, DrainHigh, TakeLower, FinishStep, control, drive,
                vars, Running
  <2> QED BY <2>1
<1> QED BY <1>1, <1>2

\* The wheels drive the commanded arc, saturated or not, for every track,
\* wheel limit and twist (differential_drive.cpp:18-39, robot.cpp:206).
THEOREM ArcKept == Spec => []ArcSurvives
<1> DEFINE Hold == Running /\ torque => wheels = ToWheels(commanded)
<1>1. Init => Hold
  BY DEF Init, Running
<1>2. TypeOK /\ SafetyInv /\ Hold /\ [Next]_vars => Hold'
  BY WheelsHold
<1>3. ASSUME TypeOK, Hold PROVE ArcSurvives
  <2> DEFINE left  == commanded.linear - commanded.angular * HalfTrack
             right == commanded.linear + commanded.angular * HalfTrack
             peak  == AbsMax(left, right)
  <2> SUFFICES ASSUME Running, torque
               PROVE  /\ Magnitude(wheels.left * right - wheels.right * left) <= peak
                      /\ \/ AbsMax(wheels.left, wheels.right) = MaxWheel
                         \/ wheels = [left |-> left, right |-> right]
    BY DEF ArcSurvives
  <2>1. left \in Int /\ right \in Int /\ wheels = ToWheels(commanded)
    BY <1>3, DriveAssumption DEF TypeOK, Twist
  <2>2. peak \in Nat
    BY <2>1, AbsMaxType
  <2>3. CASE peak > MaxWheel
    <3>1. wheels = [left |-> Scaled(left, MaxWheel, peak),
                    right |-> Scaled(right, MaxWheel, peak)]
      BY <2>1, <2>3 DEF ToWheels
    <3>2. peak \in Nat \ {0}
      BY <2>2, <2>3, DriveAssumption
    <3> HIDE DEF left, right
    <3> QED BY <2>1, <3>1, <3>2, SaturatedArc
  <2>4. CASE ~(peak > MaxWheel)
    <3>1. wheels = [left |-> left, right |-> right]
      BY <2>1, <2>4 DEF ToWheels
    <3> HIDE DEF left, right
    <3>2. left * right - right * left = 0
      BY <2>1
    <3>3. Magnitude(0) = 0
      BY DEF Magnitude
    <3> QED BY <2>2, <3>1, <3>2, <3>3
  <2> QED BY <2>3, <2>4
<1> HIDE DEF Hold
<1>4. Spec => []Hold
  BY <1>1, <1>2, SafetyInvariant, PTL DEF Spec
<1> QED BY <1>3, <1>4, SafetyInvariant, PTL
=============================================================================
