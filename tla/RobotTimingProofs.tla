------------------------- MODULE RobotTimingProofs --------------------------
(***************************************************************************)
(* What the loop does in time: it honours a press within two evaluations,  *)
(* and setpoints that stop arriving cut torque, for every period, timeout  *)
(* and word size that do not let the clock alias.  With the limits of the  *)
(* ramps, that makes it a SafeRobot.                                       *)
(***************************************************************************)
EXTENDS RobotProofs

-----------------------------------------------------------------------------
(* The software e-stop *)

\* In a lane: a press, and what ends one.
IsPress(c)   == c.type = "SetEmergencyStop" /\ c.values[1] # 0
IsRelease(c) == \/ c.type = "SetEmergencyStop" /\ c.values[1] = 0
                \/ c.type = "ClearFaults"

NoRelease(lane) == \A i \in 1 .. Len(lane) : ~IsRelease(lane[i])

\* Emptying the lane ends with a press in force.
EndsPressed(lane) ==
    \E k \in 1 .. Len(lane) :
        IsPress(lane[k]) /\ \A i \in k + 1 .. Len(lane) : ~IsRelease(lane[i])

\* A standing press is in the safety lane, or has been applied, and nothing that
\* ends it follows; an evaluation that comes second sees it applied, for the lane
\* was emptied before; so torque is off from then on.
PressInv ==
    /\ \A i \in 1 .. Len(bus.normal) : bus.normal[i].type = "SetVelocity"
    /\ \A i \in 1 .. Len(bus.low) : bus.low[i].type = "SetLamp"
    /\ evalsSincePress # NoPress =>
          \/ EndsPressed(bus.high)
          \/ demand.estop_requested /\ NoRelease(bus.high)
    /\ phase = "evaluate" /\ evalsSincePress \in 1 .. 2 => demand.estop_requested
    /\ PressHonoured

\* The events of the safety lane, and the shape of the other two.
LEMMA BusFacts ==
    ASSUME TypeOK
    PROVE  /\ bus.high \in Seq(CommandType) /\ Len(bus.high) <= HighCapacity
           /\ bus.normal \in Seq(CommandType) /\ Len(bus.normal) <= 1
           /\ bus.low \in Seq(CommandType) /\ Len(bus.low) <= LowCapacity
           /\ bus = [high |-> bus.high, normal |-> bus.normal, low |-> bus.low,
                     highOverflowed |-> bus.highOverflowed, dropped |-> bus.dropped]
           /\ HighCapacity \in Nat \ {0} /\ LowCapacity \in Nat \ {0}
  BY BusAssumption DEF TypeOK, BusType, Buses, NormalCapacity

\* Behind the last command of a lane.
LEMMA AppendEnds ==
    ASSUME NEW lane \in Seq(CommandType), NEW c \in CommandType
    PROVE  /\ IsPress(c) => EndsPressed(Append(lane, c))
           /\ ~IsRelease(c) /\ EndsPressed(lane) => EndsPressed(Append(lane, c))
           /\ ~IsRelease(c) /\ NoRelease(lane) => NoRelease(Append(lane, c))
<1> DEFINE q == Append(lane, c)
           n == Len(lane)
<1>1. /\ n \in Nat /\ Len(q) = n + 1 /\ q[n + 1] = c
      /\ \A i \in 1 .. n : q[i] = lane[i]
  OBVIOUS
<1> HIDE DEF q
<1>2. ASSUME IsPress(c) PROVE EndsPressed(q)
  <2>1. n + 1 \in 1 .. Len(q) /\ \A i \in n + 2 .. Len(q) : FALSE
    BY <1>1
  <2> QED BY <1>1, <1>2, <2>1 DEF EndsPressed
<1>3. ASSUME ~IsRelease(c), EndsPressed(lane) PROVE EndsPressed(q)
  <2>1. PICK k \in 1 .. n :
           IsPress(lane[k]) /\ \A i \in k + 1 .. n : ~IsRelease(lane[i])
    BY <1>3 DEF EndsPressed
  <2>2. ASSUME NEW i \in k + 1 .. Len(q) PROVE ~IsRelease(q[i])
    <3>1. i = n + 1 \/ (i \in k + 1 .. n /\ i \in 1 .. n)
      BY <1>1
    <3> QED BY <1>1, <1>3, <2>1, <3>1
  <2>3. k \in 1 .. Len(q) /\ q[k] = lane[k]
    BY <1>1
  <2> QED BY <2>1, <2>2, <2>3 DEF EndsPressed
<1>4. ASSUME ~IsRelease(c), NoRelease(lane) PROVE NoRelease(q)
  <2>1. \A i \in 1 .. Len(q) : i = n + 1 \/ i \in 1 .. n
    BY <1>1
  <2> QED BY <1>1, <1>4, <2>1 DEF NoRelease
<1> QED BY <1>2, <1>3, <1>4 DEF q

\* Taking the first command of the safety lane off it, and applying it.
LEMMA TailEnds ==
    ASSUME NEW lane \in Seq(CommandType), lane # <<>>, NEW d \in DemandType,
           EndsPressed(lane) \/ (d.estop_requested /\ NoRelease(lane))
    PROVE  \/ EndsPressed(Tail(lane))
           \/ Applied(d, Head(lane)).estop_requested /\ NoRelease(Tail(lane))
<1> DEFINE q == Tail(lane)
           c == Head(lane)
           n == Len(lane)
<1>1. /\ n \in Nat \ {0} /\ Len(q) = n - 1 /\ c = lane[1]
      /\ \A i \in 1 .. n - 1 : q[i] = lane[i + 1]
  OBVIOUS
<1>2. c \in CommandType
  OBVIOUS
<1>3. IsPress(c) => Applied(d, c).estop_requested
  BY <1>2 DEF IsPress, Applied, DemandType, CommandType
<1>4. ~IsRelease(c) /\ d.estop_requested => Applied(d, c).estop_requested
  BY <1>2 DEF IsRelease, Applied, DemandType, CommandType
<1> HIDE DEF q, c
<1>5. ASSUME EndsPressed(lane)
      PROVE  EndsPressed(q) \/ (IsPress(c) /\ NoRelease(q))
  <2>1. PICK k \in 1 .. n :
           IsPress(lane[k]) /\ \A i \in k + 1 .. n : ~IsRelease(lane[i])
    BY <1>5 DEF EndsPressed
  <2>2. ASSUME NEW i \in k .. n - 1 PROVE ~IsRelease(q[i])
    <3>1. i \in 1 .. n - 1 /\ i + 1 \in k + 1 .. n
      BY <1>1
    <3> QED BY <1>1, <2>1, <3>1
  <2>3. CASE k = 1
    BY <1>1, <2>1, <2>2, <2>3 DEF NoRelease
  <2>4. CASE k # 1
    <3>1. k - 1 \in 1 .. n - 1 /\ (k - 1) + 1 = k
      BY <1>1, <2>4
    <3>2. IsPress(q[k - 1])
      BY <1>1, <2>1, <3>1
    <3>3. \A i \in (k - 1) + 1 .. Len(q) : ~IsRelease(q[i])
      BY <1>1, <2>2, <3>1
    <3> QED BY <1>1, <3>1, <3>2, <3>3 DEF EndsPressed
  <2> QED BY <2>3, <2>4
<1>6. ASSUME NoRelease(lane)
      PROVE  ~IsRelease(c) /\ NoRelease(q)
  <2>1. 1 \in 1 .. n /\ \A i \in 1 .. n - 1 : i + 1 \in 1 .. n
    BY <1>1
  <2> QED BY <1>1, <1>6, <2>1 DEF NoRelease
<1> QED BY <1>3, <1>4, <1>5, <1>6 DEF q, c

\* Setpoints and lamps leave a press as it is.
LEMMA LowerKeepsPress ==
    ASSUME NEW d \in DemandType, NEW lane \in Seq(CommandType),
           \A i \in 1 .. Len(lane) : lane[i].type \in {"SetVelocity", "SetLamp"}
    PROVE  /\ AppliedFirst(d, lane) \in DemandType
           /\ AppliedFirst(d, lane).estop_requested = d.estop_requested
           /\ \A i \in 1 .. Len(Rest(lane)) : \E j \in 1 .. Len(lane) : Rest(lane)[i] = lane[j]
<1>1. CASE lane = <<>>
  BY <1>1 DEF AppliedFirst, Rest
<1>2. CASE lane # <<>>
  <2>1. /\ Head(lane) \in CommandType /\ Head(lane).type \in {"SetVelocity", "SetLamp"}
        /\ Len(Tail(lane)) = Len(lane) - 1 /\ Len(lane) \in Nat
        /\ \A i \in 1 .. Len(Tail(lane)) : Tail(lane)[i] = lane[i + 1]
    <3>1. 1 \in 1 .. Len(lane) /\ Head(lane) = lane[1]
      BY <1>2
    <3> QED BY <1>2, <3>1
  <2>2. Applied(d, Head(lane)) \in DemandType
    BY <2>1, AppliedType
  <2>3. Applied(d, Head(lane)).estop_requested = d.estop_requested
    BY <2>1 DEF Applied, DemandType
  <2>4. \A i \in 1 .. Len(Tail(lane)) : i + 1 \in 1 .. Len(lane)
    BY <2>1
  <2> QED BY <1>2, <2>1, <2>2, <2>3, <2>4 DEF AppliedFirst, Rest
<1> QED BY <1>1, <1>2

\* Commands that arrive without a clear line: each in the lane of its kind.
Laned(c) ==
    /\ c \in CommandType
    /\ c.priority = "Normal" => c.type = "SetVelocity"
    /\ c.priority = "Low" => c.type = "SetLamp"

LEMMA PostNext ==
    ASSUME TypeOK, NEW c, Laned(c), bus' = Post(bus, c)
    PROVE  /\ bus'.high = IF c.priority = "High" /\ Len(bus.high) # HighCapacity
                          THEN Append(bus.high, c) ELSE bus.high
           /\ bus'.normal = IF c.priority = "Normal"
                            THEN Enqueue(bus.normal, NormalCapacity, c) ELSE bus.normal
           /\ bus'.low = IF c.priority = "Low"
                         THEN Enqueue(bus.low, LowCapacity, c) ELSE bus.low
<1>1. c.priority \in {"High", "Normal", "Low"}
  BY DEF Laned, CommandType
<1>2. CASE c.priority = "High"
  BY <1>2, BusFacts DEF Post, PostHigh, Refuses, Enqueue
<1>3. CASE c.priority = "Normal"
  BY <1>3, BusFacts DEF Post, PostNormal
<1>4. CASE c.priority = "Low"
  BY <1>4, BusFacts DEF Post, PostLow
<1> QED BY <1>1, <1>2, <1>3, <1>4

\* A lane of commands of one type stays one.
LEMMA EnqueueKeepsType ==
    ASSUME NEW lane \in Seq(CommandType), NEW capacity \in Nat \ {0}, Len(lane) <= capacity,
           NEW c \in CommandType, \A i \in 1 .. Len(lane) : lane[i].type = c.type
    PROVE  \A i \in 1 .. Len(Enqueue(lane, capacity, c)) :
              Enqueue(lane, capacity, c)[i].type = c.type
<1> DEFINE S == {x \in CommandType : x.type = c.type}
<1>1. lane \in Seq(S) /\ c \in S
  OBVIOUS
<1> HIDE DEF S
<1>2. Enqueue(lane, capacity, c) \in Seq(S)
  BY <1>1, EnqueueType
<1>3. \A i \in 1 .. Len(Enqueue(lane, capacity, c)) : Enqueue(lane, capacity, c)[i] \in S
  BY <1>2
<1> QED BY <1>3 DEF S

LEMMA PressPost ==
    ASSUME TypeOK, PressInv, NEW c, Laned(c), PostCommand(c),
           UNCHANGED <<demand, phase, torque>>
    PROVE  PressInv'
<1>1. c \in CommandType /\ bus' = Post(bus, c) /\ evalsSincePress' = PressAfter(c)
  BY DEF Laned, PostCommand
<1>2. evalsSincePress \in -1 .. 2
  BY DEF TypeOK, NoPress
<1>3. CASE c.priority = "High"
  <2>1. bus'.normal = bus.normal /\ bus'.low = bus.low
    BY <1>1, <1>3, PostNext
  <2>2. ASSUME evalsSincePress' # NoPress
        PROVE  \/ EndsPressed(bus'.high)
               \/ demand.estop_requested /\ NoRelease(bus'.high)
    <3>1. CASE Len(bus.high) = HighCapacity
      <4>1. bus'.high = bus.high
        BY <1>1, <3>1, PostNext
      <4>2. evalsSincePress # NoPress
        BY <1>1, <2>2, <3>1 DEF PressAfter
      <4> QED BY <4>1, <4>2 DEF PressInv
    <3>2. CASE Len(bus.high) # HighCapacity
      <4>1. bus'.high = Append(bus.high, c)
        BY <1>1, <1>3, <3>2, PostNext
      <4>2. Len(bus.high) < HighCapacity
        BY <3>2, BusFacts
      <4>3. ~IsRelease(c) /\ (IsPress(c) \/ evalsSincePress # NoPress)
        BY <1>1, <2>2, <3>2, <4>2 DEF PressAfter, IsRelease, IsPress
      <4> QED BY <1>1, <4>1, <4>3, BusFacts, AppendEnds DEF PressInv
    <3> QED BY <3>1, <3>2
  <2>3. evalsSincePress' \in 1 .. 2 => evalsSincePress' = evalsSincePress
    BY <1>1, <1>2 DEF PressAfter, NoPress
  <2> QED BY <2>1, <2>2, <2>3 DEF PressInv, PressHonoured, Running
<1>4. CASE c.priority \in {"Normal", "Low"}
  <2>1. c.type \in {"SetVelocity", "SetLamp"}
    BY <1>4 DEF Laned
  <2>2. evalsSincePress' = evalsSincePress
    BY <1>1, <2>1 DEF PressAfter
  <2>3. bus'.high = bus.high
    BY <1>1, <1>4, PostNext
  <2>4. \A i \in 1 .. Len(bus'.normal) : bus'.normal[i].type = "SetVelocity"
    <3>1. CASE c.priority = "Normal"
      <4>1. /\ bus'.normal = Enqueue(bus.normal, NormalCapacity, c) /\ c.type = "SetVelocity"
            /\ NormalCapacity \in Nat \ {0} /\ Len(bus.normal) <= NormalCapacity
            /\ bus.normal \in Seq(CommandType)
        BY <1>1, <3>1, PostNext, BusFacts DEF Laned, NormalCapacity
      <4> QED BY <1>1, <4>1, EnqueueKeepsType DEF PressInv
    <3>2. CASE c.priority # "Normal"
      BY <1>1, <3>2, PostNext DEF PressInv
    <3> QED BY <3>1, <3>2
  <2>5. \A i \in 1 .. Len(bus'.low) : bus'.low[i].type = "SetLamp"
    <3>1. CASE c.priority = "Low"
      <4>1. bus'.low = Enqueue(bus.low, LowCapacity, c) /\ c.type = "SetLamp"
        BY <1>1, <3>1, PostNext DEF Laned
      <4> QED BY <1>1, <4>1, EnqueueKeepsType, BusFacts DEF PressInv
    <3>2. CASE c.priority # "Low"
      BY <1>1, <3>2, PostNext DEF PressInv
    <3> QED BY <3>1, <3>2
  <2> QED BY <2>2, <2>3, <2>4, <2>5 DEF PressInv, PressHonoured, Running
<1>5. c.priority \in {"High", "Normal", "Low"}
  BY <1>1 DEF CommandType
<1> QED BY <1>3, <1>4, <1>5

\* What the host and the interrupts may post: no clear lines, for those travel in
\* a lane of their own and overtake or are overtaken (RobotClearRace).
NoClearLines == \A line \in Lines : line.kind # "ClearFaults"

LEMMA LanedCommands ==
    /\ TypeOK /\ NoClearLines => \A line \in Lines : Laned(FromLine(line, stepNow))
    /\ \A c \in IsrEvents : Laned(c)
<1>1. ASSUME TypeOK, NoClearLines, NEW line \in Lines
      PROVE  Laned(FromLine(line, stepNow))
  <2>1. line \in ParsedCommand /\ line.kind # "ClearFaults"
    BY <1>1, RobotAssumption DEF NoClearLines
  <2>2. FromLine(line, stepNow) \in CommandType
    BY <1>1, <2>1, FromLineType DEF TypeOK
  <2> QED BY <2>1, <2>2 DEF Laned, FromLine, ParsedCommand, Command
<1>2. ASSUME NEW c \in IsrEvents PROVE Laned(c)
  BY IsrAssumption DEF Laned
<1> QED BY <1>1, <1>2

\* An evaluation with the e-stop requested cuts torque.
LEMMA RequestCutsTorque ==
    ASSUME TypeOK, SafetyInv, RunControl, demand.estop_requested
    PROVE  torque' = FALSE
<1>1. "EmergencyStop" \in faults'
  BY DEF RunControl, Faults, SafetyInputsOf, Fault
<1>2. Halt
  BY <1>1 DEF RunControl, MotionAllowed, Blocking
<1> QED BY <1>2, HaltEffect DEF RunControl, Running

LEMMA PressInit == Init => PressInv
  BY DEF Init, PressInv, PressHonoured, Running, EmptyBus

LEMMA PressStep ==
    ASSUME NoClearLines
    PROVE  TypeOK /\ SafetyInv /\ PressInv /\ [Next]_vars => PressInv'
<1> SUFFICES ASSUME TypeOK, SafetyInv, PressInv, [Next]_vars
             PROVE  PressInv'
  OBVIOUS
<1> USE DEF PressInv, PressHonoured, Running
<1>1. CASE Begin
  <2>1. demand'.estop_requested = demand.estop_requested
    BY <1>1 DEF Begin, TypeOK, DemandType
  <2> QED BY <1>1, <2>1 DEF Begin, StageOff
<1>2. CASE WatchdogReset
  BY <1>2 DEF WatchdogReset, EmptyBus
<1>3. CASE IsrPost
  <2>1. PICK c : Laned(c) /\ PostCommand(c)
    BY <1>3, LanedCommands DEF IsrPost
  <2> QED BY <1>3, <2>1, PressPost DEF IsrPost, control, drive
<1>4. CASE ReceiveLine
  <2>1. PICK c : Laned(c) /\ PostCommand(c)
    BY <1>4, LanedCommands DEF ReceiveLine
  <2> QED BY <1>4, <2>1, PressPost DEF ReceiveLine, control, drive
<1>5. CASE Tick \/ BeginStep \/ GateControl \/ FinishStep \/ UNCHANGED vars
  <2>1. /\ UNCHANGED <<bus, demand, evalsSincePress, torque>>
        /\ phase' = "evaluate" => phase = "evaluate"
        /\ phase' # "off" => phase # "off"
    BY <1>5 DEF Tick, BeginStep, GateControl, FinishStep, vars, control, drive
  <2> QED BY <2>1
<1>6. CASE DrainHigh
  <2>1. /\ bus.high # <<>> /\ demand' = Applied(demand, Head(bus.high))
        /\ phase = "drain" /\ phase' = phase
        /\ UNCHANGED <<evalsSincePress, torque>>
    BY <1>6 DEF DrainHigh, control, drive
  <2>2. bus'.high = Tail(bus.high) /\ bus'.normal = bus.normal /\ bus'.low = bus.low
    BY <1>6, BusFacts DEF DrainHigh
  <2>3. demand \in DemandType /\ bus.high \in Seq(CommandType)
    BY BusFacts DEF TypeOK
  <2>4. evalsSincePress # NoPress =>
           \/ EndsPressed(bus'.high)
           \/ demand'.estop_requested /\ NoRelease(bus'.high)
    BY <2>1, <2>2, <2>3, TailEnds
  <2> QED BY <2>1, <2>2, <2>4
<1>7. CASE TakeLower
  <2>1. /\ bus.high = <<>> /\ phase = "drain" /\ phase' = "evaluate"
        /\ demand' = AppliedFirst(AppliedFirst(demand, bus.normal), bus.low)
        /\ UNCHANGED <<evalsSincePress, torque>>
    BY <1>7 DEF TakeLower, control, drive
  <2>2. bus'.high = bus.high /\ bus'.normal = Rest(bus.normal) /\ bus'.low = Rest(bus.low)
    BY <1>7, BusFacts DEF TakeLower
  <2>3. demand \in DemandType /\ bus.normal \in Seq(CommandType) /\ bus.low \in Seq(CommandType)
    BY BusFacts DEF TypeOK
  <2>4. /\ AppliedFirst(demand, bus.normal) \in DemandType
        /\ AppliedFirst(demand, bus.normal).estop_requested = demand.estop_requested
        /\ \A i \in 1 .. Len(bus'.normal) : bus'.normal[i].type = "SetVelocity"
    BY <2>2, <2>3, LowerKeepsPress
  <2>5. /\ demand'.estop_requested = demand.estop_requested
        /\ \A i \in 1 .. Len(bus'.low) : bus'.low[i].type = "SetLamp"
    BY <2>1, <2>2, <2>3, <2>4, LowerKeepsPress
  <2>6. ~EndsPressed(bus.high) /\ NoRelease(bus.high)
    BY <2>1 DEF EndsPressed, NoRelease
  <2>7. evalsSincePress # NoPress => demand.estop_requested
    BY <2>6
  <2>8. /\ evalsSincePress' # NoPress =>
             demand'.estop_requested /\ NoRelease(bus'.high)
        /\ evalsSincePress' \in 1 .. 2 => demand'.estop_requested
    BY <2>1, <2>2, <2>4, <2>5, <2>6, <2>7 DEF NoPress
  <2>9. evalsSincePress' = 2 => ~torque'
    BY <2>1
  <2> QED BY <2>4, <2>5, <2>8, <2>9
<1>8. CASE RunControl
  <2>1. /\ phase = "evaluate" /\ phase' = "finish" /\ UNCHANGED <<bus, demand>>
        /\ evalsSincePress \in -1 .. 2
    BY <1>8 DEF RunControl, TypeOK, NoPress
  <2>2. /\ evalsSincePress' # NoPress => evalsSincePress # NoPress
        /\ evalsSincePress' = 2 => evalsSincePress \in 1 .. 2
    BY <1>8, <2>1 DEF RunControl, NoPress
  <2>3. evalsSincePress' = 2 => torque' = FALSE
    BY <1>8, <2>1, <2>2, RequestCutsTorque
  <2> QED BY <2>1, <2>2, <2>3
<1> QED BY <1>1, <1>2, <1>3, <1>4, <1>5, <1>6, <1>7, <1>8 DEF Next, Loop

\* A software e-stop is honoured, for every queue size and period and for interrupts
\* between any two calls of the loop, as long as the host sends no clear lines; the
\* interrupts may post what they like (robot.cpp:89-92, command.cpp:12-30).  What one
\* inside a call may do is the subject of FaithfulOutsideTwoWindows.
THEOREM PressesHonoured == ASSUME NoClearLines PROVE Spec => []PressHonoured
<1>1. PressInv => PressHonoured
  BY DEF PressInv
<1>2. TypeOK /\ SafetyInv /\ PressInv /\ [Next]_vars => PressInv'
  BY PressStep
<1> QED BY <1>1, <1>2, PressInit, SafetyInvariant, PTL DEF Spec

-----------------------------------------------------------------------------
(* The dead man's switch *)

\* The ages the argument is about.
KickAge     == ElapsedSince(last_kick, now)
StepAge     == ElapsedSince(stepNow, now)
EvalAge     == ElapsedSince(lastEval, now)
Lag         == ElapsedSince(control_due.start, now)
SetpointAge == ElapsedSince(demand.last_velocity_ms, now)

Setpoint == {c \in CommandType : c.type = "SetVelocity"}
Event    == CommandType \ Setpoint

\* Setpoints travel in their own lane.
LanesInv ==
    /\ bus.high \in Seq(Event)
    /\ bus.normal \in Seq(Setpoint)
    /\ bus.low \in Seq(Event)

\* The clock values the loop keeps have the ages the ghosts record.
AgesInv ==
    /\ ~Running => bus.normal = <<>>
    /\ Running => SetpointAge = silence
    /\ Running /\ bus.normal # <<>> =>
          ElapsedSince(Head(bus.normal).timestamp, now) = heard

\* The bound the watchdog puts on a step, and the step on the control activity.
ScheduleInv ==
    Running =>
        /\ control_due.period = ControlPeriod
        /\ KickAge <= WatchdogTimeout + 1
        /\ StepAge <= IF InStep THEN KickAge ELSE WatchdogTimeout + KickAge
        /\ Lag <= ControlPeriod - 1 + WatchdogTimeout + KickAge
        /\ EvalAge <= ControlPeriod - 1 + WatchdogTimeout + KickAge
        /\ InStep => StepAge <= Lag
        /\ phase # "link" => Lag <= ControlPeriod - 1 + StepAge
        /\ phase \notin {"drain", "evaluate"} => EvalAge <= Lag

\* Torque was granted by an evaluation that found the setpoint fresh enough.
GrantInv == Running /\ torque => silence <= CommandTimeout + EvalAge

TimingInv == LanesInv /\ AgesInv /\ ScheduleInv /\ GrantInv

Inv == TypeOK /\ AgesOrdered /\ SafetyInv /\ TimingInv

-----------------------------------------------------------------------------
(* The lanes *)

\* A command that is in the lane its type belongs to.
LEMMA LanesPost ==
    ASSUME TypeOK, LanesInv, NEW c \in CommandType, PostCommand(c),
           c.priority = "Normal" <=> c.type = "SetVelocity"
    PROVE  LanesInv'
<1>1. /\ HighCapacity \in Nat \ {0}
      /\ NormalCapacity \in Nat \ {0}
      /\ LowCapacity \in Nat \ {0}
  BY BusAssumption DEF NormalCapacity
<1>2. /\ Len(bus.high) <= HighCapacity
      /\ Len(bus.normal) <= NormalCapacity
      /\ Len(bus.low) <= LowCapacity
      /\ bus = [high |-> bus.high, normal |-> bus.normal, low |-> bus.low,
                highOverflowed |-> bus.highOverflowed, dropped |-> bus.dropped]
  BY DEF TypeOK, BusType, Buses
<1>3. c.priority \in {"High", "Normal", "Low"}
  BY DEF CommandType
<1>4. CASE c.priority = "High"
  <2>1. c \in Event
    BY <1>4 DEF Event, Setpoint
  <2>2. Enqueue(bus.high, HighCapacity, c) \in Seq(Event)
    BY <1>1, <1>2, <2>1, EnqueueType DEF LanesInv
  <2>3. /\ bus'.high \in {bus.high, Enqueue(bus.high, HighCapacity, c)}
        /\ bus'.normal = bus.normal
        /\ bus'.low = bus.low
    BY <1>2, <1>4 DEF PostCommand, Post, PostHigh
  <2> QED BY <2>2, <2>3 DEF LanesInv
<1>5. CASE c.priority = "Normal"
  <2>1. c \in Setpoint
    BY <1>5 DEF Setpoint
  <2>2. Enqueue(bus.normal, NormalCapacity, c) \in Seq(Setpoint)
    BY <1>1, <1>2, <2>1, EnqueueType DEF LanesInv
  <2>3. /\ bus'.high = bus.high
        /\ bus'.normal = Enqueue(bus.normal, NormalCapacity, c)
        /\ bus'.low = bus.low
    BY <1>2, <1>5 DEF PostCommand, Post, PostNormal
  <2> QED BY <2>2, <2>3 DEF LanesInv
<1>6. CASE c.priority = "Low"
  <2>1. c \in Event
    BY <1>6 DEF Event, Setpoint
  <2>2. Enqueue(bus.low, LowCapacity, c) \in Seq(Event)
    BY <1>1, <1>2, <2>1, EnqueueType DEF LanesInv
  <2>3. /\ bus'.high = bus.high
        /\ bus'.normal = bus.normal
        /\ bus'.low = Enqueue(bus.low, LowCapacity, c)
    BY <1>2, <1>6 DEF PostCommand, Post, PostLow
  <2> QED BY <2>2, <2>3 DEF LanesInv
<1> QED BY <1>3, <1>4, <1>5, <1>6

LEMMA FromLineLane ==
    ASSUME NEW l \in ParsedCommand, NEW t
    PROVE  /\ FromLine(l, t).priority = "Normal" <=> FromLine(l, t).type = "SetVelocity"
           /\ FromLine(l, t).type = "SetVelocity" <=> l.kind = "Velocity"
           /\ l.kind = "Velocity" => FromLine(l, t).timestamp = t
  BY DEF FromLine, ParsedCommand, Command

LEMMA LanesStep == TypeOK /\ LanesInv /\ [Next]_vars => LanesInv'
<1> SUFFICES ASSUME TypeOK, LanesInv, [Next]_vars PROVE LanesInv'
  OBVIOUS
<1>1. CASE IsrPost
  <2>1. PICK c \in CommandType :
           PostCommand(c) /\ c.priority = "High" /\ c.type # "SetVelocity"
    BY <1>1, IsrAssumption DEF IsrPost
  <2> QED BY <2>1, LanesPost
<1>2. CASE ReceiveLine
  <2>1. PICK l \in ParsedCommand : PostCommand(FromLine(l, stepNow))
    BY <1>2, RobotAssumption DEF ReceiveLine
  <2>2. FromLine(l, stepNow) \in CommandType
    BY FromLineType DEF TypeOK
  <2> QED BY <2>1, <2>2, FromLineLane, LanesPost
<1>3. CASE DrainHigh
  <2>1. Tail(bus.high) \in Seq(Event)
    BY <1>3 DEF LanesInv, DrainHigh
  <2>2. bus'.high = Tail(bus.high) /\ bus'.normal = bus.normal /\ bus'.low = bus.low
    BY <1>3 DEF DrainHigh, TypeOK, BusType, Buses
  <2> QED BY <2>1, <2>2 DEF LanesInv
<1>4. CASE TakeLower
  <2>1. Rest(bus.normal) \in Seq(Setpoint) /\ Rest(bus.low) \in Seq(Event)
    BY DEF LanesInv, Rest
  <2>2. bus'.high = bus.high /\ bus'.normal = Rest(bus.normal) /\ bus'.low = Rest(bus.low)
    BY <1>4 DEF TakeLower, TypeOK, BusType, Buses
  <2> QED BY <2>1, <2>2 DEF LanesInv
<1>5. CASE WatchdogReset
  BY <1>5 DEF WatchdogReset, LanesInv, EmptyBus
<1>6. CASE bus' = bus
  BY <1>6 DEF LanesInv
<1> QED BY <1>1, <1>2, <1>3, <1>4, <1>5, <1>6
        DEF Next, Loop, Begin, StageOff, Tick, BeginStep, GateControl, RunControl, FinishStep, vars

\* Nothing but a setpoint changes what the loop last heard.
LEMMA EventKeepsAge ==
    ASSUME NEW d \in DemandType, NEW c \in Event
    PROVE  Applied(d, c).last_velocity_ms = d.last_velocity_ms
  BY DEF Applied, Event, Setpoint, DemandType

-----------------------------------------------------------------------------
(* The ages *)

LEMMA NumberFacts ==
    ASSUME TypeOK
    PROVE  /\ ControlPeriod \in Nat \ {0} /\ ControlPeriod \in MillisRange
           /\ WatchdogTimeout \in Nat \ {0}
           /\ CommandTimeout \in Nat
           /\ MaxSilence \in Nat
           /\ WordSize \in Nat \ {0}
           /\ now \in MillisRange /\ stepNow \in MillisRange
           /\ lastEval \in MillisRange /\ last_kick \in MillisRange
           /\ control_due.start \in MillisRange
           /\ demand.last_velocity_ms \in MillisRange
           /\ KickAge \in Nat /\ StepAge \in Nat /\ EvalAge \in Nat
           /\ Lag \in Nat /\ SetpointAge \in Nat
           /\ silence \in Nat /\ heard \in Nat
<1>1. ControlPeriod \in MillisRange \ {0} /\ WatchdogTimeout \in MillisRange \ {0}
  BY RobotAssumption
<1>2. /\ now \in MillisRange /\ stepNow \in MillisRange
      /\ lastEval \in MillisRange /\ last_kick \in MillisRange
      /\ control_due.start \in MillisRange
      /\ demand.last_velocity_ms \in MillisRange
  BY DEF TypeOK, DeadlineType, DemandType
<1>3. /\ KickAge \in MillisRange /\ StepAge \in MillisRange /\ EvalAge \in MillisRange
      /\ Lag \in MillisRange /\ SetpointAge \in MillisRange
  BY <1>2, ElapsedType DEF KickAge, StepAge, EvalAge, Lag, SetpointAge
<1>4. \A x \in MillisRange : x \in Nat
  BY WordSizeAssumption DEF MillisRange
<1>5. silence \in Nat /\ heard \in Nat
  BY RobotAssumption DEF TypeOK
<1> QED BY <1>1, <1>2, <1>3, <1>4, <1>5, InterlockAssumption, RobotAssumption,
           WordSizeAssumption

\* begin() starts with everything due now and the setpoint just expired.
LEMMA TimingBegin ==
    ASSUME Inv, Begin
    PROVE  AgesInv' /\ ScheduleInv' /\ GrantInv'
<1>1. TypeOK' /\ TypeOK
  BY TypeBegin DEF Inv
<1>2. /\ now' = now /\ stepNow' = now /\ lastEval' = now /\ last_kick' = now
      /\ control_due'.start = now /\ control_due'.period = ControlPeriod
      /\ phase' = "idle" /\ torque' = FALSE
      /\ silence' = CommandTimeout + 1
      /\ bus' = bus
  BY DEF Begin, StageOff
<1>3. demand'.last_velocity_ms = (now - CommandTimeout - 1) % WordSize
  BY <1>1 DEF Begin, StageOff, TypeOK, DemandType
<1>4. ElapsedSince(now, now) = 0
  BY <1>1, ElapsedSelf DEF TypeOK
<1>5. ElapsedSince((now - CommandTimeout - 1) % WordSize, now) = CommandTimeout + 1
  BY <1>1, NumberFacts, RobotAssumption DEF ElapsedSince, MillisRange
<1>6. bus.normal = <<>>
  BY DEF Inv, TimingInv, AgesInv, Begin, StageOff, Running
<1>7. AgesInv'
  BY <1>2, <1>3, <1>5, <1>6 DEF AgesInv, SetpointAge, Begin, StageOff
<1>8. ScheduleInv'
  BY <1>1, <1>2, <1>4, NumberFacts
     DEF ScheduleInv, KickAge, StepAge, EvalAge, Lag, InStep
<1> QED BY <1>2, <1>7, <1>8 DEF GrantInv

LEMMA TimingTick ==
    ASSUME Inv, ClockDoesNotAlias, Tick
    PROVE  AgesInv' /\ ScheduleInv' /\ GrantInv'
<1>1. /\ TypeOK /\ Running /\ Running' /\ phase' = phase
      /\ control_due' = control_due /\ demand' = demand /\ bus' = bus
      /\ torque' = torque /\ lastEval' = lastEval /\ last_kick' = last_kick
      /\ stepNow' = stepNow /\ now' = Later(now, 1)
      /\ silence' = silence + 1 /\ heard' = heard + 1 /\ silence < MaxSilence
  BY DEF Inv, Tick, Running, control, drive, timers
<1>2. KickAge <= WatchdogTimeout
  BY <1>1, NumberFacts DEF Tick, Alive, Bites, KickAge, Running
<1>3. /\ ControlPeriod + 2 * WatchdogTimeout + 2 < WordSize
      /\ MaxSilence < WordSize
  BY DEF ClockDoesNotAlias
<1>4. ScheduleInv /\ AgesInv /\ GrantInv /\ LanesInv /\ heard <= silence
  BY DEF Inv, TimingInv, AgesOrdered
<1>5. /\ StepAge <= WatchdogTimeout + KickAge
      /\ Lag <= ControlPeriod - 1 + WatchdogTimeout + KickAge
      /\ EvalAge <= ControlPeriod - 1 + WatchdogTimeout + KickAge
      /\ SetpointAge = silence
  <2>1. /\ StepAge <= IF InStep THEN KickAge ELSE WatchdogTimeout + KickAge
        /\ Lag <= ControlPeriod - 1 + WatchdogTimeout + KickAge
        /\ EvalAge <= ControlPeriod - 1 + WatchdogTimeout + KickAge
        /\ SetpointAge = silence
    BY <1>1, <1>4, Zenon DEF ScheduleInv, AgesInv
  <2>2. KickAge \in Nat /\ WatchdogTimeout \in Nat
    BY <1>1, NumberFacts
  <2>3. StepAge <= WatchdogTimeout + KickAge
    <3>1. CASE InStep
      <4>1. StepAge <= KickAge /\ StepAge \in Nat
        BY <1>1, <2>1, <3>1, NumberFacts
      <4> QED BY <2>2, <4>1
    <3>2. CASE ~InStep
      BY <2>1, <3>2
    <3> QED BY <3>1, <3>2
  <2> QED BY <2>1, <2>3
<1>6. /\ KickAge + 1 < WordSize /\ StepAge + 1 < WordSize /\ EvalAge + 1 < WordSize
      /\ Lag + 1 < WordSize /\ SetpointAge + 1 < WordSize /\ heard + 1 < WordSize
  BY <1>1, <1>2, <1>3, <1>4, <1>5, NumberFacts
<1>7. /\ KickAge' = KickAge + 1
      /\ StepAge' = StepAge + 1
      /\ EvalAge' = EvalAge + 1
      /\ Lag' = Lag + 1
      /\ SetpointAge' = SetpointAge + 1
  BY <1>1, <1>6, NumberFacts, ElapsedTick
     DEF KickAge, StepAge, EvalAge, Lag, SetpointAge
<1>8. ASSUME bus.normal # <<>>
      PROVE  ElapsedSince(Head(bus.normal).timestamp, now') = heard'
  <2>1. Head(bus.normal) \in CommandType
    BY <1>4, <1>8 DEF LanesInv, Setpoint
  <2>2. Head(bus.normal).timestamp \in MillisRange
    BY <2>1 DEF CommandType
  <2>3. ElapsedSince(Head(bus.normal).timestamp, now) = heard
    BY <1>1, <1>4, <1>8 DEF AgesInv
  <2> QED BY <1>1, <1>6, <2>2, <2>3, NumberFacts, ElapsedTick
<1>9. AgesInv'
  BY <1>1, <1>5, <1>7, <1>8 DEF AgesInv
<1>10. ScheduleInv'
  BY <1>1, <1>2, <1>4, <1>7, NumberFacts DEF ScheduleInv, InStep
<1>11. GrantInv'
  BY <1>1, <1>4, <1>7, NumberFacts DEF GrantInv
<1> QED BY <1>9, <1>10, <1>11

LEMMA TimingReset ==
    ASSUME WatchdogReset PROVE AgesInv' /\ ScheduleInv' /\ GrantInv'
  BY DEF WatchdogReset, AgesInv, ScheduleInv, GrantInv, Running, EmptyBus

\* Steps that leave the clock, the schedule and the output stage alone.
LEMMA ScheduleKept ==
    ASSUME ScheduleInv, phase' = phase,
           UNCHANGED <<now, stepNow, lastEval, last_kick, control_due>>
    PROVE  ScheduleInv'
  BY DEF ScheduleInv, Running, InStep, KickAge, StepAge, EvalAge, Lag

LEMMA TimingIsrPost ==
    ASSUME Inv, IsrPost
    PROVE  AgesInv' /\ ScheduleInv' /\ GrantInv'
<1>1. PICK c \in CommandType : PostCommand(c) /\ c.priority = "High"
  BY IsrAssumption DEF IsrPost
<1>2. bus'.normal = bus.normal
  BY <1>1 DEF Inv, TypeOK, BusType, Buses, PostCommand, Post, PostHigh
<1>3. /\ phase' = phase /\ demand' = demand /\ torque' = torque
      /\ UNCHANGED <<now, silence, heard>>
      /\ UNCHANGED <<now, stepNow, lastEval, last_kick, control_due>>
  BY DEF IsrPost, time, control, drive, timers
<1>4. ScheduleInv'
  BY <1>3, ScheduleKept DEF Inv, TimingInv
<1> QED BY <1>2, <1>3, <1>4
        DEF Inv, TimingInv, AgesInv, GrantInv, SetpointAge, EvalAge, Running

\* A queue of one holds the newest value.
LEMMA MailboxHead ==
    ASSUME NEW S, NEW q \in Seq(S), NEW v \in S, Len(q) <= 1
    PROVE  Head(Enqueue(q, NormalCapacity, v)) = v
<1> DEFINE kept == IF Len(q) = NormalCapacity THEN Tail(q) ELSE q
<1>1. kept \in Seq(S) /\ Len(kept) = 0
  <2>1. Len(q) \in Nat
    OBVIOUS
  <2>2. Len(q) = 0 \/ Len(q) = 1
    <3>1. \A n \in Nat : n <= 1 => n = 0 \/ n = 1
      OBVIOUS
    <3> QED BY <2>1, <3>1
  <2>3. CASE Len(q) = 1
    BY <2>3 DEF NormalCapacity
  <2> QED BY <2>2, <2>3 DEF NormalCapacity
<1> HIDE DEF kept
<1>2. Append(kept, v) \in Seq(S) /\ Len(Append(kept, v)) = 1 /\ Append(kept, v)[1] = v
  BY <1>1
<1>3. Head(Append(kept, v)) = Append(kept, v)[1]
  BY <1>2
<1> QED BY <1>2, <1>3 DEF Enqueue, kept

LEMMA TimingReceiveLine ==
    ASSUME Inv, ReceiveLine
    PROVE  AgesInv' /\ ScheduleInv' /\ GrantInv'
<1>1. PICK l \in ParsedCommand :
         /\ PostCommand(FromLine(l, stepNow))
         /\ heard' = IF l.kind = "Velocity" THEN ElapsedSince(stepNow, now) ELSE heard
  BY RobotAssumption DEF ReceiveLine
<1> DEFINE c == FromLine(l, stepNow)
<1>2. c \in CommandType
  BY FromLineType DEF Inv, TypeOK
<1>3. /\ Running /\ Running'
      /\ phase' = phase /\ demand' = demand /\ torque' = torque
      /\ UNCHANGED <<now, silence>>
      /\ UNCHANGED <<now, stepNow, lastEval, last_kick, control_due>>
  BY DEF ReceiveLine, Running, control, drive, timers
<1>4. bus'.normal # <<>> => ElapsedSince(Head(bus'.normal).timestamp, now) = heard'
  <2>1. CASE l.kind = "Velocity"
    <3>1. c.priority = "Normal" /\ c.timestamp = stepNow
      BY <2>1, FromLineLane
    <3>2. bus'.normal = Enqueue(bus.normal, NormalCapacity, c)
      BY <1>1, <3>1 DEF Inv, TypeOK, BusType, Buses, PostCommand, Post, PostNormal
    <3>3. bus.normal \in Seq(CommandType) /\ Len(bus.normal) <= 1
      BY DEF Inv, TypeOK, BusType, Buses, NormalCapacity
    <3>4. Head(Enqueue(bus.normal, NormalCapacity, c)) = c
      BY <1>2, <3>3, MailboxHead
    <3> QED BY <1>1, <2>1, <3>1, <3>2, <3>4
  <2>2. CASE l.kind # "Velocity"
    <3>1. c.priority # "Normal"
      BY <2>2, FromLineLane
    <3>2. c.priority \in {"High", "Low"}
      BY <1>2, <3>1 DEF CommandType
    <3>3. bus'.normal = bus.normal
      BY <1>1, <3>2 DEF Inv, TypeOK, BusType, Buses, PostCommand, Post, PostHigh, PostLow
    <3> QED BY <1>1, <1>3, <2>2, <3>3 DEF Inv, TimingInv, AgesInv
  <2> QED BY <2>1, <2>2
<1>5. ScheduleInv'
  BY <1>3, ScheduleKept DEF Inv, TimingInv
<1> QED BY <1>3, <1>4, <1>5
        DEF Inv, TimingInv, AgesInv, GrantInv, SetpointAge, EvalAge

LEMMA TimingDrainHigh ==
    ASSUME Inv, DrainHigh
    PROVE  AgesInv' /\ ScheduleInv' /\ GrantInv'
<1>1. Head(bus.high) \in Event
  BY DEF Inv, TimingInv, LanesInv, DrainHigh
<1>2. demand'.last_velocity_ms = demand.last_velocity_ms
  BY <1>1, EventKeepsAge DEF Inv, TypeOK, DrainHigh
<1>3. bus'.normal = bus.normal
  BY DEF DrainHigh, Inv, TypeOK, BusType, Buses
<1>4. /\ phase' = phase /\ torque' = torque
      /\ UNCHANGED <<now, silence, heard>>
      /\ UNCHANGED <<now, stepNow, lastEval, last_kick, control_due>>
  BY DEF DrainHigh, time, control, drive, timers
<1>5. ScheduleInv'
  BY <1>4, ScheduleKept DEF Inv, TimingInv
<1> QED BY <1>2, <1>3, <1>4, <1>5
        DEF Inv, TimingInv, AgesInv, GrantInv, SetpointAge, EvalAge, Running

LEMMA TimingTakeLower ==
    ASSUME Inv, TakeLower
    PROVE  AgesInv' /\ ScheduleInv' /\ GrantInv'
<1> DEFINE accepted == bus.normal # <<>> /\ ~Stale(Head(bus.normal).timestamp, stepNow)
           first    == AppliedFirst(demand, bus.normal)
<1>1. /\ phase = "drain" /\ phase' = "evaluate" /\ torque' = torque
      /\ Running /\ Running'
      /\ UNCHANGED <<now, heard, stepNow, lastEval, last_kick, control_due>>
      /\ silence' = IF accepted THEN heard ELSE silence
  BY DEF TakeLower, Running, control, drive, timers
<1>2. bus.normal \in Seq(Setpoint) /\ bus.low \in Seq(Event) /\ demand \in DemandType
  BY DEF Inv, TypeOK, TimingInv, LanesInv
<1>3. bus.normal # <<>> => Head(bus.normal) \in Setpoint
  BY <1>2
<1>4. first \in DemandType
  BY <1>2, <1>3, AppliedType DEF AppliedFirst, Setpoint
<1>5. first.last_velocity_ms = IF accepted THEN Head(bus.normal).timestamp
                               ELSE demand.last_velocity_ms
  BY <1>2, <1>3 DEF AppliedFirst, Applied, Setpoint, DemandType
<1>6. demand'.last_velocity_ms = first.last_velocity_ms
  <2>1. bus.low # <<>> => Head(bus.low) \in Event
    BY <1>2
  <2>2. demand' = AppliedFirst(first, bus.low)
    BY DEF TakeLower
  <2> HIDE DEF first
  <2> QED BY <1>4, <2>1, <2>2, EventKeepsAge DEF AppliedFirst
<1>7. bus'.normal = Rest(bus.normal)
  BY DEF TakeLower, Inv, TypeOK, BusType, Buses
<1>8. bus'.normal = <<>>
  <2>1. Len(bus.normal) <= 1
    BY DEF Inv, TypeOK, BusType, NormalCapacity
  <2> QED BY <1>2, <1>7, <2>1 DEF Rest
<1>9. SetpointAge' = silence'
  BY <1>1, <1>5, <1>6 DEF SetpointAge, Inv, TimingInv, AgesInv
<1>10. ScheduleInv'
  BY <1>1 DEF Inv, TimingInv, ScheduleInv, InStep, KickAge, StepAge, EvalAge, Lag
<1>11. GrantInv'
  <2>1. silence' <= silence
    BY <1>1, NumberFacts DEF Inv, AgesOrdered
  <2>2. silence' \in Nat
    BY <1>1, NumberFacts DEF Inv
  <2>3. EvalAge' = EvalAge
    BY <1>1 DEF EvalAge
  <2> QED BY <1>1, <2>1, <2>2, <2>3, NumberFacts DEF Inv, TimingInv, GrantInv
<1> QED BY <1>1, <1>8, <1>9, <1>10, <1>11 DEF AgesInv

\* step() starts: the age of the step is zero.
LEMMA TimingBeginStep ==
    ASSUME Inv, BeginStep
    PROVE  AgesInv' /\ ScheduleInv' /\ GrantInv'
<1>1. /\ phase = "idle" /\ phase' = "link" /\ stepNow' = now /\ now' = now
      /\ Running /\ Running' /\ InStep' /\ ~InStep
      /\ UNCHANGED <<silence, heard, bus, demand, torque, lastEval, last_kick, control_due>>
  BY DEF BeginStep, Running, InStep, time, control, drive, timers
<1>2. StepAge' = 0
  BY <1>1, NumberFacts, ElapsedSelf DEF StepAge, Inv
<1>3. KickAge' = KickAge /\ EvalAge' = EvalAge /\ Lag' = Lag /\ SetpointAge' = SetpointAge
  BY <1>1 DEF KickAge, EvalAge, Lag, SetpointAge
<1>4. ScheduleInv'
  BY <1>1, <1>2, <1>3, NumberFacts DEF Inv, TimingInv, ScheduleInv
<1> QED BY <1>1, <1>3, <1>4 DEF Inv, TimingInv, AgesInv, GrantInv

\* The gate leaves the schedule less than a period behind the step.
LEMMA TimingGateControl ==
    ASSUME Inv, ClockDoesNotAlias, GateControl
    PROVE  AgesInv' /\ ScheduleInv' /\ GrantInv'
<1> DEFINE late == ElapsedSince(control_due.start, stepNow)
<1>1. /\ phase = "link" /\ Running /\ Running' /\ InStep /\ InStep'
      /\ phase' \in {"drain", "finish"}
      /\ UNCHANGED <<now, stepNow, silence, heard, bus, demand, torque, lastEval, last_kick>>
  BY DEF GateControl, Running, InStep, time, control, drive
<1>2. /\ KickAge' = KickAge /\ EvalAge' = EvalAge
      /\ StepAge' = StepAge /\ SetpointAge' = SetpointAge
  BY <1>1 DEF KickAge, EvalAge, StepAge, SetpointAge
<1>3. /\ control_due.period = ControlPeriod
      /\ KickAge <= WatchdogTimeout
      /\ StepAge <= KickAge
      /\ Lag <= ControlPeriod - 1 + WatchdogTimeout + KickAge
      /\ EvalAge <= ControlPeriod - 1 + WatchdogTimeout + KickAge
      /\ StepAge <= Lag
      /\ EvalAge <= Lag
  BY <1>1, NumberFacts
     DEF Inv, TimingInv, ScheduleInv, GateControl, Alive, Bites, KickAge, Running
<1>4. control_due \in DeadlineType /\ now \in MillisRange /\ stepNow \in MillisRange
  BY DEF Inv, TypeOK
<1>5. CASE Expired(control_due, stepNow)
  <2>1. phase' = "drain" /\ control_due' = ArmPeriodic(control_due, stepNow)
    BY <1>5 DEF GateControl
  <2>2. /\ control_due'.period = ControlPeriod
        /\ ElapsedSince(control_due'.start, stepNow) < ControlPeriod
    BY <1>3, <1>4, <1>5, <2>1, ArmPeriodicLag, RobotAssumption DEF ClockDoesNotAlias
  <2>3. control_due'.start \in MillisRange
    BY <1>4, <2>1, ArmPeriodicType DEF DeadlineType
  <2>4. ElapsedSince(control_due'.start, stepNow) \in Nat
    BY <1>4, <2>3, ElapsedNat
  <2>5. ElapsedSince(control_due'.start, stepNow) + StepAge < WordSize
    BY <1>3, <2>2, <2>4, NumberFacts DEF Inv, ClockDoesNotAlias
  <2>6. Lag' = ElapsedSince(control_due'.start, stepNow) + StepAge
    BY <1>1, <1>4, <2>3, <2>5, ElapsedCompose DEF Lag, StepAge
  <2>7. ScheduleInv'
    BY <1>1, <1>2, <1>3, <2>1, <2>2, <2>4, <2>6, NumberFacts DEF Inv, ScheduleInv
  <2> QED BY <1>1, <1>2, <2>7 DEF Inv, TimingInv, AgesInv, GrantInv
<1>6. CASE ~Expired(control_due, stepNow)
  <2>1. phase' = "finish" /\ control_due' = control_due
    BY <1>6 DEF GateControl
  <2>2. late = Lag - StepAge
    BY <1>3, <1>4, ElapsedBetween DEF Lag, StepAge, DeadlineType
  <2>3. late \in Nat
    BY <1>4, ElapsedNat DEF DeadlineType
  <2>4. late < ControlPeriod
    BY <1>3, <1>6, <2>3, NumberFacts DEF Inv, Expired
  <2>5. Lag' = Lag
    BY <1>1, <2>1 DEF Lag
  <2> HIDE DEF late
  <2>6. ScheduleInv'
    BY <1>1, <1>2, <1>3, <2>1, <2>2, <2>3, <2>4, <2>5, NumberFacts DEF Inv, ScheduleInv
  <2> QED BY <1>1, <1>2, <2>6 DEF Inv, TimingInv, AgesInv, GrantInv
<1> QED BY <1>5, <1>6

\* Torque is granted only on a setpoint that the step finds fresh.
LEMMA TimingRunControl ==
    ASSUME Inv, RunControl
    PROVE  AgesInv' /\ ScheduleInv' /\ GrantInv'
<1>1. /\ phase = "evaluate" /\ phase' = "finish" /\ Running /\ Running' /\ InStep /\ InStep'
      /\ lastEval' = stepNow
      /\ UNCHANGED <<now, stepNow, silence, heard, bus, demand, last_kick, control_due>>
  BY DEF RunControl, Running, InStep, time, timers
<1>2. /\ KickAge' = KickAge /\ Lag' = Lag /\ EvalAge' = StepAge
      /\ StepAge' = StepAge /\ SetpointAge' = SetpointAge
  BY <1>1 DEF KickAge, EvalAge, StepAge, SetpointAge, Lag
<1>3. ScheduleInv'
  BY <1>1, <1>2, NumberFacts DEF Inv, TimingInv, ScheduleInv
<1>4. AgesInv'
  BY <1>1, <1>2 DEF Inv, TimingInv, AgesInv
<1>5. ASSUME torque' PROVE silence <= CommandTimeout + StepAge
  <2>1. "CommandStale" \notin faults'
    <3>1. Blocking(faults') = {}
      BY <1>1, <1>5, SafetyRunControl DEF Inv, SafetyInv, TorqueMirrorsFaults
    <3> QED BY <3>1 DEF Blocking
  <2>2. ~Stale(demand.last_velocity_ms, stepNow)
    BY <2>1 DEF RunControl, Faults, Fault, SafetyInputsOf
  <2>3. /\ SetpointAge = silence /\ StepAge <= silence
    BY <1>1, NumberFacts DEF Inv, TimingInv, AgesInv, AgesOrdered, StepAge
  <2>4. ElapsedSince(demand.last_velocity_ms, stepNow) = silence - StepAge
    BY <2>3, ElapsedBetween, NumberFacts DEF Inv, SetpointAge, StepAge
  <2>5. ~(silence - StepAge > CommandTimeout)
    BY <2>2, <2>4 DEF Stale
  <2> QED BY <2>5, NumberFacts DEF Inv
<1> QED BY <1>1, <1>2, <1>3, <1>4, <1>5 DEF GrantInv

\* The kick ends a step that took no longer than the watchdog allows.
LEMMA TimingFinishStep ==
    ASSUME Inv, FinishStep
    PROVE  AgesInv' /\ ScheduleInv' /\ GrantInv'
<1>1. /\ phase = "finish" /\ phase' = "idle" /\ Running /\ Running' /\ InStep /\ ~InStep'
      /\ last_kick' = now
      /\ UNCHANGED <<now, stepNow, silence, heard, bus, demand, torque, lastEval, control_due>>
  BY DEF FinishStep, Running, InStep, time, control, drive
<1>2. /\ KickAge' = 0 /\ Lag' = Lag /\ EvalAge' = EvalAge
      /\ StepAge' = StepAge /\ SetpointAge' = SetpointAge
  BY <1>1, NumberFacts, ElapsedSelf
     DEF Inv, KickAge, EvalAge, StepAge, SetpointAge, Lag
<1>3. KickAge <= WatchdogTimeout
  BY NumberFacts DEF Inv, FinishStep, Alive, Bites, KickAge
<1>4. /\ control_due.period = ControlPeriod
      /\ StepAge <= KickAge
      /\ Lag <= ControlPeriod - 1 + StepAge
      /\ EvalAge <= Lag
  BY <1>1, NumberFacts DEF Inv, TimingInv, ScheduleInv
<1>5. ScheduleInv'
  BY <1>1, <1>2, <1>3, <1>4, NumberFacts DEF Inv, ScheduleInv
<1> QED BY <1>1, <1>2, <1>5 DEF Inv, TimingInv, AgesInv, GrantInv

-----------------------------------------------------------------------------
LEMMA TimingStep == Inv /\ ClockDoesNotAlias /\ [Next]_vars => TimingInv'
<1> SUFFICES ASSUME Inv, ClockDoesNotAlias, [Next]_vars PROVE TimingInv'
  OBVIOUS
<1>1. LanesInv'
  BY LanesStep DEF Inv, TimingInv
<1>2. CASE UNCHANGED vars
  BY <1>2 DEF Inv, TimingInv, LanesInv, AgesInv, ScheduleInv, GrantInv, vars, time,
              control, drive, timers, Running, InStep,
              KickAge, StepAge, EvalAge, Lag, SetpointAge
<1>3. CASE Next
  BY <1>1, <1>3, TimingBegin, TimingReset, TimingTick, TimingIsrPost, TimingBeginStep,
     TimingReceiveLine, TimingGateControl, TimingDrainHigh, TimingTakeLower,
     TimingRunControl, TimingFinishStep DEF Next, Loop, TimingInv
<1> QED BY <1>2, <1>3

LEMMA TimingInit == Init => TimingInv
<1> SUFFICES ASSUME Init PROVE TimingInv
  OBVIOUS
<1>1. <<>> \in Seq(Event) /\ <<>> \in Seq(Setpoint)
  OBVIOUS
<1> QED BY <1>1 DEF Init, TimingInv, LanesInv, AgesInv, ScheduleInv, GrantInv, Running,
                    EmptyBus

LEMMA TimingInvariant == ASSUME ClockDoesNotAlias PROVE Spec => []Inv
<1>1. Init => Inv
  BY TypeInit, SafetyInit, TimingInit DEF Inv, Init, AgesOrdered, InStep
<1>2. Inv /\ [Next]_vars => Inv'
  BY TypeStep, AgesStep, SafetyStep, TimingStep DEF Inv
<1> QED BY <1>1, <1>2, PTL DEF Spec

\* While the clock does not alias, torque is on only while setpoints arrive: the
\* newest one received is never older than the timeout, a control period and two
\* watchdog intervals, whenever the loop stalls and however the clock wraps
\* (interlock.hpp:93-97, robot.hpp:41-44).
THEOREM DeadMan == ASSUME ClockDoesNotAlias PROVE Spec => []DeadMansSwitch
<1>1. Inv => DeadMansSwitch
  <2> SUFFICES ASSUME Inv, Running, torque
               PROVE  heard <= CommandTimeout + ControlPeriod + 2 * WatchdogTimeout
    BY DEF DeadMansSwitch
  <2>1. heard <= silence /\ silence <= CommandTimeout + EvalAge
    BY DEF Inv, AgesOrdered, TimingInv, GrantInv
  <2>2. /\ EvalAge <= ControlPeriod - 1 + WatchdogTimeout + KickAge
        /\ KickAge <= WatchdogTimeout + 1
    BY DEF Inv, TimingInv, ScheduleInv
  <2> QED BY <2>1, <2>2, NumberFacts DEF Inv
<1> QED BY <1>1, TimingInvariant, PTL

-----------------------------------------------------------------------------
(* The refinement *)

Limit      == CommandTimeout + ControlPeriod + 2 * WatchdogTimeout
FirstSpeed == LinearAccel + HalfTrack * AngularAccel

-----------------------------------------------------------------------------
(* Wheel speeds of a small twist *)

LEMMA ProductBound ==
    ASSUME NEW x \in Int, NEW bound \in Nat, NEW h \in Nat, Magnitude(x) <= bound
    PROVE  /\ x * h \in Int /\ h * bound \in Nat
           /\ -(h * bound) <= x * h /\ x * h <= h * bound
<1>1. (bound - x) \in Nat /\ (bound + x) \in Nat
  BY DEF Magnitude
<1>2. (bound - x) * h \in Nat /\ (bound + x) * h \in Nat
  BY <1>1
<1>3. (bound - x) * h = h * bound - x * h /\ (bound + x) * h = h * bound + x * h
  OBVIOUS
<1>4. x * h \in Int /\ h * bound \in Nat
  OBVIOUS
<1> DEFINE p == x * h
           q == h * bound
<1>5. q - p \in Nat /\ q + p \in Nat /\ p \in Int /\ q \in Nat
  BY <1>2, <1>3, <1>4
<1> HIDE DEF p, q
<1>6. -q <= p /\ p <= q
  BY <1>5
<1> QED BY <1>4, <1>6 DEF p, q

LEMMA QuotientBound ==
    ASSUME NEW x \in Nat, NEW num \in Nat, NEW den \in Nat \ {0}, num <= den
    PROVE  (x * num) \div den \in Nat /\ (x * num) \div den <= x
<1> DEFINE p == x * num
           q == p \div den
<1>1. p \in Nat
  OBVIOUS
<1>2. q \in Nat /\ q * den <= p
  BY <1>1
<1>3. p <= x * den
  <2>1. x * (den - num) \in Nat
    OBVIOUS
  <2> QED BY <2>1
<1>4. q <= x
  <2> SUFFICES ASSUME q >= x + 1 PROVE FALSE
    BY <1>2
  <2>1. (q - x - 1) * den \in Nat
    BY <1>2
  <2>2. (q - x - 1) * den = q * den - x * den - den
    BY <1>2
  <2> QED BY <1>1, <1>2, <1>3, <2>1, <2>2
<1> QED BY <1>2, <1>4

LEMMA ScaledBound ==
    ASSUME NEW x \in Int, NEW num \in Nat, NEW den \in Nat \ {0}, num <= den,
           NEW bound \in Nat, -bound <= x, x <= bound
    PROVE  Scaled(x, num, den) \in -bound .. bound
<1>1. CASE x < 0
  <2>1. -x \in Nat
    BY <1>1
  <2> DEFINE q == (-x * num) \div den
  <2>2. q \in Nat /\ q <= -x
    BY <2>1, QuotientBound
  <2>3. Scaled(x, num, den) = -q
    BY <1>1 DEF Scaled
  <2> HIDE DEF q
  <2> QED BY <2>2, <2>3
<1>2. CASE ~(x < 0)
  <2>1. x \in Nat
    BY <1>2
  <2> DEFINE q == (x * num) \div den
  <2>2. q \in Nat /\ q <= x
    BY <2>1, QuotientBound
  <2>3. Scaled(x, num, den) = q
    BY <1>2 DEF Scaled
  <2> HIDE DEF q
  <2> QED BY <2>2, <2>3
<1> QED BY <1>1, <1>2

LEMMA SlowTwist ==
    ASSUME LinearAccel > 0, AngularAccel > 0, NEW twist \in Twist,
           Magnitude(twist.linear) <= LinearAccel, Magnitude(twist.angular) <= AngularAccel
    PROVE  ToWheels(twist) \in [left : -FirstSpeed .. FirstSpeed,
                                right : -FirstSpeed .. FirstSpeed]
<1> DEFINE differential == twist.angular * HalfTrack
           left  == twist.linear - differential
           right == twist.linear + differential
           peak  == AbsMax(left, right)
<1>1. /\ LinearAccel \in Nat /\ AngularAccel \in Nat /\ HalfTrack \in Nat /\ MaxWheel \in Nat
      /\ twist.linear \in Int /\ twist.angular \in Int
  BY RobotAssumption, DriveAssumption DEF Twist
<1>2. /\ differential \in Int /\ HalfTrack * AngularAccel \in Nat
      /\ -(HalfTrack * AngularAccel) <= differential
      /\ differential <= HalfTrack * AngularAccel
  BY <1>1, ProductBound
<1>3. -LinearAccel <= twist.linear /\ twist.linear <= LinearAccel
  BY <1>1 DEF Magnitude
<1>4. /\ FirstSpeed \in Nat
      /\ left \in -FirstSpeed .. FirstSpeed /\ right \in -FirstSpeed .. FirstSpeed
  <2> DEFINE turn == HalfTrack * AngularAccel
  <2>1. FirstSpeed = LinearAccel + turn
    BY DEF FirstSpeed
  <2>2. turn \in Nat /\ -turn <= differential /\ differential <= turn
    BY <1>2
  <2> HIDE DEF turn, differential
  <2> QED BY <1>1, <1>2, <1>3, <2>1, <2>2
<1>5. CASE peak > MaxWheel
  <2>1. peak \in Nat \ {0} /\ MaxWheel <= peak
    <3>1. left \in Int /\ right \in Int
      BY <1>4
    <3> HIDE DEF left, right
    <3>2. peak \in Nat
      BY <3>1, AbsMaxType
    <3> HIDE DEF peak
    <3> QED BY <1>1, <1>5, <3>2
  <2>2. /\ Scaled(left, MaxWheel, peak) \in -FirstSpeed .. FirstSpeed
        /\ Scaled(right, MaxWheel, peak) \in -FirstSpeed .. FirstSpeed
    <3>1. /\ left \in Int /\ -FirstSpeed <= left /\ left <= FirstSpeed
          /\ right \in Int /\ -FirstSpeed <= right /\ right <= FirstSpeed
          /\ FirstSpeed \in Nat /\ MaxWheel \in Nat
      BY <1>1, <1>4
    <3> HIDE DEF left, right, peak
    <3> QED BY <2>1, <3>1, ScaledBound
  <2>3. ToWheels(twist) = [left |-> Scaled(left, MaxWheel, peak),
                           right |-> Scaled(right, MaxWheel, peak)]
    BY <1>5 DEF ToWheels
  <2> QED BY <2>2, <2>3
<1>6. CASE ~(peak > MaxWheel)
  <2>1. ToWheels(twist) = [left |-> left, right |-> right]
    BY <1>6 DEF ToWheels
  <2> QED BY <1>4, <2>1
<1> QED BY <1>5, <1>6
-----------------------------------------------------------------------------
(* The steps *)

\* The steps in between do not touch what SafeRobot sees.
LEMMA QuietStep ==
    ASSUME \/ IsrPost \/ BeginStep \/ GateControl \/ DrainHigh \/ TakeLower \/ FinishStep
    PROVE  UNCHANGED <<Running, torque, wheels, heard>>
  BY DEF IsrPost, BeginStep, GateControl, DrainHigh, TakeLower, FinishStep,
         Running, time, control, drive

\* A setpoint is as old as the step that reads it, at most.
LEMMA HearStep ==
    ASSUME Inv, ReceiveLine
    PROVE  Safe!Hear \/ UNCHANGED <<Running, torque, wheels, heard>>
<1>1. /\ Running /\ Running' /\ UNCHANGED <<torque, wheels>>
      /\ heard' = heard \/ heard' = StepAge
  BY DEF ReceiveLine, Running, control, drive, StepAge
<1>2. StepAge \in Nat /\ StepAge <= WatchdogTimeout + 1
  BY NumberFacts, ElapsedType DEF Inv, TimingInv, ScheduleInv, ReceiveLine, InStep, Running,
     StepAge
<1>3. StepAge \in 0 .. Limit
  BY <1>2, NumberFacts DEF Inv, Limit
<1> QED BY <1>1, <1>3 DEF Safe!Hear, Limit

LEMMA WaitStep ==
    ASSUME DeadMansSwitch', Tick
    PROVE  Safe!Wait
  BY DEF DeadMansSwitch, Tick, Safe!Wait, Running, control, drive

LEMMA StartStep == ASSUME TypeOK, Begin PROVE Safe!Start
  BY InterlockAssumption DEF TypeOK, Begin, StageOff, Safe!Start, Running, ZeroWheels,
                             Safe!ZeroWheels

LEMMA RestartStep == ASSUME WatchdogReset PROVE Safe!Restart
  BY DEF WatchdogReset, Safe!Restart, Running

\* run_control() drives on, re-arms from a standstill, or cuts torque.
LEMMA ControlStep ==
    ASSUME LinearAccel > 0, AngularAccel > 0,
           Inv, TypeOK', DeadMansSwitch', RunControl
    PROVE  Safe!Enable \/ Safe!Move \/ Safe!Cut
<1>1. Running /\ Running' /\ heard' = heard
  BY DEF RunControl, Running, time
<1>2. torque \in BOOLEAN /\ wheels' \in WheelSpeeds /\ commanded' \in Twist
  BY DEF Inv, TypeOK
<1>3. CASE Halt
  <2>1. ~torque' /\ wheels' = ZeroWheels
    BY <1>1, <1>3, HaltEffect DEF Inv
  <2> QED BY <1>1, <2>1 DEF Safe!Cut, ZeroWheels, Safe!ZeroWheels
<1> DEFINE to == Permit(faults', demand.requested)
<1>4. CASE Drive(to)
  <2>1. torque'
    BY <1>1, <1>4, DriveEffect DEF Inv
  <2>2. CASE torque
    BY <1>1, <1>2, <2>1, <2>2 DEF Safe!Move, WheelSpeeds, Safe!WheelSpeeds
  <2>3. CASE ~torque
    <3>1. /\ Magnitude(commanded'.linear) <= LinearAccel
          /\ Magnitude(commanded'.angular) <= AngularAccel
          /\ wheels' = ToWheels(commanded')
      BY <2>1, <2>3, SoftStep DEF Inv, Next, Loop
    <3>2. wheels' \in Safe!SlowWheels
      BY <1>2, <3>1, SlowTwist DEF Safe!SlowWheels, FirstSpeed
    <3>3. heard <= Limit
      BY <1>1, <2>1 DEF DeadMansSwitch, Limit
    <3> QED BY <1>1, <2>1, <2>3, <3>2, <3>3 DEF Safe!Enable, Limit
  <2> QED BY <1>2, <2>2, <2>3
<1> QED BY <1>3, <1>4 DEF RunControl

\* The whole of the loop, the clock, the interrupts and the watchdog do to torque
\* and wheels only what SafeRobot allows, resets included (robot.cpp:20-110,
\* 169-225).
THEOREM RobotIsSafe ==
    ASSUME LinearAccel > 0, AngularAccel > 0, ClockDoesNotAlias
    PROVE  Spec => ImplementsSafeRobot
<1>1. Init => Safe!Init
  BY DEF Init, Safe!Init, Running, ZeroWheels, Safe!ZeroWheels
<1>2. ASSUME Inv, TypeOK', DeadMansSwitch', [Next]_vars
      PROVE  [Safe!Next]_(Safe!vars)
  <2>1. UNCHANGED vars => UNCHANGED Safe!vars
    BY DEF vars, Safe!vars, Running, time, control, drive
  <2>2. UNCHANGED <<Running, torque, wheels, heard>> => UNCHANGED Safe!vars
    BY DEF Safe!vars
  <2> QED BY <1>2, <2>1, <2>2, QuietStep, HearStep, WaitStep, StartStep, RestartStep,
             ControlStep
          DEF Next, Loop, Safe!Next, Inv
<1>3. Spec => []Inv /\ []TypeOK /\ []DeadMansSwitch
  BY TimingInvariant, TypeCorrect, DeadMan
<1> QED BY <1>1, <1>2, <1>3, PTL DEF Spec, ImplementsSafeRobot, Safe!Spec
=============================================================================
