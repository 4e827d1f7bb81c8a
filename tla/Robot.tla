------------------------------- MODULE Robot --------------------------------
(***************************************************************************)
(* auk::app::Robot: the cooperative loop of robot.cpp on its board.        *)
(*                                                                         *)
(* One iteration of step() is the sequence of actions                      *)
(*                                                                         *)
(*   BeginStep  ReceiveLine*  GateControl                                  *)
(*       [ DrainHigh*  TakeLower  RunControl ]  FinishStep                 *)
(*                                                                         *)
(* between any two of which the clock may tick, an interrupt may post to   *)
(* the safety lane and the watchdog may reset the part.  The step works    *)
(* with the clock value it read at its start (stepNow), as the code does.  *)
(*                                                                         *)
(* Interrupts strike between two of the loop's calls of post() and take(), *)
(* never inside one: the platform is taken to mask them around the two     *)
(* windows of RingBufferIsr, outside which a call is as good as one step.  *)
(*                                                                         *)
(* The board is the environment: RunControl reads inputs, link state and   *)
(* battery at the moment it runs, the link delivers any lines, the clock   *)
(* and the watchdog run by themselves.                                     *)
(***************************************************************************)
EXTENDS CommandBus, Interlock, SlewLimiter, DifferentialDrive, BatteryGauge

CONSTANTS
    ControlPeriod, TelemetryPeriod, WatchdogTimeout,    \* RobotConfig
    LinearAccel, LinearDecel, AngularAccel, AngularDecel,
    Lines,         \* the parsed lines the link delivers
    MaxLines,      \* bound: lines in one chunk
    IsrEvents,     \* the commands interrupts post
    Panel,         \* the input panel readings that occur
    LinkStates,    \* the readings of Link::is_up that occur
    SocReadings,   \* the charge readings that occur
    BootTimes,     \* the clock readings at boot that occur
    MaxSilence     \* bound: true age of the accepted setpoint

DigitalInputs == [estop_asserted : BOOLEAN, front_bumper_pressed : BOOLEAN,
                  rear_bumper_pressed : BOOLEAN]

\* What parse() accepts; a line it rejects posts nothing and is no line here.
ParsedCommand == [kind : {"Velocity", "Lamp", "EmergencyStop", "ClearFaults"},
                  args : Int \X Int]

ASSUME RobotAssumption ==
    /\ {ControlPeriod, TelemetryPeriod, WatchdogTimeout} \subseteq MillisRange \ {0}
    /\ {LinearAccel, LinearDecel, AngularAccel, AngularDecel} \subseteq Int
    /\ Lines \subseteq ParsedCommand
    /\ MaxLines \in Nat
    /\ Panel \subseteq DigitalInputs
    /\ LinkStates \subseteq BOOLEAN
    /\ SocReadings \subseteq 0 .. FullSoc
    /\ BootTimes \subseteq MillisRange
    /\ MaxSilence \in Nat
    /\ CommandTimeout < MaxSilence
    /\ CommandTimeout + 1 < WordSize

Twist == [linear : Int, angular : Int]

\* Only SetVelocity reads its timestamp (robot.cpp:122), so the others have 0.
Command(type, priority, timestamp, values) ==
    [type |-> type, priority |-> priority, timestamp |-> timestamp, values |-> values]

CommandType ==
    [type : {"SetVelocity", "SetLamp", "SetEmergencyStop", "BumperChanged",
             "LinkStateChanged", "ClearFaults"},
     priority : {"High", "Normal", "Low"}, timestamp : MillisRange, values : Int \X Int]

\* Interrupts report events; setpoints come over the link.
ASSUME IsrAssumption ==
    IsrEvents \subseteq {c \in CommandType : c.priority = "High" /\ c.type # "SetVelocity"}

VARIABLES
    phase,          \* where the loop is; "off" before begin() and after a reset
    now,            \* Clock::now_ms()
    stepNow,        \* the value of it that the current step works with
    linesLeft,      \* lines still to be parsed in the chunk read
    bus,            \* bus_
    demand,         \* requested_, last_velocity_ms_, lamp_on_, estop_requested_
    gauge,          \* gauge_
    faults,         \* interlock_.faults()
    ramp,           \* linear_ramp_.current(), angular_ramp_.current()
    commanded,      \* commanded_
    estop_engaged,  \* estop_engaged_
    control_due, telemetry_due,
    snapshot,       \* the frame last published
    torque,         \* drivetrain: output stage enabled
    wheels,         \* drivetrain: wheel speed setpoint
    last_kick       \* watchdog: when it was last kicked

\* Ghost variables: they record history for the properties and guard nothing
\* but the MaxSilence bound.
VARIABLES
    silence,          \* true age of the setpoint in demand.last_velocity_ms
    heard,            \* true age of the newest setpoint received
    lastEval,         \* stepNow of the last RunControl
    evalsSincePress   \* RunControls since the standing software e-stop, or NoPress

time    == <<now, silence, heard>>
timers  == <<control_due, telemetry_due>>
drive   == <<ramp, commanded, estop_engaged, torque, wheels>>
control == <<gauge, faults, drive, lastEval>>
vars    == <<phase, time, stepNow, linesLeft, bus, demand, control, timers,
             snapshot, last_kick, evalsSincePress>>

Phases == {"off", "idle", "link", "drain", "evaluate", "finish"}

NoPress == -1

DemandType == [requested : Twist, last_velocity_ms : MillisRange,
               lamp_on : BOOLEAN, estop_requested : BOOLEAN]

SnapshotType == [faults : SUBSET Fault, commanded : Twist, lamp_on : BOOLEAN,
                 commands_dropped : 0 .. DroppedMax]

\* Type invariant of the members of Robot (robot.hpp:94-115) and of the board.
TypeOK ==
    /\ phase \in Phases
    /\ now \in MillisRange
    /\ stepNow \in MillisRange
    /\ linesLeft \in 0 .. MaxLines
    /\ bus \in BusType(CommandType)
    /\ demand \in DemandType
    /\ gauge \in GaugeType
    /\ faults \subseteq Fault
    /\ ramp \in Twist
    /\ commanded \in Twist
    /\ estop_engaged \in BOOLEAN
    /\ control_due \in DeadlineType
    /\ telemetry_due \in DeadlineType
    /\ snapshot \in SnapshotType
    /\ torque \in BOOLEAN
    /\ wheels \in WheelSpeeds
    /\ last_kick \in MillisRange
    /\ silence \in 0 .. MaxSilence
    /\ heard \in 0 .. MaxSilence
    /\ lastEval \in MillisRange
    /\ evalsSincePress \in NoPress .. 2

-----------------------------------------------------------------------------
(* Power-on, begin(), reset *)

\* Members as the constructors leave them.
FreshDemand == [requested |-> ZeroTwist, last_velocity_ms |-> 0,
                lamp_on |-> FALSE, estop_requested |-> FALSE]

FreshSnapshot == [faults |-> {}, commanded |-> ZeroTwist, lamp_on |-> FALSE,
                  commands_dropped |-> 0]

Unarmed == [start |-> 0, period |-> 0]

Init ==
    /\ phase = "off"
    /\ now \in BootTimes
    /\ stepNow = 0
    /\ linesLeft = 0
    /\ bus = EmptyBus
    /\ demand = FreshDemand
    /\ gauge = FreshGauge
    /\ faults = InitialFaults
    /\ ramp = ZeroTwist
    /\ commanded = ZeroTwist
    /\ estop_engaged = FALSE
    /\ control_due = Unarmed
    /\ telemetry_due = Unarmed
    /\ snapshot = FreshSnapshot
    /\ torque = FALSE
    /\ wheels = ZeroWheels
    /\ last_kick = 0
    /\ lastEval = 0
    /\ silence = 0
    /\ heard = 0
    /\ evalsSincePress = NoPress

\* The watchdog has not been kicked for longer than its timeout.
Bites == ElapsedSince(last_kick, now) > WatchdogTimeout

\* The processor executes; before begin() the watchdog is not armed.
Alive == phase = "off" \/ ~Bites

\* A plausible slip: torque left on by the run before a reset is not cut.
Mut_StageOff_FlagOnly == estop_engaged' = TRUE /\ UNCHANGED <<torque, wheels>>

StageOff ==
    /\ torque' = FALSE
    /\ wheels' = ZeroWheels
    /\ estop_engaged' = TRUE

\* The command timeout starts out expired: nothing has been heard.
Begin ==
    /\ phase = "off"
    /\ phase' = "idle"
    /\ stepNow' = now
    /\ control_due' = [start |-> now, period |-> ControlPeriod]
    /\ telemetry_due' = [start |-> now, period |-> TelemetryPeriod]
    /\ demand' = [demand EXCEPT !.last_velocity_ms =
                     (now - CommandTimeout - 1) % WordSize]
    /\ StageOff
    /\ last_kick' = now
    /\ lastEval' = now
    /\ silence' = CommandTimeout + 1
    /\ heard' = CommandTimeout + 1
    /\ UNCHANGED <<now, linesLeft, bus, gauge, faults, ramp, commanded, snapshot, evalsSincePress>>

\* The part restarts: RAM and the clock start anew, the driver board does not
\* notice.
WatchdogReset ==
    /\ phase # "off"
    /\ Bites
    /\ phase' = "off"
    /\ now' \in BootTimes
    /\ stepNow' = 0
    /\ linesLeft' = 0
    /\ bus' = EmptyBus
    /\ demand' = FreshDemand
    /\ gauge' = FreshGauge
    /\ faults' = InitialFaults
    /\ ramp' = ZeroTwist
    /\ commanded' = ZeroTwist
    /\ estop_engaged' = FALSE
    /\ control_due' = Unarmed
    /\ telemetry_due' = Unarmed
    /\ snapshot' = FreshSnapshot
    /\ last_kick' = 0
    /\ lastEval' = 0
    /\ silence' = 0
    /\ heard' = 0
    /\ evalsSincePress' = NoPress
    /\ UNCHANGED <<torque, wheels>>

\* Time passes at any moment the part is up; the bite comes before more time.
Tick ==
    /\ Alive
    /\ phase # "off"     \* BootTimes stands for the time before begin()
    /\ silence < MaxSilence
    /\ now' = Later(now, 1)
    /\ silence' = silence + 1
    /\ heard' = heard + 1
    /\ UNCHANGED <<phase, stepNow, linesLeft, bus, demand, control, timers,
                   snapshot, last_kick, evalsSincePress>>

-----------------------------------------------------------------------------
(* Posting *)

\* Ghost: a press that was accepted stands until its release, or until an
\* operator clears faults after it.
PressAfter(c) ==
    CASE c.type = "SetEmergencyStop" /\ Len(bus.high) = HighCapacity -> evalsSincePress
      [] c.type = "SetEmergencyStop" /\ Len(bus.high) < HighCapacity ->
           IF c.values[1] = 0 THEN NoPress
           ELSE IF evalsSincePress = NoPress THEN 0 ELSE evalsSincePress
      [] c.type = "ClearFaults" -> NoPress
      [] OTHER -> evalsSincePress

PostCommand(c) ==
    /\ bus' = Post(bus, c)
    /\ evalsSincePress' = PressAfter(c)

\* An interrupt posts to the safety lane between two calls of the loop.  One that
\* strikes inside a call's update of count_ (ring_buffer.hpp:94, 109), where an
\* accepted event can get lost, is the subject of RingBufferIsr.
IsrPost ==
    /\ Alive
    /\ \E c \in IsrEvents : PostCommand(c)
    /\ UNCHANGED <<phase, time, stepNow, linesLeft, demand, control, timers,
                   snapshot, last_kick>>

-----------------------------------------------------------------------------
(* service_link() *)

\* step() reads the clock and service_link() the bytes that have arrived.
BeginStep ==
    /\ Alive
    /\ phase = "idle"
    /\ phase' = "link"
    /\ stepNow' = now
    /\ linesLeft' \in 0 .. MaxLines
    /\ UNCHANGED <<time, bus, demand, control, timers, snapshot, last_kick, evalsSincePress>>

\* The command a parsed line is turned into.
FromLine(line, t) ==
    CASE line.kind = "Velocity"      -> Command("SetVelocity", "Normal", t, line.args)
      [] line.kind = "Lamp"          -> Command("SetLamp", "Low", 0, line.args)
      [] line.kind = "EmergencyStop" -> Command("SetEmergencyStop", "High", 0, line.args)
      [] line.kind = "ClearFaults"   -> Command("ClearFaults", "Low", 0, line.args)

ReceiveLine ==
    /\ Alive
    /\ phase = "link"
    /\ linesLeft > 0
    /\ linesLeft' = linesLeft - 1
    /\ \E line \in Lines :
          /\ PostCommand(FromLine(line, stepNow))
          /\ heard' = IF line.kind = "Velocity"
                      THEN ElapsedSince(stepNow, now) ELSE heard
    /\ UNCHANGED <<phase, now, silence, stepNow, demand, control, timers,
                   snapshot, last_kick>>

\* The control activity runs when its deadline has expired.
GateControl ==
    /\ Alive
    /\ phase = "link"
    /\ linesLeft = 0
    /\ IF Expired(control_due, stepNow)
       THEN /\ control_due' = ArmPeriodic(control_due, stepNow)
            /\ phase' = "drain"
       ELSE /\ phase' = "finish"
            /\ UNCHANGED control_due
    /\ UNCHANGED <<time, stepNow, linesLeft, bus, demand, control, telemetry_due,
                   snapshot, last_kick, evalsSincePress>>

-----------------------------------------------------------------------------
(* dispatch_commands() and apply() *)

\* A setpoint that waited longer than the timeout is discarded.
Applied(d, c) ==
    CASE c.type = "SetVelocity" ->
           IF Stale(c.timestamp, stepNow) THEN d
           ELSE [d EXCEPT !.requested = [linear |-> c.values[1], angular |-> c.values[2]],
                          !.last_velocity_ms = c.timestamp]
      [] c.type = "SetLamp" -> [d EXCEPT !.lamp_on = c.values[1] # 0]
      [] c.type = "SetEmergencyStop" -> [d EXCEPT !.estop_requested = c.values[1] # 0]
      [] c.type = "ClearFaults" -> [d EXCEPT !.estop_requested = FALSE]
      [] OTHER -> d

\* A plausible slip: the safety lane served like the others, once per cycle.
Mut_DrainHigh_OncePerCycle ==
    /\ Alive
    /\ phase = "drain"
    /\ bus.high # <<>>
    /\ phase' = "evaluate"
    /\ demand' = Applied(demand, Head(bus.high))
    /\ bus' = [bus EXCEPT !.high = Tail(@)]
    /\ UNCHANGED <<time, stepNow, linesLeft, control, timers, snapshot,
                   last_kick, evalsSincePress>>

\* The while loop: the safety lane is emptied, one take() and apply() at a time.
\* No interrupt comes in the middle of either (see IsrPost).
DrainHigh ==
    /\ Alive
    /\ phase = "drain"
    /\ bus.high # <<>>
    /\ demand' = Applied(demand, Head(bus.high))
    /\ bus' = [bus EXCEPT !.high = Tail(@)]
    /\ UNCHANGED <<phase, time, stepNow, linesLeft, control, timers, snapshot,
                   last_kick, evalsSincePress>>

AppliedFirst(d, lane) == IF lane = <<>> THEN d ELSE Applied(d, Head(lane))

Rest(lane) == IF lane = <<>> THEN lane ELSE Tail(lane)

\* One command from each of the lower lanes; only the loop touches those.
TakeLower ==
    /\ Alive
    /\ phase = "drain"
    /\ bus.high = <<>>
    /\ phase' = "evaluate"
    /\ demand' = AppliedFirst(AppliedFirst(demand, bus.normal), bus.low)
    /\ bus' = [bus EXCEPT !.normal = Rest(@), !.low = Rest(@)]
    /\ silence' = IF bus.normal # <<>> /\ ~Stale(Head(bus.normal).timestamp, stepNow)
                  THEN heard ELSE silence
    /\ UNCHANGED <<now, heard, stepNow, linesLeft, control, timers, snapshot,
                   last_kick, evalsSincePress>>

-----------------------------------------------------------------------------
(* run_control() *)

\* The interlock's inputs, from the readings taken now and the loop's state.
SafetyInputsOf(panel, link_up, g) ==
    [estop_asserted          |-> panel.estop_asserted \/ demand.estop_requested,
     front_bumper_pressed    |-> panel.front_bumper_pressed,
     rear_bumper_pressed     |-> panel.rear_bumper_pressed,
     link_up                 |-> link_up,
     battery_critical        |-> g.has_reading /\ IsCritical(g),
     safety_queue_overflowed |-> bus.highOverflowed,
     last_command_ms         |-> demand.last_velocity_ms]

\* Motion is permitted: re-arm from a standstill if need be, then one step of
\* the ramps towards what is allowed.
Drive(allowed) ==
    LET from == IF estop_engaged THEN ZeroTwist ELSE ramp
    IN  /\ ramp' = [linear  |-> Slew(from.linear, allowed.linear, LinearAccel, LinearDecel),
                    angular |-> Slew(from.angular, allowed.angular, AngularAccel, AngularDecel)]
        /\ commanded' = ramp'
        /\ torque' = (torque \/ estop_engaged)
        /\ estop_engaged' = FALSE
        /\ wheels' = ToWheels(commanded')

\* A plausible slip: asking for zero speed where torque should be cut.
Mut_Halt_ZeroSetpoint ==
    /\ wheels' = ZeroWheels
    /\ estop_engaged' = TRUE
    /\ ramp' = ZeroTwist
    /\ commanded' = ZeroTwist
    /\ UNCHANGED torque

\* A plausible slip: the flag that mirrors the output stage is not set.
Mut_Halt_FlagForgotten ==
    /\ torque' = (torque /\ estop_engaged)
    /\ wheels' = IF estop_engaged THEN wheels ELSE ZeroWheels
    /\ ramp' = ZeroTwist
    /\ commanded' = ZeroTwist
    /\ UNCHANGED estop_engaged

\* A plausible slip: the ramps are left where the fault caught them.
Mut_Halt_RampsKept ==
    /\ torque' = (torque /\ estop_engaged)
    /\ wheels' = IF estop_engaged THEN wheels ELSE ZeroWheels
    /\ estop_engaged' = TRUE
    /\ commanded' = ZeroTwist
    /\ UNCHANGED ramp

\* Motion is blocked: cut torque once, and keep the ramps at zero.
Halt ==
    /\ torque' = (torque /\ estop_engaged)
    /\ wheels' = IF estop_engaged THEN wheels ELSE ZeroWheels
    /\ estop_engaged' = TRUE
    /\ ramp' = ZeroTwist
    /\ commanded' = ZeroTwist

RunControl ==
    /\ Alive
    /\ phase = "evaluate"
    /\ phase' = "finish"
    /\ \E panel \in Panel, link_up \in LinkStates, measured \in SocReadings :
          /\ gauge' = GaugeUpdate(gauge, measured)
          /\ faults' = Faults(SafetyInputsOf(panel, link_up, gauge'), stepNow)
    /\ IF MotionAllowed(faults')
       THEN Drive(Permit(faults', demand.requested))
       ELSE Halt
    /\ lastEval' = stepNow
    /\ evalsSincePress' = CASE evalsSincePress = NoPress -> NoPress
                            [] evalsSincePress \in 0 .. 1 -> evalsSincePress + 1
                            [] evalsSincePress = 2 -> 2
    /\ UNCHANGED <<time, stepNow, linesLeft, bus, demand, timers, snapshot,
                   last_kick>>

-----------------------------------------------------------------------------
(* The end of step() *)

\* A plausible slip: reporting what was asked for, not what was permitted.
Mut_Frame_Requested ==
    [faults |-> faults, commanded |-> demand.requested,
     lamp_on |-> demand.lamp_on, commands_dropped |-> bus.dropped]

\* The frame assembled from the loop's state.
Frame == [faults |-> faults, commanded |-> commanded,
          lamp_on |-> demand.lamp_on, commands_dropped |-> bus.dropped]

\* publish(), when due, then the kick: reaching it means the iteration is done.
FinishStep ==
    /\ Alive
    /\ phase = "finish"
    /\ phase' = "idle"
    /\ IF Expired(telemetry_due, stepNow)
       THEN /\ telemetry_due' = ArmPeriodic(telemetry_due, stepNow)
            /\ snapshot' = Frame
       ELSE UNCHANGED <<telemetry_due, snapshot>>
    /\ last_kick' = now
    /\ UNCHANGED <<time, stepNow, linesLeft, bus, demand, control, control_due, evalsSincePress>>

-----------------------------------------------------------------------------
Loop == \/ BeginStep \/ ReceiveLine \/ GateControl
        \/ DrainHigh \/ TakeLower \/ RunControl \/ FinishStep

Next == Begin \/ WatchdogReset \/ Tick \/ IsrPost \/ Loop

Spec == Init /\ [][Next]_vars

\* What the hardware guarantees whatever the loop does: the clock counts, the
\* watchdog fires, and the start-up code calls begin().  Nothing is assumed of
\* the loop itself, which may hang between any two of its actions.
HardwareFairness ==
    /\ WF_vars(Tick)
    /\ WF_vars(WatchdogReset)
    /\ WF_vars(Begin)

SupervisedSpec == Spec /\ HardwareFairness

-----------------------------------------------------------------------------
(* Properties *)

Running == phase # "off"

\* Torque is on only while setpoints arrive: the newest one received is never
\* older than the timeout plus the longest time between two evaluations, a
\* period and two watchdog intervals (interlock.hpp:93-97, robot.hpp:41-44).
DeadMansSwitch ==
    Running /\ torque => heard <= CommandTimeout + ControlPeriod + 2 * WatchdogTimeout

\* For how long that is so: while the true ages fit in a Millis.
ClockDoesNotAlias ==
    /\ MaxSilence < WordSize
    /\ ControlPeriod + 2 * WatchdogTimeout + 2 < WordSize
    /\ 2 * ControlPeriod < WordSize

\* estop_engaged_ mirrors the output stage, so the one emergency_stop() and the
\* one release that a transition makes are never missed (robot.cpp:192, 212);
\* and torque is off exactly while a blocking fault is reported.
TorqueMirrorsFaults ==
    Running => /\ estop_engaged <=> ~torque
               /\ torque <=> Blocking(faults) = {}

\* With torque off the driver holds a zero setpoint and the ramps stand still,
\* so nothing is left over to resume (robot.cpp:209-211).
NothingLeftOver ==
    Running /\ ~torque => wheels = ZeroWheels /\ ramp = ZeroTwist /\ commanded = ZeroTwist

\* A software e-stop that was accepted between two calls of the loop is honoured:
\* once the loop has evaluated twice since, torque is off until it is released or
\* cleared -- whatever else was queued before it and between whichever two calls
\* it came (robot.cpp:89-92).  Of an interrupt inside a call it says nothing.
PressHonoured == Running /\ evalsSincePress = 2 => ~torque

\* An event from an interrupt or a line finds the safety lane full.
EventRefused ==
    /\ Len(bus.high) = HighCapacity
    /\ \E c \in IsrEvents \cup {FromLine(line, stepNow) : line \in Lines} :
          c.priority = "High" /\ PostCommand(c)

\* A refused safety event is not forgotten while the part runs: it is on record
\* from the post on, whatever is posted or taken before the next evaluation; every
\* evaluation after it reports the loss and cuts torque; and what has been reported
\* stays reported, with torque off (command.cpp:12-22, interlock.cpp:33-35).
LossIsFinal ==
    [][Running' =>
         /\ EventRefused \/ bus.highOverflowed => bus'.highOverflowed
         /\ RunControl /\ bus.highOverflowed => "SafetyQueueLost" \in faults'
         /\ "SafetyQueueLost" \in faults => "SafetyQueueLost" \in faults'
         /\ "SafetyQueueLost" \in faults' => ~torque']_vars

\* Motion starts from a standstill: re-enabling torque commands at most one
\* acceleration step (robot.cpp:194-196).
SoftStart ==
    [][~torque /\ torque' =>
         /\ Magnitude(commanded'.linear) <= LinearAccel
         /\ Magnitude(commanded'.angular) <= AngularAccel]_vars

\* While a bumper is pressed the commanded speed into it shrinks to zero and
\* stays there, across ramps, reversals and faults (interlock.hpp:84-86).
NeverIntoBumper ==
    [][/\ "FrontBumper" \in faults' =>
            commanded'.linear <= 0 \/ commanded'.linear < commanded.linear
       /\ "RearBumper" \in faults' =>
            commanded'.linear >= 0 \/ commanded'.linear > commanded.linear]_<<commanded, faults>>

\* Saturated or not, the wheels drive the commanded arc, as exactly as the slower
\* one's rounding allows and as fast as the faster one can turn
\* (differential_drive.cpp:29-36).
ArcSurvives ==
    LET differential == commanded.angular * HalfTrack
        left  == commanded.linear - differential
        right == commanded.linear + differential
    IN  Running /\ torque =>
            /\ Magnitude(wheels.left * right - wheels.right * left) <= AbsMax(left, right)
            /\ \/ AbsMax(wheels.left, wheels.right) = MaxWheel
               \/ wheels = [left |-> left, right |-> right]

\* A frame is self-consistent: one that reports a blocking fault commands no
\* motion (telemetry.hpp:13-19).
FrameCoherent == Blocking(snapshot.faults) # {} => snapshot.commanded = ZeroTwist

\* A line that brings a setpoint of the current step.
SetpointArrives == ReceiveLine /\ heard' = ElapsedSince(stepNow, now)

\* Whatever the loop does, hanging included, torque does not stay on unless
\* setpoints keep arriving: the watchdog stands behind the interlock, and
\* begin() behind the watchdog (robot.cpp:77-81, 40-41).
TorqueNeedsSetpoints == []<>~torque \/ []<><<SetpointArrives>>_vars

Safe == INSTANCE SafeRobot WITH
    running    <- Running,
    Limit      <- CommandTimeout + ControlPeriod + 2 * WatchdogTimeout,
    FirstSpeed <- LinearAccel + HalfTrack * AngularAccel

\* All the parts together -- clock, queues, interlock, ramps, output stage and
\* watchdog, resets included -- make a safe robot (robot.cpp:25-107, 169-225).
ImplementsSafeRobot == Safe!Spec

=============================================================================
