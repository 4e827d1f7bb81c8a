# A formal model of the auk firmware

TLA+ modules, TLC configurations and TLAPS proofs for the robot base firmware in
`src/` (C++17, no RTOS, no heap): the cooperative loop `app::Robot`, its command
bus, safety interlock, ramps, deadlines, battery gauge and uplink, on the board
that `hal.hpp` describes. Two abstract specifications say what it is all for:
`SafeRobot`, what the robot promises to the people around it, and
`CommandChannel`, what the uplink promises to the host. Paths below are relative to the repository
(`robot.cpp` is `src/app/robot.cpp`, `deadline.hpp` is
`include/auk/core/deadline.hpp`, and so on).

To check a module, `tlc -config X.cfg M`; to check proofs, `tlapm M.tla`.
`PROJECT.json` lists the runs, the source lines each definition stands for, one
plausible bug (`Mut_...`) per property that breaks it, and the hazards.

## 1. Inventory of the system

| Component | State | Operations | Used by |
| --- | --- | --- | --- |
| Millisecond time, `core::Deadline` | `start_`, `period_ms_` | `elapsed_since`, `expired`, `arm_periodic` | Robot, Interlock |
| `core::RingBuffer` | slots, head, tail, count, dropped | `push` (two policies), `pop`, `peek`, `clear` | CommandBus |
| `core::CommandBus` | three lanes (16 reject / 1 overwrite / 8 overwrite), overflow latch | `post`, `take`, `dropped` | Robot, interrupts |
| `safety::Interlock` | fault set | `update`, `permit`, `motion_allowed` | Robot |
| `control::SlewLimiter` | current value | `update`, `reset` | Robot (two) |
| `control::DifferentialDrive` | none | `to_wheels`, `to_twist` | Robot, Odometry |
| `control::Odometry` | pose | `update` | Robot |
| `power::BatteryGauge` | charge, rise counter | `update` | Robot |
| `app::Robot` | requested and commanded twist, flags, deadlines, line buffer, snapshot | `begin`, `step`, `post` | board's main |
| telemetry codec | none | `encode`, `parse` | Robot |
| board (`hal.hpp`) | clock, output stage, panel, pack, link with its receive buffer, watchdog | interfaces | Robot |
| simulated board (`sim_board.cpp`) | the above, and a plant | `send`, `advance`, `set_*` | tests, demo |

**Interaction.** `step()` reads the clock once, services the link (bytes become
lines, lines become posts), runs the control activity when due (drain the safety
lane, take one command from each lower lane, evaluate the interlock, drive or
cut torque), publishes a frame when due, and kicks the watchdog last.
Interrupts call `post` for the safety lane at any moment, inside a call of the loop
on that lane included. The watchdog resets the part, but not the driver board.

**What is hard.** Interrupts between any two accesses of the loop; time that
passes inside a step that keeps working with the value it read at its start;
the 49.7-day wrap in every age; late iterations and resynchronised schedules; a
safety lane that is full; resets with the output stage left on; transitions of
torque that are executed on a flag; commands that overtake each other in lanes
of different priority; lines in pieces, with bytes missing, and from before a link
outage; a pack whose resistance is larger than configured.

**What correct means**, per component:

- deadlines: no drift, no burst after a stall, no expiry lost to the wrap;
- ring buffer: it is a bounded queue, for every capacity and policy;
- bus: a refused safety event is never forgotten while the part runs, and an accepted
  one not lost, as far as two unprotected updates of a count allow;
- loop and interlock: torque is on only while nothing blocks and setpoints keep
  arriving; a press is honoured; motion starts softly and never into a bumper;
  nothing is left over from before a stop; frames are coherent;
- all of that together: the loop implements `SafeRobot`;
- drive: saturated wheels keep the arc;
- ramps: the right limit in either direction, no overshoot, arrival;
- gauge: no spike raises it, a new pack is noticed, it never flatters, and load
  never makes it much too low;
- uplink: it implements `CommandChannel`, and without an outage no command grows
  old on the way.

## 2. Modules and how they correspond to the code

| Module | Models | Correspondence |
| --- | --- | --- |
| `Millis` | `deadline.hpp` | A `Millis` is a number modulo `WordSize`; a deadline is the record of `Deadline`'s two members; the operators are its functions, the unsigned doubling of the period included. |
| `Deadline` | the gating of a periodic activity in `step` | Polls as late as `MaxGap`; ghosts measure true time and the time the activity believes to have covered. |
| `Queues`, `BoundedQueue` | the promise of `ring_buffer.hpp` | A sequence, the two overflow policies, a saturating drop count. |
| `RingBuffer` | the class as written | Indices, count, slots; the policy is a template argument, here a variable that is chosen once; refines `BoundedQueue` with `queue <- Contents`. |
| `RingBufferIsr` | the safety lane under interrupts | `pop` and `push` of the loop split into their accesses, an interrupt's `push` between any two. |
| `CommandBus` | `command.cpp` | Three sequences, the latch, the drop count; `Post` by priority. |
| `Interlock` | `interlock.cpp` | A fault set from the inputs, `Blocking`, `Permit`. |
| `SlewLimiter` | `slew_limiter.cpp` | `Slew` is one call of `update`. |
| `DifferentialDrive` | `differential_drive.cpp` | Integer kinematics with proportional saturation. |
| `BatteryGauge`, `DischargeCurve` | `battery_gauge.cpp` | `GaugeUpdate` on the charge measured; `OpenCircuit` and `LookupSoc` compute that from a power sample. |
| `Plant` | the analogue side of `run_control` | One action per control period, on a pack under load; packs discharge and are swapped, targets change. EXTENDS `DischargeCurve`, `SlewLimiter`. |
| `Parser` | `parse`, `parse_float` in `telemetry.cpp` | From a line's characters to the set of commands it stands for: one, or none. |
| `Uplink` | `service_link` and the link in front of it | See below. EXTENDS `Parser`. |
| `CommandChannel` | the promise of `PROTOCOL.md` to the host | The commands on their way; a lost byte damages two neighbours at most. Refined by `Uplink`. |
| `SafeRobot` | the promise of the firmware | Torque, wheels, and the age of the newest setpoint. Refined by `Robot`. |
| `Robot` | `robot.cpp` on its board | See below. EXTENDS `CommandBus`, `Interlock` (and so `Millis`), `SlewLimiter`, `DifferentialDrive`, `BatteryGauge`. |
| `MCRobot`, `MCPlant`, `MCUplink` | | Values for TLC. |
| `MillisTheorems`, `DeadlineProofs`, `RingBufferProofs`, `RingBufferIsrProofs`, `RobotProofs`, `RobotTimingProofs`, `PlantProofs`, `UplinkProofs` | | Theorems and proofs, section 5. |

**`Robot` in detail.** `phase` is where the loop is. `Begin` is `begin()`;
`BeginStep` reads the clock into `stepNow` and the length of the chunk;
`ReceiveLine` is one line of it, parsed and posted; `GateControl` polls and
re-arms the control deadline; `DrainHigh` is one turn of the `while` loop of
`dispatch_commands` and `TakeLower` the rest of it; `RunControl` is
`run_control`, with the panel, the link state and the battery read at that
moment; `FinishStep` publishes when due and kicks the watchdog. Between any two
of them, and so between two calls of the bus but never inside one, `Tick` advances
the clock, `IsrPost` posts an interrupt's command and
`WatchdogReset` restarts the part once it has not been kicked for longer than
its timeout: everything in RAM starts anew while `torque` and `wheels`, which
belong to the driver board, stay. Once the watchdog bites nothing else runs.
The variables carry the names of the members they stand for (`demand` collects
those that commands set). Ghost variables measure true ages (`silence`,
`heard`) and count the evaluations since a press; they guard nothing except the
`MaxSilence` bound of a run.

`Robot` implements `SafeRobot` with `running <- phase # "off"` and the other
variables as they are: between a start and a restart torque comes on only after a
recent setpoint and with slow wheels, and time passes with torque on only while
the newest setpoint is recent.

**`Uplink` in detail.** `rx` is the link's receive buffer, `chunk` what is left of
the array that `service_link` reads into, `line` the first `line_length_`
characters of `line_`. `Send` puts a line into the receive buffer, as
`SimBoard::send` does, whether the link is up or not; `ReadLink` is the read at
the start of `service_link` and `TakeCharacter` one turn of its loop, with the
parsing and the post; `LoseByte` takes any byte out of the receive buffer, and
`ToggleLink` is the link. What is in flight is mapped to the channel by
`Reading`: the commands that the code will make of `line`, `chunk` and `rx`, and
the partial line that remains. The variable `coming` holds that value, so that
TLC computes it once a state. A host's line is its text, what it means and whether
it fits; `HostAssumption` says that the text is that of one command, ended by line
ends. TLC evaluates it on the lines of `MCUplink`, whose meanings are written out. The age of bytes is counted in reads of the link
since a moment of the model's choice (`Mark`), of which a command timeout holds
at least `ReadsPerTimeout`.

**`Plant` in detail.** `RunControl` is one period: it reads the pack, updates the
gauge, and either runs the ramp or resets it, the latter whenever the gauge is
critical or the interlock has another reason. The pack's own resistance is at
least the configured one, which `battery_gauge.hpp:19-24` calls "optimistic";
`PlantAssumption` bounds by how much: a load that comes or goes must not shift
the reading by a pack change threshold.

**Abstractions.** Speeds are integers in units of a ramp's step; charge is a
small integer; commands carry only what the loop reads (a timestamp only where
`apply` looks at it). Two members of the loop are write-only for it and left
out: the pose of the odometry and the frame's sequence number. The lamp is its
flag. A post and a take are one step each in `Robot`: its interrupts
strike between two calls on the safety lane, and what it shows of presses
(`PressHonoured`) and of lost events (`LossIsFinal`) is about those. `RingBufferIsr` is
about an interrupt inside a call. It says what justifies the coarser step:
outside two windows (an interrupt between the loop's load of `count_` and its store, and one
inside the loop's own push of an `E` line) the lane is the queue that `Robot` takes it
for, access by access. A platform that masks interrupts in those windows is one
of which `Robot` is a model; the code does not mask them, and on a platform that does
not either, an accepted press can be lost (`RingBufferLostCount`). `Alive`
also holds before `begin()`: interrupts may post while the part starts up. The
time before `begin()` is the choice of `BootTimes`. A board that is not
`complete()` makes `begin()` refuse and is left out.

## 3. Runs

Every property has a comment with the code it is about. The times are scaled
down and the word wraps every 8 or 16 ms, so that periods, timeouts and wraps
overlap; a property that holds there is not helped by large distances between
them. The theorems of section 5 then cover the real constants.

| Run | What it shows | Bounds, and why they are enough |
| --- | --- | --- |
| `Deadline` | no drift, burst, overtaking or alias | period 3, polls up to 10 ms apart, 40 ms followed: two and a half wraps, and every lateness from 0 to three periods |
| `RingBuffer` | the ring implements the bounded queue under either policy | 3 slots, 3 values, drop count saturating at 2: every position of the indices, full and empty |
| `RingBufferIsr` | no access leaves the array; outside two named windows the lane is faithful and refuses only when full | 3 slots, 2 values, 4 events held (one more than the capacity, which a lost count makes possible) |
| `RobotTiming` | the dead man's switch; torque needs setpoints; the loop implements `SafeRobot` | all times 2 ms, word 16, silence up to 12 ms, boot at 0 and just before a wrap; setpoint, lamp and clear lines |
| `RobotSafetyLane` | presses that come between two calls honoured; a refused event is on record at once, reported by every evaluation and never unreported | lane of 2, interrupts press, release and report bumpers, lines press, so the lane overflows between any two calls of the step |
| `RobotMotion` | torque mirrors faults; soft start; bumpers; no leftovers; coherent frames; the arc of saturated wheels | a wheel limit that turning and driving exceed; turning and reversing setpoints, all eight panel states, link up and down; telemetry half as often as control, so that the loop evaluates without publishing too |
| `Plant` | ramp: limits in both directions, no overshoot, arrival; gauge: sustained rises only, none missed, never flattering, load bounded, only swaps raise it | speeds to 4, steps 2 and 3: targets that are and are not multiples of a step; charge to 5, threshold 2, three samples, a curve with steep and flat parts and a doubled point, four packs, load on and off |
| `Uplink` | the uplink implements `CommandChannel`, and everything arrives; commands grow old only in an outage | lines of all four verbs, with either or both terminators, blanks and signs, two that are rejected and one that is too long; chunk 4, line buffer 6, receive buffer 8, so every line crosses chunks; one lost byte |
| `RobotClearRace`, `RingBufferLostCount`, `LineOverlong`, `UplinkBacklog` | section 4 | as above |

`PressHonoured` in `RobotSafetyLane` is without clear lines; with them it fails
(section 4). Lanes of one or two elements suffice because lanes act through
being empty, holding something and being full.

**Fairness.** Only `RobotTiming`, `Plant` and `Uplink` use it. `SupervisedSpec`
assumes weak fairness of the clock, of the watchdog and of the call of `begin()`,
which are hardware and start-up code, and *none* of the loop: it may hang anywhere,
and `TorqueNeedsSetpoints` says that torque is cut even then. `Plant` assumes that
`run_control` keeps being called, as every control period does; nothing forces a
setpoint or a permission to move, so `Settles` has them as its premise. `Uplink`
assumes that `step` keeps being called and works off the chunk it has read
(`ReadLink`, `TakeCharacter`); nothing is assumed of the link, and the channel's
promise of arrival (`Arrives`, here `EverythingArrives`) is only for a link that
stays up. In
`CommandChannel` weak fairness of delivery is written out instead of stated with
`WF`, because the abstract action's enabledness would have to be computed through
the refinement mapping. Deadlock is checked in every run: none of the systems
ever stops.

## 4. Where documentation and code differ

Four runs check a sentence of the documentation that the code does not meet;
TLC's counterexample is the explanation.

| Run | Sentence | What happens |
| --- | --- | --- |
| `RobotClearRace` | `C` clears "where the cause has gone" (`PROTOCOL.md:17`) | A `C` sent before an `E 1` is in a lane served later, is applied after it and cancels the press. |
| `RingBufferLostCount` | "safe for exactly one producer and one consumer, which may be an ISR and a thread respectively" (`ring_buffer.hpp:32-34`) | Both sides read, change and write `count_`; an interrupt between the consumer's read and write loses its element's count: an event that was accepted, a press included, is not seen. |
| `LineOverlong` | "discarded whole rather than truncated" (`PROTOCOL.md:50`, `robot.cpp:292`) | The buffer starts over in the middle of the line, whose tail is then parsed as a line. |
| `UplinkBacklog` | the timestamp is "When the command was created", to discard requests "rather than acting on a setpoint that has been sitting in a queue behind a burst of other work" (`command.hpp:64-66`) | Commands are stamped when they are read. One that waited out a link outage in the receive buffer moves the robot when the link returns, however old it is. `StaleOnlyAfterOutage` says that this takes an outage, if the loop can read out a full receive buffer within the timeout. |

Writing the models met more sentences that say more than the code does. They
have no run of their own:

- `sim/main.cpp:151`, "Motion does not resume until the interlock is satisfied
  *and* a fresh setpoint has arrived": a stop shorter than the command timeout
  resumes on the setpoint from before it. `DeadMansSwitch` bounds its age.
- `robot.cpp:36`, "the robot must be told to move before it moves": after 49.7
  days of silence the stale setpoint is fresh for 300 ms. The theorem on the dead
  man's switch therefore assumes `ClockDoesNotAlias`.
- `interlock.cpp:33`, "stays down until a human power-cycles it": the latch is
  RAM, and a watchdog reset clears it. `LossIsFinal` is up to a restart.
- `robot.hpp:106`, `commanded_` is "what actually went to the wheels": it is the
  twist before `to_wheels` scales it.
- `slew_limiter.cpp:33`, "the rest happens on the following call": a deceleration
  step takes a small speed through zero. `GentleStart` bounds speeding up in one
  direction only.
- `PROTOCOL.md:47`, "trailing characters" are rejected: `strtof` stops at a NUL
  byte, so what follows one inside a number is ignored. Lines of the model have no
  NUL. Hexadecimal numbers and exponents, which `strtof` takes too, are numbers
  like others here.
- `PROTOCOL.md:75`, "gaps mean frames were dropped": the sequence starts over after a
  reset, and a short write leaves half a frame that spoils the next one as well.
- `robot.hpp:74`, `post` is "safe to call from an interrupt for the high-priority
  lane": the loop posts `E` lines to that lane too, and the ring is not safe for two
  producers. That is the second window of `TwoWindows`.

## 5. Proofs

All theorems hold for every value of the constants under the modules' named
assumptions (sizes are positive, sets have their types, interrupts post to the
safety lane and post no setpoints, a setpoint's timeout fits in a word).

- **`MillisTheorems`**: facts about the wrapping word: how an age grows with a
  tick, composes, lies between two others, and what `arm_periodic` does to a lag.
  Every timing proof goes through these lemmas and never unfolds `%`.
- **`DeadlineProofs`**: all five invariants of `Deadline`. The properties alone are
  not inductive: nothing in them bounds the lag, and a lag near the word size
  would make the subtraction lie. `IInv` adds that the lag is at most what the
  last poll left plus the time since, which with `Period + MaxGap < WordSize`
  keeps it a true difference.
- **`RingBufferProofs`**: `TypeOK`, `IndicesAgree` and `ImplementsQueue` for every
  capacity, either policy and any values. The agreement of the indices is inductive
  only together with their ranges: the compare-and-wrap in `next` equals a modulo
  only inside the array. The refinement then is about `Contents`, the slots from
  `tail` on in the order they are read: a store behind the last appends, a step of
  `tail` drops the first, and no other slot is in the way. The specification states
  no fairness, so the refinement is proved whole.
- **`RingBufferIsrProofs`**: `TypeOK` and `TwoWindows`, with an interrupt between any
  two accesses. What holds in any case is `TypeOK` with `BoundsInv` (a pop in progress
  has seen the lane non-empty, a push holds a value); as long as neither window was
  hit, `LaneInv` says how many events are pending and where they lie, counting what the call in
  progress has moved already. The three together are inductive.
- **`RobotProofs`**: `TypeOK` of the whole loop, one lemma per action. It needs
  `AgesOrdered` (the age of what was heard never exceeds that of what was
  accepted) to bound the ages. Then `SafetyInv`, which strengthens the safety
  properties by what the members hold before `begin()`, by `ramp = commanded`, and
  by the fact that a reported loss is one the bus remembers (`LatchStays` and
  `RefusalIsLatched` are the bus's part of `LossIsFinal`). From it:
  `TorqueMirrorsFaults`, `NothingLeftOver`, `FrameCoherent`, `LossIsFinal`,
  `SoftStart` (for enabled acceleration limits: a disabled one passes the demand
  through, as the code says) and `NeverIntoBumper`. `ArcSurvives` needs that with
  torque on the wheels hold `ToWheels(commanded)`, and then arithmetic: the faster
  wheel is scaled exactly, the slower one falls short by less than one unit, so the
  arc is off by less than a peak.
- **`RobotTimingProofs`**, in three parts.
  *The software e-stop*: `PressHonoured`, for interrupts between two calls of the loop
  and assuming `NoClearLines`; with clear lines the property is false
  (`RobotClearRace`, section 4). `PressInv` follows an accepted
  press from the lane to the output stage. While it stands, either the lane ends with
  a press in force (`EndsPressed`: a press that no release follows) or it is empty of
  releases and `estop_requested` is set; the count of evaluations says how far the
  loop is, since the lane is drained before each evaluation and what an interrupt
  posts during one is drained before the next.
  *The dead man's switch*, assuming `ClockDoesNotAlias` (true ages, a period and two
  watchdog intervals fit in a word). The argument: the watchdog bounds the time since
  the last kick; a step is bounded by the kick before it; the control deadline's lag
  by a period and a step; hence the time between two evaluations by a period and two
  watchdog intervals; and at an evaluation that leaves torque on the setpoint is no
  older than the timeout. The invariant has four parts: `LanesInv` (setpoints travel
  only in their own lane, so their timestamps are real), `AgesInv` (clock values kept
  by the loop have the ages the ghosts record), `ScheduleInv` (the bounds just named,
  per phase) and `GrantInv` (what the last evaluation granted).
  *The refinement*: `Robot` implements `SafeRobot`, for enabled acceleration limits
  and under `ClockDoesNotAlias`. Each action is a step of the abstract robot or a
  stutter: a line that brings a setpoint is `Hear` (its age is at most that of the
  step, which `ScheduleInv` bounds), a tick is `Wait` because the dead man's switch
  still holds after it, `RunControl` is `Move`, `Cut`, or, from a standstill,
  `Enable`: one acceleration step per ramp gives wheels no faster than
  `LinearAccel + HalfTrack * AngularAccel`, saturated or not.
- **`PlantProofs`**: every invariant and action property of `Plant`. `LookupMonotone`
  comes first: through the search for a point, the interpolation and its integer
  division, a higher voltage never means less charge. So what is measured under load
  lies between the charge at `pack - UnseenDrop` and the pack's own. The invariant
  about the gauge is `RunInv`: `rise_samples` counts exactly the large rises that
  ended the samples, up to the small one before them. `NewPackNoticed` and
  `RiseIsSustained` are the two directions of that; `OnlySwapsRaise` puts
  `LoadIsBounded` and `PlantAssumption` together. The ramp needs only its range and
  case distinctions on signs (`SlewStep`, `NoFasterThan`, `SlowerBy`).
- **`UplinkProofs`**, in two parts. *The buffers*: `TypeOK`, and `StaleOnlyAfterOutage`
  from `AgeInv`: without an outage since the mark, the bytes watched that are not yet
  in the chunk and the chunks read since then fit in the receive buffer together. So
  the read that would be one too many finds none of them left.
  *The refinement*: `ImplementsChannel`, for every capacity, chunk size and set of
  lines that meet `HostAssumption`. Everything rests on what the recursive function
  `Reading` makes of bytes. That it exists is proved first (`ReadingIs`: functions
  that satisfy its equation on texts of up to `n` characters exist for every `n` and
  agree), by an induction over texts whose hypothesis is a set (`AllTexts`), itself
  from the well-foundedness of finite sets. Then follow, by the same induction:
  bytes in two parts do what the first part does and then the second, on the line
  that the first one left (`ReadBoth`); two lines go on alike after the next line end,
  so their outcomes differ by one command at the front at most (`LinesMeet`); a text
  without line ends posts nothing, and is on the line afterwards if it fits
  (`NothingInside`, `WholeTextRead`); line ends on an empty line are nothing
  (`NothingFromEnds`). The invariant `Foreseen` says that `coming` is what comes of the
  bytes in flight. So a read changes nothing, a character delivers the first command
  or nothing, a line sent appends (`LineRead`), and a lost byte leaves what is before
  it, costs the command it would have completed and the next one, and puts at most
  one in their place.

The inductive invariants `Inv`, `PressInv`, `PlantInv`, `AgeInv` and those of the ring
held in TLC, on the instances of section 3, before they were proved.

**Only model-checked:** liveness (`TorqueNeedsSetpoints`, `Settles`,
`EverythingArrives`), which under fairness is outside what TLAPS proves here, and the
runs of section 4. What the recursive functions of `Parser` compute is checked on the
lines of `MCUplink`; of the parser, the refinement proof needs only that it makes
nothing of an empty text.

## 6. Not modelled

- The text of frames (`encode`) and bytes refused by `Link::write`: the firmware has
  no state that either changes, and the receiver is not in the repository.
- Fractions, exponents and NUL bytes in numbers; float rounding and NaN throughout.
- Odometry: trigonometry on reals. The loop writes the pose and never reads it.
- `arm()`, `set_period_ms()`, `set_limits()`, `set_pose()` and `max_angular_at()`,
  which the loop never calls; `to_twist`, which only the odometry does.
- Interrupts inside a call on the safety lane, in the model of the whole loop:
  `RingBufferIsr` has them for the lane alone.
- A host that fills a receive buffer too large to be read within the command timeout:
  `UplinkAssumption` bounds it, and nothing in the code does.
- A bound on how fast interrupts post. Without one the drain loop may run until the
  watchdog bites, which the model allows.
- The simulator's integration of the wheels, the demo, the tests and the tools,
  which are not part of the firmware. Its link and its pack under load are taken as
  the reference for what a board does.

## 7. Plan

1. *Done*: `Millis`, `Deadline`, `RingBuffer` and its refinement; the loop with its
   components, its timing and safety proofs; `Parser` and `Uplink` on the abstract
   channel; the gauge and the ramps on the plant; `SafeRobot`, and the proof that the
   loop implements it.
2. *Done*: the invariants and action properties of all runs as theorems, the ring's
   refinement of the queue, the lane under interrupts, `PressHonoured` without clear
   lines, the uplink's refinement of the channel.
3. Every safety property and action property that a passing run checks is now a
   theorem. Open: lines from `Uplink` as the input of `Robot`, in one model, and a
   bound on how fast interrupts post, under which the drain loop ends.
