# TLA+ models of the robot control software

The repository holds the firmware of a team's competition robots: one C++ program per
robot, built from shared subsystems and commands (`aimbots-src/src`) on top of the
`taproot` framework (`aimbots-src/taproot`). These modules model the part that decides
*which command controls which subsystem, and when*, and what the deciding code believes
of the world: the command scheduler, the mappings from the remote to commands, the robots
built from them, the sentry's autonomous commands one level below, the feeder, and the two
serial links that bring the operator's and the vision computer's wishes.

Paths below are relative to `aimbots-src/`; `tap/` stands for `taproot/src/tap/`.

## 1. The system

`src/main.cpp` is one thread with an endless loop: `updateIo` reads the CAN bus, the
referee system, the remote and the vision computer; every 2 ms
`commandScheduler.run()` executes the commands and the motors' outputs are sent. There
are no other tasks, so commands interleave only between whole calls of that loop and,
inside a call, between the callbacks it makes. The one thing that happens in the middle of
a call is the receive interrupt of a serial port, which queues a byte (`RemoteUart`).

| Component | State | Operations | How it interacts |
|---|---|---|---|
| `CommandScheduler` (`tap/control/command_scheduler.cpp`) | two bitmaps (scheduled commands; subsystems they require), registered subsystems, hardware-test flag | add, remove, run, register, start/stop tests | calls `initialize/execute/end/isFinished/isReady` of commands, `refresh/getDefaultCommand/runHardwareTests` of subsystems; asks the safe-disconnect functor |
| Comprised commands (`tap/control/comprised_command.hpp`) | a private scheduler that is not a master | the same scheduler operations from inside `execute` | a command that runs others on its own subsystems |
| `Remote` (`tap/communication/serial/remote.cpp`) | receive buffer, last byte's time, switches, mouse, keys, `connected` | read, parse, reset | hands every packet, and every silence of more than 100 ms, to the mapper |
| `CommandMapper` and mappings (`tap/control/*_mapping.cpp`) | the list of mappings; one or two flags and counts each | `addMap`, `executeCommandMapping` | each mapping adds and removes its commands in the master scheduler |
| Robots (`src/robots/*/*_control.cpp`) | static tables | registration, defaults, start-up commands | instances of all the above |
| Feeder, shooter, chassis, gimbal, hopper, engineer's arm (`src/subsystems`) | set-points, timers, PID state, toggles | commands' callbacks | read the remote, referee data and each other's state |
| Referee helper (`src/utils/ref_system`) | none; reads the last referee message | heat and allowance arithmetic | called by the feeder's and shooter's commands |
| Jetson and CAN links (`src/communicators`) | partial message, sequence numbers, time-outs | update, receive | feed aiming and attitude |
| Informants (`src/informants`) | poses, filters, hit timer | update | read by commands |

### What is hard in it

* `run()` iterates over a bitmap that its own callbacks change, and decides about
  default commands from a second bitmap kept in step by hand.
* Command objects are reused for ever; a command can end because it finished, was
  displaced, was released, lost the remote or was stopped for a hardware test.
* The mappings keep flags of their own about what they scheduled. Nothing tells them when
  a command has ended, and several of them compete for one subsystem on the same packet.
* The remote is repeatedly reset while it is silent; every reset is a reading too.
* Comprised commands keep a second scheduler whose state survives their interruption, and
  timers that do too. The sentry has three of them at once, which agree on nothing but
  what each of them reads.
* The remote's frames carry no mark of where they begin, the vision computer's a mark that
  may occur inside them; bytes are lost, arrive while others are being read, and are
  thrown away with what was read.
* A test that must be asked twice before it says yes (`SettledUtil`) is asked by two
  commands, up to four times per run.
* One-shot timers that are stopped are *not* expired; toggles remember keys across
  interruptions; referee data is late; narrow unsigned arithmetic wraps.

`PROJECT.json` lists these under `hazards`, each with its line and the properties that
would notice it going wrong.

### What makes each component correct

* scheduler: exclusive control, bitmaps in step, alternating `initialize`/`end`, one
  execution per run, defaults that fill gaps and never interrupt;
* mappings: a command is scheduled no longer than its mapping wants it, starts when its key
  goes down, and a still operator disturbs nothing;
* robots: feeder and shooter come to their stop commands when the remote falls silent;
* feeder: no more projectiles than the barrel's heat allows, no motor left in reverse;
* sentry's weapons: projectiles only into driven flywheels, only at a target seen just
  now, with the gimbal on it; every engagement starts as if it were the first, and what is
  left alone comes to rest;
* sentry's chassis: it drives only along a path searched for the state it is in, is not
  taken for arrived on the way, and gets where it guards;
* links: nothing reaches the robot that was not sent as such (remote), or not after one
  good message (vision); a silence is noticed, and a link that works again is used again.

## 2. The modules

| Module | Models |
|---|---|
| `SchedulerState` | the two bitmaps as a record `[added, assoc]` and the pure effect of `addCommand`, `removeCommand` and a whole `run` on them |
| `CommandScheduler` | one scheduler object: every operation, and `run()` one callback at a time |
| `AtomicScheduler` | the same object as its callers see it: a whole `run()` is one step |
| `SubsystemOwnership` | the abstract promise: a map from subsystems to the command in control |
| `RobotControl` | remote, mapper, the four kinds of mapping and the master scheduler, for any robot |
| `Timeouts` | `tap::arch::Timeout` as its callers use it: restart, isExpired, execute |
| `FeederHeat` | the feeder of a robot with one feeder motor: allowance, rotation threshold, jam timers |
| `RemoteUart` | the remote's receiver, byte by byte: queue, packet buffer, read and disconnect timeouts |
| `JetsonLink` | the vision computer's link, byte by byte: header search and assembly of a message |
| `SentryChassis` | the sentry's autonomous chassis command, its navigation command and the settled test |
| `SentryWeapons` | the sentry's firing and gimbal commands, the flywheels' default command, and who owns what |
| `MCFeederHeat` | the sentry's feeder and five heat reports |
| `MCCommandScheduler` | a scheduler with 3 subsystems and 5 commands |
| `MCStandard`, `MCSentry` | the real tables of two robots, as constants of `RobotControl` |
| `MCMappings` | an artificial robot with every kind and option of a mapping |
| `SchedulerState_proofs`, `CommandScheduler_proofs`, `RobotControl_proofs`, `FeederHeat_proofs`, `RemoteUart_proofs`, `JetsonLink_proofs`, `SentryChassis_proofs`, `SentryWeapons_proofs` | lemmas and theorems |

Definitions named `...Skips`, `...Forgets...` and so on, each under a comment "Faulty
form (mutant)", are not part of the specifications. They are plausible bugs, put in the
place of the correct definition to see that a property notices them.

### SchedulerState and CommandScheduler

A global identifier is a natural number, a bitmap the set of its identifiers. `added` is
`addedCommandBitmap`, `assoc` is `subsystemsAssociatedWithCommandBitmap`. `AddCommand` is
the part of `addCommand` behind its guards (end whatever shares a requirement, claim,
initialize, set the bit), `Displaced` the loop that selects whom to end.

`CommandScheduler` has an action for each operation a caller can perform between two runs
(`RegisterSubsystem`, `Add`, `Remove`, `StartHardwareTests`, `StopHardwareTests`, and
`SafeDisconnectChanges` for the functor's answer) and one per turn of each loop of
`run()`: `BeginRun` chooses the branch, `ExecuteNext` executes one command and removes it
if it finishes, `DisconnectNext` ends one, `EndCommands` moves on to the subsystems if the
scheduler is a master, `RefreshNext` refreshes one subsystem and tries its default,
`TestNext` is a turn of the hardware-test loop. `cursor` is the iterator: the next visited
element is the least identifier not below it *in the current bitmap*, as the shifting
iterators of the code find it.

What a callback answers is nondeterministic: `isFinished` always, `isReady` for commands
that override it (`AlwaysReady` are those that do not), `runHardwareTests` may or may not
set the flag. Callbacks do not call the scheduler that is running them; comprised
commands call their own scheduler, which is another instance of this module with
`isMaster = FALSE`. Both kinds of scheduler are initial states of one model.

`life`, `executions` and `refreshes` are history variables.

The callers of a scheduler do not see its iterators. `AtomicScheduler` is what they see:
the same calls, and a run that in one step removes the commands that finish and gives each
subsystem that is free by then its default, if that is ready (`AfterRun`). `Observed` is the
mapping between the two, and needs no variable of its own: while a connected run is under
way, what it has executed and has yet to execute is what it found, so that nothing is seen
of it before its last step. A run of a disconnected robot is seen at its first step.

### RobotControl

A mapping is a record: its kind, the remote state it asks for (switches, pressed keys and
buttons, forbidding keys), its commands in order, and a hold-repeat mapping's options. A
reading is `Packet` (18 bytes parsed) or `Silence` (the reset that every `Remote::read`
repeats while nothing arrives for 100 ms). It then goes through the mappings in order, `at`
being the one executed. One action per kind (`ExecuteHold`, `ExecuteHoldRepeat`,
`ExecutePress`, `ExecuteToggle`) takes the decision and sets the flags; `AddNext`,
`RepeatNext` and `RemoveNext` treat one command at a time, since a mapping asks the
scheduler about commands that earlier mappings may just have displaced. `Run` is a whole
`CommandScheduler::run`: which commands finish is nondeterministic, free subsystems get
their defaults. It is atomic here, and may be: nothing else runs on the main loop's thread
during a run, and `CommandScheduler` is proved to implement `AtomicScheduler`. The effect of
`Run` is that of a connected run there, with the same `AfterRun`; every default is ready, as
the defaults of these robots are, every subsystem is registered, and there are neither tests
nor disconnects.

Two properties are not true of every list of mappings. What they need of it has a name:
`NoDetours` and `NoContention`, which TLC evaluates for the tables of all three instances.

Several of the code's flags play the same part in different mappings (`commandScheduled`,
`held`, `pressed`); they are one function `on`.

Assumptions, all checked by TLC for each instance and used by the proofs: every mapping
asks for something (so a reset remote wants none), a command object belongs to one mapping
(the rule in the scheduler's class comment; the robots construct a second object, such as
`closeHopperCommand2`, to keep it), a default requires its own subsystem alone and belongs
to no mapping, only a press mapping restarts a start-up command.

### FeederHeat

`Initialize` and `End` are the trigger: the master scheduler adds `FullAutoFeederCommand`,
or ends it and gives the feeder back to `StopFeederCommand`. `Run` is one `execute` of
whichever is scheduled. The two timeouts are records of the time left and the one-shot
flag; `Tick` is the clock, free to advance any number of times between two runs. The
referee's `Report` may change heat and limit at any time; only `Initialize` reads them, with
the subtractions wrapped in 16 and 8 bits as the C++ types have it.

Rotation is counted in projectiles, from where the last pull found the feeder, because the
code compares differences only. The motor is external and owes nothing: it speeds up when
it likes, jams at any moment (`Stall`), turns by at most one projectile between two runs and
coasts by at most one when its target changes. A run comes every 2 ms and a projectile
takes 50 ms, so both assumptions are generous. A second trigger object (wheel and mouse)
is an `End` followed by an `Initialize`.

### RemoteUart

A byte is kept as its place relative to the byte received before it: the `"first"` of a
frame, the `"next"` one, or one behind a `"gap"`. So the board holds sequences over three
values whatever the length of a frame, and a packet is `Genuine` exactly if it is one frame.
`read()` is three actions, `BeginRead` (disconnect timeout, reset), `ReadLoop` and
`FinishRead` (read timeout, parsing, discards), because the receive interrupt (`Deliver`)
may queue a byte between them; the loop itself is one step, since a byte that arrives in it
is either taken by it or left for after it. `ReadLoop` takes one byte more than the packet
lacks and drops it, as the order of the loop's two conditions does. `age` is the time since
`lastRead`, `stall` the time since the last call of `read()`.

The transmitter sends a frame, keeps silent for `FrameGap` and sends the next; it may be
switched off at any byte, the board may start anywhere, any byte may be lost. What is assumed
of time is an `ASSUME`, but for one tick at most between two bytes of a frame:
`FrameGap > ReadTimeout + 2 * (MaxStall + 1)`. With a frame every 14 ms, sent in 2 ms, the
main loop may stay away from `read()` for not quite 3 ms less a tick; the initialization of
the board counts as such a stall, and a longer one voids `WholeFrames`.

`RobotControl` starts where this module ends: its `Packet` is `mapped = "whole"`, its
`Silence` is `mapped = "nothing"`.

### JetsonLink

One byte per call of `updateSerial`, as in the code. `nextByteIndex = 0` is
`SearchingForMagic`: the magic number has one byte. A message's contents are reduced to
whether a payload byte equals the magic byte (`clean`), and what the board assembled to
whether it is what was sent so far of the current message (`whole`). The UART's queue only
delays bytes and is left out; a byte it has no room for is a lost byte.

### SentryChassis

`Initialize` and `End` are the master scheduler's calls, `Execute` one `execute` with the
run of the private scheduler inside: in the game `Play`, otherwise `StandBy`. `near` is
whether the robot is within tolerance of its current waypoint, per axis; `error` is what the
controllers saw of it when they last ran. The two differ: the test asks about a stale error,
and that is the point of `ArrivalIsReal`. `Settled` and `Asked` are the answer of a call of
`isSettled` and what the call leaves of the two timers, including that the second axis is
not asked unless the first says yes. A path is the number of waypoints left. The path search
returns any number of them, or none; a path starts with the robot's own place. `Drift` lets
the robot leave its place at any time. `pathFor` and `found` are history variables: the state
the last search was for, and whether it found a path.

From `START` the code reaches `GUARDING` and no other state: no line goes to `AGGRO`,
`RETREAT`, `CAPTURE` or `EVADE` unless it is there already. The module has all of
`NextState` and the theorem `Invariance` proves that the rest of it is dead.

### SentryWeapons

`owner` is what the master scheduler says of the flywheels: the match command, the
operator's `RunShooterCommand`, the default `StopShooterComprisedCommand`, or nobody until
the next run. `StartMatch`, `EndMatch`, `StartManual` and `EndManual` are the mappings'
readings (checked for themselves in `MCSentry`), `Run` one run of the master scheduler, in
which the owner and the gimbal command execute, each with a run of its private scheduler.
The private schedulers are three instances of `SchedulerState`.

The full-auto command turns the feeder or not, as its allowance has it (`FeederHeat`).
`sight` is the last message's state and stays when the link is silent; `online` is
`isJetsonOnline`, which any byte makes true, so that an old sight is believed again.
`sinceAim` and `unbroken` are history variables: how long ago the firing command last saw
its target, and whether it has found the link online since.

## 3. What the runs show

| Run | Module and cfg | Shows |
|---|---|---|
| `cmd_scheduler` | `MCCommandScheduler` | all safety, action and liveness properties of one scheduler, that it implements `SubsystemOwnership`, and that its runs are atomic to its callers |
| `standard_robot` | `MCStandard` | the standard robot's 8 mappings (one refused) against every input sequence |
| `sentry_robot` | `MCSentry` | the sentry, where one command owns two subsystems, and what becomes of a command that is displaced while its switch is held |
| `mapping_kinds` | `MCMappings` | all mapping kinds and options contending |
| `toggle_held` | `MCMappings` with `MCToggleHeld.cfg` | a violation, see below |
| `feeder` | `MCFeederHeat` | the feeder's rotation budget, its start-up delay, and that jams are answered and end |
| `feeder_no_heat` | `MCFeederHeat` with `MCFeederNoHeat.cfg` | a violation, see below |
| `remote_uart` | `RemoteUart` | only whole frames reach the mapper, silence is noticed, a remote that stays on is connected |
| `jetson_link` | `JetsonLink` | one clean message brings the receiver into step, where it stays until a fault |
| `jetson_torn` | `JetsonLink` with `MCJetsonTorn.cfg` | a violation, see below |
| `sentry_chassis` | `SentryChassis` | driving for the right state, real arrivals, and the guard post is reached |
| `sentry_weapons` | `SentryWeapons` | no projectile without target or driven flywheels; firing, braking and patrol come about |

Properties of the scheduler: `Ownership` (exclusive control and bitmaps in step),
`Lifecycle` (initialize and end alternate), `TestsOwnTheRobot`, `DefaultsHold` (what the
subsystem loop passed stays under control), `DisconnectedRunsNothing`, `OncePerRun`,
`DefaultNeverInterrupts`, and under fairness `ScheduledCommandRuns` and
`FreeSubsystemRecovers`. `RunsAreAtomic` is about the whole of a run, which ends and starts
commands while two iterators walk over the bitmaps: what did not finish stays, every free
registered subsystem has its default unless that refused, and nothing else has changed. It
says of each step which it is: a call between runs, the step at which a run takes effect,
or one that callers do not see.

Properties of the robots: `ReleasedMeansRemoved` (between two readings no command of a
mapping that is released, untoggled, forbidden or cut off is scheduled),
`SilenceStopsTheRobot` (from the first run after a silence, each subsystem with a default
is under it), `EdgeStartsCommands` (the reading on which a key goes down leaves the
mapping's commands scheduled, unless the same reading started a rival), `Settles` (the
third equal reading in a row touches no command). `HeldIsLeftAlone` is about a command that
is displaced while its switch stays where it is: a reading that finds the key of a hold or
press mapping still down does not start its commands, and takes their subsystems only for
mappings that this very reading asks for. On the sentry that is the match commands, which lose
the flywheels to the manual shooter command; when the manual command ends they stay away, with
the left switch still in the match position, until it has been moved. Nothing in the repository says whether
that is meant, and so it is stated as what the code does and listed as a hazard.

`EdgeStartsCommands` needs `NoDetours`. Take three hold mappings on one key, with commands
that require x, x and y, and y, in this order: the second command displaces the first, the
third displaces the second, and x is left to nobody. `Settles` needs `NoContention`: two
hold-repeat mappings that are held together and need one subsystem displace each other with
every packet. No table of the standard robot or the sentry does either.

Properties of the feeder: `RotationBudget` (from a pull to standstill, the net rotation is
what the heat left at the pull, less the buffer, and one projectile of coasting),
`GraceBeforeReverse` (no reversal before the start-up delay has passed since the pull and
the last activation), and under fairness `ReverseEnds` and `JamIsAnswered`. `RotationBudget`
has a proviso: nothing wrapped at the pull.

Properties of the links. `WholeFrames`: no packet is put together from two frames.
`SilenceIsNoticed`: a silence of the disconnect timeout and two calls has been reported.
`Reconnects` has two provisos that are the code's: bytes may fall into a discard again and
again, and a remote that was given up needs a byte that arrives between the discard of
`reset()` and the loop of the same call, since `lastRead` is not touched by the reset.
`CleanMessageAligns`, `AlignedUntilFault` and `Heals`: what the one-byte header is good for.

Properties of the chassis. `DrivesForItsState` relates the speeds to the command, its state
and the path: while the robot drives, the last search was for the present state and found a
path, or it found none and no waypoint but the current one is left. `ArrivalIsReal` holds
because the navigation command asks the settled test before the match command does: what the
outer test finds settled, the run before had taken the waypoint for. The one exception is a
waypoint at which the robot was already, where the old error is still good. `GuardReached`
needs a game that goes on and a robot that is not pushed away again and again; after a failed
search the state it reaches is `GUARDING`, wherever the robot stands.

Properties of the weapons. `FeedsDrivenWheels` and `FeedsOnlyOnTarget` are about
interruptions: what stays in the private schedulers and timers must do no harm.
`ChasesWhileItFires` relates two commands that share no state: the gimbal's chase lasts 0.5 s
after the last sight, the firing command's minimum time 1 s, and neither asks the other. The
property is as strong as the code: in the second half of that second, or after the vision
computer was silent for a moment, the gun may fire while the gimbal patrols. `AimedFires`,
`WheelsComeToRest` and `PatrolResumes` are the liveness of the three.

**First disagreement.** `toggle_held` checks what the comments of `ToggleCommandMapping`
say: when its commands have finished, the mapping is not toggled any more. The code clears
`pressed` together with `toggled`, so with the key still down the same call toggles the
mapping again and restarts the commands. No robot registers a toggle mapping today.

**Second disagreement.** `feeder_no_heat` is `RotationBudget` without the proviso, which is
what the comments of `FullAutoFeederCommand` promise. On the sentry, a pull with no
projectile left computes 0 - 1 in a `uint8_t` and grants 255; on every robot, a heat above
the limit wraps one function earlier. The proviso is exact: `AllowanceExact` proves that
nothing else goes wrong.

**Third disagreement.** `jetson_torn` checks what the comment over `updateSerial` says:
behind a valid magic number the rest of the message is valid, and the length is checked at
an end byte. There is no end byte, the magic number is one byte long, and any byte of the
coordinates or the delay may equal it. `CleanMessageAligns` is what is true instead.

### Bounds, and why they are enough

* `MCCommandScheduler`: commands 2 and 3 overlap with each other and with two others each,
  so that adding can displace two commands at once; a subsystem without a default and
  commands that refuse are present. Identifiers are small because only their order
  matters. Histories saturate at 2, enough to tell "once" from "more". Nothing else is
  bounded.
* `MCStandard`: all 9 switch positions and one of the mapped mouse and key inputs at a time
  (their commands share no subsystem). All commands that reach the scheduler are present.
* `MCSentry`: all 9 switch positions; the sentry maps nothing else.
* `MCMappings`: every subset of 5 keys, up to 2 repetitions. One mapping of each kind: by
  the theorems below, more mappings add no new case.
* `MCFeederHeat`: reports that leave two, one and no projectile, none for the buffer, and a
  heat above the limit; delays of 3 and 2 units keep their order and let every timer be
  pending, due and used up. `MaxForward` (5) exceeds every sound allowance and the
  coasting, `MaxBack` (2) lets turning back rewind past the start.
* `RemoteUart`: frames of 3 bytes have a first, a middle and a last one; the times 2, 9 and
  16 with stalls of 2 are the smallest that keep the order of the assumption (the real ones
  are 18 bytes, 6, about 12 and 100 ms). Clocks saturate just above the last value
  they are compared with. The queue needs no bound: the assumption keeps it below a frame.
* `JetsonLink`: the real 15 bytes; the offline timeout of 2 ticks only counts down.
* `SentryChassis`: paths of up to 3 waypoints behind the start have a first, a middle and a
  last one, and the delay is one unit. The lockout times keep their ratio to it.
* `SentryWeapons`: 3, 5 and 2 units for 1000, 2000 and 500 ms: chase before minimum before
  refire time. `ChassisState` is `GUARDING`, where the gun may fire; `EVADE`, where it
  may not, is reached by no robot (see `SentryChassis`) and covered by the theorems.
* `repeats` saturates at 2. The counts are bounded by the mapping's own maximum.

### Fairness

`FairSpec` assumes `WF_vars(RunStep)`: the loop calls `run()` for ever and `run()` does not
wait for anything. Nothing is assumed of callers, of the remote or of commands. Refused
calls and readings need no fairness, since no liveness property is stated about them.
`FeederHeat` assumes `WF_vars(Run)` and `WF_vars(Tick)`, for the same reason: the loop runs
the scheduler for ever and the clock does not stop. The motor has no fairness.
`SentryWeapons` adds that flywheels which are not driven slow down, and `SentryChassis` that a
robot which drives towards a place comes near it: both are physics, and each property that
uses them excepts what works against it (`Drift`, another owner). `RemoteUart` and
`JetsonLink` assume that a sender that is on sends on, `RemoteUart` also that the loop calls
`read()` and that time passes. Losses, switches and restarts have no fairness; the
properties except runs in which they go on for ever.
Deadlock is checked in every run: the firmware never stops.

## 4. What is proved

For every set of commands and subsystems, every requirement, and (for robots) every list of
mappings that meets the named assumptions.

**SchedulerState_proofs.** `AddCommand` and `RemoveCommand` keep `Exclusive` and `InStep`;
a command whose requirements are free displaces nobody.

**CommandScheduler_proofs.** `Invariance` proves `Spec => []IInv`. `Ownership` alone is
inductive, but what the loops of `run()` establish is not: `IInv` adds `RunPosition`, which
says for each phase what lies behind the iterator (commands executed, commands ended,
subsystems refreshed) and which branch the phase belongs to. From it follow every safety
property of the run `cmd_scheduler`, the action properties `OncePerRun` and
`DefaultNeverInterrupts`, the refinement of `SubsystemOwnership`, and that a command that
controls one of its subsystems controls all.

`RunsAreAtomicHolds` and `AtomicRefinement` (`Spec => Atomic!Spec`) need one more invariant,
`RunProgress`: nothing behind the iterator was skipped, and a command that the run has not
executed was added by it, as the default of a subsystem behind the iterator. When the last
subsystem is done, `Observed` is therefore what the run found, what is missing of it has
finished (the F of `ConnectedRun`), and what is new are defaults of subsystems that no
remaining command requires (its T). The two iterators enter only through `RunPosition`.

**RobotControl_proofs.** `IInv` has four parts: `Position` (where the handling of a reading
is), `FlagsAgree` (the flags of the mappings already executed equal what the reading says),
`OffIsClean` (a mapping whose flag is off has no command scheduled, but for those it is
about to remove) and `SchedulerSound` (the scheduler's own invariant, and that every
scheduled command has a known origin). `ReleasedMeansRemoved` is not inductive: it says
nothing in the middle of a reading, where a mapping has changed its flag and not yet
removed its commands. The step that needs the assumption "one object, one mapping" is the
adding of a command: it must not make some other mapping that is off unclean.
`SilenceStopsTheRobot` follows because a silent reading wants no mapping, so what is
scheduled is a start-up command, a default, or what a press or toggle mapping left; the run
then gives every free subsystem its default.

`EdgeStartsCommandsHolds` adds `EdgeInv`, about the reading under way: what was touched and
is scheduled was started by it (`TouchedIsStarted`), a mapping whose key has just gone down
has not used up its repetitions (`CountsFresh`), and one that has had its turn has its
commands scheduled or lost them to a command that was touched (`EdgesAnswered`). The last part
survives the next mapping only because of `NoDetours`. For this proof `FlagsAgree` had to
become exact: a mapping that had its turn agrees with this reading, all others with the one
before. `SettlesHolds` rests on `Settling`: after the second equal reading every mapping that
acts on equal readings (`Persistent`) has what it wants, and, by `NoContention`, will not lose
it to another of them. Both hypotheses are assumptions of these two theorems only.

`HeldIsLeftAloneHolds` follows from the flags: a mapping that adds a command is one the
reading asks for (`AddsAreAsked`), and a hold or press mapping whose key was down before is
not asked for by it. So a held command can only go when the command of another mapping takes
a subsystem of it; that this is never the command itself is the assumption "one object, one
mapping" again.

**FeederHeat_proofs.** `AllowanceExact`: the modular arithmetic of the allowance equals the
plain one whenever heat is left for the buffer and for at most 255 projectiles.
`RotationBudgetHolds` adds `Distance`, the inductive part: with a target of its own the
feeder was below its threshold at the last run and has turned once since; coasting it is
not past it. `GraceBeforeReverseHolds` rests on `GraceInv`: the time left of an unused
start-up delay and the time since it was started make up the whole delay. Both for every
buffer, report, delay and behaviour of the motor.

**RemoteUart_proofs.** `WholeFrames` says nothing of how a packet comes about. `IInv` adds
`OneFrame`: queue and packet together hold no more bytes than were sent of the current
frame, and that many only if they are the frame from its first byte on. What makes it inductive
is that nothing of a frame is left when the next begins, and that is a matter of time:
`Timing` bounds how long ago the last byte can have arrived while a byte is in the queue,
a packet is unfinished or the connection is believed, by the age of `lastRead` and the time
since the last call. The bounds add up to exactly the assumption on `FrameGap`, and for
`SilenceIsNoticed` to `NoticeTime`. For every length of a frame and all times.

**JetsonLink_proofs.** While a message without a second magic byte arrives complete, the
board either searches or is at least as far in what it assembles as the Jetson is in
sending (`NotBehind`): what it began earlier ends no later than the message does, and
then it finds no header to start from. For messages of every size.

**SentryChassis_proofs.** `Reach` is the set of states the code really reaches. `PathIsFor`
holds from the run that searches until the state changes, `PathWasFound` that a path of more
than the current waypoint was found, not kept from before a failed search, and `Driven` says that speeds are
set in a handled state only. For arrivals, `ThirdCallKnows`: the settled test is asked three
times in a run that drives, and if it could say yes at the next run's first call, it
said yes at the third call of this one, which took the waypoint. For paths of every length.

**SentryWeapons_proofs.** `Armed` is what the private scheduler of the firing command holds
while it owns the flywheels: their command, and never both feeder commands. `FireIsShort`:
what is left of the minimum time and the time since the target was seen never exceed the
minimum time. `ChaseIsLong`: what is left of the chase and the same time are never less than
the chase time, while the sight was unbroken. Each property follows from one of them, for
all lengths of the three timers with chase time no longer than the minimum time.

The type invariants of the seven modules are theorems (`TypeCorrectness`); the runs leave
them out and spend their time on the other properties.

**Only model-checked.** The liveness properties (the prover does not handle `ENABLED`), that is
`ScheduledCommandRuns`, `FreeSubsystemRecovers`, `ReverseEnds`, `JamIsAnswered`, `Heals`,
`Reconnects`, `GuardReached`, `AimedFires`, `WheelsComeToRest` and `PatrolResumes`, and the runs that
refute `FinishedMeansUntoggled`, `RotationWithinHeat` and `MessageIsValid`. Every invariant and
every action property of a passing run is a theorem.

## 5. What is not modelled

* The values in the remote's 18 bytes: `RobotControl` takes every combination of switches
  and keys, `RemoteUart` only tells whole frames from torn ones.
* In `SentryWeapons`, the right switch's upper position (the dual-barrel feeder command with
  the flywheels; for the flywheels it is `StartManual` and `EndManual`) and the silence of
  the remote (for these commands it is `EndMatch` and `EndManual`). Whether the flywheels
  have reached their speed: the code does not ask. How the aim is computed.
* `ChassisAutoNavTokyoCommand`: the match command never schedules it. The path search:
  geometry over floating point; its result is an input.
* The CAN link between the two boards: all its handlers are bound to the yaw message, so that
  no reading is ever published. The hit tracker: one timer for a debug display.
* `ChassisToggleDriveCommand`, `GimbalToggleAimCommand`, `ToggleHopperCommand`: toggles of a
  key inside a command, see the plan.
* The hero's two feeder motors and `FeederLimitCommand`, the dual-barrel and
  barrel-swapping commands; how much heat a shot produces and when it is reported.
* Floating point: PID, drive kinematics, ballistics, Kalman filters, ramping.
* Hardware drivers, CAN encoding, the error log, graphics and music.
* `barrel_manager`, `ref_custom_serial`: no robot registers them.
* Hero, aerial, dart, engineer and testbench as instances. They use hold, hold-repeat and
  press mappings only, and the theorems apply to them.
* In `RobotControl`, hardware tests and safe disconnects: the terminal that starts tests is
  never polled (`main.cpp:114`), and the functor is never replaced. `CommandScheduler` has
  both.

## 6. Plan

Done, in this order: `SchedulerState`, `CommandScheduler`, `SubsystemOwnership`, their
proofs; `RobotControl` with the standard robot, the sentry and the mapping kinds, and their
proofs; `FeederHeat`; `JetsonLink`; `RemoteUart`; `SentryChassis`; `SentryWeapons`, each
with its proofs; `AtomicScheduler`, which `CommandScheduler` implements and whose run
`RobotControl` takes over.

Next, the most consequential first:

1. `ToggleDrive`: the chassis and gimbal toggles, with the key they remember across
   interruptions. Property: interrupted and started again equals fresh.
2. The refinement of `RemoteUart` and the packets of `RobotControl` to one abstract operator
   link, and of the two feeder modules to one.
3. `HopperLid`, then display and barrel manager once a robot registers them.
4. Hero and engineer as instances of `RobotControl`.

Proofs to come: the refinement of 2.
