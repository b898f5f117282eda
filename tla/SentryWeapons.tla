---------------------------- MODULE SentryWeapons ----------------------------
(***************************************************************************)
(* The weapons of the sentry: who controls feeder, flywheels and gimbal in *)
(* a match, and what the comprised commands that do keep in their private  *)
(* schedulers and timers when they are interrupted and started again:      *)
(*                                                                         *)
(*   SentryMatchFiringControlCommand   feeder and flywheels, of            *)
(*                                     stopFeeder, fullAuto, runShooter    *)
(*   SentryMatchGimbalControlCommand   gimbal, of patrol and chase         *)
(*   StopShooterComprisedCommand       flywheels, of brake and stop: the   *)
(*                                     default when nobody has them        *)
(*   RunShooterCommand                 flywheels, by the operator's hand   *)
(*                                                                         *)
(* The master scheduler is kept as the owner of the flywheels, the vision  *)
(* link as the last message and whether bytes arrive at all.               *)
(***************************************************************************)
EXTENDS Integers, Timeouts

CONSTANTS
  ChassisState,  \* the state the chassis command reports
  MinimumTime,   \* shootMinimumTime's 1000 ms
  RefireTime,    \* refireTimer's 2000 ms
  ChaseTime      \* chaseTimeoutMillis, 500 ms

ASSUME WeaponsAssumption ==
  /\ ChassisState \in {"START", "RESUPPLYING", "GUARDING", "RETREAT", "AGGRO", "CAPTURE", "EVADE"}
  /\ MinimumTime \in Nat \ {0} /\ RefireTime \in Nat
  /\ ChaseTime \in Nat /\ ChaseTime <= MinimumTime

VARIABLES
  owner,             \* of the flywheels: "match", "manual", "default" or "none"
  firing,            \* private scheduler of the firing command
  refireTimer,
  shootMinimumTime,
  stopper,           \* private scheduler of the default command
  brakeFinished,
  aiming,            \* the gimbal command is scheduled
  tracking,          \* its private scheduler
  chaseTimeout,
  feeder,            \* the feeder's target: "stop" or "turn"
  output,            \* the flywheels' output: "zero", "brake" or "velocity"
  fast,              \* some flywheel turns faster than the brake's tolerance
  online,            \* bytes arrive from the vision computer
  sight,             \* cvState of its last message: "none", "found" or "fire"
  onAim,             \* the turret is within the aiming tolerance of the target
  inGame,            \* the referee's game stage
  sinceAim,          \* ticks since the firing command last saw it so, up to MinimumTime
  unbroken           \* and it has found the vision computer online since

gun     == <<owner, firing, refireTimer, shootMinimumTime, feeder>>
wheels  == <<stopper, brakeFinished, output>>
gimbal  == <<aiming, tracking, chaseTimeout>>
sensors == <<online, sight, onAim, inGame>>
witness == <<sinceAim, unbroken>>
vars    == <<gun, wheels, gimbal, fast, sensors, witness>>

FiringReq == [stopFeeder |-> {"feeder"}, fullAuto |-> {"feeder"}, runShooter |-> {"shooter"}]

Firing == INSTANCE SchedulerState
  WITH Commands <- DOMAIN FiringReq, Subsystems <- {"feeder", "shooter"}, Req <- FiringReq

Stopper == INSTANCE SchedulerState
  WITH Commands <- {"brake", "stop"}, Subsystems <- {"shooter"},
       Req <- [c \in {"brake", "stop"} |-> {"shooter"}]

Tracking == INSTANCE SchedulerState
  WITH Commands <- {"patrol", "chase"}, Subsystems <- {"gimbal"},
       Req <- [c \in {"patrol", "chase"} |-> {"gimbal"}]

-----------------------------------------------------------------------------
\* The firing command's timers are stopped until it starts them, and not asked.
Init ==
  /\ owner = "none"
  /\ firing = Firing!EmptyScheduler
  /\ refireTimer = NeverStarted
  /\ shootMinimumTime = NeverStarted
  /\ stopper = Stopper!EmptyScheduler
  /\ brakeFinished = FALSE
  /\ aiming = FALSE
  /\ tracking = Tracking!EmptyScheduler
  /\ chaseTimeout = Restart(0)
  /\ feeder = "stop"
  /\ output = "zero"
  /\ fast = FALSE
  /\ online = FALSE
  /\ sight = "none"
  /\ onAim = FALSE
  /\ inGame \in BOOLEAN
  /\ sinceAim = MinimumTime
  /\ unbroken = FALSE

-----------------------------------------------------------------------------
\* The firing command.

\* Faulty forms (mutants): shootMinimumTime is left as the last engagement left it;
\* refireTimer is not started.
FiringInitializeHot ==
  /\ firing' = Firing!ScheduleIfNotScheduled(
                 Firing!ScheduleIfNotScheduled(firing, "stopFeeder"), "runShooter")
  /\ refireTimer' = Restart(0)
  /\ UNCHANGED shootMinimumTime

FiringInitializeOnce ==
  /\ firing' = Firing!ScheduleIfNotScheduled(
                 Firing!ScheduleIfNotScheduled(firing, "stopFeeder"), "runShooter")
  /\ shootMinimumTime' = Restart(0)
  /\ UNCHANGED refireTimer

\* initialize()
FiringInitialize ==
  /\ firing' = Firing!ScheduleIfNotScheduled(
                 Firing!ScheduleIfNotScheduled(firing, "stopFeeder"), "runShooter")
  /\ shootMinimumTime' = Restart(0)
  /\ refireTimer' = Restart(0)

\* Faulty form (mutant): as end() of the default command, it does nothing.
FiringEndEmpty == UNCHANGED <<firing, feeder, refireTimer, shootMinimumTime>>

\* end(): the full-auto command ends, and both feeder commands stop the feeder.
FiringEnd ==
  /\ firing' = Firing!ScheduleIfNotScheduled(Firing!RemoveCommand(firing, "fullAuto"), "stopFeeder")
  /\ feeder' = "stop"
  /\ UNCHANGED <<refireTimer, shootMinimumTime>>

\* It sees the target where the turret aims.
OnTarget == online /\ inGame /\ sight = "found" /\ onAim

\* shootMinimumTime once the target was looked at.
Pressed == IF OnTarget THEN Restart(MinimumTime) ELSE shootMinimumTime

MayFire == online /\ inGame /\ ChassisState # "EVADE" /\ ~IsExpired(Pressed)

\* The full-auto command is started anew every RefireTime, for its allowance of
\* projectiles is computed when it starts.
Refires == MayFire /\ Due(refireTimer)

FiringControl ==
  CASE Refires -> Firing!AddCommand(Firing!RemoveCommand(firing, "fullAuto"), "fullAuto")
    [] MayFire /\ ~Refires -> firing
    [] OTHER -> Firing!ScheduleIfNotScheduled(firing, "stopFeeder")

\* execute(), with the run of the private scheduler. The full-auto command turns the
\* feeder only as far as the barrel's heat allows.
FiringExecute ==
  /\ firing' = FiringControl
  /\ shootMinimumTime' = Pressed
  /\ refireTimer' = IF Refires THEN Restart(RefireTime) ELSE refireTimer
  /\ feeder' \in IF Firing!IsCommandScheduled(firing', "fullAuto") THEN {"stop", "turn"}
                 ELSE IF Firing!IsCommandScheduled(firing', "stopFeeder") THEN {"stop"}
                 ELSE {feeder}
  /\ output' = IF Firing!IsCommandScheduled(firing', "runShooter") THEN "velocity" ELSE output
  /\ sinceAim' = IF OnTarget THEN 0 ELSE sinceAim
  /\ unbroken' = (OnTarget \/ (unbroken /\ online))

-----------------------------------------------------------------------------
\* The default command of the flywheels.

\* Faulty form (mutant): brakeFinished is left as the last stop left it.
StopperInitializeFinished ==
  stopper' = Stopper!AddCommand(stopper, "brake") /\ UNCHANGED brakeFinished

\* initialize(); its end() is empty.
StopperInitialize ==
  /\ stopper' = Stopper!AddCommand(stopper, "brake")
  /\ brakeFinished' = FALSE

\* execute(): the brake gives way to the stop command once no flywheel is fast, or
\* is removed when the private run finds it finished.
StopperExecute ==
  LET slowed == ~fast /\ ~brakeFinished
      control == IF slowed THEN Stopper!AddCommand(stopper, "stop") ELSE stopper
      braking == Stopper!IsCommandScheduled(control, "brake")
  IN  /\ brakeFinished' = (slowed \/ brakeFinished)
      /\ output' = IF braking THEN "brake"
                   ELSE IF Stopper!IsCommandScheduled(control, "stop") THEN "zero" ELSE output
      /\ stopper' = IF braking /\ ~fast THEN Stopper!RemoveCommand(control, "brake") ELSE control

-----------------------------------------------------------------------------
\* The gimbal command.

GimbalInitialize == tracking' = Tracking!ScheduleIfNotScheduled(tracking, "patrol")

GimbalEnd ==
  tracking' = Tracking!RemoveCommand(Tracking!RemoveCommand(tracking, "patrol"), "chase")

\* Faulty forms (mutants): chaseTimeout is not restarted; the patrol does not come back.
GimbalExecuteBriefly ==
  /\ tracking' = Tracking!ScheduleIfNotScheduled(
       tracking, IF online /\ sight # "none" /\ ~IsExpired(chaseTimeout) THEN "chase" ELSE "patrol")
  /\ UNCHANGED chaseTimeout

GimbalExecuteForGood ==
  /\ tracking' = IF online /\ sight # "none"
                 THEN Tracking!ScheduleIfNotScheduled(tracking, "chase") ELSE tracking
  /\ chaseTimeout' = IF online /\ sight # "none" THEN Restart(ChaseTime) ELSE chaseTimeout

\* execute(): a target that is seen is chased, and for ChaseTime after that.
GimbalExecute ==
  LET seen    == sight \in {"found", "fire"}
      chasing == IF seen THEN Tracking!ScheduleIfNotScheduled(tracking, "chase") ELSE tracking
      timeout == IF seen THEN Restart(ChaseTime) ELSE chaseTimeout
      patrol(s) == Tracking!ScheduleIfNotScheduled(s, "patrol")
  IN  IF ~online
      THEN tracking' = patrol(tracking) /\ UNCHANGED chaseTimeout
      ELSE /\ tracking' = IF IsExpired(timeout) THEN patrol(chasing) ELSE chasing
           /\ chaseTimeout' = timeout

-----------------------------------------------------------------------------
\* The master scheduler.

\* The match mapping's key goes down: it takes feeder, flywheels and gimbal.
StartMatch ==
  /\ ~aiming /\ owner # "match"
  /\ owner' = "match"
  /\ FiringInitialize
  /\ feeder' = "stop"
  /\ aiming' = TRUE
  /\ GimbalInitialize
  /\ sinceAim' = MinimumTime
  /\ unbroken' = FALSE
  /\ UNCHANGED <<wheels, chaseTimeout, fast, sensors>>

\* It goes up: the gimbal command ends, and the firing command unless the operator
\* has taken the flywheels from it.
EndMatch ==
  /\ aiming
  /\ aiming' = FALSE
  /\ GimbalEnd
  /\ IF owner = "match" THEN owner' = "none" /\ FiringEnd ELSE UNCHANGED gun
  /\ UNCHANGED <<wheels, chaseTimeout, fast, sensors, witness>>

\* The operator takes the flywheels; the feeder goes to its default command.
StartManual ==
  /\ owner # "manual"
  /\ owner' = "manual"
  /\ IF owner = "match" THEN FiringEnd
     ELSE UNCHANGED <<firing, refireTimer, shootMinimumTime, feeder>>
  /\ UNCHANGED <<wheels, gimbal, fast, sensors, witness>>

EndManual ==
  /\ owner = "manual"
  /\ owner' = "none"
  /\ UNCHANGED <<firing, refireTimer, shootMinimumTime, feeder, wheels, gimbal, fast, sensors,
                 witness>>

\* One run of the master scheduler: the owner of the flywheels executes, or the
\* default command takes them; the gimbal command executes.
Run ==
  /\ CASE owner = "match" ->
            FiringExecute /\ UNCHANGED <<owner, stopper, brakeFinished>>
       [] owner = "manual" ->
            output' = "velocity" /\ UNCHANGED <<gun, stopper, brakeFinished, witness>>
       [] owner = "default" ->
            StopperExecute /\ UNCHANGED <<gun, witness>>
       [] owner = "none" ->
            /\ owner' = "default"
            /\ StopperInitialize
            /\ UNCHANGED <<firing, refireTimer, shootMinimumTime, feeder, output, witness>>
  /\ IF aiming THEN GimbalExecute ELSE UNCHANGED <<tracking, chaseTimeout>>
  /\ UNCHANGED <<aiming, fast, sensors>>

-----------------------------------------------------------------------------
\* Flywheels, vision, referee and clock.

SpeedUp ==
  /\ output = "velocity" /\ ~fast
  /\ fast' = TRUE
  /\ UNCHANGED <<gun, wheels, gimbal, sensors, witness>>

SlowDown ==
  /\ output # "velocity" /\ fast
  /\ fast' = FALSE
  /\ UNCHANGED <<gun, wheels, gimbal, sensors, witness>>

\* A message of the vision computer.
Message ==
  /\ online' = TRUE
  /\ sight' \in {"none", "found", "fire"}
  /\ UNCHANGED <<gun, wheels, gimbal, fast, onAim, inGame, witness>>

\* It falls silent, or only bytes arrive and the last message stands.
Silence ==
  /\ online' = ~online
  /\ UNCHANGED <<gun, wheels, gimbal, fast, sight, onAim, inGame, witness>>

\* The turret comes to aim at the target, or the target leaves it.
Aim ==
  /\ onAim' = ~onAim
  /\ UNCHANGED <<gun, wheels, gimbal, fast, online, sight, inGame, witness>>

GameStage ==
  /\ inGame' = ~inGame
  /\ UNCHANGED <<gun, wheels, gimbal, fast, online, sight, onAim, witness>>

Tick ==
  /\ refireTimer' = Elapse(refireTimer)
  /\ shootMinimumTime' = Elapse(shootMinimumTime)
  /\ chaseTimeout' = Elapse(chaseTimeout)
  /\ sinceAim' = IF sinceAim < MinimumTime THEN sinceAim + 1 ELSE sinceAim
  /\ UNCHANGED <<owner, firing, feeder, wheels, aiming, tracking, fast, sensors, unbroken>>

Next ==
  \/ StartMatch \/ EndMatch \/ StartManual \/ EndManual \/ Run
  \/ SpeedUp \/ SlowDown \/ Message \/ Silence \/ Aim \/ GameStage \/ Tick

\* The main loop runs the scheduler forever, the clock never stops, and flywheels
\* that are not driven slow down.
Spec == Init /\ [][Next]_vars /\ WF_vars(Run) /\ WF_vars(Tick) /\ WF_vars(SlowDown)

-----------------------------------------------------------------------------
TypeOK ==
  /\ owner \in {"match", "manual", "default", "none"}
  /\ firing \in [added : SUBSET DOMAIN FiringReq, assoc : SUBSET {"feeder", "shooter"}]
  /\ refireTimer \in Timers
  /\ shootMinimumTime \in Timers
  /\ stopper \in [added : SUBSET {"brake", "stop"}, assoc : SUBSET {"shooter"}]
  /\ brakeFinished \in BOOLEAN
  /\ aiming \in BOOLEAN
  /\ tracking \in [added : SUBSET {"patrol", "chase"}, assoc : SUBSET {"gimbal"}]
  /\ chaseTimeout \in Timers
  /\ feeder \in {"stop", "turn"}
  /\ output \in {"zero", "brake", "velocity"}
  /\ fast \in BOOLEAN
  /\ online \in BOOLEAN
  /\ sight \in {"none", "found", "fire"}
  /\ onAim \in BOOLEAN
  /\ inGame \in BOOLEAN
  /\ sinceAim \in 0 .. MinimumTime
  /\ unbroken \in BOOLEAN

\* The feeder never pushes projectiles into flywheels that are not driven, and never
\* turns when the match command does not own it: however often the command is
\* interrupted and started again, its private scheduler still has the flywheel
\* command, and an interruption in the middle of a burst stops the feeder.
FeedsDrivenWheels == feeder = "turn" => owner = "match" /\ output = "velocity"

\* The feeder turns only while a target was in the turret's aim less than MinimumTime
\* ago, seen by the firing command since it was started: timers an earlier engagement
\* left running fire no shot in the next one.
FeedsOnlyOnTarget ==
  [][Run /\ feeder' = "turn" => sinceAim' < MinimumTime]_vars

\* In a burst the gimbal is on the target: for ChaseTime after the firing command saw
\* it in its aim, the gimbal command, which keeps a scheduler and a timer of its own,
\* chases the target and does not go back to its patrol, unless the vision computer
\* was taken for silent in between.
ChasesWhileItFires ==
  feeder = "turn" /\ unbroken /\ sinceAim < ChaseTime =>
    Tracking!IsCommandScheduled(tracking, "chase")

\* A target that stays in sight and in aim is fired at, from some time on without
\* end: the refire timer delays a new burst and never prevents it.
AimedFires ==
  \/ []<>(owner # "match" \/ ~OnTarget)
  \/ <>[](Firing!IsCommandScheduled(firing, "fullAuto"))

\* Flywheels nobody wants come to rest: left to the default command they are braked
\* and then no longer driven, whatever phase of the brake the last owner interrupted.
WheelsComeToRest ==
  \/ []<>(owner # "default")
  \/ <>[](output = "zero" /\ ~fast)

\* A gimbal without a target goes back to its patrol, although the time it goes on
\* chasing does not count on while the vision computer is silent.
PatrolResumes ==
  \/ []<>(~aiming \/ (online /\ sight # "none"))
  \/ <>[](Tracking!IsCommandScheduled(tracking, "patrol"))
=============================================================================
