---------------------------- MODULE SentryChassis ----------------------------
(***************************************************************************)
(* The autonomous chassis of the sentry: SentryMatchChassisControlCommand  *)
(* with its private scheduler, the ChassisAutoNavCommand it drives with,   *)
(* and the settled test of that command's two position controllers         *)
(* (SettledUtil), which keeps a timer per axis and must be asked twice     *)
(* before it answers yes.                                                  *)
(*                                                                         *)
(* Of the robot's place the model keeps whether it is near the navigator's *)
(* target on each axis; of a path, how many waypoints it has left.         *)
(***************************************************************************)
EXTENDS Integers, Timeouts

CONSTANTS
  DelayTime,   \* delayTimer's 500 ms, the unit of time
  MaxPath      \* bound: waypoints of a path behind the start

ASSUME ChassisAssumption == DelayTime \in Nat /\ MaxPath \in Nat \ {0}

ChassisMatchStates ==
  {"START", "RESUPPLYING", "GUARDING", "RETREAT", "AGGRO", "CAPTURE", "EVADE"}

\* STATE_LOCKOUT_TIMES, in delay times; it has no entry for EVADE.
LockoutTime ==
  [START |-> 0, RESUPPLYING |-> 6 * DelayTime, GUARDING |-> 0, RETREAT |-> 0,
   AGGRO |-> 10 * DelayTime, CAPTURE |-> 20 * DelayTime]

Navigation == {"autoNav", "autoNavTokyo", "tokyo"}

Axes == [x : BOOLEAN, y : BOOLEAN]
OnSpot == [x |-> TRUE, y |-> TRUE]

VARIABLES
  running,           \* the match command is scheduled
  scheduled,         \* its private scheduler
  chassisState,      \* shared with the match commands of gimbal and feeder
  lastChassisState,
  activeMovement,
  delayTimer,
  lockoutTimer,
  path,              \* waypoints the navigation command has left
  error,             \* the errors of its controllers' last run are within tolerance
  errorTimer,        \* the settled tests' timers run
  drive,             \* the speeds of the chassis: "halted", "towards" the target, "spinning"
  near,              \* the robot is near the navigator's target
  inGame,            \* the referee's game stage
  pathFor,           \* the state a path was searched for last since initialize()
  found,             \* the last search found a path
  onTheSpot          \* the navigation command's last run took a waypoint the robot was at

command == <<running, scheduled, chassisState, lastChassisState, activeMovement,
             delayTimer, lockoutTimer, drive>>
navigation == <<path, error, errorTimer, pathFor, found, onTheSpot>>
vars == <<command, navigation, near, inGame>>

Scheduler == INSTANCE SchedulerState
  WITH Commands <- Navigation, Subsystems <- {"chassis"}, Req <- [c \in Navigation |-> {"chassis"}]

-----------------------------------------------------------------------------
\* The objects are static: their errors begin as zero, which is within tolerance.
Init ==
  /\ running = FALSE
  /\ scheduled = Scheduler!EmptyScheduler
  /\ chassisState = "START"
  /\ lastChassisState = "START"
  /\ activeMovement = FALSE
  /\ delayTimer = Restart(DelayTime)
  /\ lockoutTimer = Restart(0)
  /\ path = 0
  /\ error = OnSpot
  /\ errorTimer = [x |-> FALSE, y |-> FALSE]
  /\ drive = "halted"
  /\ near \in Axes
  /\ inGame \in BOOLEAN
  /\ pathFor = "none"
  /\ found = FALSE
  /\ onTheSpot = FALSE

-----------------------------------------------------------------------------
\* Faulty forms (mutants): a single call within tolerance is enough; no call starts
\* the timers.
SettledAtOnce(timer, e) == e.x /\ e.y
AskedInVain(timer, e) == timer

\* ChassisAutoNavCommand::isSettled. An axis answers yes when it is within
\* tolerance and its timer, of no duration, runs already; the first call within
\* tolerance only starts it. y is not asked unless x answers yes.
Settled(timer, e) == e.x /\ timer.x /\ e.y /\ timer.y

\* What a call leaves of the timers.
Asked(timer, e) == [x |-> e.x, y |-> IF e.x /\ timer.x THEN e.y ELSE timer.y]

\* ChassisAutoNavCommand::execute with the timers it finds, the waypoints left and
\* the robot's place: it halts at the end of its path; otherwise it takes the next
\* waypoint, if it is settled, and runs its controllers.
AutoNav(timer, left, place) ==
  LET once == Asked(timer, error)
      ask  == IF left = 0 THEN Asked(once, error) ELSE once
      pops == left > 0 /\ Settled(ask, error)
  IN  IF left = 0 /\ Settled(once, error)
      THEN /\ drive' = "halted"
           /\ errorTimer' = ask
           /\ path' = left /\ near' = place /\ onTheSpot' = FALSE
           /\ UNCHANGED error
      ELSE /\ drive' = "towards"
           /\ errorTimer' = Asked(ask, error)
           /\ path' = IF pops THEN left - 1 ELSE left
           /\ IF pops THEN near' \in Axes ELSE near' = place
           /\ onTheSpot' = (pops /\ near' = OnSpot)
           /\ error' = near'

-----------------------------------------------------------------------------
\* Faulty form (mutant): the last state is not recorded.
UpdatedInPlace(match, new) ==
  IF match.state = new THEN match
  ELSE [state |-> new, last |-> match.last, active |-> TRUE]

\* updateChassisState: what it makes of a state, the last one and the movement.
Updated(match, new) ==
  IF match.state = new THEN match
  ELSE [state |-> new, last |-> match.state, active |-> TRUE]

\* The choice of the next state once the lockout is over.
NextState(match, late, healthy) ==
  CASE match.state = "START" -> Updated(match, "GUARDING")
    [] match.state = "AGGRO" /\ ~match.active -> Updated(match, "CAPTURE")
    [] match.state = "RETREAT" /\ late -> Updated(match, "RESUPPLYING")
    [] match.state \in {"RETREAT", "RESUPPLYING"} /\ healthy -> Updated(match, "CAPTURE")
    [] OTHER -> match

\* initialize(): the detour over GUARDING makes START a new state.
Initialize ==
  /\ ~running
  /\ running' = TRUE
  /\ LET match == Updated([state |-> "GUARDING", last |-> lastChassisState,
                           active |-> activeMovement], "START")
     IN  /\ chassisState' = match.state
         /\ lastChassisState' = match.last
         /\ activeMovement' = match.active
  /\ delayTimer' = Restart(DelayTime)
  /\ lockoutTimer' = Restart(0)
  /\ pathFor' = "none"
  /\ UNCHANGED <<scheduled, drive, path, error, errorTimer, found, onTheSpot, near, inGame>>

\* All three are descheduled; the end of the scheduled one halts the chassis.
DescheduleAll ==
  /\ scheduled' = Scheduler!EmptyScheduler
  /\ drive' = IF scheduled = Scheduler!EmptyScheduler THEN drive ELSE "halted"

\* end()
End ==
  /\ running
  /\ running' = FALSE
  /\ DescheduleAll
  /\ chassisState' = "START"
  /\ UNCHANGED <<lastChassisState, activeMovement, delayTimer, lockoutTimer,
                 navigation, near, inGame>>

\* setTargetLocation: a search that finds no path leaves the navigator its target;
\* a path starts where the robot is, and that waypoint is taken at once. There is
\* no location for EVADE.
LoadPath(state, left, place) ==
  \/ state # "EVADE" /\ left = 0 /\ place = near
  \/ state # "EVADE" /\ left \in 1 .. MaxPath /\ place = OnSpot
  \/ state = "EVADE" /\ left = path /\ place = near

\* execute() in the game: upkeep of the movement, the next state, its path, and a
\* run of the private scheduler.
Play ==
  LET arrived == activeMovement /\ Settled(errorTimer, error) /\ IsExpired(delayTimer)
      timer   == IF activeMovement THEN Asked(errorTimer, error) ELSE errorTimer
      lockout == IF arrived THEN Restart(LockoutTime[chassisState]) ELSE lockoutTimer
      before  == [state |-> chassisState, last |-> lastChassisState,
                  active |-> activeMovement /\ ~arrived]
      control == Scheduler!ScheduleIfNotScheduled(
                   scheduled, IF activeMovement THEN "autoNav" ELSE "tokyo")
  IN  \E late, healthy \in BOOLEAN, left \in 0 .. MaxPath, place \in Axes :
        LET match == IF IsExpired(lockout) THEN NextState(before, late, healthy) ELSE before
            fresh == match.state # match.last
        IN  /\ IF fresh THEN LoadPath(match.state, left, place)
                        ELSE left = path /\ place = near
            /\ pathFor' = IF fresh THEN match.state ELSE pathFor
            /\ found' = IF fresh THEN left # 0 ELSE found
            /\ chassisState' = match.state
            /\ lastChassisState' = match.state
            /\ activeMovement' = match.active
            /\ delayTimer' = IF activeMovement THEN delayTimer ELSE Restart(DelayTime)
            /\ lockoutTimer' = lockout
            /\ scheduled' = control
            /\ IF Scheduler!IsCommandScheduled(control, "autoNav")
               THEN AutoNav(timer, left, place)
               ELSE /\ drive' = "spinning"
                    /\ errorTimer' = timer
                    /\ path' = left /\ near' = place
                    /\ UNCHANGED <<error, onTheSpot>>

\* execute() outside the game: all three are ended, and nothing is left to run.
StandBy ==
  /\ DescheduleAll
  /\ UNCHANGED <<chassisState, lastChassisState, activeMovement, delayTimer, lockoutTimer,
                 navigation, near>>

Execute ==
  /\ running
  /\ IF inGame THEN Play ELSE StandBy
  /\ UNCHANGED <<running, inGame>>

\* The referee starts or ends the game.
GameStage ==
  /\ inGame' = ~inGame
  /\ UNCHANGED <<command, navigation, near>>

\* The robot comes near its target on an axis while it drives there.
Approach(axis) ==
  /\ drive = "towards"
  /\ ~near[axis]
  /\ near' = [near EXCEPT ![axis] = TRUE]
  /\ UNCHANGED <<command, navigation, inGame>>

\* It leaves it: it overshoots, spins off or is pushed.
Drift(axis) ==
  /\ near[axis]
  /\ near' = [near EXCEPT ![axis] = FALSE]
  /\ UNCHANGED <<command, navigation, inGame>>

Tick ==
  /\ delayTimer' = Elapse(delayTimer)
  /\ lockoutTimer' = Elapse(lockoutTimer)
  /\ UNCHANGED <<running, scheduled, chassisState, lastChassisState, activeMovement, drive,
                 navigation, near, inGame>>

Next ==
  \/ Initialize \/ End \/ Execute \/ GameStage \/ Tick
  \/ \E axis \in {"x", "y"} : Approach(axis) \/ Drift(axis)

\* The main loop executes the command, time passes, and a robot that drives comes
\* to where it drives.
Spec ==
  /\ Init /\ [][Next]_vars
  /\ WF_vars(Execute) /\ WF_vars(Tick)
  /\ \A axis \in {"x", "y"} : WF_vars(Approach(axis))

-----------------------------------------------------------------------------
TypeOK ==
  /\ running \in BOOLEAN
  /\ scheduled \in [added : SUBSET Navigation, assoc : SUBSET {"chassis"}]
  /\ chassisState \in ChassisMatchStates
  /\ lastChassisState \in ChassisMatchStates
  /\ activeMovement \in BOOLEAN
  /\ delayTimer \in Timers
  /\ lockoutTimer \in Timers
  /\ path \in 0 .. MaxPath
  /\ error \in Axes
  /\ errorTimer \in Axes
  /\ drive \in {"halted", "towards", "spinning"}
  /\ near \in Axes
  /\ inGame \in BOOLEAN
  /\ pathFor \in ChassisMatchStates \cup {"none"}
  /\ found \in BOOLEAN
  /\ onTheSpot \in BOOLEAN

\* The chassis drives only for the running match command, and only along a path
\* searched, since that command was started, for the state it is in: an end in the
\* middle of a movement, the detour of initialize() and a game stage that comes and
\* goes never make it finish an old path from a new place or in a new state. A search
\* that finds no path clears the old one, too; but the navigator keeps the waypoint
\* it had, and the robot drives to that one and no further.
DrivesForItsState ==
  /\ drive # "halted" => running
  /\ drive = "towards" => pathFor = chassisState /\ (found \/ path = 0)

\* The command takes the robot for arrived (and starts to spin on the spot) only at
\* the end of its path: an intermediate waypoint is never taken for the end of it,
\* although the outer test asks the same two timers as the test inside the
\* navigation command. The exception is a waypoint at which the robot was already
\* when the run before took it.
ArrivalIsReal ==
  [][activeMovement /\ ~activeMovement' => path = 0 \/ onTheSpot]_vars

\* In a game that goes on, a robot that is not pushed off its way again and again
\* gets to the end of its path and stays in the state in which it guards. (Where that
\* is, a search that found no path has left to the last waypoint.)
GuardReached ==
  \/ []<>(~running \/ ~inGame)
  \/ \E axis \in {"x", "y"} : []<><<Drift(axis)>>_vars
  \/ <>[](chassisState = "GUARDING" /\ ~activeMovement)
=============================================================================
