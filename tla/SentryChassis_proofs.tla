------------------------- MODULE SentryChassis_proofs -------------------------
(***************************************************************************)
(* For every delay and every length of a path: the sentry's chassis drives *)
(* only for the state it is in, and takes for arrived only a robot at the  *)
(* end of its path.                                                        *)
(*                                                                         *)
(* The second rests on how often the settled test is asked: twice in each  *)
(* run that drives, so that a robot the outer test finds settled was found *)
(* settled by the inner one in the run before, which took the waypoint.    *)
(***************************************************************************)
EXTENDS SentryChassis, TLAPS

\* The states the code reaches, and the lockout that never lasts in them.
Reach ==
  /\ chassisState \in {"START", "GUARDING"}
  /\ lastChassisState \in {"START", "GUARDING"}
  /\ lockoutTimer.left = 0

\* A running command without a movement guards.
Guards ==
  running /\ ~activeMovement => chassisState = "GUARDING" /\ lastChassisState = "GUARDING"

\* A state that has been handled is the one the path was searched for.
PathIsFor == running /\ chassisState = lastChassisState => pathFor = chassisState

\* Speeds are set by a scheduled command, in a state that has been handled.
Driven ==
  drive # "halted" =>
    running /\ scheduled # Scheduler!EmptyScheduler /\ chassisState = lastChassisState

OneNavigation == ~ ("autoNav" \in scheduled.added /\ "tokyo" \in scheduled.added)

\* The settled test answers yes at the end of the path, or where the robot was at
\* the waypoint taken last.
SettledAtTheEnd == Settled(errorTimer, error) => path = 0 \/ onTheSpot

Places == error \in Axes /\ errorTimer \in Axes /\ near \in Axes

IInv ==
  Reach /\ Guards /\ PathIsFor /\ Driven /\ OneNavigation /\ SettledAtTheEnd /\ Places

-----------------------------------------------------------------------------
\* The private scheduler.

\* Scheduling one navigation command leaves it alone in the private scheduler.
LEMMA ScheduleNavigation ==
  ASSUME NEW c \in {"autoNav", "tokyo"}, OneNavigation
  PROVE  LET t == Scheduler!ScheduleIfNotScheduled(scheduled, c)
         IN  /\ c \in t.added
             /\ \A d \in {"autoNav", "tokyo"} : d # c => d \notin t.added
<1>1. CASE c \in scheduled.added
  BY <1>1 DEF OneNavigation, Scheduler!ScheduleIfNotScheduled, Scheduler!IsCommandScheduled
<1>2. CASE c \notin scheduled.added
  <2>1. Scheduler!ScheduleIfNotScheduled(scheduled, c) = Scheduler!AddCommand(scheduled, c)
    BY <1>2 DEF Scheduler!ScheduleIfNotScheduled, Scheduler!IsCommandScheduled
  <2>2. \A d \in Navigation : [e \in Navigation |-> {"chassis"}][d] = {"chassis"}
    OBVIOUS
  <2>3. {"autoNav", "tokyo"} \subseteq Navigation
    BY DEF Navigation
  <2>4. Scheduler!AddCommand(scheduled, c).added =
          (scheduled.added \ {d \in scheduled.added :
             [e \in Navigation |-> {"chassis"}][d] \cap [e \in Navigation |-> {"chassis"}][c] # {}})
            \cup {c}
    BY DEF Scheduler!AddCommand, Scheduler!Displaced
  <2> QED  BY <2>1, <2>2, <2>3, <2>4
<1> QED  BY <1>1, <1>2

\* An empty scheduler has no command.
LEMMA EmptyHasNone ==
  ASSUME NEW s, NEW c, c \in s.added
  PROVE  s # Scheduler!EmptyScheduler
BY DEF Scheduler!EmptyScheduler

-----------------------------------------------------------------------------
\* The settled test.

\* What a call of the settled test leaves of the timers.
LEMMA AskedIsAxes ==
  ASSUME NEW t \in Axes, NEW e \in Axes
  PROVE  Asked(t, e) \in Axes /\ Asked(t, e).x = e.x
<1>1. e.x \in BOOLEAN /\ e.y \in BOOLEAN /\ t.y \in BOOLEAN
  BY DEF Axes
<1>2. (IF e.x /\ t.x THEN e.y ELSE t.y) \in BOOLEAN
  BY <1>1, Zenon
<1> QED  BY <1>1, <1>2 DEF Asked, Axes

\* Asked three times with the same errors, it has answered yes by the third call if
\* it leaves both timers running.
LEMMA ThirdCallKnows ==
  ASSUME NEW t \in Axes, NEW e \in Axes,
         Asked(Asked(Asked(t, e), e), e).x, Asked(Asked(Asked(t, e), e), e).y
  PROVE  Settled(Asked(Asked(t, e), e), e)
<1> DEFINE a == Asked(t, e)
           b == Asked(a, e)
           c == Asked(b, e)
<1>1. a \in Axes /\ b \in Axes /\ c \in Axes /\ a.x = e.x /\ b.x = e.x /\ c.x = e.x
  BY AskedIsAxes
<1>2. /\ b.y = IF e.x /\ a.x THEN e.y ELSE a.y
      /\ c.y = IF e.x /\ b.x THEN e.y ELSE b.y
  BY DEF Asked
<1>3. c.x /\ c.y
  OBVIOUS
<1>4. Settled(b, e) <=> e.x /\ b.x /\ e.y /\ b.y
  BY DEF Settled
<1> HIDE DEF a, b, c
<1>5. e.x /\ a.x /\ b.x
  BY <1>1, <1>3, Zenon
<1>6. e.y /\ b.y
  BY <1>2, <1>3, <1>5, Zenon
<1>7. Settled(b, e)
  BY <1>4, <1>5, <1>6, Zenon
<1> QED  BY <1>7 DEF a, b

\* A place within tolerance on both axes is on the spot.
LEMMA BothIsOnSpot ==
  ASSUME NEW place \in Axes, place.x, place.y
  PROVE  place = OnSpot
<1>1. place.x = TRUE /\ place.y = TRUE
  BY Zenon DEF Axes
<1>2. place = [x |-> place.x, y |-> place.y]
  BY DEF Axes
<1> QED  BY <1>1, <1>2, Zenon DEF OnSpot

\* A run of the navigation command, behind the outer test, leaves the settled test
\* answering yes only at the end of the path or on the spot.
LEMMA AutoNavSettles ==
  ASSUME Places, NEW left \in Nat, NEW place \in Axes,
         AutoNav(Asked(errorTimer, error), left, place)
  PROVE  SettledAtTheEnd' /\ Places' /\ drive' \in {"halted", "towards"}
<1> DEFINE t == Asked(errorTimer, error)
           once == Asked(t, error)
           ask == IF left = 0 THEN Asked(once, error) ELSE once
           pops == left > 0 /\ Settled(ask, error)
<1>1. t \in Axes /\ once \in Axes /\ ask \in Axes /\ Asked(ask, error) \in Axes
  BY AskedIsAxes DEF Places
<1>2. \/ /\ left = 0 /\ path' = left /\ errorTimer' = ask /\ near' = place
         /\ drive' = "halted" /\ UNCHANGED error
      \/ /\ errorTimer' = Asked(ask, error)
         /\ path' = IF pops THEN left - 1 ELSE left
         /\ IF pops THEN near' \in Axes ELSE near' = place
         /\ onTheSpot' = (pops /\ near' = OnSpot)
         /\ error' = near'
         /\ drive' = "towards"
  BY Zenon DEF AutoNav
<1>3. Places' /\ drive' \in {"halted", "towards"}
  BY <1>1, <1>2 DEF Places
<1>4. CASE left = 0
  <2>1. path' = 0
    BY <1>2, <1>4
  <2> QED  BY <1>3, <2>1 DEF SettledAtTheEnd
<1>5. CASE left # 0
  <2>1. SUFFICES ASSUME Settled(errorTimer', error')  PROVE path' = 0 \/ onTheSpot'
    BY <1>3 DEF SettledAtTheEnd
  <2>2. errorTimer'.x /\ errorTimer'.y /\ error'.x /\ error'.y
    BY <2>1, Zenon DEF Settled
  <2>3. ask = once
    BY <1>5
  <2>4. errorTimer' = Asked(once, error)
    BY <1>2, <1>5, <2>3
  <2>5. Settled(once, error)
    BY <2>2, <2>4, ThirdCallKnows DEF Places
  <2>6. pops
    BY <1>5, <2>3, <2>5
  <2>7. error' = OnSpot
    BY <1>3, <2>2, BothIsOnSpot DEF Places
  <2>8. onTheSpot' = (pops /\ near' = OnSpot) /\ error' = near'
    BY <1>2, <1>5
  <2> QED  BY <2>6, <2>7, <2>8, Zenon
<1> QED  BY <1>4, <1>5

-----------------------------------------------------------------------------
\* What a run in the game does to a command in a state the code reaches.
LEMMA PlayInReach ==
  ASSUME IInv, running, Play
  PROVE  /\ Reach' /\ chassisState' = "GUARDING" /\ lastChassisState' = "GUARDING"
         /\ pathFor' = "GUARDING"
         /\ scheduled' # Scheduler!EmptyScheduler
         /\ OneNavigation'
         /\ SettledAtTheEnd' /\ Places'
         /\ activeMovement /\ ~activeMovement' => Settled(errorTimer, error)
<1> DEFINE arrived == activeMovement /\ Settled(errorTimer, error) /\ IsExpired(delayTimer)
           timer   == IF activeMovement THEN Asked(errorTimer, error) ELSE errorTimer
           lockout == IF arrived THEN Restart(LockoutTime[chassisState]) ELSE lockoutTimer
           before  == [state |-> chassisState, last |-> lastChassisState,
                       active |-> activeMovement /\ ~arrived]
           control == Scheduler!ScheduleIfNotScheduled(
                        scheduled, IF activeMovement THEN "autoNav" ELSE "tokyo")
           match(late, healthy) ==
             IF IsExpired(lockout) THEN NextState(before, late, healthy) ELSE before
<1>1. PICK late \in BOOLEAN, healthy \in BOOLEAN, left \in 0 .. MaxPath, place \in Axes :
        /\ IF match(late, healthy).state # match(late, healthy).last
           THEN LoadPath(match(late, healthy).state, left, place)
           ELSE left = path /\ place = near
        /\ pathFor' = IF match(late, healthy).state # match(late, healthy).last
                      THEN match(late, healthy).state ELSE pathFor
        /\ chassisState' = match(late, healthy).state
        /\ lastChassisState' = match(late, healthy).state
        /\ activeMovement' = match(late, healthy).active
        /\ delayTimer' = IF activeMovement THEN delayTimer ELSE Restart(DelayTime)
        /\ lockoutTimer' = lockout
        /\ scheduled' = control
        /\ IF Scheduler!IsCommandScheduled(control, "autoNav")
           THEN AutoNav(timer, left, place)
           ELSE /\ drive' = "spinning"
                /\ errorTimer' = timer
                /\ path' = left /\ near' = place
                /\ UNCHANGED <<error, onTheSpot>>
  BY DEF Play
<1>2. lockout.left = 0
  <2>1. LockoutTime[chassisState] = 0
    BY DEF IInv, Reach, LockoutTime
  <2>2. Restart(0).left = 0
    BY DEF Restart
  <2> QED  BY <2>1, <2>2 DEF IInv, Reach
<1>3. match(late, healthy) =
        IF chassisState = "START"
        THEN [state |-> "GUARDING", last |-> "START", active |-> TRUE] ELSE before
  <2>1. IsExpired(lockout)
    BY <1>2 DEF IsExpired
  <2>2. CASE chassisState = "START"
    BY <2>1, <2>2 DEF NextState, Updated
  <2>3. CASE chassisState = "GUARDING"
    BY <2>1, <2>3 DEF NextState
  <2> QED  BY <2>2, <2>3 DEF IInv, Reach
<1>4. left \in Nat
  BY ChassisAssumption
<1> HIDE DEF lockout, match
<1>5. CASE chassisState = "START"
  <2>1. match(late, healthy) = [state |-> "GUARDING", last |-> "START", active |-> TRUE]
    BY <1>3, <1>5
  <2>2. /\ pathFor' = "GUARDING" /\ chassisState' = "GUARDING"
        /\ lastChassisState' = "GUARDING" /\ activeMovement' = TRUE
        /\ lockoutTimer' = lockout /\ scheduled' = control
    BY <1>1, <2>1
  <2>3. activeMovement
    BY <1>5 DEF IInv, Guards
  <2>4. control = Scheduler!ScheduleIfNotScheduled(scheduled, "autoNav")
    BY <2>3
  <2>5. "autoNav" \in control.added /\ "tokyo" \notin control.added
    BY <2>4, ScheduleNavigation DEF IInv
  <2>6. timer = Asked(errorTimer, error)
    BY <2>3
  <2>7. AutoNav(Asked(errorTimer, error), left, place)
    BY <1>1, <2>5, <2>6 DEF Scheduler!IsCommandScheduled
  <2>8. SettledAtTheEnd' /\ Places'
    BY <1>4, <2>7, AutoNavSettles DEF IInv
  <2> QED  BY <1>2, <2>2, <2>5, <2>8, EmptyHasNone DEF Reach, OneNavigation
<1>6. CASE chassisState = "GUARDING"
  <2>1. match(late, healthy) = before
    BY <1>3, <1>6
  <2>2. /\ chassisState' = "GUARDING" /\ lastChassisState' = "GUARDING"
        /\ activeMovement' = (activeMovement /\ ~arrived)
        /\ lockoutTimer' = lockout /\ scheduled' = control
    BY <1>1, <1>6, <2>1
  <2>3. pathFor' = "GUARDING"
    <3>1. CASE lastChassisState = "GUARDING"
      BY <1>1, <1>6, <2>1, <3>1 DEF IInv, PathIsFor
    <3>2. CASE lastChassisState # "GUARDING"
      BY <1>1, <1>6, <2>1, <3>2
    <3> QED  BY <3>1, <3>2
  <2>4. activeMovement /\ ~activeMovement' => Settled(errorTimer, error)
    BY <2>2, Zenon
  <2>5. CASE activeMovement
    <3>1. control = Scheduler!ScheduleIfNotScheduled(scheduled, "autoNav")
      BY <2>5
    <3>2. "autoNav" \in control.added /\ "tokyo" \notin control.added
      BY <3>1, ScheduleNavigation DEF IInv
    <3>3. timer = Asked(errorTimer, error)
      BY <2>5
    <3>4. AutoNav(Asked(errorTimer, error), left, place)
      BY <1>1, <3>2, <3>3 DEF Scheduler!IsCommandScheduled
    <3>5. SettledAtTheEnd' /\ Places'
      BY <1>4, <3>4, AutoNavSettles DEF IInv
    <3> QED  BY <1>2, <2>2, <2>3, <2>4, <3>2, <3>5, EmptyHasNone DEF Reach, OneNavigation
  <2>6. CASE ~activeMovement
    <3>1. control = Scheduler!ScheduleIfNotScheduled(scheduled, "tokyo")
      BY <2>6
    <3>2. "tokyo" \in control.added /\ "autoNav" \notin control.added
      BY <3>1, ScheduleNavigation DEF IInv
    <3>3. timer = errorTimer
      BY <2>6
    <3>4. left = path /\ place = near
      BY <1>1, <1>6, <2>1, <2>6 DEF IInv, Guards
    <3>5. UNCHANGED <<errorTimer, error, path, onTheSpot, near>>
      BY <1>1, <3>2, <3>3, <3>4 DEF Scheduler!IsCommandScheduled
    <3>6. SettledAtTheEnd' /\ Places'
      BY <3>5 DEF IInv, SettledAtTheEnd, Places
    <3> QED  BY <1>2, <2>2, <2>3, <2>4, <3>2, <3>6, EmptyHasNone DEF Reach, OneNavigation
  <2> QED  BY <2>5, <2>6
<1> QED  BY <1>5, <1>6 DEF IInv, Reach

\* Every step keeps the invariant.
LEMMA StepKeepsInvariant ==
  ASSUME IInv, [Next]_vars
  PROVE  IInv'
<1> USE DEF command, navigation
<1>1. CASE Initialize
  <2>1. /\ running' = TRUE
        /\ chassisState' = "START" /\ lastChassisState' = "GUARDING" /\ activeMovement' = TRUE
        /\ lockoutTimer' = Restart(0)
        /\ UNCHANGED <<scheduled, drive, path, error, errorTimer, found, onTheSpot, near>>
    BY <1>1 DEF Initialize, Updated
  <2>2. drive = "halted"
    BY <1>1 DEF Initialize, IInv, Driven
  <2> QED  BY <2>1, <2>2
           DEF IInv, Reach, Guards, PathIsFor, Driven, OneNavigation, SettledAtTheEnd, Places,
               Restart
<1>2. ASSUME DescheduleAll  PROVE drive' = "halted" /\ OneNavigation'
  BY <1>2 DEF DescheduleAll, IInv, Driven, OneNavigation, Scheduler!EmptyScheduler
<1>3. CASE End
  <2>1. /\ running' = FALSE /\ chassisState' = "START" /\ drive' = "halted" /\ OneNavigation'
        /\ UNCHANGED <<lastChassisState, activeMovement, lockoutTimer, navigation, near>>
    BY <1>2, <1>3 DEF End
  <2> QED  BY <2>1
           DEF IInv, Reach, Guards, PathIsFor, Driven, SettledAtTheEnd, Places
<1>4. CASE Execute
  <2>1. CASE inGame
    <3>1. running /\ running' /\ Play
      BY <1>4, <2>1 DEF Execute
    <3> QED  BY <3>1, PlayInReach DEF IInv, Guards, PathIsFor, Driven
  <2>2. CASE ~inGame
    <3>1. /\ drive' = "halted" /\ OneNavigation'
          /\ UNCHANGED <<running, chassisState, lastChassisState, activeMovement, lockoutTimer,
                         navigation, near>>
      BY <1>2, <1>4, <2>2 DEF Execute, StandBy
    <3> QED  BY <3>1
             DEF IInv, Reach, Guards, PathIsFor, Driven, SettledAtTheEnd, Places
  <2> QED  BY <2>1, <2>2
<1>5. CASE GameStage
  BY <1>5 DEF GameStage, IInv, Reach, Guards, PathIsFor, Driven, OneNavigation,
              SettledAtTheEnd, Places
<1>6. CASE \E axis \in {"x", "y"} : Approach(axis) \/ Drift(axis)
  <2>1. PICK axis \in {"x", "y"} : Approach(axis) \/ Drift(axis)
    BY <1>6
  <2>2. near' \in Axes
    <3>1. near' = [near EXCEPT ![axis] = TRUE] \/ near' = [near EXCEPT ![axis] = FALSE]
      BY <2>1 DEF Approach, Drift
    <3> QED  BY <3>1 DEF IInv, Places, Axes
  <2>3. UNCHANGED <<command, navigation>>
    BY <2>1 DEF Approach, Drift
  <2> QED  BY <2>2, <2>3 DEF IInv, Reach, Guards, PathIsFor, Driven, OneNavigation,
                             SettledAtTheEnd, Places
<1>7. CASE Tick
  <2>1. lockoutTimer'.left = 0
    BY <1>7 DEF Tick, Elapse, IInv, Reach
  <2> QED  BY <1>7, <2>1 DEF Tick, IInv, Reach, Guards, PathIsFor, Driven, OneNavigation,
                             SettledAtTheEnd, Places
<1>8. CASE UNCHANGED vars
  BY <1>8 DEF vars, IInv, Reach, Guards, PathIsFor, Driven, OneNavigation, SettledAtTheEnd,
              Places
<1> QED  BY <1>1, <1>3, <1>4, <1>5, <1>6, <1>7, <1>8 DEF Next

-----------------------------------------------------------------------------
\* States reached, path and settled timers: the invariant holds in every reachable state.
THEOREM Invariance == Spec => []IInv
<1>1. Init => IInv
  <2> SUFFICES ASSUME Init  PROVE IInv
    OBVIOUS
  <2>1. Places
    BY DEF Init, Places, Axes, OnSpot
  <2>2. lockoutTimer.left = 0
    BY DEF Init, Restart
  <2>3. OneNavigation
    BY DEF Init, OneNavigation, Scheduler!EmptyScheduler
  <2> QED  BY <2>1, <2>2, <2>3
           DEF Init, IInv, Reach, Guards, PathIsFor, Driven, SettledAtTheEnd
<1>2. IInv /\ [Next]_vars => IInv'
  BY StepKeepsInvariant
<1> QED  BY <1>1, <1>2, PTL DEF Spec

\* A path comes from a search that found one: a search that found none has cleared
\* the path before it.
PathWasFound == found \/ path = 0

\* A run in the game loads what its search found, and only takes waypoints from it.
LEMMA PlayKeepsFound ==
  ASSUME PathWasFound, Play
  PROVE  PathWasFound'
<1> DEFINE timer   == IF activeMovement THEN Asked(errorTimer, error) ELSE errorTimer
           arrived == activeMovement /\ Settled(errorTimer, error) /\ IsExpired(delayTimer)
           lockout == IF arrived THEN Restart(LockoutTime[chassisState]) ELSE lockoutTimer
           before  == [state |-> chassisState, last |-> lastChassisState,
                       active |-> activeMovement /\ ~arrived]
           match(late, healthy) ==
             IF IsExpired(lockout) THEN NextState(before, late, healthy) ELSE before
           fresh(late, healthy) == match(late, healthy).state # match(late, healthy).last
<1>1. PICK late \in BOOLEAN, healthy \in BOOLEAN, left \in 0 .. MaxPath, place \in Axes :
        /\ ~fresh(late, healthy) => left = path
        /\ found' = IF fresh(late, healthy) THEN left # 0 ELSE found
        /\ AutoNav(timer, left, place) \/ path' = left
  BY DEF Play
<1> HIDE DEF timer, fresh
<1>2. left = 0 => path' = 0
  <2>1. ASSUME left = 0, AutoNav(timer, left, place)  PROVE path' = left
    <3>1. ~(left > 0)
      BY <2>1
    <3> QED  BY <2>1, <3>1, Zenon DEF AutoNav
  <2> QED  BY <1>1, <2>1
<1>3. found' \/ left = 0
  <2>1. CASE fresh(late, healthy)
    BY <1>1, <2>1, Zenon
  <2>2. CASE ~fresh(late, healthy)
    <3>1. found' = found /\ left = path
      BY <1>1, <2>2, Zenon
    <3> QED  BY <3>1, <1>2, Zenon DEF PathWasFound
  <2> QED  BY <2>1, <2>2
<1> QED  BY <1>2, <1>3, Zenon DEF PathWasFound

\* Every step keeps it.
LEMMA StepKeepsFound == PathWasFound /\ [Next]_vars => PathWasFound'
<1> SUFFICES ASSUME PathWasFound, [Next]_vars  PROVE PathWasFound'
  OBVIOUS
<1>1. CASE Execute /\ inGame
  BY <1>1, PlayKeepsFound DEF Execute
<1>2. CASE ~(Execute /\ inGame)
  <2>1. UNCHANGED <<path, found>>
    BY <1>2 DEF Next, vars, command, navigation, Initialize, End, Execute, StandBy, GameStage,
                Tick, Approach, Drift
  <2> QED  BY <2>1 DEF PathWasFound
<1> QED  BY <1>1, <1>2

\* The chassis drives only for the running match command, along a path searched
\* since it was started, for the state it is in, or, if the search found none, to
\* the one waypoint the navigator had.
THEOREM DrivesForItsStateHolds == Spec => []DrivesForItsState
<1>1. Init => PathWasFound
  BY DEF Init, PathWasFound
<1>2. IInv /\ PathWasFound => DrivesForItsState
  BY DEF IInv, Driven, PathIsFor, PathWasFound, DrivesForItsState
<1> QED  BY <1>1, <1>2, StepKeepsFound, Invariance, PTL DEF Spec

\* A movement ends only at the end of its path, or at a waypoint at which the robot
\* was when it took it.
THEOREM ArrivalIsRealHolds == Spec => ArrivalIsReal
<1>1. IInv /\ [Next]_vars =>
        [activeMovement /\ ~activeMovement' => path = 0 \/ onTheSpot]_vars
  <2> SUFFICES ASSUME IInv, Next, activeMovement, ~activeMovement'
               PROVE  Settled(errorTimer, error)
    BY DEF IInv, SettledAtTheEnd
  <2> USE DEF command, navigation
  <2>1. CASE Execute /\ inGame
    BY <2>1, PlayInReach DEF Execute
  <2>2. CASE Execute /\ ~inGame
    BY <2>2, Zenon DEF Execute, StandBy
  <2>3. CASE Initialize
    BY <2>3 DEF Initialize, Updated
  <2>4. CASE ~Execute /\ ~Initialize
    BY <2>4, Zenon DEF Next, End, GameStage, Tick, Approach, Drift
  <2> QED  BY <2>1, <2>2, <2>3, <2>4
<1> QED  BY <1>1, Invariance, PTL DEF Spec, ArrivalIsReal

-----------------------------------------------------------------------------
\* The type invariant by kinds: each kind needs a prover of its own.
Flags ==
  /\ running \in BOOLEAN /\ activeMovement \in BOOLEAN /\ inGame \in BOOLEAN
  /\ found \in BOOLEAN /\ onTheSpot \in BOOLEAN

Ways ==
  /\ path \in 0 .. MaxPath
  /\ drive \in {"halted", "towards", "spinning"}
  /\ pathFor \in {"none", "START", "GUARDING"}

AllTimers == delayTimer \in Timers /\ lockoutTimer \in Timers

PrivateScheduler == scheduled \in [added : SUBSET Navigation, assoc : SUBSET {"chassis"}]

Kinds == Flags /\ Ways /\ AllTimers /\ PrivateScheduler

\* The type invariant from the parts kept here and the invariant.
LEMMA TypesByKind == IInv /\ Kinds => TypeOK
BY DEF IInv, Reach, Places, Kinds, Flags, Ways, AllTimers, PrivateScheduler, TypeOK,
       ChassisMatchStates

\* Restart and Elapse give timers.
LEMMA TimerStates ==
  /\ \A t \in Nat : Restart(t) \in Timers
  /\ \A timer \in Timers : Elapse(timer) \in Timers
<1>1. ASSUME NEW timer \in Timers  PROVE Elapse(timer) \in Timers
  <2>1. timer.left \in Nat /\ timer.executed \in BOOLEAN
    BY DEF Timers
  <2>2. (IF timer.left = 0 THEN 0 ELSE timer.left - 1) \in Nat
    BY <2>1
  <2> QED  BY <2>1, <2>2 DEF Elapse, Timers
<1>2. \A t \in Nat : Restart(t) \in Timers
  BY DEF Restart, Timers
<1> QED  BY <1>1, <1>2

\* The private scheduler keeps its type.
LEMMA SchedulerStates ==
  ASSUME PrivateScheduler, NEW c \in {"autoNav", "tokyo"}
  PROVE  Scheduler!ScheduleIfNotScheduled(scheduled, c) \in
           [added : SUBSET Navigation, assoc : SUBSET {"chassis"}]
<1>1. /\ scheduled.added \subseteq Navigation /\ scheduled.assoc \subseteq {"chassis"}
      /\ c \in Navigation
  BY DEF PrivateScheduler, Navigation
<1>2. [e \in Navigation |-> {"chassis"}][c] = {"chassis"}
  BY <1>1
<1> HIDE DEF Navigation
<1>3. Scheduler!AddCommand(scheduled, c) \in
        [added : SUBSET Navigation, assoc : SUBSET {"chassis"}]
  BY <1>1, <1>2 DEF Scheduler!AddCommand, Scheduler!Displaced
<1> QED  BY <1>3 DEF PrivateScheduler, Scheduler!ScheduleIfNotScheduled

\* A run in the game takes at most one waypoint.
LEMMA PlayKeepsKinds ==
  ASSUME IInv, Kinds, running, Play
  PROVE  /\ activeMovement' \in BOOLEAN /\ onTheSpot' \in BOOLEAN /\ found' \in BOOLEAN
         /\ path' \in 0 .. MaxPath /\ drive' \in {"halted", "towards", "spinning"}
         /\ AllTimers' /\ PrivateScheduler'
<1> DEFINE timer   == IF activeMovement THEN Asked(errorTimer, error) ELSE errorTimer
           arrived == activeMovement /\ Settled(errorTimer, error) /\ IsExpired(delayTimer)
           lockout == IF arrived THEN Restart(LockoutTime[chassisState]) ELSE lockoutTimer
           before  == [state |-> chassisState, last |-> lastChassisState,
                       active |-> activeMovement /\ ~arrived]
           control == Scheduler!ScheduleIfNotScheduled(
                        scheduled, IF activeMovement THEN "autoNav" ELSE "tokyo")
           match(late, healthy) ==
             IF IsExpired(lockout) THEN NextState(before, late, healthy) ELSE before
<1>1. PICK late \in BOOLEAN, healthy \in BOOLEAN, left \in 0 .. MaxPath, place \in Axes :
        /\ activeMovement' = match(late, healthy).active
        /\ delayTimer' = IF activeMovement THEN delayTimer ELSE Restart(DelayTime)
        /\ lockoutTimer' = lockout
        /\ scheduled' = control
        /\ found' = IF match(late, healthy).state # match(late, healthy).last
                    THEN left # 0 ELSE found
        /\ \/ AutoNav(timer, left, place)
           \/ drive' = "spinning" /\ path' = left /\ UNCHANGED onTheSpot
  BY DEF Play
<1>2. activeMovement' \in BOOLEAN
  <2>1. before.active \in BOOLEAN
    BY Zenon
  <2>2. \A m : m = before => NextState(m, late, healthy).active \in {m.active, TRUE}
    BY DEF NextState, Updated
  <2>3. match(late, healthy).active \in {before.active, TRUE}
    BY <2>2
  <2> HIDE DEF match, before
  <2> QED  BY <1>1, <2>1, <2>3, Zenon
<1>3. AllTimers'
  <2>1. LockoutTime[chassisState] = 0
    BY DEF IInv, Reach, LockoutTime
  <2> QED  BY <1>1, <2>1, TimerStates, ChassisAssumption DEF Kinds, AllTimers
<1>4. PrivateScheduler'
  BY <1>1, SchedulerStates DEF Kinds, PrivateScheduler
<1>5. /\ onTheSpot' \in BOOLEAN /\ path' \in 0 .. MaxPath
      /\ drive' \in {"halted", "towards", "spinning"}
  <2>1. CASE AutoNav(timer, left, place)
    <3>1. PICK pops \in BOOLEAN :
            \/ path' = left /\ onTheSpot' = FALSE /\ drive' = "halted"
            \/ /\ path' = IF pops THEN left - 1 ELSE left
               /\ pops => left > 0
               /\ onTheSpot' = (pops /\ near' = OnSpot)
               /\ drive' = "towards"
      <4> DEFINE once == Asked(timer, error)
                 ask == IF left = 0 THEN Asked(once, error) ELSE once
                 p == left > 0 /\ Settled(ask, error)
      <4>1. \/ path' = left /\ onTheSpot' = FALSE /\ drive' = "halted"
            \/ /\ path' = IF p THEN left - 1 ELSE left
               /\ onTheSpot' = (p /\ near' = OnSpot)
               /\ drive' = "towards"
        BY <2>1, Zenon DEF AutoNav
      <4>2. p \in BOOLEAN /\ (p => left > 0)
        BY Zenon
      <4> HIDE DEF p
      <4> QED  BY <4>1, <4>2, Zenon
    <3>2. onTheSpot' \in BOOLEAN
      BY <3>1, Zenon
    <3>3. path' \in 0 .. MaxPath
      BY <3>1, ChassisAssumption
    <3> QED  BY <3>1, <3>2, <3>3
  <2>2. CASE drive' = "spinning" /\ path' = left /\ UNCHANGED onTheSpot
    BY <2>2 DEF Kinds, Flags
  <2> QED  BY <1>1, <2>1, <2>2
<1>6. found' \in BOOLEAN
  <2>1. (left # 0) \in BOOLEAN /\ found \in BOOLEAN
    BY DEF Kinds, Flags
  <2> QED  BY <1>1, <2>1, Zenon
<1> QED  BY <1>2, <1>3, <1>4, <1>5, <1>6

\* Every step keeps those parts.
LEMMA StepKeepsKinds ==
  ASSUME IInv, Kinds, [Next]_vars
  PROVE  Kinds'
<1> USE DEF command, navigation
<1>1. CASE Initialize
  <2>1. activeMovement' = TRUE /\ running' = TRUE /\ UNCHANGED <<inGame, found, onTheSpot>>
    BY <1>1 DEF Initialize, Updated
  <2>2. Flags'
    BY <2>1 DEF Kinds, Flags
  <2>3. Ways'
    BY <1>1 DEF Initialize, Kinds, Ways
  <2>4. AllTimers'
    BY <1>1, TimerStates, ChassisAssumption DEF Initialize, AllTimers
  <2>5. PrivateScheduler'
    BY <1>1 DEF Initialize, Kinds, PrivateScheduler
  <2> QED  BY <2>2, <2>3, <2>4, <2>5 DEF Kinds
<1>2. ASSUME DescheduleAll
      PROVE  drive' \in {"halted", drive} /\ PrivateScheduler'
  BY <1>2 DEF DescheduleAll, PrivateScheduler, Scheduler!EmptyScheduler
<1>3. CASE End
  <2>1. /\ running' = FALSE
        /\ UNCHANGED <<activeMovement, inGame, found, onTheSpot, path, pathFor, delayTimer,
                       lockoutTimer>>
    BY <1>3 DEF End
  <2>2. DescheduleAll
    BY <1>3 DEF End
  <2> QED  BY <1>2, <2>1, <2>2 DEF Kinds, Flags, Ways, AllTimers
<1>4. CASE Execute
  <2>1. CASE inGame
    <3>1. running /\ running' = running /\ inGame' = inGame /\ Play
      BY <1>4, <2>1 DEF Execute
    <3>2. pathFor' = "GUARDING"
      BY <3>1, PlayInReach
    <3> QED  BY <3>1, <3>2, PlayKeepsKinds DEF Kinds, Flags, Ways
  <2>2. CASE ~inGame
    <3>1. UNCHANGED <<running, activeMovement, inGame, found, onTheSpot, path, pathFor,
                      delayTimer, lockoutTimer>>
      BY <1>4, <2>2 DEF Execute, StandBy
    <3>2. DescheduleAll
      BY <1>4, <2>2 DEF Execute, StandBy
    <3> QED  BY <1>2, <3>1, <3>2 DEF Kinds, Flags, Ways, AllTimers
  <2> QED  BY <2>1, <2>2
<1>5. CASE GameStage
  <2>1. inGame' \in BOOLEAN
    BY <1>5, Zenon DEF GameStage
  <2> QED  BY <1>5, <2>1 DEF GameStage, Kinds, Flags, Ways, AllTimers, PrivateScheduler
<1>6. CASE \E axis \in {"x", "y"} : Approach(axis) \/ Drift(axis)
  <2>1. UNCHANGED <<command, navigation, inGame>>
    BY <1>6 DEF Approach, Drift
  <2> QED  BY <2>1 DEF Kinds, Flags, Ways, AllTimers, PrivateScheduler
<1>7. CASE Tick
  <2>1. AllTimers'
    BY <1>7, TimerStates DEF Tick, Kinds, AllTimers
  <2> QED  BY <1>7, <2>1 DEF Tick, Kinds, Flags, Ways, PrivateScheduler
<1>8. CASE UNCHANGED vars
  BY <1>8 DEF vars, Kinds, Flags, Ways, AllTimers, PrivateScheduler
<1> QED  BY <1>1, <1>3, <1>4, <1>5, <1>6, <1>7, <1>8 DEF Next

\* Every variable keeps its type.
THEOREM TypeCorrectness == Spec => []TypeOK
<1>1. Init => Kinds
  <2> SUFFICES ASSUME Init  PROVE Kinds
    OBVIOUS
  <2>1. Flags
    BY Zenon DEF Init, Flags
  <2>2. Ways
    BY ChassisAssumption DEF Init, Ways
  <2>3. AllTimers
    BY TimerStates, ChassisAssumption DEF Init, AllTimers
  <2>4. PrivateScheduler
    BY DEF Init, PrivateScheduler, Scheduler!EmptyScheduler
  <2> QED  BY <2>1, <2>2, <2>3, <2>4 DEF Kinds
<1>2. IInv /\ Kinds /\ [Next]_vars => Kinds'
  BY StepKeepsKinds
<1>3. IInv /\ Kinds => TypeOK
  BY TypesByKind
<1> QED  BY <1>1, <1>2, <1>3, Invariance, PTL DEF Spec
=============================================================================
