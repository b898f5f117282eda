------------------------- MODULE SentryWeapons_proofs -------------------------
(***************************************************************************)
(* For timers of any length and any state of the chassis: the sentry's     *)
(* feeder turns only into driven flywheels, only on a target that was in   *)
(* aim within the minimum time, and with the gimbal on it.                 *)
(*                                                                         *)
(* The argument is about what the private schedulers keep while their      *)
(* commands are not running: the flywheel command stays in the one of the  *)
(* firing command from the first match on, the two feeder commands never   *)
(* share it, and the timers never promise more time than has been left     *)
(* since the target was in aim.                                            *)
(***************************************************************************)
EXTENDS SentryWeapons, TLAPS

\* The feeder's target and the owner of the flywheels.
Modes == feeder \in {"stop", "turn"} /\ owner \in {"match", "manual", "default", "none"}

\* What the private scheduler of the firing command holds.
Armed ==
  /\ owner = "match" => "runShooter" \in firing.added
  /\ ~ ("stopFeeder" \in firing.added /\ "fullAuto" \in firing.added)

\* The gimbal command runs at least as long as the firing command.
Together == owner = "match" => aiming

Clocks ==
  /\ shootMinimumTime.left \in Nat /\ shootMinimumTime.executed \in BOOLEAN
  /\ chaseTimeout.left \in Nat
  /\ sinceAim \in 0 .. MinimumTime

\* The minimum time ends when it has passed since the target was in aim.
FireIsShort == owner = "match" => shootMinimumTime.left + sinceAim <= MinimumTime

\* The chase does not end before its time has passed since then.
ChaseIsLong ==
  owner = "match" /\ unbroken /\ sinceAim < ChaseTime =>
    /\ "chase" \in tracking.added
    /\ chaseTimeout.left + sinceAim >= ChaseTime

IInv == Armed /\ Together /\ Clocks /\ FireIsShort /\ ChaseIsLong /\ FeedsDrivenWheels

-----------------------------------------------------------------------------
\* The private schedulers, command by command.

\* Which subsystems the three private commands require.
LEMMA FeederAndFlywheelsAreApart ==
  /\ FiringReq["stopFeeder"] = {"feeder"}
  /\ FiringReq["fullAuto"] = {"feeder"}
  /\ FiringReq["runShooter"] = {"shooter"}
  /\ DOMAIN FiringReq = {"stopFeeder", "fullAuto", "runShooter"}
BY DEF FiringReq

\* Adding a feeder command ends the other one and leaves the flywheels' alone.
LEMMA AddFeederCommand ==
  ASSUME NEW s, NEW c \in {"stopFeeder", "fullAuto"}
  PROVE  LET t == Firing!AddCommand(s, c)
         IN  /\ c \in t.added
             /\ \A d \in {"stopFeeder", "fullAuto"} : d # c => d \notin t.added
             /\ "runShooter" \in s.added => "runShooter" \in t.added
<1>1. Firing!AddCommand(s, c).added =
        (s.added \ {d \in s.added : FiringReq[d] \cap FiringReq[c] # {}}) \cup {c}
  BY DEF Firing!AddCommand, Firing!Displaced
<1> QED  BY <1>1, FeederAndFlywheelsAreApart

\* Adding the flywheels' command leaves the feeder's alone.
LEMMA AddRunShooter ==
  ASSUME NEW s
  PROVE  LET t == Firing!AddCommand(s, "runShooter")
         IN  /\ "runShooter" \in t.added
             /\ \A d \in {"stopFeeder", "fullAuto"} : d \in t.added <=> d \in s.added
<1>1. Firing!AddCommand(s, "runShooter").added =
        (s.added \ {d \in s.added : FiringReq[d] \cap FiringReq["runShooter"] # {}})
          \cup {"runShooter"}
  BY DEF Firing!AddCommand, Firing!Displaced
<1> QED  BY <1>1, FeederAndFlywheelsAreApart

\* Removing the full-auto command leaves the other two.
LEMMA RemoveFullAuto ==
  ASSUME NEW s
  PROVE  LET t == Firing!RemoveCommand(s, "fullAuto")
         IN  \A d \in {"stopFeeder", "runShooter"} : d \in t.added <=> d \in s.added
BY DEF Firing!RemoveCommand, Firing!IsCommandScheduled

\* initialize() leaves the flywheels' command and at most one of the feeder's.
LEMMA FiringInitializeArms ==
  ASSUME FiringInitialize, Armed
  PROVE  /\ "runShooter" \in firing'.added
         /\ ~ ("stopFeeder" \in firing'.added /\ "fullAuto" \in firing'.added)
<1> DEFINE s == Firing!ScheduleIfNotScheduled(firing, "stopFeeder")
<1>1. ~ ("stopFeeder" \in s.added /\ "fullAuto" \in s.added)
  BY AddFeederCommand DEF Armed, Firing!ScheduleIfNotScheduled, Firing!IsCommandScheduled
<1>2. firing' = Firing!ScheduleIfNotScheduled(s, "runShooter")
  BY DEF FiringInitialize
<1> HIDE DEF s
<1> QED  BY <1>1, <1>2, AddRunShooter
         DEF Firing!ScheduleIfNotScheduled, Firing!IsCommandScheduled

\* end() does not leave both feeder commands scheduled.
LEMMA FiringEndParts ==
  ASSUME FiringEnd, Armed
  PROVE  ~ ("stopFeeder" \in firing'.added /\ "fullAuto" \in firing'.added)
<1> DEFINE s == Firing!RemoveCommand(firing, "fullAuto")
<1>1. "stopFeeder" \in s.added => "fullAuto" \notin s.added
  BY DEF Armed, Firing!RemoveCommand, Firing!IsCommandScheduled
<1>2. firing' = Firing!ScheduleIfNotScheduled(s, "stopFeeder")
  BY DEF FiringEnd
<1> HIDE DEF s
<1> QED  BY <1>1, <1>2, AddFeederCommand
         DEF Firing!ScheduleIfNotScheduled, Firing!IsCommandScheduled

\* execute() keeps the flywheels' command, and without leave to fire it has the
\* feeder stopped.
LEMMA FiringControlIsArmed ==
  ASSUME Armed, owner = "match"
  PROVE  /\ "runShooter" \in FiringControl.added
         /\ ~ ("stopFeeder" \in FiringControl.added /\ "fullAuto" \in FiringControl.added)
         /\ ~MayFire => "stopFeeder" \in FiringControl.added
<1> USE DEF Armed
<1>1. CASE Refires
  <2>1. FiringControl = Firing!AddCommand(Firing!RemoveCommand(firing, "fullAuto"), "fullAuto")
    BY <1>1 DEF FiringControl
  <2>2. MayFire
    BY <1>1 DEF Refires
  <2> QED  BY <2>1, <2>2, RemoveFullAuto, AddFeederCommand
<1>2. CASE MayFire /\ ~Refires
  <2>1. FiringControl = firing
    BY <1>2 DEF FiringControl
  <2> QED  BY <1>2, <2>1
<1>3. CASE ~MayFire
  <2>1. FiringControl = Firing!ScheduleIfNotScheduled(firing, "stopFeeder")
    BY <1>3 DEF FiringControl, Refires
  <2> QED  BY <2>1, AddFeederCommand
           DEF Firing!ScheduleIfNotScheduled, Firing!IsCommandScheduled
<1> QED  BY <1>1, <1>2, <1>3

\* After scheduleIfNotScheduled the chase is scheduled.
LEMMA ChaseIsScheduled ==
  ASSUME NEW s
  PROVE  "chase" \in Tracking!ScheduleIfNotScheduled(s, "chase").added
BY DEF Tracking!ScheduleIfNotScheduled, Tracking!AddCommand, Tracking!IsCommandScheduled


-----------------------------------------------------------------------------
\* A restarted timer.
LEMMA RestartIsClock ==
  ASSUME NEW t \in Nat
  PROVE  Restart(t).left = t /\ Restart(t).executed \in BOOLEAN
BY DEF Restart

\* A timer after a tick.
LEMMA ElapseIsClock ==
  ASSUME NEW timer, timer.left \in Nat
  PROVE  /\ Elapse(timer).left = IF timer.left = 0 THEN 0 ELSE timer.left - 1
         /\ Elapse(timer).executed = timer.executed
BY DEF Elapse

\* Some steps leave all that the invariant speaks of as it is.
LEMMA Untouched ==
  ASSUME IInv,
         UNCHANGED <<owner, firing, shootMinimumTime, chaseTimeout, tracking, aiming, feeder,
                     output, sinceAim, unbroken>>
  PROVE  IInv'
BY DEF IInv, Armed, Together, Clocks, FireIsShort, ChaseIsLong, FeedsDrivenWheels

\* Any step that leaves the flywheels to somebody else and stops the feeder.
LEMMA OthersHaveTheWheels ==
  ASSUME owner' # "match", feeder' = "stop", Clocks',
         ~ ("stopFeeder" \in firing'.added /\ "fullAuto" \in firing'.added)
  PROVE  IInv'
BY DEF IInv, Armed, Together, FireIsShort, ChaseIsLong, FeedsDrivenWheels

\* A feeder that somebody else than the match command owns stands still.
LEMMA FeederStands ==
  ASSUME IInv, owner # "match", feeder \in {"stop", "turn"}
  PROVE  feeder = "stop"
BY DEF IInv, FeedsDrivenWheels

\* Every step keeps the kinds of owner and feeder.
LEMMA StepKeepsModes == Modes /\ [Next]_vars => Modes'
<1> SUFFICES ASSUME Modes, [Next]_vars  PROVE Modes'
  OBVIOUS
<1> USE DEF Modes, gun, vars
<1>1. CASE StartMatch
  BY <1>1 DEF StartMatch
<1>2. CASE EndMatch
  BY <1>2 DEF EndMatch, FiringEnd
<1>3. CASE StartManual
  BY <1>3 DEF StartManual, FiringEnd
<1>4. CASE EndManual
  BY <1>4 DEF EndManual
<1>5. CASE Run
  <2>1. FiringExecute \/ feeder' = feeder
    BY <1>5, Zenon DEF Run
  <2>2. FiringExecute => feeder' \in {"stop", "turn", feeder}
    BY DEF FiringExecute
  <2>3. owner' \in {owner, "default"}
    BY <1>5, Zenon DEF Run
  <2> QED  BY <2>1, <2>2, <2>3
<1>6. CASE SpeedUp \/ SlowDown
  BY <1>6 DEF SpeedUp, SlowDown
<1>7. CASE Message \/ Silence \/ Aim \/ GameStage
  BY <1>7 DEF Message, Silence, Aim, GameStage
<1>8. CASE Tick
  BY <1>8 DEF Tick
<1>9. CASE UNCHANGED vars
  BY <1>9
<1> QED  BY <1>1, <1>2, <1>3, <1>4, <1>5, <1>6, <1>7, <1>8, <1>9 DEF Next

-----------------------------------------------------------------------------
\* One execution of both match commands.
LEMMA FiringKeeps ==
  ASSUME IInv, owner = "match", FiringExecute, GimbalExecute, UNCHANGED <<owner, aiming>>
  PROVE  IInv'
<1> USE WeaponsAssumption
<1>1. /\ "runShooter" \in firing'.added
      /\ ~ ("stopFeeder" \in firing'.added /\ "fullAuto" \in firing'.added)
  BY FiringControlIsArmed DEF FiringExecute, IInv
<1>2. Armed' /\ Together'
  BY <1>1 DEF IInv, Armed, Together
<1>3. /\ shootMinimumTime' = Pressed
      /\ sinceAim' = IF OnTarget THEN 0 ELSE sinceAim
      /\ unbroken' = (OnTarget \/ (unbroken /\ online))
  BY DEF FiringExecute
<1>4. chaseTimeout' = chaseTimeout \/ chaseTimeout' = Restart(ChaseTime)
  BY DEF GimbalExecute
<1>5. Clocks' /\ FireIsShort'
  <2>1. /\ Restart(ChaseTime).left = ChaseTime
        /\ Restart(MinimumTime).left = MinimumTime
        /\ Restart(MinimumTime).executed \in BOOLEAN
    BY RestartIsClock
  <2>2. chaseTimeout'.left \in Nat
    BY <1>4, <2>1 DEF IInv, Clocks
  <2>3. CASE OnTarget
    BY <1>3, <2>1, <2>2, <2>3 DEF IInv, Clocks, FireIsShort, Pressed
  <2>4. CASE ~OnTarget
    BY <1>3, <2>2, <2>4 DEF IInv, Clocks, FireIsShort, Pressed
  <2> QED  BY <2>3, <2>4
<1>6. ChaseIsLong'
  <2> SUFFICES ASSUME unbroken', sinceAim' < ChaseTime
               PROVE  /\ "chase" \in tracking'.added
                      /\ chaseTimeout'.left + sinceAim' >= ChaseTime
    BY DEF ChaseIsLong
  <2>1. online
    BY <1>3, Zenon DEF OnTarget
  <2>2. CASE sight \in {"found", "fire"}
    <3>1. chaseTimeout' = Restart(ChaseTime)
      BY <2>1, <2>2 DEF GimbalExecute
    <3>2. chaseTimeout'.left = ChaseTime /\ sinceAim' \in Nat
      BY <3>1, <1>5, RestartIsClock DEF Clocks
    <3>3. ~ IsExpired(Restart(ChaseTime))
      BY <3>2, RestartIsClock DEF IsExpired
    <3>4. tracking' = Tracking!ScheduleIfNotScheduled(tracking, "chase")
      BY <2>1, <2>2, <3>3 DEF GimbalExecute
    <3>5. "chase" \in tracking'.added
      BY <3>4, ChaseIsScheduled, Zenon
    <3>6. \A n \in Nat : ChaseTime + n >= ChaseTime
      OBVIOUS
    <3>7. chaseTimeout'.left + sinceAim' >= ChaseTime
      BY <3>2, <3>6, Zenon
    <3> QED  BY <3>5, <3>7
  <2>3. CASE sight \notin {"found", "fire"}
    <3>1. ~OnTarget
      BY <2>3 DEF OnTarget
    <3>2. unbroken /\ sinceAim' = sinceAim
      BY <1>3, <3>1
    <3>3. "chase" \in tracking.added /\ chaseTimeout.left + sinceAim >= ChaseTime
      BY <3>2 DEF IInv, ChaseIsLong
    <3>4. ~ IsExpired(chaseTimeout)
      BY <3>2, <3>3 DEF IInv, Clocks, IsExpired
    <3>5. tracking' = tracking /\ chaseTimeout' = chaseTimeout
      BY <2>1, <2>3, <3>4 DEF GimbalExecute
    <3> QED  BY <3>2, <3>3, <3>5
  <2> QED  BY <2>2, <2>3
<1>7. FeedsDrivenWheels'
  <2>1. output' = "velocity"
    BY <1>1 DEF FiringExecute, Firing!IsCommandScheduled
  <2> QED  BY <2>1 DEF FeedsDrivenWheels
<1> QED  BY <1>2, <1>5, <1>6, <1>7 DEF IInv

\* Every step keeps the invariant.
LEMMA StepKeepsInvariant ==
  ASSUME IInv, Modes, [Next]_vars
  PROVE  IInv'
<1> USE WeaponsAssumption DEF wheels, gimbal, sensors, witness
<1>1. CASE StartMatch
  <2>1. /\ "runShooter" \in firing'.added
        /\ ~ ("stopFeeder" \in firing'.added /\ "fullAuto" \in firing'.added)
    BY <1>1, FiringInitializeArms DEF StartMatch, IInv
  <2>2. /\ owner' = "match" /\ aiming' = TRUE /\ feeder' = "stop"
        /\ sinceAim' = MinimumTime /\ unbroken' = FALSE /\ chaseTimeout' = chaseTimeout
        /\ shootMinimumTime' = Restart(0)
    BY <1>1 DEF StartMatch, FiringInitialize
  <2>3. Clocks' /\ FireIsShort'
    BY <2>2, RestartIsClock DEF IInv, Clocks, FireIsShort
  <2> QED  BY <2>1, <2>2, <2>3 DEF IInv, Armed, Together, ChaseIsLong, FeedsDrivenWheels
<1>2. CASE EndMatch
  <2>1. Clocks'
    <3>1. UNCHANGED <<shootMinimumTime, chaseTimeout, sinceAim>>
      BY <1>2 DEF EndMatch, FiringEnd, gun
    <3> QED  BY <3>1 DEF IInv, Clocks
  <2>2. CASE owner = "match"
    BY <1>2, <2>1, <2>2, FiringEndParts, OthersHaveTheWheels DEF EndMatch, FiringEnd, IInv
  <2>3. CASE owner # "match"
    <3>1. feeder = "stop"
      BY <2>3, FeederStands DEF Modes
    <3>2. UNCHANGED gun
      BY <1>2, <2>3 DEF EndMatch
    <3> QED  BY <2>1, <2>3, <3>1, <3>2, OthersHaveTheWheels DEF gun, IInv, Armed
  <2> QED  BY <2>2, <2>3
<1>3. CASE StartManual
  <2>1. Clocks'
    <3>1. UNCHANGED <<shootMinimumTime, chaseTimeout, sinceAim>>
      BY <1>3 DEF StartManual, FiringEnd
    <3> QED  BY <3>1 DEF IInv, Clocks
  <2>2. CASE owner = "match"
    BY <1>3, <2>1, <2>2, FiringEndParts, OthersHaveTheWheels DEF StartManual, FiringEnd, IInv
  <2>3. CASE owner # "match"
    <3>1. feeder = "stop"
      BY <2>3, FeederStands DEF Modes
    <3>2. feeder' = feeder /\ firing' = firing /\ owner' = "manual"
      BY <1>3, <2>3 DEF StartManual
    <3> QED  BY <2>1, <3>1, <3>2, OthersHaveTheWheels DEF IInv, Armed
  <2> QED  BY <2>2, <2>3
<1>4. CASE EndManual
  <2>1. owner = "manual" /\ owner' = "none"
        /\ UNCHANGED <<firing, feeder, shootMinimumTime, chaseTimeout, sinceAim>>
    BY <1>4 DEF EndManual
  <2>2. feeder = "stop"
    BY <2>1, FeederStands DEF Modes
  <2> QED  BY <2>1, <2>2, OthersHaveTheWheels DEF IInv, Armed, Clocks
<1>5. CASE Run
  <2>1. CASE owner = "match"
    <3>1. aiming
      BY <2>1 DEF IInv, Together
    <3>2. FiringExecute /\ UNCHANGED owner
      BY <1>5, <2>1, Zenon DEF Run
    <3>3. GimbalExecute /\ UNCHANGED aiming
      BY <1>5, <3>1, Zenon DEF Run
    <3> QED  BY <2>1, <3>2, <3>3, FiringKeeps
  <2>2. CASE owner \in {"manual", "default", "none"}
    <3>1. /\ owner' # "match"
          /\ UNCHANGED <<firing, feeder, shootMinimumTime, sinceAim>>
      BY <1>5, <2>2 DEF Run, gun
    <3>2. chaseTimeout' = chaseTimeout \/ chaseTimeout' = Restart(ChaseTime)
      BY <1>5 DEF Run, GimbalExecute
    <3>3. Clocks'
      BY <3>1, <3>2, RestartIsClock DEF IInv, Clocks
    <3>4. feeder = "stop"
      BY <2>2, FeederStands DEF Modes
    <3> QED  BY <3>1, <3>3, <3>4, OthersHaveTheWheels DEF IInv, Armed
  <2> QED  BY <2>1, <2>2 DEF Modes
<1>6. CASE SpeedUp \/ SlowDown
  BY <1>6, Untouched DEF SpeedUp, SlowDown, gun
<1>7. CASE Message \/ Silence \/ Aim \/ GameStage
  BY <1>7, Untouched DEF Message, Silence, Aim, GameStage, gun
<1>8. CASE Tick
  <2>1. /\ shootMinimumTime'.left =
             IF shootMinimumTime.left = 0 THEN 0 ELSE shootMinimumTime.left - 1
        /\ shootMinimumTime'.executed = shootMinimumTime.executed
        /\ chaseTimeout'.left = IF chaseTimeout.left = 0 THEN 0 ELSE chaseTimeout.left - 1
        /\ sinceAim' = IF sinceAim < MinimumTime THEN sinceAim + 1 ELSE sinceAim
    BY <1>8, ElapseIsClock DEF Tick, IInv, Clocks
  <2>2. UNCHANGED <<owner, firing, feeder, output, aiming, tracking, unbroken>>
    BY <1>8 DEF Tick
  <2>3. Armed' /\ Together' /\ FeedsDrivenWheels'
    BY <2>2 DEF IInv, Armed, Together, FeedsDrivenWheels
  <2>4. Clocks' /\ FireIsShort'
    BY <2>1, <2>2 DEF IInv, Clocks, FireIsShort
  <2>5. ChaseIsLong'
    BY <2>1, <2>2 DEF IInv, Clocks, ChaseIsLong
  <2> QED  BY <2>3, <2>4, <2>5 DEF IInv
<1>9. CASE UNCHANGED vars
  BY <1>9, Untouched DEF vars, gun
<1> QED  BY <1>1, <1>2, <1>3, <1>4, <1>5, <1>6, <1>7, <1>8, <1>9 DEF Next

-----------------------------------------------------------------------------
\* Schedulers, timers and the driven flywheels: the invariant holds in every reachable state.
THEOREM Invariance == Spec => [](Modes /\ IInv)
<1>1. Init => Modes /\ IInv
  <2> SUFFICES ASSUME Init  PROVE Modes /\ IInv
    OBVIOUS
  <2>1. Modes
    BY DEF Init, Modes
  <2>2. firing.added = {}
    BY DEF Init, Firing!EmptyScheduler
  <2>3. /\ shootMinimumTime.left = 0 /\ shootMinimumTime.executed \in BOOLEAN
        /\ chaseTimeout.left = 0 /\ sinceAim = MinimumTime
    BY DEF Init, NeverStarted, Executed, Restart
  <2>4. Clocks
    BY <2>3, WeaponsAssumption DEF Clocks
  <2> QED  BY <2>1, <2>2, <2>4
           DEF Init, IInv, Armed, Together, FireIsShort, ChaseIsLong, FeedsDrivenWheels
<1>2. Modes /\ IInv /\ [Next]_vars => (Modes /\ IInv)'
  BY StepKeepsModes, StepKeepsInvariant
<1> QED  BY <1>1, <1>2, PTL DEF Spec

\* The feeder never pushes projectiles into flywheels that are not driven, and
\* never turns when the match command does not own it.
THEOREM FeedsDrivenWheelsHolds == Spec => []FeedsDrivenWheels
<1>1. IInv => FeedsDrivenWheels
  BY DEF IInv
<1> QED  BY <1>1, Invariance, PTL

\* While the feeder turns, the gimbal is on the target.
THEOREM ChasesWhileItFiresHolds == Spec => []ChasesWhileItFires
<1>1. IInv => ChasesWhileItFires
  BY DEF IInv, FeedsDrivenWheels, ChaseIsLong, ChasesWhileItFires,
         Tracking!IsCommandScheduled
<1> QED  BY <1>1, Invariance, PTL

\* No run turns the feeder but for a target that was in aim less than the minimum
\* time ago.
THEOREM FeedsOnlyOnTargetHolds == Spec => FeedsOnlyOnTarget
<1>1. Modes /\ IInv /\ [Next]_vars =>
        [Run /\ feeder' = "turn" => sinceAim' < MinimumTime]_vars
  <2> SUFFICES ASSUME Modes, IInv, Run, feeder' = "turn"
               PROVE  sinceAim' < MinimumTime
    OBVIOUS
  <2> USE WeaponsAssumption
  <2>1. CASE owner # "match"
    <3>1. feeder' = feeder
      BY <2>1 DEF Run, gun, Modes
    <3> QED  BY <2>1, <3>1, FeederStands DEF Modes
  <2>2. CASE owner = "match"
    <3>1. FiringExecute
      BY <2>2, Zenon DEF Run
    <3>2. "stopFeeder" \in FiringControl.added => "fullAuto" \notin FiringControl.added
      BY <2>2, FiringControlIsArmed DEF IInv
    <3>3. "stopFeeder" \notin FiringControl.added
      BY <3>1, <3>2 DEF FiringExecute, Firing!IsCommandScheduled
    <3>4. MayFire
      BY <2>2, <3>3, FiringControlIsArmed DEF IInv
    <3>5. Pressed.left # 0
      BY <3>4 DEF MayFire, IsExpired
    <3>6. sinceAim' = IF OnTarget THEN 0 ELSE sinceAim
      BY <3>1 DEF FiringExecute
    <3>7. CASE OnTarget
      BY <3>6, <3>7
    <3>8. CASE ~OnTarget
      <4>1. shootMinimumTime.left # 0
        BY <3>5, <3>8 DEF Pressed
      <4>2. sinceAim < MinimumTime
        BY <2>2, <4>1 DEF IInv, Clocks, FireIsShort
      <4> QED  BY <3>6, <3>8, <4>2
    <3> QED  BY <3>7, <3>8
  <2> QED  BY <2>1, <2>2
<1> QED  BY <1>1, Invariance, PTL DEF Spec, FeedsOnlyOnTarget

-----------------------------------------------------------------------------
\* The type invariant by kinds: each kind needs a prover of its own.
Schedulers ==
  /\ firing \in [added : SUBSET DOMAIN FiringReq, assoc : SUBSET {"feeder", "shooter"}]
  /\ stopper \in [added : SUBSET {"brake", "stop"}, assoc : SUBSET {"shooter"}]
  /\ tracking \in [added : SUBSET {"patrol", "chase"}, assoc : SUBSET {"gimbal"}]

AllTimers == refireTimer \in Timers /\ shootMinimumTime \in Timers /\ chaseTimeout \in Timers

Flags ==
  /\ brakeFinished \in BOOLEAN /\ aiming \in BOOLEAN /\ fast \in BOOLEAN
  /\ online \in BOOLEAN /\ onAim \in BOOLEAN /\ inGame \in BOOLEAN /\ unbroken \in BOOLEAN

Others ==
  /\ output \in {"zero", "brake", "velocity"}
  /\ sight \in {"none", "found", "fire"}
  /\ sinceAim \in 0 .. MinimumTime

\* The type invariant in five parts, proved apart.
LEMMA TypesByKind == Modes /\ Schedulers /\ AllTimers /\ Flags /\ Others => TypeOK
BY DEF TypeOK, Modes, Schedulers, AllTimers, Flags, Others

\* The firing command's scheduler keeps its type.
LEMMA FiringStates ==
  ASSUME NEW s \in [added : SUBSET DOMAIN FiringReq, assoc : SUBSET {"feeder", "shooter"}],
         NEW c \in DOMAIN FiringReq
  PROVE  /\ Firing!AddCommand(s, c) \in
              [added : SUBSET DOMAIN FiringReq, assoc : SUBSET {"feeder", "shooter"}]
         /\ Firing!RemoveCommand(s, c) \in
              [added : SUBSET DOMAIN FiringReq, assoc : SUBSET {"feeder", "shooter"}]
         /\ Firing!ScheduleIfNotScheduled(s, c) \in
              [added : SUBSET DOMAIN FiringReq, assoc : SUBSET {"feeder", "shooter"}]
<1>1. FiringReq[c] \subseteq {"feeder", "shooter"}
  BY FeederAndFlywheelsAreApart
<1> HIDE DEF FiringReq
<1>2. s.added \subseteq DOMAIN FiringReq /\ s.assoc \subseteq {"feeder", "shooter"}
  OBVIOUS
<1>3. Firing!AddCommand(s, c) \in
        [added : SUBSET DOMAIN FiringReq, assoc : SUBSET {"feeder", "shooter"}]
  BY <1>1, <1>2 DEF Firing!AddCommand
<1>4. Firing!RemoveCommand(s, c) \in
        [added : SUBSET DOMAIN FiringReq, assoc : SUBSET {"feeder", "shooter"}]
  BY <1>2 DEF Firing!RemoveCommand
<1> QED  BY <1>3, <1>4 DEF Firing!ScheduleIfNotScheduled

\* The default command's scheduler keeps its type.
LEMMA StopperStates ==
  ASSUME NEW s \in [added : SUBSET {"brake", "stop"}, assoc : SUBSET {"shooter"}],
         NEW c \in {"brake", "stop"}
  PROVE  /\ Stopper!AddCommand(s, c) \in
              [added : SUBSET {"brake", "stop"}, assoc : SUBSET {"shooter"}]
         /\ Stopper!RemoveCommand(s, c) \in
              [added : SUBSET {"brake", "stop"}, assoc : SUBSET {"shooter"}]
<1>2. s.added \subseteq {"brake", "stop"} /\ s.assoc \subseteq {"shooter"}
  OBVIOUS
<1>3. Stopper!AddCommand(s, c) \in
        [added : SUBSET {"brake", "stop"}, assoc : SUBSET {"shooter"}]
  BY <1>2 DEF Stopper!AddCommand
<1>4. Stopper!RemoveCommand(s, c) \in
        [added : SUBSET {"brake", "stop"}, assoc : SUBSET {"shooter"}]
  BY <1>2 DEF Stopper!RemoveCommand
<1> QED  BY <1>3, <1>4

\* The gimbal command's scheduler keeps its type.
LEMMA TrackingStates ==
  ASSUME NEW s \in [added : SUBSET {"patrol", "chase"}, assoc : SUBSET {"gimbal"}],
         NEW c \in {"patrol", "chase"}
  PROVE  /\ Tracking!RemoveCommand(s, c) \in
              [added : SUBSET {"patrol", "chase"}, assoc : SUBSET {"gimbal"}]
         /\ Tracking!ScheduleIfNotScheduled(s, c) \in
              [added : SUBSET {"patrol", "chase"}, assoc : SUBSET {"gimbal"}]
<1>2. s.added \subseteq {"patrol", "chase"} /\ s.assoc \subseteq {"gimbal"}
  OBVIOUS
<1>3. Tracking!AddCommand(s, c) \in
        [added : SUBSET {"patrol", "chase"}, assoc : SUBSET {"gimbal"}]
  BY <1>2 DEF Tracking!AddCommand
<1>4. Tracking!RemoveCommand(s, c) \in
        [added : SUBSET {"patrol", "chase"}, assoc : SUBSET {"gimbal"}]
  BY <1>2 DEF Tracking!RemoveCommand
<1> QED  BY <1>3, <1>4 DEF Tracking!ScheduleIfNotScheduled

\* A run of the master scheduler executes one of them, or starts the default command.
LEMMA OneExecutes ==
  ASSUME Modes, Run
  PROVE  \/ FiringExecute /\ UNCHANGED <<owner, stopper, brakeFinished>>
         \/ output' = "velocity" /\ UNCHANGED <<gun, stopper, brakeFinished, witness>>
         \/ StopperExecute /\ UNCHANGED <<gun, witness>>
         \/ StopperInitialize
            /\ UNCHANGED <<firing, refireTimer, shootMinimumTime, feeder, output, witness>>
<1> DEFINE Steps ==
      CASE owner = "match" ->
             FiringExecute /\ UNCHANGED <<owner, stopper, brakeFinished>>
        [] owner = "manual" ->
             output' = "velocity" /\ UNCHANGED <<gun, stopper, brakeFinished, witness>>
        [] owner = "default" ->
             StopperExecute /\ UNCHANGED <<gun, witness>>
        [] owner = "none" ->
             /\ owner' = "default"
             /\ StopperInitialize
             /\ UNCHANGED <<firing, refireTimer, shootMinimumTime, feeder, output, witness>>
<1>1. Steps
  BY DEF Run
<1>2. owner \in {"match", "manual", "default", "none"}
  BY DEF Modes
<1> QED  BY <1>1, <1>2, Zenon

\* Every step keeps the three schedulers' types.
LEMMA StepKeepsSchedulers == Modes /\ Schedulers /\ [Next]_vars => Schedulers'
<1> SUFFICES ASSUME Modes, Schedulers, [Next]_vars  PROVE Schedulers'
  OBVIOUS
<1>0. {"stopFeeder", "fullAuto", "runShooter"} \subseteq DOMAIN FiringReq
  BY FeederAndFlywheelsAreApart
<1> DEFINE Firings == [added : SUBSET DOMAIN FiringReq, assoc : SUBSET {"feeder", "shooter"}]
           Stoppers == [added : SUBSET {"brake", "stop"}, assoc : SUBSET {"shooter"}]
           Trackings == [added : SUBSET {"patrol", "chase"}, assoc : SUBSET {"gimbal"}]
<1>1. firing \in Firings /\ stopper \in Stoppers /\ tracking \in Trackings
  BY DEF Schedulers
<1>2. \A s \in Firings, c \in {"stopFeeder", "fullAuto", "runShooter"} :
        /\ Firing!AddCommand(s, c) \in Firings
        /\ Firing!RemoveCommand(s, c) \in Firings
        /\ Firing!ScheduleIfNotScheduled(s, c) \in Firings
  BY <1>0, FiringStates
<1>3. \A s \in Stoppers, c \in {"brake", "stop"} :
        Stopper!AddCommand(s, c) \in Stoppers /\ Stopper!RemoveCommand(s, c) \in Stoppers
  BY StopperStates
<1>4. \A s \in Trackings, c \in {"patrol", "chase"} :
        /\ Tracking!RemoveCommand(s, c) \in Trackings
        /\ Tracking!ScheduleIfNotScheduled(s, c) \in Trackings
  BY TrackingStates
<1> HIDE DEF Firings, Stoppers, Trackings
<1>5. FiringInitialize \/ FiringEnd \/ FiringExecute \/ UNCHANGED firing => firing' \in Firings
  <2>1. CASE FiringInitialize
    BY <1>1, <1>2, <2>1 DEF FiringInitialize
  <2>2. CASE FiringEnd
    BY <1>1, <1>2, <2>2 DEF FiringEnd
  <2>3. CASE FiringExecute
    BY <1>1, <1>2, <2>3 DEF FiringExecute, FiringControl, Refires
  <2> QED  BY <1>1, <2>1, <2>2, <2>3
<1>6. StopperInitialize \/ StopperExecute \/ UNCHANGED stopper => stopper' \in Stoppers
  <2>1. CASE StopperInitialize
    BY <1>1, <1>3, <2>1 DEF StopperInitialize
  <2>2. CASE StopperExecute
    BY <1>1, <1>3, <2>2 DEF StopperExecute
  <2> QED  BY <1>1, <2>1, <2>2
<1>7. GimbalInitialize \/ GimbalEnd \/ GimbalExecute \/ UNCHANGED tracking =>
        tracking' \in Trackings
  <2>1. CASE GimbalInitialize
    BY <1>1, <1>4, <2>1 DEF GimbalInitialize
  <2>2. CASE GimbalEnd
    BY <1>1, <1>4, <2>2 DEF GimbalEnd
  <2>3. CASE GimbalExecute
    BY <1>1, <1>4, <2>3 DEF GimbalExecute
  <2> QED  BY <1>1, <2>1, <2>2, <2>3
<1>8. FiringInitialize \/ FiringEnd \/ FiringExecute \/ UNCHANGED firing
  <2>1. CASE StartMatch \/ EndMatch
    BY <2>1, Zenon DEF StartMatch, EndMatch, gun
  <2>2. CASE StartManual \/ EndManual
    BY <2>2, Zenon DEF StartManual, EndManual
  <2>3. CASE Run
    BY <2>3, OneExecutes DEF gun
  <2>4. CASE ~ (StartMatch \/ EndMatch \/ StartManual \/ EndManual \/ Run)
    BY <2>4, Zenon DEF Next, vars, gun, SpeedUp, SlowDown, Message, Silence, Aim, GameStage, Tick
  <2> QED  BY <2>1, <2>2, <2>3, <2>4
<1>9. StopperInitialize \/ StopperExecute \/ UNCHANGED stopper
  <2>1. CASE Run
    BY <2>1, OneExecutes
  <2>2. CASE ~Run
    BY <2>2, Zenon DEF Next, vars, wheels, StartMatch, EndMatch, StartManual, EndManual,
       SpeedUp, SlowDown, Message, Silence, Aim, GameStage, Tick
  <2> QED  BY <2>1, <2>2
<1>10. GimbalInitialize \/ GimbalEnd \/ GimbalExecute \/ UNCHANGED tracking
  BY Zenon DEF Next, vars, gimbal, StartMatch, EndMatch, StartManual, EndManual, Run, SpeedUp,
     SlowDown, Message, Silence, Aim, GameStage, Tick
<1> QED  BY <1>5, <1>6, <1>7, <1>8, <1>9, <1>10 DEF Schedulers, Firings, Stoppers, Trackings

\* Every step keeps the flags' types.
LEMMA StepKeepsFlags == Modes /\ Flags /\ [Next]_vars => Flags'
<1> SUFFICES ASSUME Modes, Flags, [Next]_vars  PROVE Flags'
  OBVIOUS
<1> USE DEF Flags, vars, gun, wheels, gimbal, sensors, witness
<1>1. CASE StartMatch \/ EndMatch
  BY <1>1, Zenon DEF StartMatch, EndMatch
<1>2. CASE StartManual \/ EndManual
  BY <1>2, Zenon DEF StartManual, EndManual
<1>3. CASE Run
  <2>1. UNCHANGED <<aiming, fast, sensors>>
    BY <1>3 DEF Run
  <2>2. brakeFinished' \in BOOLEAN
    <3>1. StopperExecute => brakeFinished' \in BOOLEAN
      BY Zenon DEF StopperExecute
    <3>2. StopperInitialize => brakeFinished' \in BOOLEAN
      BY Zenon DEF StopperInitialize
    <3> QED  BY <1>3, <3>1, <3>2, OneExecutes, Zenon
  <2>3. unbroken' \in BOOLEAN
    <3>1. FiringExecute => unbroken' \in BOOLEAN
      BY Zenon DEF FiringExecute
    <3> QED  BY <1>3, <3>1, OneExecutes, Zenon
  <2> QED  BY <2>1, <2>2, <2>3, Zenon
<1>4. CASE SpeedUp \/ SlowDown
  BY <1>4, Zenon DEF SpeedUp, SlowDown
<1>5. CASE Message \/ Silence
  BY <1>5, Zenon DEF Message, Silence
<1>6. CASE Aim \/ GameStage
  BY <1>6, Zenon DEF Aim, GameStage
<1>7. CASE Tick
  BY <1>7, Zenon DEF Tick
<1>8. CASE UNCHANGED vars
  BY <1>8, Zenon
<1> QED  BY <1>1, <1>2, <1>3, <1>4, <1>5, <1>6, <1>7, <1>8 DEF Next

\* Restart and Elapse give timers.
LEMMA TimerStates ==
  /\ \A t \in Nat : Restart(t) \in Timers
  /\ \A timer \in Timers : Elapse(timer) \in Timers
<1>1. ASSUME NEW timer \in Timers  PROVE Elapse(timer) \in Timers
  <2>1. timer.left \in Nat /\ timer.executed \in BOOLEAN
    BY DEF Timers
  <2>2. (IF timer.left = 0 THEN 0 ELSE timer.left - 1) \in Nat
    BY <2>1
  <2> QED  BY <2>1, <2>2 DEF Elapse, Timers
<1>2. \A t \in Nat : Restart(t) \in Timers
  BY DEF Restart, Timers
<1> QED  BY <1>1, <1>2

\* Every step keeps the timers' types.
LEMMA StepKeepsTimers == Modes /\ AllTimers /\ [Next]_vars => AllTimers'
<1> SUFFICES ASSUME Modes, AllTimers, [Next]_vars  PROVE AllTimers'
  OBVIOUS
<1> USE DEF AllTimers, vars, gun, wheels, gimbal, sensors, witness
<1>0. /\ Restart(0) \in Timers /\ Restart(RefireTime) \in Timers
      /\ Restart(MinimumTime) \in Timers /\ Restart(ChaseTime) \in Timers
  BY TimerStates, WeaponsAssumption
<1>1. CASE StartMatch
  BY <1>0, <1>1 DEF StartMatch, FiringInitialize
<1>2. CASE EndMatch
  BY <1>2 DEF EndMatch, FiringEnd
<1>3. CASE StartManual \/ EndManual
  BY <1>3 DEF StartManual, EndManual, FiringEnd
<1>4. CASE Run
  <2>1. refireTimer' \in Timers /\ shootMinimumTime' \in Timers
    <3>1. FiringExecute => refireTimer' \in Timers
      BY <1>0 DEF FiringExecute
    <3>2. FiringExecute => shootMinimumTime' \in Timers
      BY <1>0 DEF FiringExecute, Pressed
    <3> QED  BY <1>4, <3>1, <3>2, OneExecutes
  <2>2. chaseTimeout' \in Timers
    BY <1>0, <1>4 DEF Run, GimbalExecute
  <2> QED  BY <2>1, <2>2
<1>5. CASE Tick
  BY <1>5, TimerStates DEF Tick
<1>6. CASE ~ (StartMatch \/ EndMatch \/ StartManual \/ EndManual \/ Run \/ Tick)
  BY <1>6, Zenon DEF Next, SpeedUp, SlowDown, Message, Silence, Aim, GameStage
<1> QED  BY <1>1, <1>2, <1>3, <1>4, <1>5, <1>6

\* Every step keeps the types of the rest.
LEMMA StepKeepsOthers == Modes /\ Others /\ [Next]_vars => Others'
<1> SUFFICES ASSUME Modes, Others, [Next]_vars  PROVE Others'
  OBVIOUS
<1> USE WeaponsAssumption DEF Others, vars, gun, wheels, gimbal, sensors, witness
<1>1. CASE StartMatch
  BY <1>1 DEF StartMatch
<1>2. CASE EndMatch \/ StartManual \/ EndManual
  BY <1>2 DEF EndMatch, StartManual, EndManual
<1>3. CASE Run
  <2>1. sight' = sight
    BY <1>3 DEF Run
  <2>2. output' \in {"zero", "brake", "velocity"}
    <3>1. FiringExecute => output' \in {"zero", "brake", "velocity"}
      BY DEF FiringExecute
    <3>2. StopperExecute => output' \in {"zero", "brake", "velocity"}
      BY DEF StopperExecute
    <3> QED  BY <1>3, <3>1, <3>2, OneExecutes
  <2>3. sinceAim' \in 0 .. MinimumTime
    <3>1. FiringExecute => sinceAim' \in 0 .. MinimumTime
      BY DEF FiringExecute
    <3> QED  BY <1>3, <3>1, OneExecutes
  <2> QED  BY <2>1, <2>2, <2>3
<1>4. CASE SpeedUp \/ SlowDown
  BY <1>4 DEF SpeedUp, SlowDown
<1>5. CASE Message \/ Silence \/ Aim \/ GameStage
  BY <1>5 DEF Message, Silence, Aim, GameStage
<1>6. CASE Tick
  BY <1>6 DEF Tick
<1>7. CASE UNCHANGED vars
  BY <1>7
<1> QED  BY <1>1, <1>2, <1>3, <1>4, <1>5, <1>6, <1>7 DEF Next

\* Every variable keeps its type.
THEOREM TypeCorrectness == Spec => []TypeOK
<1> DEFINE Kinds == Modes /\ Schedulers /\ AllTimers /\ Flags /\ Others
<1>1. Init => Kinds
  <2> SUFFICES ASSUME Init  PROVE Kinds
    OBVIOUS
  <2>1. Modes
    BY DEF Init, Modes
  <2>2. Schedulers
    BY DEF Init, Schedulers, Firing!EmptyScheduler, Stopper!EmptyScheduler,
           Tracking!EmptyScheduler
  <2>3. AllTimers
    <3>1. NeverStarted \in Timers
      BY DEF NeverStarted, Executed, Restart, Timers
    <3> QED  BY <3>1, TimerStates DEF Init, AllTimers
  <2>4. Flags
    BY Zenon DEF Init, Flags
  <2>5. Others
    BY WeaponsAssumption DEF Init, Others
  <2> QED  BY <2>1, <2>2, <2>3, <2>4, <2>5
<1>2. Kinds /\ [Next]_vars => Kinds'
  BY StepKeepsModes, StepKeepsSchedulers, StepKeepsTimers, StepKeepsFlags, StepKeepsOthers
<1>3. Kinds => TypeOK
  BY TypesByKind
<1> QED  BY <1>1, <1>2, <1>3, PTL DEF Spec
=============================================================================
