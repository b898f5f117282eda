----------------------- MODULE CommandScheduler_proofs -----------------------
(***************************************************************************)
(* Theorems about the command scheduler, for every set of commands and     *)
(* subsystems, every requirement and every default command.                *)
(***************************************************************************)
EXTENDS CommandScheduler, SchedulerState_proofs, TLAPS

-----------------------------------------------------------------------------
(* The two state changes of sched and life that the actions share.         *)

\* addCommand(c) past its guards keeps the bitmaps, the types and the
\* initialize/end alternation; c ends up active.
LEMMA DoAddKeeps ==
  ASSUME TypeOK, Ownership, Lifecycle, NEW c \in Commands, Req[c] # {},
         DoAdd(c)
  PROVE  /\ sched' \in SchedulerStates
         /\ life' \in [Commands -> LifeStates]
         /\ Ownership'
         /\ Lifecycle'
         /\ c \in sched'.added
<1>1. /\ sched' \in SchedulerStates
      /\ Ownership'
  BY AddKeepsOwnership DEF TypeOK, Ownership, DoAdd
<1>2. sched.added \subseteq Commands
  BY DEF TypeOK, SchedulerStates
<1>3. sched'.added = (sched.added \ Displaced(sched, c)) \cup {c}
  BY DEF DoAdd, AddCommand
<1>4. Displaced(sched, c) \subseteq sched.added
  BY DEF Displaced
<1>5. \A d \in Displaced(sched, c) : life[d] = "active"
  BY <1>2, <1>4 DEF Lifecycle, IsCommandScheduled
<1> DEFINE l == Ended(life, Displaced(sched, c))
<1>6. /\ l \in [Commands -> LifeStates]
      /\ \A d \in Commands :
           l[d] = IF d \in sched.added \ Displaced(sched, c)
                    THEN "active" ELSE "dormant"
  BY <1>4, <1>5 DEF Ended, Lifecycle, IsCommandScheduled, TypeOK, LifeStates
<1>7. c \notin sched.added \ Displaced(sched, c)
  BY DEF Displaced
<1>8. life' = Initialized(l, c)
  BY DEF DoAdd
<1>9. /\ life' \in [Commands -> LifeStates]
      /\ \A d \in Commands :
           life'[d] = IF d \in sched'.added THEN "active" ELSE "dormant"
  BY <1>3, <1>6, <1>7, <1>8 DEF Initialized, LifeStates
<1> QED BY <1>1, <1>3, <1>9 DEF Lifecycle, IsCommandScheduled

\* So does removeCommand of a scheduled command, and nothing else changes.
LEMMA DoRemoveKeeps ==
  ASSUME TypeOK, Ownership, Lifecycle, NEW c \in sched.added, DoRemove(c)
  PROVE  /\ sched' \in SchedulerStates
         /\ life' \in [Commands -> LifeStates]
         /\ Ownership'
         /\ Lifecycle'
         /\ sched'.added = sched.added \ {c}
<1>1. /\ sched' \in SchedulerStates
      /\ Ownership'
  BY RemoveKeepsOwnership DEF TypeOK, Ownership, DoRemove
<1>2. sched'.added = sched.added \ {c}
  BY DEF DoRemove, RemoveCommand, IsCommandScheduled
<1>3. c \in Commands /\ life[c] = "active"
  BY DEF TypeOK, SchedulerStates, Lifecycle, IsCommandScheduled
<1>4. /\ life' \in [Commands -> LifeStates]
      /\ \A d \in Commands :
           life'[d] = IF d \in sched'.added THEN "active" ELSE "dormant"
  BY <1>2, <1>3 DEF DoRemove, Ended, Lifecycle, IsCommandScheduled, TypeOK, LifeStates
<1> QED BY <1>1, <1>2, <1>4 DEF Lifecycle, IsCommandScheduled

-----------------------------------------------------------------------------
(* The inductive invariant.                                                *)

\* A new scheduler has no command, no subsystem and no run in progress.
LEMMA InitEstablishesIInv == Init => IInv
<1> SUFFICES ASSUME Init PROVE IInv
  OBVIOUS
<1> USE DEF Init, EmptyScheduler
<1>1. TypeOK
  <2>1. isMaster \in BOOLEAN /\ runningTests \in BOOLEAN /\ disconnected \in BOOLEAN
    OBVIOUS
  <2>2. sched \in SchedulerStates
    BY DEF SchedulerStates
  <2>3. phase \in Phases /\ cursor \in Nat
    BY DEF Phases
  <2>4. life \in [Commands -> LifeStates]
    BY DEF LifeStates
  <2>5. executions \in [Commands -> 0 .. 2] /\ refreshes \in [Subsystems -> 0 .. 2]
    OBVIOUS
  <2> QED BY <2>1, <2>2, <2>3, <2>4, <2>5 DEF TypeOK
<1>2. Ownership
  BY DEF Ownership, Exclusive, InStep, RequiredBy
<1>3. Lifecycle
  BY DEF Lifecycle, IsCommandScheduled
<1>4. /\ TestsOwnTheRobot
      /\ DefaultsHold
      /\ DisconnectedRunsNothing
  BY DEF TestsOwnTheRobot, DefaultsHold, DisconnectedRunsNothing
<1>5. RunPosition
  BY DEF RunPosition
<1> QED BY <1>1, <1>2, <1>3, <1>4, <1>5 DEF IInv

\* Operations between two runs.
LEMMA CallerKeepsIInv == IInv /\ Caller => IInv'
<1> SUFFICES ASSUME IInv, Caller PROVE IInv'
  OBVIOUS
<1> USE DEF IInv
<1>1. ASSUME NEW s \in Subsystems, RegisterSubsystem(s) PROVE IInv'
  <2> USE <1>1 DEF RegisterSubsystem
  <2>1. TypeOK'
    BY DEF TypeOK
  <2>2. /\ Ownership'
        /\ Lifecycle'
    BY DEF Ownership, Lifecycle, IsCommandScheduled
  <2>3. /\ TestsOwnTheRobot'
        /\ DefaultsHold'
        /\ DisconnectedRunsNothing'
    BY DEF TestsOwnTheRobot, DefaultsHold, DisconnectedRunsNothing
  <2>4. RunPosition'
    BY DEF RunPosition
  <2> QED BY <2>1, <2>2, <2>3, <2>4
<1>2. ASSUME NEW c \in Commands, Add(c) PROVE IInv'
  <2>1. /\ DoAdd(c)
        /\ Req[c] # {}
        /\ ~runningTests
        /\ phase = "idle"
        /\ UNCHANGED <<isMaster, registered, runningTests, testsComplete,
                       disconnected, phase, cursor, executions, refreshes>>
    BY <1>2 DEF Add, Accepts, Schedulable
  <2>2. /\ sched' \in SchedulerStates
        /\ life' \in [Commands -> LifeStates]
        /\ Ownership'
        /\ Lifecycle'
    BY <2>1, DoAddKeeps
  <2>3. TypeOK'
    BY <2>1, <2>2 DEF TypeOK
  <2>4. /\ TestsOwnTheRobot'
        /\ DefaultsHold'
        /\ DisconnectedRunsNothing'
    BY <2>1 DEF TestsOwnTheRobot, DefaultsHold, DisconnectedRunsNothing
  <2>5. RunPosition'
    BY <2>1 DEF RunPosition
  <2> QED BY <2>2, <2>3, <2>4, <2>5
<1>3. ASSUME NEW c \in Commands, Remove(c) PROVE IInv'
  <2>1. /\ DoRemove(c)
        /\ c \in sched.added
        /\ phase = "idle"
        /\ UNCHANGED <<isMaster, registered, runningTests, testsComplete,
                       disconnected, phase, cursor, executions, refreshes>>
    BY <1>3 DEF Remove, IsCommandScheduled
  <2>2. /\ sched' \in SchedulerStates
        /\ life' \in [Commands -> LifeStates]
        /\ Ownership'
        /\ Lifecycle'
    BY <2>1, DoRemoveKeeps
  <2>3. TypeOK'
    BY <2>1, <2>2 DEF TypeOK
  <2>4. ~runningTests
    BY <2>1 DEF TestsOwnTheRobot, EmptyScheduler
  <2>5. /\ TestsOwnTheRobot'
        /\ DefaultsHold'
        /\ DisconnectedRunsNothing'
    BY <2>1, <2>4 DEF TestsOwnTheRobot, DefaultsHold, DisconnectedRunsNothing
  <2>6. RunPosition'
    BY <2>1 DEF RunPosition
  <2> QED BY <2>2, <2>3, <2>5, <2>6
<1>4. CASE StartHardwareTests
  <2> USE <1>4 DEF StartHardwareTests, EmptyScheduler
  <2>1. /\ life' = [c \in Commands |-> "dormant"]
        /\ sched'.added = {}
    BY DEF Ended, Lifecycle, IsCommandScheduled, TypeOK
  <2>2. TypeOK'
    BY <2>1 DEF TypeOK, SchedulerStates, LifeStates
  <2>3. Ownership'
    BY DEF Ownership, Exclusive, InStep, RequiredBy
  <2>4. Lifecycle'
    BY <2>1 DEF Lifecycle, IsCommandScheduled
  <2>5. /\ TestsOwnTheRobot'
        /\ DefaultsHold'
        /\ DisconnectedRunsNothing'
    BY DEF TestsOwnTheRobot, DefaultsHold, DisconnectedRunsNothing
  <2>6. RunPosition'
    BY DEF RunPosition
  <2> QED BY <2>2, <2>3, <2>4, <2>5, <2>6
<1>5. CASE StopHardwareTests
  <2> USE <1>5 DEF StopHardwareTests
  <2>1. TypeOK'
    BY DEF TypeOK
  <2>2. /\ Ownership'
        /\ Lifecycle'
    BY DEF Ownership, Lifecycle, IsCommandScheduled
  <2>3. /\ TestsOwnTheRobot'
        /\ DefaultsHold'
        /\ DisconnectedRunsNothing'
        /\ RunPosition'
    BY DEF TestsOwnTheRobot, DefaultsHold, DisconnectedRunsNothing, RunPosition
  <2> QED BY <2>1, <2>2, <2>3
<1>6. CASE SafeDisconnectChanges
  <2> USE <1>6 DEF SafeDisconnectChanges
  <2>1. TypeOK'
    BY DEF TypeOK
  <2>2. /\ Ownership'
        /\ Lifecycle'
    BY DEF Ownership, Lifecycle, IsCommandScheduled
  <2>3. /\ TestsOwnTheRobot'
        /\ DefaultsHold'
        /\ DisconnectedRunsNothing'
        /\ RunPosition'
    BY DEF TestsOwnTheRobot, DefaultsHold, DisconnectedRunsNothing, RunPosition
  <2> QED BY <2>1, <2>2, <2>3
<1> QED BY <1>1, <1>2, <1>3, <1>4, <1>5, <1>6 DEF Caller

\* Beginning and ending a run, and moving from its command loop to its subsystem
\* loop.
LEMMA RunEdgesKeepIInv == IInv /\ (BeginRun \/ EndCommands \/ EndRefresh \/ EndTest) => IInv'
<1> USE DEF IInv
<1>1. ASSUME IInv, BeginRun PROVE IInv'
  <2> USE <1>1 DEF BeginRun
  <2>1. phase' \in {"test", "disconnect", "execute"}
    OBVIOUS
  <2>2. TypeOK'
    BY <2>1 DEF TypeOK, Phases
  <2>3. Ownership' /\ Lifecycle'
    BY DEF Ownership, Lifecycle, IsCommandScheduled
  <2>4. TestsOwnTheRobot' /\ DefaultsHold' /\ DisconnectedRunsNothing'
    BY <2>1 DEF TestsOwnTheRobot, DefaultsHold, DisconnectedRunsNothing
  <2>5. RunPosition'
    BY <2>1, RegistrarAssumption, RequirementAssumption DEF RunPosition, TypeOK, SchedulerStates
  <2> QED BY <2>2, <2>3, <2>4, <2>5
<1>2. ASSUME IInv, EndCommands PROVE IInv'
  <2> USE <1>2 DEF EndCommands
  <2>1. phase' \in {"refresh", "idle"}
    OBVIOUS
  <2>2. TypeOK'
    BY <2>1 DEF TypeOK, Phases
  <2>3. Ownership' /\ Lifecycle'
    BY DEF Ownership, Lifecycle, IsCommandScheduled
  <2>4. TestsOwnTheRobot'
    BY DEF TestsOwnTheRobot
  <2>5. DefaultsHold'
    BY RegistrarAssumption, RequirementAssumption DEF DefaultsHold, TypeOK
  <2>6. DisconnectedRunsNothing'
    <3>1. CASE phase = "execute"
      BY <3>1 DEF DisconnectedRunsNothing, RunPosition
    <3>2. CASE phase = "disconnect"
      <4>1. \A c \in sched.added : c \in Nat /\ c < cursor
        BY RegistrarAssumption, RequirementAssumption DEF EndOf, TypeOK, SchedulerStates
      <4>2. \A c \in sched.added : c >= cursor
        BY <3>2 DEF RunPosition
      <4>3. cursor \in Nat
        BY DEF TypeOK
      <4>4. sched.added = {}
        BY <4>1, <4>2, <4>3
      <4> QED BY <4>4 DEF DisconnectedRunsNothing
    <3> QED BY <3>1, <3>2
  <2>7. RunPosition'
    BY <2>1, RegistrarAssumption, RequirementAssumption DEF RunPosition, TypeOK
  <2> QED BY <2>2, <2>3, <2>4, <2>5, <2>6, <2>7
<1>3. ASSUME IInv, EndRefresh \/ EndTest PROVE IInv'
  <2> USE <1>3 DEF EndRefresh, EndTest
  <2>1. TypeOK'
    BY DEF TypeOK, Phases
  <2>2. Ownership' /\ Lifecycle'
    BY DEF Ownership, Lifecycle, IsCommandScheduled
  <2>3. TestsOwnTheRobot' /\ DefaultsHold' /\ DisconnectedRunsNothing'
    BY DEF TestsOwnTheRobot, DefaultsHold, DisconnectedRunsNothing
  <2>4. RunPosition'
    BY DEF RunPosition
  <2> QED BY <2>1, <2>2, <2>3, <2>4
<1> QED BY <1>1, <1>2, <1>3

\* One turn of the execute loop.
LEMMA ExecuteKeepsIInv ==
  ASSUME IInv, NEW c \in Commands, ExecuteNext(c)
  PROVE  IInv'
<1> USE DEF IInv
<1>1. /\ phase = "execute" /\ phase' = "execute"
      /\ c \in sched.added
      /\ c >= cursor
      /\ cursor' = c + 1
      /\ executions' = Bumped(executions, c)
      /\ UNCHANGED <<isMaster, registered, runningTests, testsComplete,
                     disconnected, refreshes>>
      /\ UNCHANGED <<sched, life>> \/ DoRemove(c)
  BY DEF ExecuteNext, NextOf
<1>2. /\ sched' \in SchedulerStates
      /\ life' \in [Commands -> LifeStates]
      /\ Ownership'
      /\ Lifecycle'
  <2>1. CASE UNCHANGED <<sched, life>>
    BY <2>1 DEF TypeOK, Ownership, Lifecycle, IsCommandScheduled
  <2>2. CASE DoRemove(c)
    BY <1>1, <2>2, DoRemoveKeeps
  <2> QED BY <1>1, <2>1, <2>2
<1>3. executions' \in [Commands -> 0 .. 2]
  BY <1>1 DEF Bumped, TypeOK
<1>4. cursor' \in Nat
  BY <1>1, RegistrarAssumption, RequirementAssumption
<1>5. TypeOK'
  BY <1>1, <1>2, <1>3, <1>4 DEF TypeOK
<1>6. TestsOwnTheRobot' /\ DefaultsHold' /\ DisconnectedRunsNothing'
  BY <1>1 DEF TestsOwnTheRobot, DefaultsHold, DisconnectedRunsNothing, RunPosition
<1>7. RunPosition'
  <2>1. executions[c] = 0
    BY <1>1 DEF RunPosition
  <2>2. \A d \in Commands : executions'[d] = IF d = c THEN 1 ELSE executions[d]
    BY <1>1, <2>1 DEF Bumped, TypeOK
  <2>3. \A d \in Commands :
          /\ executions'[d] <= 1
          /\ d >= cursor' => executions'[d] = 0
    BY <1>1, <2>2, RegistrarAssumption, RequirementAssumption DEF RunPosition, TypeOK
  <2> QED BY <1>1, <2>3 DEF RunPosition
<1> QED BY <1>2, <1>5, <1>6, <1>7

\* One turn of the safe-disconnect loop.
LEMMA DisconnectKeepsIInv ==
  ASSUME IInv, NEW c \in Commands, DisconnectNext(c)
  PROVE  IInv'
<1> USE DEF IInv
<1>1. /\ phase = "disconnect" /\ phase' = "disconnect"
      /\ c \in sched.added
      /\ \A d \in sched.added : d >= cursor => c <= d
      /\ cursor' = c + 1
      /\ UNCHANGED <<isMaster, registered, runningTests, testsComplete,
                     disconnected, executions, refreshes>>
      /\ DoRemove(c)
  BY DEF DisconnectNext, NextOf
<1>2. /\ sched' \in SchedulerStates
      /\ life' \in [Commands -> LifeStates]
      /\ Ownership'
      /\ Lifecycle'
      /\ sched'.added = sched.added \ {c}
  BY <1>1, DoRemoveKeeps
<1>3. TypeOK'
  BY <1>1, <1>2, RegistrarAssumption, RequirementAssumption DEF TypeOK
<1>4. TestsOwnTheRobot' /\ DefaultsHold' /\ DisconnectedRunsNothing'
  BY <1>1 DEF TestsOwnTheRobot, DefaultsHold, DisconnectedRunsNothing, RunPosition
<1>5. \A d \in sched'.added : d >= cursor'
  BY <1>1, <1>2, RegistrarAssumption, RequirementAssumption DEF RunPosition, TypeOK, SchedulerStates
<1>6. RunPosition'
  BY <1>1, <1>5 DEF RunPosition
<1> QED BY <1>2, <1>3, <1>4, <1>6

\* One turn of the subsystem loop.
LEMMA RefreshKeepsIInv ==
  ASSUME IInv, NEW s \in Subsystems, RefreshNext(s)
  PROVE  IInv'
<1> USE DEF IInv
<1> DEFINE Added == NeedsDefault(s) /\ Accepts(Default[s]) /\ DoAdd(Default[s])
           Kept == (NeedsDefault(s) => MayRefuse(Default[s])) /\ UNCHANGED <<sched, life>>
<1>1. /\ phase = "refresh" /\ phase' = "refresh"
      /\ s \in registered
      /\ s >= cursor
      /\ \A r \in registered : r >= cursor => s <= r
      /\ cursor' = s + 1
      /\ refreshes' = Bumped(refreshes, s)
      /\ UNCHANGED <<isMaster, registered, runningTests, testsComplete,
                     disconnected, executions>>
      /\ Added \/ Kept
  BY DEF RefreshNext, NextOf
<1>2. ASSUME Added
      PROVE  /\ sched' \in SchedulerStates
             /\ life' \in [Commands -> LifeStates]
             /\ Ownership'
             /\ Lifecycle'
             /\ s \in sched'.assoc
             /\ sched.assoc \subseteq sched'.assoc
             /\ ~disconnected
  <2>1. /\ Default[s] \in Commands
        /\ Req[Default[s]] = {s}
        /\ s \notin sched.assoc
        /\ ~disconnected
    BY <1>2, DefaultAssumption DEF NeedsDefault
  <2>2. /\ sched' \in SchedulerStates
        /\ life' \in [Commands -> LifeStates]
        /\ Ownership'
        /\ Lifecycle'
    BY <1>2, <2>1, DoAddKeeps
  <2>3. Displaced(sched, Default[s]) = {}
    BY <2>1, FreeRequirementsDisplaceNobody DEF TypeOK, Ownership
  <2>4. sched'.assoc = sched.assoc \cup {s}
    BY <1>2, <2>1, <2>3 DEF DoAdd, AddCommand, RequiredBy
  <2> QED BY <2>1, <2>2, <2>4
<1>3. ASSUME Kept
      PROVE  /\ sched' \in SchedulerStates
             /\ life' \in [Commands -> LifeStates]
             /\ Ownership'
             /\ Lifecycle'
             /\ sched' = sched
             /\ ~disconnected /\ Default[s] \in AlwaysReady => s \in sched'.assoc
  <2>1. sched' = sched /\ life' = life
    BY <1>3
  <2>2. ASSUME ~disconnected, Default[s] \in AlwaysReady, s \notin sched.assoc
        PROVE  FALSE
    <3>1. /\ Default[s] # NoCommand
          /\ Req[Default[s]] = {s}
      BY <2>2, RegistrarAssumption, RequirementAssumption, DefaultAssumption
    <3>2. NeedsDefault(s)
      BY <2>2, <3>1 DEF NeedsDefault
    <3>3. ~runningTests
      BY <1>1 DEF RunPosition
    <3>4. Accepts(Default[s])
      BY <1>1, <2>2, <3>1, <3>3 DEF Accepts, Schedulable
    <3> QED BY <1>3, <2>2, <3>2, <3>4 DEF MayRefuse
  <2> QED BY <2>1, <2>2 DEF TypeOK, Ownership, Lifecycle, IsCommandScheduled
<1>4. refreshes' \in [Subsystems -> 0 .. 2] /\ cursor' \in Nat
  BY <1>1, RegistrarAssumption, RequirementAssumption DEF Bumped, TypeOK
<1>5. TypeOK'
  BY <1>1, <1>2, <1>3, <1>4 DEF TypeOK
<1>6. Ownership' /\ Lifecycle'
  BY <1>1, <1>2, <1>3
<1>7. ~runningTests
  BY <1>1 DEF RunPosition
<1>8. \A r \in registered : r < cursor' => r < cursor \/ r = s
  BY <1>1, RegistrarAssumption, RequirementAssumption DEF TypeOK
<1>9. DefaultsHold'
  <2> SUFFICES ASSUME ~disconnected, NEW r \in registered, r < cursor',
                      Default[r] \in AlwaysReady
               PROVE  r \in sched'.assoc
    BY <1>1 DEF DefaultsHold
  <2>1. CASE r = s
    BY <1>1, <1>2, <1>3, <2>1
  <2>2. CASE r < cursor
    BY <1>1, <1>2, <1>3, <2>2 DEF DefaultsHold
  <2> QED BY <1>8, <2>1, <2>2
<1>10. DisconnectedRunsNothing'
  BY <1>1, <1>2, <1>3 DEF DisconnectedRunsNothing
<1>11. RunPosition'
  <2>1. \A r \in registered :
          refreshes'[r] = IF r = s THEN 1 ELSE refreshes[r]
    BY <1>1, RegistrarAssumption, RequirementAssumption DEF Bumped, RunPosition, TypeOK
  <2>2. \A r \in registered : refreshes'[r] = IF r < cursor' THEN 1 ELSE 0
    BY <1>1, <1>8, <2>1, RegistrarAssumption, RequirementAssumption DEF RunPosition, TypeOK
  <2> QED BY <1>1, <2>2 DEF RunPosition
<1>12. TestsOwnTheRobot'
  BY <1>1, <1>7 DEF TestsOwnTheRobot
<1> QED BY <1>5, <1>6, <1>9, <1>10, <1>11, <1>12

\* One turn of the hardware-test loop.
LEMMA TestKeepsIInv ==
  ASSUME IInv, NEW s \in Subsystems, TestNext(s)
  PROVE  IInv'
<1> USE DEF IInv
<1>1. /\ phase = "test" /\ phase' = "test"
      /\ s \in registered
      /\ s >= cursor
      /\ \A r \in registered : r >= cursor => s <= r
      /\ cursor' = s + 1
      /\ refreshes' = Bumped(refreshes, s)
      /\ testsComplete' \subseteq Subsystems
      /\ UNCHANGED <<isMaster, registered, sched, runningTests, disconnected,
                     life, executions>>
  BY DEF TestNext, NextOf, TypeOK
<1>2. refreshes' \in [Subsystems -> 0 .. 2] /\ cursor' \in Nat
  BY <1>1, RegistrarAssumption, RequirementAssumption DEF Bumped, TypeOK
<1>3. TypeOK'
  BY <1>1, <1>2 DEF TypeOK
<1>4. Ownership' /\ Lifecycle'
  BY <1>1 DEF Ownership, Lifecycle, IsCommandScheduled
<1>5. TestsOwnTheRobot' /\ DefaultsHold' /\ DisconnectedRunsNothing'
  BY <1>1 DEF TestsOwnTheRobot, DefaultsHold, DisconnectedRunsNothing
<1>6. RunPosition'
  <2>1. \A r \in registered : r < cursor' => r < cursor \/ r = s
    BY <1>1, RegistrarAssumption, RequirementAssumption DEF TypeOK
  <2>2. \A r \in registered :
          refreshes'[r] = IF r = s THEN 1 ELSE refreshes[r]
    BY <1>1, RegistrarAssumption, RequirementAssumption DEF Bumped, RunPosition, TypeOK
  <2>3. \A r \in registered : refreshes'[r] = IF r < cursor' THEN 1 ELSE 0
    BY <1>1, <2>1, <2>2, RegistrarAssumption, RequirementAssumption DEF RunPosition, TypeOK
  <2> QED BY <1>1, <2>3 DEF RunPosition
<1> QED BY <1>3, <1>4, <1>5, <1>6

\* Every step keeps the invariant, between two runs and inside one.
LEMMA NextKeepsIInv == IInv /\ [Next]_vars => IInv'
<1> SUFFICES ASSUME IInv, [Next]_vars PROVE IInv'
  OBVIOUS
<1>1. CASE Caller
  BY <1>1, CallerKeepsIInv
<1>2. CASE RunStep
  BY <1>2, RunEdgesKeepIInv, ExecuteKeepsIInv, DisconnectKeepsIInv,
     RefreshKeepsIInv, TestKeepsIInv DEF RunStep
<1>3. CASE UNCHANGED vars
  <2> USE <1>3 DEF vars, IInv
  <2>1. TypeOK'
    BY DEF TypeOK
  <2>2. Ownership' /\ Lifecycle' /\ TestsOwnTheRobot'
    BY DEF Ownership, Lifecycle, IsCommandScheduled, TestsOwnTheRobot
  <2>3. DefaultsHold' /\ DisconnectedRunsNothing' /\ RunPosition'
    BY DEF DefaultsHold, DisconnectedRunsNothing, RunPosition
  <2> QED BY <2>1, <2>2, <2>3
<1> QED BY <1>1, <1>2, <1>3 DEF Next

-----------------------------------------------------------------------------
(* Safety theorems.                                                        *)

\* Every reachable state satisfies the inductive invariant.
THEOREM Invariance == Spec => []IInv
<1>1. Init => IInv
  BY InitEstablishesIInv
<1>2. IInv /\ [Next]_vars => IInv'
  BY NextKeepsIInv
<1> QED BY <1>1, <1>2, PTL DEF Spec

\* Every variable keeps its type.
THEOREM TypeCorrectness == Spec => []TypeOK
<1>1. IInv => TypeOK
  BY DEF IInv
<1> QED BY <1>1, Invariance, PTL

\* Two scheduled commands never share a subsystem, and the associated-subsystems
\* bitmap is exactly what the scheduled commands require (addCommand,
\* removeCommand, startHardwareTests).
THEOREM OwnershipHolds == Spec => []Ownership
<1>1. IInv => Ownership
  BY DEF IInv
<1> QED BY <1>1, Invariance, PTL

\* initialize and end alternate on every command instance.
THEOREM LifecycleHolds == Spec => []Lifecycle
<1>1. IInv => Lifecycle
  BY DEF IInv
<1> QED BY <1>1, Invariance, PTL

\* No command is scheduled while hardware tests run.
THEOREM TestsOwnTheRobotHolds == Spec => []TestsOwnTheRobot
<1>1. IInv => TestsOwnTheRobot
  BY DEF IInv
<1> QED BY <1>1, Invariance, PTL

\* A subsystem the refresh loop has passed keeps a command in control.
THEOREM DefaultsHoldHolds == Spec => []DefaultsHold
<1>1. IInv => DefaultsHold
  BY DEF IInv
<1> QED BY <1>1, Invariance, PTL

\* The command loop of a disconnected run ends every command.
THEOREM DisconnectedRunsNothingHolds == Spec => []DisconnectedRunsNothing
<1>1. IInv => DisconnectedRunsNothing
  BY DEF IInv
<1> QED BY <1>1, Invariance, PTL

\* No run executes a command twice or refreshes a registered subsystem more or
\* less than once.
THEOREM OncePerRunHolds == Spec => OncePerRun
<1>1. IInv /\ IInv' /\ [Next]_vars
        => [/\ \A c \in Commands : executions'[c] <= 1
            /\ EndRefresh \/ EndTest => \A s \in registered : refreshes[s] = 1]_vars
  <2> SUFFICES ASSUME IInv, IInv'
               PROVE  /\ \A c \in Commands : executions'[c] <= 1
                      /\ EndRefresh \/ EndTest => \A s \in registered : refreshes[s] = 1
    OBVIOUS
  <2>1. \A c \in Commands : executions'[c] <= 1
    BY DEF IInv, RunPosition
  <2>2. ASSUME EndRefresh \/ EndTest PROVE \A s \in registered : refreshes[s] = 1
    BY <2>2 DEF EndRefresh, EndTest, EndOf, IInv, RunPosition
  <2> QED BY <2>1, <2>2
<1> QED BY <1>1, Invariance, PTL DEF Spec, OncePerRun

\* Adding a default command displaces nobody: its one requirement is free.
THEOREM DefaultNeverInterruptsHolds == Spec => DefaultNeverInterrupts
<1>1. IInv /\ [Next]_vars
        => [phase = "refresh" => sched.added \subseteq sched'.added]_vars
  <2> SUFFICES ASSUME IInv, Next, phase = "refresh"
               PROVE  sched.added \subseteq sched'.added
    OBVIOUS
  <2>1. ASSUME NEW s \in Subsystems, RefreshNext(s)
        PROVE  sched.added \subseteq sched'.added
    <3>1. CASE UNCHANGED <<sched, life>>
      BY <3>1
    <3>2. CASE NeedsDefault(s) /\ DoAdd(Default[s])
      <4>1. /\ Default[s] \in Commands
            /\ Req[Default[s]] \cap sched.assoc = {}
        BY <3>2, DefaultAssumption DEF NeedsDefault
      <4>2. Displaced(sched, Default[s]) = {}
        BY <4>1, FreeRequirementsDisplaceNobody DEF IInv, TypeOK, Ownership
      <4> QED BY <3>2, <4>2 DEF DoAdd, AddCommand
    <3> QED BY <2>1, <3>1, <3>2 DEF RefreshNext
  <2>2. CASE EndRefresh
    BY <2>2 DEF EndRefresh
  <2> QED
    BY <2>1, <2>2 DEF Next, Caller, RunStep, RegisterSubsystem, Add, Remove,
       StartHardwareTests, StopHardwareTests, SafeDisconnectChanges, BeginRun,
       ExecuteNext, DisconnectNext, EndCommands, TestNext, EndTest
<1> QED BY <1>1, Invariance, PTL DEF Spec, DefaultNeverInterrupts

-----------------------------------------------------------------------------
(* The scheduler implements the map of subsystems to commands.             *)

\* With disjoint requirements the owner of a subsystem is the one command that
\* requires it.
LEMMA OwnerIsTheCommand ==
  ASSUME NEW s \in SchedulerStates, Exclusive(s), InStep(s), NEW t \in Subsystems
  PROVE  /\ \A c \in s.added : t \in Req[c] => Owner(s, t, NoCommand) = c
         /\ (\A c \in s.added : t \notin Req[c]) => Owner(s, t, NoCommand) = NoCommand
<1>1. t \in s.assoc <=> \E c \in s.added : t \in Req[c]
  BY DEF InStep, RequiredBy
<1>2. ASSUME NEW c \in s.added, t \in Req[c]
      PROVE  Owner(s, t, NoCommand) = c
  <2> DEFINE o == CHOOSE d \in s.added : t \in Req[d]
  <2>1. o \in s.added /\ t \in Req[o]
    BY <1>2
  <2>2. o = c
    BY <1>2, <2>1 DEF Exclusive
  <2> QED BY <1>1, <1>2, <2>2 DEF Owner
<1>3. ASSUME \A c \in s.added : t \notin Req[c]
      PROVE  Owner(s, t, NoCommand) = NoCommand
  BY <1>1, <1>3 DEF Owner
<1> QED BY <1>2, <1>3

\* Adding a command is taking its subsystems from all their owners.
LEMMA AddTakes ==
  ASSUME TypeOK, Ownership, NEW c \in Commands, Req[c] # {}, DoAdd(c)
  PROVE  Abstract!Take(c)
<1> DEFINE own == [t \in Subsystems |-> Owner(sched, t, NoCommand)]
           rivals == {own[t] : t \in Req[c]}
<1>1. /\ sched \in SchedulerStates
      /\ sched.added \subseteq Commands
      /\ Exclusive(sched) /\ InStep(sched)
      /\ Req[c] \subseteq Subsystems
      /\ NoCommand \notin Commands
  BY RegistrarAssumption, RequirementAssumption DEF TypeOK, SchedulerStates, Ownership
<1>2. sched' = AddCommand(sched, c)
  BY DEF DoAdd
<1>3. /\ sched' \in SchedulerStates
      /\ Exclusive(sched')
      /\ InStep(sched')
  BY <1>1, <1>2, AddKeepsOwnership
<1>4. sched'.added = (sched.added \ Displaced(sched, c)) \cup {c}
  BY <1>2 DEF AddCommand
<1>5. ASSUME NEW t \in Subsystems
      PROVE  Owner(sched', t, NoCommand)
               = IF t \in Req[c] THEN c
                 ELSE IF own[t] \in rivals THEN NoCommand ELSE own[t]
  <2>1. CASE t \in Req[c]
    BY <1>3, <1>4, <2>1, OwnerIsTheCommand
  <2>2. CASE t \notin Req[c] /\ \E d \in sched.added : t \in Req[d]
    <3>1. PICK d \in sched.added : t \in Req[d]
      BY <2>2
    <3>2. own[t] = d
      BY <1>1, <3>1, OwnerIsTheCommand
    <3>3. d \in rivals <=> d \in Displaced(sched, c)
      <4>1. ASSUME d \in rivals PROVE d \in Displaced(sched, c)
        <5>1. PICK u \in Req[c] : own[u] = d
          BY <4>1
        <5>2. u \in Req[d]
          BY <1>1, <5>1, OwnerIsTheCommand
        <5> QED BY <5>1, <5>2 DEF Displaced
      <4>2. ASSUME d \in Displaced(sched, c) PROVE d \in rivals
        <5>1. PICK u \in Req[c] : u \in Req[d]
          BY <4>2 DEF Displaced
        <5>2. own[u] = d
          BY <1>1, <5>1, OwnerIsTheCommand
        <5> QED BY <5>1, <5>2
      <4> QED BY <4>1, <4>2
    <3>4. CASE d \in Displaced(sched, c)
      <4>1. \A e \in sched'.added : t \notin Req[e]
        BY <1>1, <1>4, <2>2, <3>1, <3>4 DEF Exclusive
      <4>2. Owner(sched', t, NoCommand) = NoCommand
        BY <1>3, <4>1, OwnerIsTheCommand
      <4> QED BY <2>2, <3>2, <3>3, <3>4, <4>2
    <3>5. CASE d \notin Displaced(sched, c)
      <4>1. d \in sched'.added
        BY <1>4, <3>1, <3>5
      <4>2. Owner(sched', t, NoCommand) = d
        BY <1>3, <3>1, <4>1, OwnerIsTheCommand
      <4> QED BY <2>2, <3>2, <3>3, <3>5, <4>2
    <3> QED BY <3>4, <3>5
  <2>3. CASE t \notin Req[c] /\ \A d \in sched.added : t \notin Req[d]
    <3>1. own[t] = NoCommand
      BY <1>1, <2>3, OwnerIsTheCommand
    <3>2. \A e \in sched'.added : t \notin Req[e]
      BY <1>4, <2>3
    <3>3. Owner(sched', t, NoCommand) = NoCommand
      BY <1>3, <3>2, OwnerIsTheCommand
    <3> QED BY <2>3, <3>1, <3>3
  <2> QED BY <2>1, <2>2, <2>3
<1> QED BY <1>5 DEF Abstract!Take, Abstract!Rivals

\* Removing a command is releasing its subsystems.
LEMMA RemoveReleases ==
  ASSUME TypeOK, Ownership, NEW c \in sched.added, DoRemove(c)
  PROVE  Abstract!Release(c)
<1> DEFINE own == [t \in Subsystems |-> Owner(sched, t, NoCommand)]
<1>1. /\ sched \in SchedulerStates
      /\ sched.added \subseteq Commands
      /\ Exclusive(sched) /\ InStep(sched)
      /\ NoCommand \notin Commands
  BY RegistrarAssumption, RequirementAssumption DEF TypeOK, SchedulerStates, Ownership
<1>2. /\ sched' \in SchedulerStates
      /\ Exclusive(sched')
      /\ InStep(sched')
      /\ sched'.added = sched.added \ {c}
  BY <1>1, RemoveKeepsOwnership DEF DoRemove, RemoveCommand, IsCommandScheduled
<1>3. ASSUME NEW t \in Subsystems
      PROVE  Owner(sched', t, NoCommand) = IF own[t] = c THEN NoCommand ELSE own[t]
  <2>1. CASE \E d \in sched.added : t \in Req[d]
    <3>1. PICK d \in sched.added : t \in Req[d]
      BY <2>1
    <3>2. own[t] = d
      BY <1>1, <3>1, OwnerIsTheCommand
    <3>3. CASE d = c
      <4>1. \A e \in sched'.added : t \notin Req[e]
        BY <1>1, <1>2, <3>1, <3>3 DEF Exclusive
      <4> QED BY <1>2, <3>2, <3>3, <4>1, OwnerIsTheCommand
    <3>4. CASE d # c
      BY <1>2, <3>1, <3>2, <3>4, OwnerIsTheCommand
    <3> QED BY <3>3, <3>4
  <2>2. CASE \A d \in sched.added : t \notin Req[d]
    BY <1>1, <1>2, <2>2, OwnerIsTheCommand
  <2> QED BY <2>1, <2>2
<1> QED BY <1>3 DEF Abstract!Release

\* Every behaviour of the scheduler is a behaviour of the ownership map.
THEOREM Refinement == Spec => ImplementsOwnership
<1>1. Init => Abstract!Init
  BY DEF Init, EmptyScheduler, Owner, Abstract!Init
<1>2. IInv /\ [Next]_vars
        => [Abstract!Next]_([s \in Subsystems |-> Owner(sched, s, NoCommand)])
  <2>0. sched' = sched =>
          [s \in Subsystems |-> Owner(sched, s, NoCommand)]'
            = [s \in Subsystems |-> Owner(sched, s, NoCommand)]
    BY DEF Owner
  <2> SUFFICES ASSUME IInv, [Next]_vars, sched' # sched
               PROVE  Abstract!Next
    BY <2>0
  <2>1. ASSUME NEW c \in Commands, Req[c] # {}, DoAdd(c) PROVE Abstract!Next
    BY <2>1, AddTakes DEF IInv, Abstract!Next
  <2>2. ASSUME NEW c \in sched.added, DoRemove(c) PROVE Abstract!Next
    BY <2>2, RemoveReleases DEF IInv, TypeOK, SchedulerStates, Abstract!Next
  <2>3. CASE StartHardwareTests
    BY <2>3 DEF StartHardwareTests, EmptyScheduler, Owner, Abstract!Next,
       Abstract!ReleaseAll
  <2>4. ASSUME NEW c \in Commands, Add(c) PROVE Abstract!Next
    BY <2>1, <2>4 DEF Add, Accepts, Schedulable
  <2>5. ASSUME NEW c \in Commands, Remove(c) \/ ExecuteNext(c) \/ DisconnectNext(c)
        PROVE  Abstract!Next
    BY <2>2, <2>5 DEF Remove, ExecuteNext, DisconnectNext, NextOf, IsCommandScheduled
  <2>6. ASSUME NEW s \in Subsystems, RefreshNext(s) PROVE Abstract!Next
    BY <2>1, <2>6, DefaultAssumption DEF RefreshNext, NeedsDefault
  <2> QED
    BY <2>3, <2>4, <2>5, <2>6 DEF Next, Caller, RunStep, RegisterSubsystem,
       StopHardwareTests, SafeDisconnectChanges, BeginRun, EndCommands, EndRefresh,
       TestNext, EndTest, vars
<1> QED BY <1>1, <1>2, Invariance, PTL DEF Spec, ImplementsOwnership, Abstract!Spec

\* A command that controls one of its subsystems controls all of them: what the
\* ownership map promises holds of the two bitmaps.
THEOREM AllOrNothingHolds == Spec => []Abstract!AllOrNothing
<1>1. IInv => Abstract!AllOrNothing
  <2> DEFINE owner == [t \in Subsystems |-> Owner(sched, t, NoCommand)]
  <2> SUFFICES ASSUME IInv, NEW t \in Subsystems, owner[t] # NoCommand
               PROVE  /\ t \in Req[owner[t]]
                      /\ \A u \in Req[owner[t]] : owner[u] = owner[t]
    BY DEF Abstract!AllOrNothing
  <2>1. sched \in SchedulerStates /\ Exclusive(sched) /\ InStep(sched)
    BY DEF IInv, TypeOK, Ownership
  <2>2. PICK c \in sched.added : t \in Req[c]
    BY <2>1, OwnerIsTheCommand
  <2>3. owner[t] = c
    BY <2>1, <2>2, OwnerIsTheCommand
  <2>4. Req[c] \subseteq Subsystems
    BY <2>1, <2>2, RequirementAssumption DEF SchedulerStates
  <2>5. ASSUME NEW u \in Req[c] PROVE owner[u] = c
    BY <2>1, <2>4, OwnerIsTheCommand
  <2> HIDE DEF owner
  <2> QED BY <2>2, <2>3, <2>5
<1> QED BY <1>1, Invariance, PTL

-----------------------------------------------------------------------------
(* Runs are atomic to their callers.                                       *)

\* The observed scheduler is the real one between two runs and while tests run.
LEMMA ObservedOutsideRuns ==
  ASSUME IInv, phase \in {"idle", "test"}
  PROVE  Observed = sched
BY DEF Observed

\* Removing commands and then some more is a run that ends them and starts none, or
\* starts what was not there before.
LEMMA RunFromEnds ==
  ASSUME NEW o \in SchedulerStates, NEW t \in SchedulerStates,
         Exclusive(o), InStep(o), InStep(t)
  PROVE  t = AfterRun(o, o.added \ t.added, t.added \ o.added)
<1> DEFINE r == AfterRun(o, o.added \ t.added, t.added \ o.added)
<1>1. r.added = t.added
  BY DEF AfterRun
<1>2. InStep(r)
  BY RunKeepsInStep DEF SchedulerStates
<1>3. r.assoc = t.assoc
  BY <1>1, <1>2 DEF InStep
<1>4. r = [added |-> r.added, assoc |-> r.assoc]
  BY DEF AfterRun
<1>5. t = [added |-> t.added, assoc |-> t.assoc]
  BY DEF SchedulerStates
<1> QED BY <1>1, <1>3, <1>4, <1>5

\* In a connected run, what its caller saw last is a scheduler state as good as any.
LEMMA ObservedIsSound ==
  ASSUME IInv, RunProgress, ~disconnected, phase \in {"execute", "refresh"}
  PROVE  /\ Observed.added = Executed \cup Pending
         /\ Observed \in SchedulerStates
         /\ Exclusive(Observed)
         /\ InStep(Observed)
<1>1. Observed = [added |-> Executed \cup Pending, assoc |-> RequiredBy(Executed \cup Pending)]
  BY DEF Observed
<1>2. Executed \cup Pending \subseteq Commands
  BY DEF Executed, Pending, IInv, TypeOK, SchedulerStates
<1>3. RequiredBy(Executed \cup Pending) \subseteq Subsystems
  BY <1>2, RequirementAssumption DEF RequiredBy
<1>4. Observed \in SchedulerStates
  BY <1>1, <1>2, <1>3 DEF SchedulerStates
<1> QED BY <1>1, <1>4 DEF RunProgress, InStep

\* A new scheduler has no run to keep track of.
LEMMA InitEstablishesProgress == Init => RunProgress
BY DEF Init, EmptyScheduler, RunProgress, Observed, Exclusive

\* Operations between two runs are what they look like.
LEMMA CallsAreCalls ==
  ASSUME IInv, IInv', Caller
  PROVE  /\ RunProgress'
         /\ phase = "idle" /\ phase' = "idle"
         /\ Atomic!Call
<1>1. phase = "idle" /\ phase' = "idle"
  BY DEF Caller, RegisterSubsystem, Add, Remove, StartHardwareTests,
     StopHardwareTests, SafeDisconnectChanges
<1>2. Observed = sched /\ Observed' = sched'
  BY <1>1 DEF Observed
<1>3. RunProgress'
  BY <1>1, <1>2 DEF RunProgress, IInv, Ownership, Exclusive
<1>4. ASSUME NEW s \in Subsystems, RegisterSubsystem(s) PROVE Atomic!Call
  BY <1>2, <1>4 DEF RegisterSubsystem, Atomic!Call, Atomic!RegisterSubsystem
<1>5. ASSUME NEW c \in Commands, Add(c) PROVE Atomic!Call
  <2>1. Atomic!Add(c)
    BY <1>2, <1>5 DEF Add, Accepts, DoAdd, Schedulable, AddCommand, Displaced, RequiredBy,
       Atomic!Add, Atomic!Schedulable, Atomic!AddCommand, Atomic!Displaced, Atomic!RequiredBy
  <2> QED BY <2>1 DEF Atomic!Call
<1>6. ASSUME NEW c \in Commands, Remove(c) PROVE Atomic!Call
  <2>1. Atomic!Remove(c)
    BY <1>2, <1>6 DEF Remove, DoRemove, RemoveCommand, IsCommandScheduled,
       Atomic!Remove, Atomic!RemoveCommand, Atomic!IsCommandScheduled
  <2> QED BY <2>1 DEF Atomic!Call
<1>7. ASSUME StartHardwareTests PROVE Atomic!Call
  BY <1>2, <1>7 DEF StartHardwareTests, EmptyScheduler, Atomic!Call,
     Atomic!StartHardwareTests, Atomic!EmptyScheduler
<1>8. ASSUME StopHardwareTests PROVE Atomic!Call
  BY <1>2, <1>8 DEF StopHardwareTests, Atomic!Call, Atomic!StopHardwareTests
<1>9. ASSUME SafeDisconnectChanges PROVE Atomic!Call
  BY <1>2, <1>9 DEF SafeDisconnectChanges, Atomic!Call, Atomic!SafeDisconnectChanges
<1> QED BY <1>1, <1>3, <1>4, <1>5, <1>6, <1>7, <1>8, <1>9 DEF Caller

\* Beginning a run: a disconnected run is over as far as its caller is concerned, the
\* others have changed nothing yet.
LEMMA BeginIsSeen ==
  ASSUME IInv, IInv', RunProgress, BeginRun
  PROVE  /\ RunProgress'
         /\ phase = "idle" /\ phase' # "idle"
         /\ IF ~runningTests /\ disconnected
              THEN Atomic!Run ELSE UNCHANGED Atomic!vars
<1>1. /\ phase = "idle" /\ phase' # "idle" /\ phase' # "refresh"
      /\ phase' = IF runningTests THEN "test"
                  ELSE IF disconnected THEN "disconnect" ELSE "execute"
      /\ sched' = sched /\ cursor' = 0
      /\ executions' = [c \in Commands |-> 0]
      /\ UNCHANGED <<isMaster, registered, runningTests, disconnected>>
  BY DEF BeginRun
<1>2. /\ sched \in SchedulerStates /\ Exclusive(sched) /\ InStep(sched)
      /\ sched.added \subseteq Commands
      /\ \A c \in sched.added : c \in Nat /\ c >= 0
  BY RegistrarAssumption, RequirementAssumption DEF IInv, TypeOK, Ownership, SchedulerStates
<1>3. Observed = sched
  BY <1>1 DEF Observed
<1>4. CASE runningTests
  <2>1. Observed' = sched
    BY <1>1, <1>4 DEF Observed
  <2> QED BY <1>1, <1>2, <1>3, <1>4, <2>1 DEF RunProgress, Atomic!vars, Exclusive
<1>5. CASE ~runningTests /\ disconnected
  <2>1. Observed' = EmptyScheduler
    BY <1>1, <1>5 DEF Observed
  <2>2. Exclusive(Observed')
    BY <2>1 DEF EmptyScheduler, Exclusive
  <2>3. Atomic!DisconnectedRun
    BY <1>1, <1>5, <2>1 DEF Atomic!DisconnectedRun, EmptyScheduler, Atomic!EmptyScheduler
  <2> QED BY <1>1, <1>5, <2>2, <2>3 DEF RunProgress, Atomic!Run, Exclusive
<1>6. CASE ~runningTests /\ ~disconnected
  <2>1. Executed' = {} /\ Pending' = sched.added
    BY <1>1, <1>2, <1>6 DEF Executed, Pending
  <2>2. Observed' = [added |-> sched.added, assoc |-> RequiredBy(sched.added)]
    BY <1>1, <1>6, <2>1 DEF Observed
  <2>3. Observed' = sched
    BY <1>2, <2>2 DEF SchedulerStates, InStep
  <2>4. \A c \in sched'.added : ~(c < cursor')
    BY <1>1, <1>2
  <2> QED BY <1>1, <1>2, <1>3, <1>6, <2>3, <2>4 DEF RunProgress, Atomic!vars, Exclusive
<1> QED BY <1>4, <1>5, <1>6

\* A turn of the execute loop is not seen: the command moves from those to be executed
\* to those that were, whether it finishes or not.
LEMMA ExecuteIsHidden ==
  ASSUME IInv, IInv', RunProgress, NEW c \in Commands, ExecuteNext(c)
  PROVE  /\ RunProgress'
         /\ Observed' = Observed
<1>1. /\ phase = "execute" /\ phase' = "execute"
      /\ c \in sched.added
      /\ c >= cursor
      /\ \A d \in sched.added : d >= cursor => c <= d
      /\ cursor' = c + 1
      /\ executions' = Bumped(executions, c)
      /\ UNCHANGED <<isMaster, registered, runningTests, disconnected>>
      /\ UNCHANGED <<sched, life>> \/ DoRemove(c)
  BY DEF ExecuteNext, NextOf
<1>2. /\ sched.added \subseteq Commands /\ cursor \in Nat
      /\ \A d \in sched.added : d \in Nat
      /\ ~disconnected
  BY <1>1, RegistrarAssumption, RequirementAssumption
     DEF IInv, TypeOK, SchedulerStates, RunPosition
<1>3. sched'.added \in {sched.added, sched.added \ {c}}
  <2>1. CASE UNCHANGED <<sched, life>>
    BY <2>1
  <2>2. CASE DoRemove(c)
    BY <1>1, <2>2 DEF DoRemove, RemoveCommand, IsCommandScheduled
  <2> QED BY <1>1, <2>1, <2>2
<1>4. Executed' = Executed \cup {c}
  <2>1. \A d \in Commands : d # c => executions'[d] = executions[d]
    BY <1>1 DEF Bumped, IInv, TypeOK
  <2>2. executions'[c] # 0
    BY <1>1 DEF Bumped, IInv, TypeOK
  <2> QED BY <2>1, <2>2 DEF Executed
<1>5. Pending' = Pending \ {c}
  <2>1. \A d \in sched.added : d >= cursor /\ d # c <=> d >= c + 1
    BY <1>1, <1>2
  <2> QED BY <1>1, <1>2, <1>3, <2>1 DEF Pending
<1>6. c \in Pending
  BY <1>1 DEF Pending
<1>7. Executed' \cup Pending' = Executed \cup Pending
  BY <1>4, <1>5, <1>6
<1>8. Observed' = Observed
  BY <1>1, <1>2, <1>7 DEF Observed
<1>9. \A d \in sched'.added : d < cursor' => d \in Executed'
  BY <1>1, <1>2, <1>3, <1>4 DEF RunProgress
<1> QED BY <1>1, <1>8, <1>9 DEF RunProgress, Exclusive

\* Nor is a turn of the safe-disconnect loop.
LEMMA DisconnectIsHidden ==
  ASSUME IInv, IInv', RunProgress, NEW c \in Commands, DisconnectNext(c)
  PROVE  /\ RunProgress'
         /\ Observed' = Observed
<1>1. phase = "disconnect" /\ phase' = "disconnect" /\ disconnected' = disconnected
  BY DEF DisconnectNext
<1>2. Observed = EmptyScheduler /\ Observed' = EmptyScheduler
  BY <1>1 DEF Observed
<1> QED BY <1>1, <1>2 DEF RunProgress, EmptyScheduler, Exclusive

\* Nor is a turn of the hardware-test loop, in which the scheduler does not change.
LEMMA TestIsHidden ==
  ASSUME IInv, IInv', RunProgress, NEW s \in Subsystems, TestNext(s)
  PROVE  /\ RunProgress'
         /\ Observed' = Observed
<1>1. phase = "test" /\ phase' = "test" /\ sched' = sched
  BY DEF TestNext
<1>2. Observed = sched /\ Observed' = sched
  BY <1>1 DEF Observed
<1> QED BY <1>1, <1>2 DEF RunProgress, Exclusive

\* A turn of the subsystem loop is not seen either: the default it may add is one that
\* the run did not find scheduled, or one that finished in this very run.
LEMMA RefreshIsHidden ==
  ASSUME IInv, IInv', RunProgress, NEW s \in Subsystems, RefreshNext(s)
  PROVE  /\ RunProgress'
         /\ Observed' = Observed
<1>1. /\ phase = "refresh" /\ phase' = "refresh"
      /\ s \in registered
      /\ s >= cursor
      /\ cursor' = s + 1
      /\ UNCHANGED <<isMaster, registered, runningTests, disconnected, executions>>
      /\ \/ NeedsDefault(s) /\ DoAdd(Default[s])
         \/ UNCHANGED <<sched, life>>
  BY DEF RefreshNext, NextOf
<1>2. /\ cursor \in Nat /\ s \in Nat
      /\ \A r \in registered : r \in Nat
  BY RegistrarAssumption, RequirementAssumption DEF IInv, TypeOK
<1>3. Executed' = Executed /\ Pending' = {} /\ Pending = {}
  BY <1>1 DEF Executed, Pending
<1>4. CASE disconnected
  <2>1. sched' = sched
    BY <1>1, <1>4 DEF NeedsDefault
  <2> QED BY <1>1, <1>4, <2>1 DEF Observed, RunProgress, Exclusive
<1>5. CASE ~disconnected
  <2>1. Observed' = Observed
    BY <1>1, <1>3, <1>5 DEF Observed
  <2>2. sched'.added \subseteq sched.added \cup {Default[s]}
    BY <1>1 DEF DoAdd, AddCommand
  <2>3. sched' = sched \/ Default[s] # NoCommand
    BY <1>1 DEF NeedsDefault
  <2>4. ASSUME NEW c \in sched'.added \ Executed'
        PROVE  \E r \in registered' : r < cursor' /\ c = Default[r]
    <3>1. CASE c \in sched.added
      <4>1. PICK r \in registered : r < cursor /\ c = Default[r]
        BY <1>1, <1>3, <1>5, <2>4, <3>1 DEF RunProgress
      <4>2. r < s + 1
        BY <1>1, <1>2, <4>1
      <4> QED BY <1>1, <4>1, <4>2
    <3>2. CASE c = Default[s]
      <4>1. s < s + 1
        BY <1>2
      <4> QED BY <1>1, <3>2, <4>1
    <3> QED BY <2>2, <2>4, <3>1, <3>2
  <2> QED BY <1>1, <2>1, <2>4 DEF RunProgress, Exclusive
<1> QED BY <1>4, <1>5

\* What a connected run has done by its end, seen from its beginning: for some F and T
\* the scheduler is what a run with them makes of it.
LEMMA RunHasHappened ==
  ASSUME IInv, RunProgress, ~disconnected, ~runningTests,
         phase = "execute" => ~isMaster /\ EndOf(sched.added),
         phase \in {"execute", "refresh"},
         phase = "refresh" => EndOf(registered)
  PROVE  \E F \in SUBSET Observed.added, T \in SUBSET registered :
           /\ T \subseteq Atomic!Tried(AfterRun(Observed, F, {}))
           /\ \A x \in Atomic!Tried(AfterRun(Observed, F, {})) \ T : Default[x] \notin AlwaysReady
           /\ sched = AfterRun(Observed, F, {Default[x] : x \in T})
<1> DEFINE F == Observed.added \ sched.added
           T == {x \in registered : Default[x] \in sched.added \ Observed.added}
           Left == AfterRun(Observed, F, {})
<1>1. /\ Observed \in SchedulerStates /\ Exclusive(Observed) /\ InStep(Observed)
      /\ Observed.added = Executed \cup Pending
  BY ObservedIsSound
<1>2. /\ sched \in SchedulerStates /\ Exclusive(sched) /\ InStep(sched)
      /\ registered \subseteq Subsystems /\ cursor \in Nat
      /\ sched.added \subseteq Commands
      /\ \A c \in sched.added : c \in Nat
      /\ \A x \in registered : x \in Nat
  BY RegistrarAssumption, RequirementAssumption DEF IInv, TypeOK, Ownership, SchedulerStates
<1>3. Pending = {}
  <2>1. CASE phase = "execute"
    <3>1. \A c \in sched.added : ~(c >= cursor)
      BY <1>2, <2>1 DEF EndOf
    <3> QED BY <3>1 DEF Pending
  <2>2. CASE phase = "refresh"
    BY <2>2 DEF Pending
  <2> QED BY <2>1, <2>2
<1>4. \A c \in sched.added \ Observed.added :
        phase = "refresh" /\ \E x \in registered : c = Default[x]
  BY <1>1, <1>2, <1>3 DEF RunProgress, EndOf
<1>5. sched.added \ Observed.added = {Default[x] : x \in T}
  BY <1>4
<1>6. sched = AfterRun(Observed, F, {Default[x] : x \in T})
  BY <1>1, <1>2, <1>5, RunFromEnds
<1>7. Left.assoc = RequiredBy(Observed.added \cap sched.added)
  <2>1. InStep(Left)
    BY <1>1, RunKeepsInStep
  <2>2. Left.added = Observed.added \cap sched.added
    BY DEF AfterRun
  <2> QED BY <2>1, <2>2 DEF InStep
<1>8. \A x \in Subsystems : Default[x] \in Commands => Req[Default[x]] = {x}
  BY DefaultAssumption, RegistrarAssumption
<1>9. Atomic!Tried(Left) = {x \in registered : isMaster /\ x \notin Left.assoc /\ Default[x] # NoCommand}
  BY DEF Atomic!Tried
<1>10. ASSUME NEW x \in T PROVE x \in Atomic!Tried(Left)
  <2>1. /\ x \in registered /\ x \in Subsystems
        /\ Default[x] \in sched.added \ Observed.added
        /\ Default[x] \in Commands
    BY <1>2, <1>10
  <2>2. isMaster
    BY <1>4, <2>1 DEF RunProgress
  <2>3. Default[x] # NoCommand
    BY <2>1, RegistrarAssumption
  <2>4. \A c \in Observed.added \cap sched.added : x \notin Req[c]
    BY <1>2, <1>8, <2>1 DEF Exclusive
  <2>5. x \notin Left.assoc
    BY <1>7, <2>4 DEF RequiredBy
  <2> HIDE DEF Left
  <2> QED BY <1>9, <2>1, <2>2, <2>3, <2>5
<1>11. ASSUME NEW x \in Atomic!Tried(Left) \ T, Default[x] \in AlwaysReady PROVE FALSE
  <2> HIDE DEF Left
  <2>1. /\ x \in registered /\ x \in Subsystems
        /\ isMaster /\ x \notin Left.assoc
        /\ Default[x] \in Commands
    BY <1>2, <1>9, <1>11, RegistrarAssumption
  <2>2. phase = "refresh"
    BY <2>1
  <2>3. x < cursor
    BY <2>1, <2>2 DEF EndOf
  <2>4. x \in sched.assoc
    BY <1>11, <2>1, <2>2, <2>3 DEF IInv, DefaultsHold
  <2>5. PICK c \in sched.added : x \in Req[c]
    BY <1>2, <2>4 DEF InStep, RequiredBy
  <2>6. c \notin Observed.added
    BY <1>7, <2>1, <2>5 DEF RequiredBy
  <2>7. PICK y \in registered : c = Default[y]
    BY <1>4, <2>5, <2>6
  <2>8. y = x
    BY <1>2, <1>8, <2>5, <2>7
  <2> QED BY <1>11, <2>1, <2>5, <2>6, <2>7, <2>8
<1>12. F \in SUBSET Observed.added /\ T \in SUBSET registered
  OBVIOUS
<1> HIDE DEF F, T
<1> QED BY <1>6, <1>10, <1>11, <1>12

\* So at the end of a connected run its caller sees one step of the abstract scheduler.
LEMMA EndOfRunIsSeen ==
  ASSUME IInv, RunProgress, ~disconnected, ~runningTests,
         phase = "execute" => ~isMaster /\ EndOf(sched.added),
         phase \in {"execute", "refresh"},
         phase = "refresh" => EndOf(registered),
         phase' = "idle",
         UNCHANGED <<isMaster, registered, sched, runningTests, disconnected>>
  PROVE  Atomic!Run
<1>1. Observed' = sched
  BY DEF Observed
<1>2. PICK F \in SUBSET Observed.added, T \in SUBSET registered :
        /\ T \subseteq Atomic!Tried(AfterRun(Observed, F, {}))
        /\ \A x \in Atomic!Tried(AfterRun(Observed, F, {})) \ T : Default[x] \notin AlwaysReady
        /\ sched = AfterRun(Observed, F, {Default[x] : x \in T})
  BY RunHasHappened
<1>3. \A D : Atomic!AfterRun(Observed, F, D) = AfterRun(Observed, F, D)
  BY DEF AfterRun, Atomic!AfterRun, RequiredBy, Atomic!RequiredBy
<1>4. Atomic!ConnectedRun(F, T)
  BY <1>1, <1>2, <1>3 DEF Atomic!ConnectedRun
<1> QED BY <1>4 DEF Atomic!Run

\* The end of the command loop.
LEMMA EndCommandsIsSeen ==
  ASSUME IInv, IInv', RunProgress, EndCommands
  PROVE  /\ RunProgress'
         /\ IF ~disconnected /\ phase' = "idle"
              THEN Atomic!Run ELSE UNCHANGED Atomic!vars
<1>1. /\ phase \in {"execute", "disconnect"}
      /\ EndOf(sched.added)
      /\ phase' = IF isMaster THEN "refresh" ELSE "idle"
      /\ cursor' = 0
      /\ UNCHANGED <<isMaster, registered, sched, runningTests, disconnected, executions>>
  BY DEF EndCommands
<1>2. /\ sched \in SchedulerStates /\ Exclusive(sched) /\ InStep(sched)
      /\ cursor \in Nat
      /\ \A c \in sched.added : c \in Nat
      /\ ~runningTests
      /\ phase = "disconnect" <=> disconnected
  BY <1>1, RegistrarAssumption, RequirementAssumption
     DEF IInv, TypeOK, Ownership, SchedulerStates, RunPosition
<1>3. CASE disconnected
  <2>1. Observed = EmptyScheduler
    BY <1>2, <1>3 DEF Observed
  <2>2. sched.added = {}
    BY <1>1, <1>2, <1>3 DEF IInv, RunPosition, EndOf
  <2>3. sched = EmptyScheduler
    BY <1>2, <2>2 DEF EmptyScheduler, InStep, RequiredBy, SchedulerStates
  <2>4. Observed' = sched
    BY <1>1, <1>3 DEF Observed
  <2> QED BY <1>1, <1>2, <1>3, <2>1, <2>3, <2>4 DEF RunProgress, Exclusive, Atomic!vars
<1>4. CASE ~disconnected /\ isMaster
  <2>1. Executed' = Executed /\ Pending' = {} /\ Pending = {}
    <3>1. \A c \in sched.added : ~(c >= cursor)
      BY <1>1, <1>2 DEF EndOf
    <3> QED BY <1>1, <1>4, <3>1 DEF Executed, Pending
  <2>2. Observed' = Observed
    BY <1>1, <1>2, <1>4, <2>1 DEF Observed
  <2>3. sched.added \subseteq Executed
    BY <1>1, <1>2, <1>4 DEF RunProgress, EndOf
  <2> QED BY <1>1, <1>4, <2>1, <2>2, <2>3 DEF RunProgress, Exclusive, Atomic!vars
<1>5. CASE ~disconnected /\ ~isMaster
  <2>1. phase' = "idle"
    BY <1>1, <1>5
  <2>2. Atomic!Run
    BY <1>1, <1>2, <1>5, <2>1, EndOfRunIsSeen
  <2>3. Observed' = sched
    BY <1>1, <2>1 DEF Observed
  <2> QED BY <1>2, <1>5, <2>1, <2>2, <2>3 DEF RunProgress, Exclusive
<1> QED BY <1>3, <1>4, <1>5

\* The end of the subsystem loop.
LEMMA EndRefreshIsSeen ==
  ASSUME IInv, IInv', RunProgress, EndRefresh
  PROVE  /\ RunProgress'
         /\ phase = "refresh" /\ phase' = "idle" /\ ~runningTests
         /\ IF disconnected THEN UNCHANGED Atomic!vars ELSE Atomic!Run
<1>1. /\ phase = "refresh" /\ phase' = "idle"
      /\ EndOf(registered)
      /\ UNCHANGED <<isMaster, registered, sched, runningTests, disconnected>>
      /\ ~runningTests
  BY DEF EndRefresh, IInv, RunPosition
<1>2. Observed' = sched
  BY <1>1 DEF Observed
<1>3. RunProgress'
  BY <1>1, <1>2 DEF RunProgress, Exclusive, IInv, Ownership
<1>4. CASE disconnected
  BY <1>1, <1>2, <1>3, <1>4 DEF Observed, Atomic!vars
<1>5. CASE ~disconnected
  BY <1>1, <1>3, <1>5, EndOfRunIsSeen
<1> QED BY <1>4, <1>5

\* Every step is a call, the whole of a run, or unseen.
LEMMA NextIsAtomic ==
  ASSUME IInv, IInv', RunProgress, Next
  PROVE  RunProgress' /\ StepIsAtomic
<1>1. CASE Caller
  BY <1>1, CallsAreCalls DEF StepIsAtomic
<1>2. CASE BeginRun
  <2>1. disconnected \in BOOLEAN /\ runningTests \in BOOLEAN
    BY DEF IInv, TypeOK
  <2> QED BY <1>2, <2>1, BeginIsSeen DEF StepIsAtomic
<1>3. ASSUME NEW c \in Commands, ExecuteNext(c) \/ DisconnectNext(c)
      PROVE  RunProgress' /\ StepIsAtomic
  <2>1. /\ phase \in {"execute", "disconnect"} /\ phase' = phase
        /\ UNCHANGED <<isMaster, registered, runningTests, disconnected>>
    BY <1>3 DEF ExecuteNext, DisconnectNext
  <2>2. RunProgress' /\ Observed' = Observed
    BY <1>3, ExecuteIsHidden, DisconnectIsHidden
  <2> QED BY <2>1, <2>2 DEF StepIsAtomic, Atomic!vars
<1>4. ASSUME NEW s \in Subsystems, RefreshNext(s) \/ TestNext(s)
      PROVE  RunProgress' /\ StepIsAtomic
  <2>1. /\ phase \in {"refresh", "test"} /\ phase' = phase
        /\ UNCHANGED <<isMaster, registered, runningTests, disconnected>>
    BY <1>4 DEF RefreshNext, TestNext
  <2>2. RunProgress' /\ Observed' = Observed
    BY <1>4, RefreshIsHidden, TestIsHidden
  <2> QED BY <2>1, <2>2 DEF StepIsAtomic, Atomic!vars
<1>5. CASE EndCommands
  <2>1. /\ phase \in {"execute", "disconnect"} /\ phase' \in {"idle", "refresh"}
        /\ ~runningTests
    BY <1>5 DEF EndCommands, IInv, RunPosition
  <2> QED BY <1>5, <2>1, EndCommandsIsSeen DEF StepIsAtomic
<1>6. CASE EndRefresh
  BY <1>6, EndRefreshIsSeen DEF StepIsAtomic
<1>7. CASE EndTest
  <2>1. /\ phase = "test" /\ phase' = "idle"
        /\ UNCHANGED <<isMaster, registered, sched, runningTests, disconnected>>
        /\ runningTests
    BY <1>7 DEF EndTest, IInv, RunPosition
  <2>2. Observed = sched /\ Observed' = sched
    BY <2>1 DEF Observed
  <2> QED BY <2>1, <2>2 DEF StepIsAtomic, Atomic!vars, RunProgress, Exclusive
<1> QED BY <1>1, <1>2, <1>3, <1>4, <1>5, <1>6, <1>7 DEF Next, RunStep

\* To its callers every run of the scheduler is one step, taken at the end of a connected
\* run and at the beginning of a disconnected one.
THEOREM RunsAreAtomicHolds == Spec => RunsAreAtomic
<1>1. Init => RunProgress /\ Atomic!Init
  <2> SUFFICES ASSUME Init PROVE RunProgress /\ Atomic!Init
    OBVIOUS
  <2>1. Observed = sched
    BY DEF Init, Observed
  <2> QED BY <2>1, InitEstablishesProgress DEF Init, Atomic!Init, EmptyScheduler,
             Atomic!EmptyScheduler
<1>2. IInv /\ IInv' /\ RunProgress /\ [Next]_vars => RunProgress' /\ [StepIsAtomic]_vars
  <2>1. ASSUME RunProgress, UNCHANGED vars PROVE RunProgress'
    BY <2>1 DEF vars, RunProgress, Observed, Executed, Pending, Exclusive
  <2> QED BY <2>1, NextIsAtomic
<1> QED BY <1>1, <1>2, Invariance, PTL DEF Spec, RunsAreAtomic

\* In particular the scheduler implements the atomic one, with what its callers saw last
\* for the two bitmaps.
THEOREM AtomicRefinement == Spec => Atomic!Spec
<1>1. [StepIsAtomic]_vars => [Atomic!Next]_(Atomic!vars)
  <2> SUFFICES ASSUME [StepIsAtomic]_vars PROVE [Atomic!Next]_(Atomic!vars)
    OBVIOUS
  <2>1. CASE StepIsAtomic
    BY <2>1 DEF StepIsAtomic, Atomic!Next
  <2>2. CASE UNCHANGED vars
    BY <2>2 DEF vars, Atomic!vars, Observed, Executed, Pending
  <2> QED BY <2>1, <2>2
<1> QED BY <1>1, RunsAreAtomicHolds, PTL DEF RunsAreAtomic, Atomic!Spec
=============================================================================
