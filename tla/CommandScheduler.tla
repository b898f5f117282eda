-------------------------- MODULE CommandScheduler --------------------------
(***************************************************************************)
(* tap::control::CommandScheduler: the object every robot of this          *)
(* repository runs on.  main.cpp calls run() every 2 ms; between two runs  *)
(* the remote's mappings add and remove commands, the terminal may start   *)
(* or stop hardware tests and the safe-disconnect functor may change its   *)
(* answer.  Everything is one thread, so these happen only while no run is *)
(* in progress; run() itself is modelled one callback at a time, because   *)
(* its loops re-read the bitmaps the callbacks' removals change.           *)
(***************************************************************************)
EXTENDS SchedulerState

CONSTANTS
  Default,      (* getDefaultCommand of each subsystem, or NoCommand       *)
  NoCommand,    (* nullptr                                                 *)
  AlwaysReady   (* commands that keep Command::isReady, which returns true *)

\* Identifiers index the global registrars.
ASSUME RegistrarAssumption ==
  /\ Commands \subseteq Nat
  /\ Subsystems \subseteq Nat
  /\ AlwaysReady \subseteq Commands
  /\ NoCommand \notin Commands

\* Every setDefaultCommand of src/robots gives a subsystem a command that
\* requires that subsystem and no other.
ASSUME DefaultAssumption ==
  /\ Default \in [Subsystems -> Commands \cup {NoCommand}]
  /\ \A s \in Subsystems : Default[s] # NoCommand => Req[Default[s]] = {s}

VARIABLES
  isMaster,       (* isMasterScheduler, fixed by the constructor           *)
  registered,     (* registeredSubsystemBitmap                             *)
  sched,          (* addedCommandBitmap and the associated subsystems      *)
  runningTests,   (* runningHardwareTests                                  *)
  testsComplete,  (* subsystems whose hardwareTestsComplete is set         *)
  disconnected,   (* what the safe-disconnect functor answers              *)
  phase,          (* where run() is                                        *)
  cursor,         (* the iterator: least identifier not yet visited        *)
  life,           (* history: the initialize/end state of each command     *)
  executions,     (* history: execute() calls of this run, saturating at 2 *)
  refreshes       (* history: refresh calls of this run, saturating at 2   *)

vars == <<isMaster, registered, sched, runningTests, testsComplete,
          disconnected, phase, cursor, life, executions, refreshes>>

Phases == {"idle", "execute", "disconnect", "refresh", "test"}

\* A command is "active" between initialize and end; "broken" marks a callback
\* the Command interface does not allow.
LifeStates == {"dormant", "active", "broken"}

TypeOK ==
  /\ isMaster \in BOOLEAN
  /\ registered \subseteq Subsystems
  /\ sched \in SchedulerStates
  /\ runningTests \in BOOLEAN
  /\ testsComplete \subseteq Subsystems
  /\ disconnected \in BOOLEAN
  /\ phase \in Phases
  /\ cursor \in Nat
  /\ life \in [Commands -> LifeStates]
  /\ executions \in [Commands -> 0 .. 2]
  /\ refreshes \in [Subsystems -> 0 .. 2]

-----------------------------------------------------------------------------
\* Command::end on every command of D.
Ended(l, D) ==
  [c \in Commands |->
     IF c \in D THEN (IF l[c] = "active" THEN "dormant" ELSE "broken")
                ELSE l[c]]

\* Command::initialize on c.
Initialized(l, c) ==
  [l EXCEPT ![c] = IF @ = "dormant" THEN "active" ELSE "broken"]

Bumped(count, i) == [count EXCEPT ![i] = IF @ = 2 THEN 2 ELSE @ + 1]

\* Faulty form (mutant): the loop restarts at the first identifier.
NextRestarts(S, i) == i \in S /\ \A j \in S : i <= j

\* The iterators: i is the first identifier of S at or behind the cursor.
NextOf(S, i) == i \in S /\ i >= cursor /\ \A j \in S : j >= cursor => i <= j

EndOf(S) == \A j \in S : j < cursor

\* Faulty form (mutant): commands are accepted while hardware tests run.
AcceptsInTests(c) == ~disconnected /\ Schedulable(c, registered)

\* addCommand(c) gets past its guards; isReady may refuse, unless the command
\* does not override it.
Accepts(c) ==
  /\ ~disconnected
  /\ ~runningTests
  /\ Schedulable(c, registered)

MayRefuse(c) == ~Accepts(c) \/ c \notin AlwaysReady

\* addCommand(c) when nothing refuses it.
DoAdd(c) ==
  /\ sched' = AddCommand(sched, c)
  /\ life' = Initialized(Ended(life, Displaced(sched, c)), c)

\* removeCommand(c, _) of a scheduled command.
DoRemove(c) ==
  /\ sched' = RemoveCommand(sched, c)
  /\ life' = Ended(life, {c})

-----------------------------------------------------------------------------
\* Operations called between two runs.

RegisterSubsystem(s) ==
  /\ phase = "idle"
  /\ s \notin registered
  /\ registered' = registered \cup {s}
  /\ UNCHANGED <<isMaster, sched, runningTests, testsComplete, disconnected,
                 phase, cursor, life, executions, refreshes>>

\* addCommand from a mapping, from a robot's start-up code or from a comprised
\* command. A refused call changes nothing.
Add(c) ==
  /\ phase = "idle"
  /\ Accepts(c)
  /\ DoAdd(c)
  /\ UNCHANGED <<isMaster, registered, runningTests, testsComplete, disconnected,
                 phase, cursor, executions, refreshes>>

\* removeCommand from a mapping or a comprised command.
Remove(c) ==
  /\ phase = "idle"
  /\ IsCommandScheduled(sched, c)
  /\ DoRemove(c)
  /\ UNCHANGED <<isMaster, registered, runningTests, testsComplete, disconnected,
                 phase, cursor, executions, refreshes>>

StartHardwareTests ==
  /\ phase = "idle"
  /\ runningTests' = TRUE
  /\ life' = Ended(life, sched.added)
  /\ sched' = EmptyScheduler
  /\ testsComplete' = testsComplete \ registered
  /\ UNCHANGED <<isMaster, registered, disconnected, phase, cursor, executions,
                 refreshes>>

StopHardwareTests ==
  /\ phase = "idle"
  /\ runningTests' = FALSE
  /\ testsComplete' = testsComplete \cup registered
  /\ UNCHANGED <<isMaster, registered, sched, disconnected, phase, cursor, life,
                 executions, refreshes>>

\* The functor reads the remote's state, which changes only between runs.
SafeDisconnectChanges ==
  /\ phase = "idle"
  /\ disconnected' = ~disconnected
  /\ UNCHANGED <<isMaster, registered, sched, runningTests, testsComplete, phase,
                 cursor, life, executions, refreshes>>

-----------------------------------------------------------------------------
\* run(), from its first branch to its return.

BeginRun ==
  /\ phase = "idle"
  /\ phase' = IF runningTests THEN "test"
              ELSE IF disconnected THEN "disconnect" ELSE "execute"
  /\ cursor' = 0
  /\ executions' = [c \in Commands |-> 0]
  /\ refreshes' = [s \in Subsystems |-> 0]
  /\ UNCHANGED <<isMaster, registered, sched, runningTests, testsComplete,
                 disconnected, life>>

\* Faulty form (mutant): the iterator is advanced twice.
ExecuteSkips(c) ==
  /\ phase = "execute"
  /\ NextOf(sched.added, c)
  /\ executions' = Bumped(executions, c)
  /\ UNCHANGED <<sched, life>> \/ DoRemove(c)
  /\ cursor' = c + 2
  /\ UNCHANGED <<isMaster, registered, runningTests, testsComplete, disconnected,
                 phase, refreshes>>

\* One turn of the execute loop: execute(), then removal if isFinished().
ExecuteNext(c) ==
  /\ phase = "execute"
  /\ NextOf(sched.added, c)
  /\ executions' = Bumped(executions, c)
  /\ \/ UNCHANGED <<sched, life>>
     \/ DoRemove(c)
  /\ cursor' = c + 1
  /\ UNCHANGED <<isMaster, registered, runningTests, testsComplete, disconnected,
                 phase, refreshes>>

\* Faulty form (mutant): the iterator is advanced twice.
DisconnectSkips(c) ==
  /\ phase = "disconnect"
  /\ NextOf(sched.added, c)
  /\ DoRemove(c)
  /\ cursor' = c + 2
  /\ UNCHANGED <<isMaster, registered, runningTests, testsComplete, disconnected,
                 phase, executions, refreshes>>

\* One turn of the safe-disconnect loop, which ends every command.
DisconnectNext(c) ==
  /\ phase = "disconnect"
  /\ NextOf(sched.added, c)
  /\ DoRemove(c)
  /\ cursor' = c + 1
  /\ UNCHANGED <<isMaster, registered, runningTests, testsComplete, disconnected,
                 phase, executions, refreshes>>

\* Faulty forms (mutants): the subsystem loop starts at the second identifier; it
\* is skipped when no command is left.
EndCommandsSkipsFirst ==
  /\ phase \in {"execute", "disconnect"}
  /\ EndOf(sched.added)
  /\ phase' = IF isMaster THEN "refresh" ELSE "idle"
  /\ cursor' = 1
  /\ UNCHANGED <<isMaster, registered, sched, runningTests, testsComplete,
                 disconnected, life, executions, refreshes>>
EndCommandsWhenEmpty ==
  /\ phase \in {"execute", "disconnect"}
  /\ EndOf(sched.added)
  /\ phase' = IF isMaster /\ sched.added # {} THEN "refresh" ELSE "idle"
  /\ cursor' = 0
  /\ UNCHANGED <<isMaster, registered, sched, runningTests, testsComplete,
                 disconnected, life, executions, refreshes>>

\* The command loop is over: only a master scheduler refreshes subsystems.
EndCommands ==
  /\ phase \in {"execute", "disconnect"}
  /\ EndOf(sched.added)
  /\ phase' = IF isMaster THEN "refresh" ELSE "idle"
  /\ cursor' = 0
  /\ UNCHANGED <<isMaster, registered, sched, runningTests, testsComplete,
                 disconnected, life, executions, refreshes>>

\* Faulty form (mutant): the associated bitmap is not consulted.
NeedsDefaultAlways(s) == ~disconnected /\ Default[s] # NoCommand

\* The test behind refresh(): s has no command and a default to fall back on.
NeedsDefault(s) ==
  /\ ~disconnected
  /\ s \notin sched.assoc
  /\ Default[s] # NoCommand

\* One turn of the subsystem loop: refresh (or refreshSafeDisconnect), then the
\* default command if the subsystem is free.
RefreshNext(s) ==
  /\ phase = "refresh"
  /\ NextOf(registered, s)
  /\ refreshes' = Bumped(refreshes, s)
  /\ \/ NeedsDefault(s) /\ Accepts(Default[s]) /\ DoAdd(Default[s])
     \/ /\ NeedsDefault(s) => MayRefuse(Default[s])
        /\ UNCHANGED <<sched, life>>
  /\ cursor' = s + 1
  /\ UNCHANGED <<isMaster, registered, runningTests, testsComplete, disconnected,
                 phase, executions>>

EndRefresh ==
  /\ phase = "refresh"
  /\ EndOf(registered)
  /\ phase' = "idle"
  /\ UNCHANGED <<isMaster, registered, sched, runningTests, testsComplete,
                 disconnected, cursor, life, executions, refreshes>>

\* One turn of the hardware-test loop. The subsystem decides in
\* runHardwareTests whether its test is complete.
TestNext(s) ==
  /\ phase = "test"
  /\ NextOf(registered, s)
  /\ testsComplete' \in {testsComplete, testsComplete \cup {s}}
  /\ refreshes' = Bumped(refreshes, s)
  /\ cursor' = s + 1
  /\ UNCHANGED <<isMaster, registered, sched, runningTests, disconnected, phase,
                 life, executions>>

EndTest ==
  /\ phase = "test"
  /\ EndOf(registered)
  /\ phase' = "idle"
  /\ UNCHANGED <<isMaster, registered, sched, runningTests, testsComplete,
                 disconnected, cursor, life, executions, refreshes>>

-----------------------------------------------------------------------------
Init ==
  /\ isMaster \in BOOLEAN
  /\ registered = {}
  /\ sched = EmptyScheduler
  /\ runningTests = FALSE
  /\ testsComplete = {}
  /\ disconnected \in BOOLEAN
  /\ phase = "idle"
  /\ cursor = 0
  /\ life = [c \in Commands |-> "dormant"]
  /\ executions = [c \in Commands |-> 0]
  /\ refreshes = [s \in Subsystems |-> 0]

Caller ==
  \/ \E s \in Subsystems : RegisterSubsystem(s)
  \/ \E c \in Commands : Add(c) \/ Remove(c)
  \/ StartHardwareTests
  \/ StopHardwareTests
  \/ SafeDisconnectChanges

RunStep ==
  \/ BeginRun
  \/ \E c \in Commands : ExecuteNext(c) \/ DisconnectNext(c)
  \/ EndCommands
  \/ \E s \in Subsystems : RefreshNext(s) \/ TestNext(s)
  \/ EndRefresh
  \/ EndTest

Next == Caller \/ RunStep

\* The main loop calls run() for ever and run() has no blocking call.
Fairness == WF_vars(RunStep)

Spec == Init /\ [][Next]_vars

FairSpec == Spec /\ Fairness

-----------------------------------------------------------------------------
\* Safety. No two scheduled commands require the same subsystem, and the bitmap
\* of associated subsystems (which decides when a default is added) is exactly
\* what the scheduled commands require (addCommand and removeCommand update the
\* two bitmaps in separate statements).
Ownership == Exclusive(sched) /\ InStep(sched)

\* Safety. Command instances are reused for ever: initialize and end alternate
\* on every one of them, whatever displaced, finished, tested or disconnected it.
Lifecycle ==
  \A c \in Commands :
    life[c] = IF IsCommandScheduled(sched, c) THEN "active" ELSE "dormant"

\* Safety. While hardware tests run no command is scheduled, so nothing but the
\* tests moves a motor.
TestsOwnTheRobot == runningTests => sched = EmptyScheduler

\* Safety. In the subsystem loop of a connected run, a registered subsystem that
\* was passed and has an always-ready default has a command: no later default
\* takes it away again.
DefaultsHold ==
  phase = "refresh" /\ ~disconnected =>
    \A s \in registered :
      s < cursor /\ Default[s] \in AlwaysReady => s \in sched.assoc

\* Safety. A disconnected run reaches its subsystem loop with no command left,
\* although the loop that ends them iterates over the bitmap it clears.
DisconnectedRunsNothing ==
  phase = "refresh" /\ disconnected => sched.added = {}

\* Action property. No run executes a command twice, and when its subsystem loop
\* ends every registered subsystem was refreshed exactly once (the guarantee in
\* the comment of CommandScheduler::run), although commands come and go while it
\* iterates over the bitmaps.
OncePerRun ==
  [][/\ \A c \in Commands : executions'[c] <= 1
     /\ EndRefresh \/ EndTest => \A s \in registered : refreshes[s] = 1]_vars

\* Action property. Adding a default never interrupts a command that is running.
DefaultNeverInterrupts ==
  [][phase = "refresh" => sched.added \subseteq sched'.added]_vars

\* Liveness. A scheduled command is executed or is ended; none is forgotten in
\* the bitmap.
ScheduledCommandRuns ==
  \A c \in Commands :
    IsCommandScheduled(sched, c) ~>
      (executions[c] = 1 \/ ~IsCommandScheduled(sched, c))

\* Liveness. Under a master scheduler a registered subsystem whose default is
\* always ready comes under control, unless tests run or the robot is
\* disconnected.
FreeSubsystemRecovers ==
  \A s \in Subsystems :
    (isMaster /\ s \in registered /\ Default[s] \in AlwaysReady) ~>
      (s \in sched.assoc \/ disconnected \/ runningTests)

\* What run() knows about its own position: the phases are entered from the
\* branch they belong to, and what lies behind the iterator is done.
RunPosition ==
  /\ phase \in {"execute", "disconnect", "refresh"} => ~runningTests
  /\ phase = "test" => runningTests
  /\ phase = "execute" => /\ ~disconnected
                         /\ \A c \in Commands :
                              c >= cursor => executions[c] = 0
  /\ phase = "disconnect" => disconnected /\ \A c \in sched.added : c >= cursor
  /\ phase \in {"refresh", "test"} =>
       \A s \in registered : refreshes[s] = IF s < cursor THEN 1 ELSE 0
  /\ phase \in {"execute", "disconnect"} =>
       \A s \in Subsystems : refreshes[s] = 0
  /\ \A c \in Commands : executions[c] <= 1

\* The inductive invariant behind the safety theorems.
IInv ==
  /\ TypeOK
  /\ Ownership
  /\ Lifecycle
  /\ TestsOwnTheRobot
  /\ DefaultsHold
  /\ DisconnectedRunsNothing
  /\ RunPosition

Abstract ==
  INSTANCE SubsystemOwnership
    WITH owner <- [s \in Subsystems |-> Owner(sched, s, NoCommand)],
         Free <- NoCommand

\* Refinement. The scheduler implements the map of subsystems to commands that
\* its class comment describes.
ImplementsOwnership == Abstract!Spec

-----------------------------------------------------------------------------
\* What the run in progress has executed, and what it has yet to execute.
Executed == {c \in Commands : executions[c] # 0}
Pending == {c \in sched.added : phase = "execute" /\ c >= cursor}

\* What a caller could have seen of the two bitmaps last: during a connected run,
\* what the run found when it began. A disconnected run takes effect at once.
Observed ==
  LET C == Executed \cup Pending
  IN  IF phase = "disconnect" THEN EmptyScheduler
      ELSE IF phase \in {"execute", "refresh"} /\ ~disconnected
             THEN [added |-> C, assoc |-> RequiredBy(C)]
             ELSE sched

Atomic == INSTANCE AtomicScheduler WITH sched <- Observed

\* A step is a call of an operation, the whole of a run, or nothing to the callers.
StepIsAtomic ==
  IF phase = "idle" /\ phase' = "idle" THEN Atomic!Call
  ELSE IF ~runningTests /\ "idle" = (IF disconnected THEN phase ELSE phase')
    THEN Atomic!Run
    ELSE UNCHANGED Atomic!vars

\* Refinement. To its callers every run is one step, although it is a sequence of
\* callbacks that end and start commands while two iterators walk over the bitmaps:
\* what was scheduled and has not finished stays, each free registered subsystem
\* gets its default if that is ready, and nothing else changes. The step is the last
\* one of a connected run and the first one of a disconnected run. RobotControl,
\* whose runs are such steps, rests on this.
RunsAreAtomic == Atomic!Init /\ [][StepIsAtomic]_vars

\* What makes Observed the state the run began with: nothing behind the iterator
\* was skipped, and what the run did not find it added as a default.
RunProgress ==
  /\ phase = "refresh" => isMaster
  /\ phase = "execute" => \A c \in sched.added : c < cursor => c \in Executed
  /\ phase = "refresh" /\ ~disconnected =>
       \A c \in sched.added \ Executed :
         \E s \in registered : s < cursor /\ c = Default[s]
  /\ Exclusive(Observed)
=============================================================================
