--------------------------- MODULE AtomicScheduler ---------------------------
(***************************************************************************)
(* A tap::control::CommandScheduler as its callers see it: the mappings,   *)
(* the terminal and the commands that own a private scheduler.  run() is   *)
(* one step here.  Callbacks, iterators and the order in which commands    *)
(* and subsystems are visited are not visible.                             *)
(***************************************************************************)
EXTENDS SchedulerState

CONSTANTS
  Default,      (* getDefaultCommand of each subsystem, or NoCommand       *)
  NoCommand,    (* nullptr                                                 *)
  AlwaysReady   (* commands that keep Command::isReady, which returns true *)

VARIABLES isMaster, registered, sched, runningTests, disconnected

vars == <<isMaster, registered, sched, runningTests, disconnected>>

RegisterSubsystem(s) ==
  /\ s \notin registered
  /\ registered' = registered \cup {s}
  /\ UNCHANGED <<isMaster, sched, runningTests, disconnected>>

Add(c) ==
  /\ ~disconnected /\ ~runningTests
  /\ Schedulable(c, registered)
  /\ sched' = AddCommand(sched, c)
  /\ UNCHANGED <<isMaster, registered, runningTests, disconnected>>

Remove(c) ==
  /\ sched' = RemoveCommand(sched, c)
  /\ UNCHANGED <<isMaster, registered, runningTests, disconnected>>

StartHardwareTests ==
  /\ runningTests' = TRUE
  /\ sched' = EmptyScheduler
  /\ UNCHANGED <<isMaster, registered, disconnected>>

StopHardwareTests ==
  /\ runningTests' = FALSE
  /\ UNCHANGED <<isMaster, registered, sched, disconnected>>

SafeDisconnectChanges ==
  /\ disconnected' = ~disconnected
  /\ UNCHANGED <<isMaster, registered, sched, runningTests>>

\* The subsystems whose default command a run tries when it leaves s behind.
Tried(s) ==
  {x \in registered : isMaster /\ x \notin s.assoc /\ Default[x] # NoCommand}

\* The commands of F finish; the subsystems of T get their defaults. A default is
\* left out only if it is not ready.
ConnectedRun(F, T) ==
  /\ ~disconnected /\ ~runningTests
  /\ T \subseteq Tried(AfterRun(sched, F, {}))
  /\ \A x \in Tried(AfterRun(sched, F, {})) \ T : Default[x] \notin AlwaysReady
  /\ sched' = AfterRun(sched, F, {Default[x] : x \in T})
  /\ UNCHANGED <<isMaster, registered, runningTests, disconnected>>

\* A run while the robot is disconnected ends everything and adds nothing.
DisconnectedRun ==
  /\ disconnected /\ ~runningTests
  /\ sched' = EmptyScheduler
  /\ UNCHANGED <<isMaster, registered, runningTests, disconnected>>

Init ==
  /\ isMaster \in BOOLEAN
  /\ registered = {}
  /\ sched = EmptyScheduler
  /\ runningTests = FALSE
  /\ disconnected \in BOOLEAN

Call ==
  \/ \E s \in Subsystems : RegisterSubsystem(s)
  \/ \E c \in Commands : Add(c) \/ Remove(c)
  \/ StartHardwareTests
  \/ StopHardwareTests
  \/ SafeDisconnectChanges

Run ==
  \/ \E F \in SUBSET sched.added, T \in SUBSET registered : ConnectedRun(F, T)
  \/ DisconnectedRun

Next == Call \/ Run

Spec == Init /\ [][Next]_vars
=============================================================================
