--------------------------- MODULE SchedulerState ---------------------------
(***************************************************************************)
(* The two bitmaps of one tap::control::CommandScheduler and what its      *)
(* operations do to them (tap/control/command_scheduler.cpp).              *)
(*                                                                         *)
(* A scheduler is the record [added, assoc]: addedCommandBitmap and        *)
(* subsystemsAssociatedWithCommandBitmap as sets of global identifiers.    *)
(* The code keeps both, so nothing but the operations keeps them in step.  *)
(* The operators are pure: the master scheduler, the mappings that call    *)
(* it, and the private schedulers of comprised commands all use them.      *)
(***************************************************************************)
EXTENDS Naturals

CONSTANTS
  Commands,    (* global identifiers of the constructed commands           *)
  Subsystems,  (* global identifiers of the constructed subsystems         *)
  Req          (* getRequirementsBitwise of each command, as a set         *)

\* A command requires only constructed subsystems.
ASSUME RequirementAssumption == Req \in [Commands -> SUBSET Subsystems]

\* A freshly constructed scheduler: both bitmaps are zero.
EmptyScheduler == [added |-> {}, assoc |-> {}]

SchedulerStates == [added : SUBSET Commands, assoc : SUBSET Subsystems]

IsCommandScheduled(s, c) == c \in s.added

\* Every subsystem that some command of C requires.
RequiredBy(C) == UNION {Req[c] : c \in C}

\* Faulty forms of Displaced (mutants): an already scheduled c is not ended; only
\* commands that lie inside c's requirements are ended.
DisplacedButSelf(s, c) == {d \in s.added : d # c /\ Req[d] \cap Req[c] # {}}
DisplacedInside(s, c) == {d \in s.added : Req[d] \subseteq Req[c]}

\* The commands addCommand(c) ends first: all that share a requirement with c,
\* c itself included when it is already scheduled.
Displaced(s, c) == {d \in s.added : Req[d] \cap Req[c] # {}}

\* The requirement check of addCommand: a command with no requirement, or with
\* one that was never registered, is refused with an error.
Schedulable(c, registered) == Req[c] # {} /\ Req[c] \subseteq registered

\* Faulty form (mutant): the requirement bits stay set.
RemoveKeepsAssoc(s, c) == [s EXCEPT !.added = @ \ {c}]

\* removeCommand: ends c, then clears its requirements and its own bit. A
\* command that is not scheduled is left alone.
RemoveCommand(s, c) ==
  IF IsCommandScheduled(s, c)
    THEN [added |-> s.added \ {c}, assoc |-> s.assoc \ Req[c]]
    ELSE s

\* Faulty form (mutant): a command whose subsystems are taken is refused.
AddIfFree(s, c) ==
  IF Displaced(s, c) = {}
    THEN [added |-> s.added \cup {c}, assoc |-> s.assoc \cup Req[c]]
    ELSE s

\* The part of addCommand behind its guards: end the displaced commands, claim
\* the subsystems, initialize, set the command's bit.
AddCommand(s, c) ==
  LET D == Displaced(s, c)
  IN  [added |-> (s.added \ D) \cup {c},
       assoc |-> (s.assoc \ RequiredBy(D)) \cup Req[c]]

\* scheduleIfNotScheduled: how comprised commands add to their private scheduler.
ScheduleIfNotScheduled(s, c) ==
  IF IsCommandScheduled(s, c) THEN s ELSE AddCommand(s, c)

\* run() of a connected robot as its caller sees it: the commands of F have finished
\* and are removed, those of D are added, each to a subsystem that is free by then.
AfterRun(s, F, D) ==
  [added |-> (s.added \ F) \cup D,
   assoc |-> (s.assoc \ RequiredBy(F)) \cup RequiredBy(D)]

\* The command in control of a subsystem, read from the two bitmaps.
Owner(s, sub, free) ==
  IF sub \in s.assoc THEN CHOOSE c \in s.added : sub \in Req[c] ELSE free

-----------------------------------------------------------------------------
\* No two scheduled commands require the same subsystem.
Exclusive(s) ==
  \A c, d \in s.added : c # d => Req[c] \cap Req[d] = {}

\* The second bitmap is exactly what the scheduled commands require.
InStep(s) == s.assoc = RequiredBy(s.added)
=============================================================================
