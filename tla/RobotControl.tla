---------------------------- MODULE RobotControl ----------------------------
(***************************************************************************)
(* From the remote to the subsystems: Remote (tap/communication/serial),   *)
(* the CommandMapper with its four kinds of CommandMapping, and the master *)
(* CommandScheduler that they call.  The main loop first reads the remote  *)
(* and, every 2 ms, runs the scheduler; a packet or a silence of more than *)
(* 100 ms is handed to every mapping in the order of their addMap calls.   *)
(*                                                                         *)
(* Handling the remote is modelled one mapping and one command at a time,  *)
(* because a mapping asks the scheduler about the effect of those before   *)
(* it.  run() is one step: CommandScheduler models its inside.  In the     *)
(* shipped robots no hardware test is ever started, the safe-disconnect    *)
(* functor always answers FALSE and every mapped command is always ready,  *)
(* so that addCommand accepts every registered command.                    *)
(***************************************************************************)
EXTENDS SchedulerState, Integers, Sequences

CONSTANTS
  Mappings,   (* commandsToRun: the accepted mappings, in insertion order  *)
  Inputs,     (* what a packet can report                                  *)
  Default,    (* getDefaultCommand of each registered subsystem            *)
  NoCommand,  (* nullptr                                                   *)
  Startup,    (* commands added by startupCommands                         *)
  Finishing   (* commands whose isFinished can answer TRUE                 *)

SwitchStates == {"UNKNOWN", "UP", "DOWN", "MID"}

\* The remote after Remote::reset: switches unknown, nothing pressed.
Silent == [left |-> "UNKNOWN", right |-> "UNKNOWN", pressed |-> {}]

Indices == 1 .. Len(Mappings)

CommandsOf(i) == {Mappings[i].cmds[k] : k \in DOMAIN Mappings[i].cmds}

\* stateSubsetOf: the input has everything the mapping's state asks for.
MappingSubset(m, in) ==
  /\ m.left \in {"UNKNOWN", in.left}
  /\ m.right \in {"UNKNOWN", in.right}
  /\ m.pressed \subseteq in.pressed

\* getNegKeysUsed and negKeysSubset: all the keys that forbid the mapping are down.
NegKeysHeld(m, in) == m.neg # {} /\ m.neg \subseteq in.pressed

\* The test of the hold, hold-repeat and press mappings.
Wanted(i, in) == MappingSubset(Mappings[i], in) /\ ~NegKeysHeld(Mappings[i], in)

\* addMap: a second mapping of the same remote state is refused with an error.
AddMap(S, m) ==
  IF \E i \in DOMAIN S : /\ S[i].left = m.left
                         /\ S[i].right = m.right
                         /\ S[i].pressed = m.pressed
                         /\ S[i].neg = m.neg
    THEN S ELSE Append(S, m)

ASSUME MappingAssumption ==
  /\ Len(Mappings) \in Nat \ {0}
  /\ \A i \in Indices :
       LET m == Mappings[i]
       IN  /\ m.kind \in {"hold", "holdRepeat", "press", "toggle"}
           /\ m.left \in SwitchStates /\ m.right \in SwitchStates
           /\ m.cmds \in Seq(Commands) /\ Len(m.cmds) > 0
           /\ m.ends \in BOOLEAN
           /\ m.max = -1 \/ m.max \in Nat \ {0}
           /\ ~MappingSubset(m, Silent)

\* The rule in the class comment of CommandScheduler: a command object belongs to
\* one mapping. The robots construct a second object when they need one. Only a
\* press mapping restarts a start-up command.
ASSUME InstanceAssumption ==
  /\ \A i, j \in Indices : i # j => CommandsOf(i) \cap CommandsOf(j) = {}
  /\ \A i \in Indices : \A s \in Subsystems : Default[s] \notin CommandsOf(i)
  /\ \A i \in Indices :
       Mappings[i].kind # "press" => CommandsOf(i) \cap Startup = {}

\* Every command has registered requirements; a default requires its subsystem
\* alone and is no start-up command.
ASSUME RobotAssumption ==
  /\ \A c \in Commands : Req[c] # {}
  /\ NoCommand \notin Commands
  /\ Default \in [Subsystems -> Commands \cup {NoCommand}]
  /\ \A s \in Subsystems : Default[s] # NoCommand => Req[Default[s]] = {s}
  /\ Startup \subseteq Commands
  /\ \A c, d \in Startup : c # d => Req[c] \cap Req[d] = {}
  /\ Finishing \subseteq Commands

VARIABLES
  connected,  (* Remote::connected                                         *)
  input,      (* what the remote reports                                   *)
  on,         (* commandScheduled, held or pressed of each mapping         *)
  toggled,    (* toggled of each toggle mapping                            *)
  counts,     (* rescheduleCounts of each hold-repeat mapping              *)
  sched,      (* the master scheduler                                      *)
  at,         (* the mapping being executed, 0 between two readings        *)
  verb,       (* what it is doing with its commands                        *)
  next,       (* the next of its commands                                  *)
  before,     (* history: input at the reading before the last one         *)
  repeats,    (* history: equal readings in a row, saturating at 2         *)
  touched     (* history: commands initialized or ended by this reading    *)

flags == <<on, toggled, counts>>
vars == <<connected, input, flags, sched, at, verb, next, before, repeats, touched>>

TypeOK ==
  /\ connected \in BOOLEAN
  /\ input \in Inputs \cup {Silent}
  /\ before \in Inputs \cup {Silent}
  /\ on \in [Indices -> BOOLEAN]
  /\ toggled \in [Indices -> BOOLEAN]
  /\ DOMAIN counts = Indices
  /\ \A i \in Indices : counts[i] \in [DOMAIN Mappings[i].cmds -> Nat]
  /\ sched \in SchedulerStates
  /\ at \in Indices \cup {0}
  /\ verb \in {"decide", "add", "repeat", "remove"}
  /\ next \in Nat \ {0}
  /\ at # 0 => next \in DOMAIN Mappings[at].cmds
  /\ repeats \in 0 .. 2
  /\ touched \subseteq Commands

-----------------------------------------------------------------------------
\* Remote::read, up to its call of handleKeyStateChange.

Reading(in) ==
  /\ at = 0
  /\ input' = in
  /\ before' = input
  /\ repeats' = IF in # input THEN 0 ELSE IF repeats = 2 THEN 2 ELSE repeats + 1
  /\ touched' = {}
  /\ at' = 1
  /\ verb' = "decide"
  /\ next' = 1
  /\ UNCHANGED <<flags, sched>>

\* Eighteen bytes have arrived: parseBuffer.
Packet(in) == connected' = TRUE /\ Reading(in)

\* Faulty forms (mutants): reset does not call the command mapper; the remote is
\* marked as disconnected but not reset.
SilenceWithoutReset ==
  /\ at = 0
  /\ connected' = FALSE
  /\ UNCHANGED <<input, flags, sched, at, verb, next, before, repeats, touched>>
SilenceKeepsMapper ==
  /\ at = 0
  /\ connected' = FALSE
  /\ input' = Silent
  /\ before' = input
  /\ repeats' = 0
  /\ touched' = {}
  /\ UNCHANGED <<flags, sched, at, verb, next>>

\* More than 100 ms without a byte: reset, again on every reading until one comes.
Silence == connected' = FALSE /\ Reading(Silent)

-----------------------------------------------------------------------------
\* One mapping: executeCommandMapping decides, then walks through its commands.

Skip == at' = IF at = Len(Mappings) THEN 0 ELSE at + 1

\* Turn to the commands of the mapping being executed.
Begin(v) == verb' = v /\ UNCHANGED at

\* The step from command number `next` to its successor.
Advance ==
  IF next = Len(Mappings[at].cmds)
    THEN Skip /\ verb' = "decide" /\ next' = 1
    ELSE next' = next + 1 /\ UNCHANGED <<at, verb>>

Deciding(kind) == at # 0 /\ verb = "decide" /\ Mappings[at].kind = kind

\* What every decision leaves alone.
DecisionFrame == UNCHANGED <<connected, input, sched, next, before, repeats, touched>>

\* Faulty form (mutant): `commandScheduled` is not set, so that a held key adds its
\* commands with every reading.
HoldForgetsFlag ==
  /\ Deciding("hold")
  /\ \/ Wanted(at, input) /\ ~on[at] /\ Begin("add")
     \/ ~Wanted(at, input) /\ on[at] /\ Begin("remove")
     \/ Wanted(at, input) = on[at] /\ Skip /\ UNCHANGED verb
  /\ UNCHANGED flags /\ DecisionFrame

ExecuteHold ==
  /\ Deciding("hold")
  /\ on' = [on EXCEPT ![at] = Wanted(at, input)]
  /\ \/ Wanted(at, input) /\ ~on[at] /\ Begin("add")
     \/ ~Wanted(at, input) /\ on[at] /\ Begin("remove")
     \/ Wanted(at, input) = on[at] /\ Skip /\ UNCHANGED verb
  /\ UNCHANGED <<toggled, counts>> /\ DecisionFrame

\* Faulty form (mutant): the counts survive the release of the key.
CountsSurvive ==
  /\ Deciding("holdRepeat")
  /\ on' = [on EXCEPT ![at] = Wanted(at, input)]
  /\ \/ Wanted(at, input) /\ Begin("repeat")
     \/ ~Wanted(at, input) /\ on[at] /\ Mappings[at].ends /\ Begin("remove")
     \/ /\ ~Wanted(at, input) /\ ~(on[at] /\ Mappings[at].ends)
        /\ Skip /\ UNCHANGED verb
  /\ UNCHANGED <<toggled, counts>> /\ DecisionFrame

ExecuteHoldRepeat ==
  /\ Deciding("holdRepeat")
  /\ on' = [on EXCEPT ![at] = Wanted(at, input)]
  /\ counts' = IF ~Wanted(at, input) /\ on[at]
                 THEN [counts EXCEPT ![at] = [k \in DOMAIN Mappings[at].cmds |-> 0]]
                 ELSE counts
  /\ \/ Wanted(at, input) /\ Begin("repeat")
     \/ ~Wanted(at, input) /\ on[at] /\ Mappings[at].ends /\ Begin("remove")
     \/ /\ ~Wanted(at, input) /\ ~(on[at] /\ Mappings[at].ends)
        /\ Skip /\ UNCHANGED verb
  /\ UNCHANGED toggled /\ DecisionFrame

ExecutePress ==
  /\ Deciding("press")
  /\ on' = [on EXCEPT ![at] = Wanted(at, input)]
  /\ \/ Wanted(at, input) /\ ~on[at] /\ Begin("add")
     \/ ~(Wanted(at, input) /\ ~on[at]) /\ Skip /\ UNCHANGED verb
  /\ UNCHANGED <<toggled, counts>> /\ DecisionFrame

\* noCommandsScheduled of a toggled mapping: it falls back to not toggled.
Spent == toggled[at] /\ CommandsOf(at) \cap sched.added = {}

\* Faulty form (mutant): the forbidding keys reset the mapping and no more.
ToggleForgetsRemoval ==
  LET m          == Mappings[at]
      wasToggled == toggled[at] /\ ~Spent
      wasPressed == on[at] /\ ~Spent
      off        == NegKeysHeld(m, input)
      press      == ~off /\ MappingSubset(m, input) /\ ~wasPressed
  IN  /\ Deciding("toggle")
      /\ on' = [on EXCEPT ![at] = ~off /\ MappingSubset(m, input)]
      /\ toggled' = [toggled EXCEPT ![at] = ~off /\ wasToggled # press]
      /\ \/ press /\ ~wasToggled /\ Begin("add")
         \/ press /\ wasToggled /\ Begin("remove")
         \/ ~press /\ Skip /\ UNCHANGED verb
      /\ UNCHANGED counts /\ DecisionFrame

\* Faulty form (mutant): `pressed` is not set, so that a held key is pressed anew by
\* every reading.
ToggleForgetsPress ==
  LET m          == Mappings[at]
      wasToggled == toggled[at] /\ ~Spent
      off        == NegKeysHeld(m, input)
      press      == ~off /\ MappingSubset(m, input)
  IN  /\ Deciding("toggle")
      /\ toggled' = [toggled EXCEPT ![at] = ~off /\ wasToggled # press]
      /\ \/ press /\ ~wasToggled /\ Begin("add")
         \/ (press \/ off) /\ wasToggled /\ Begin("remove")
         \/ ~press /\ ~(off /\ wasToggled) /\ Skip /\ UNCHANGED verb
      /\ UNCHANGED <<on, counts>> /\ DecisionFrame

\* Forbidding keys switch the mapping off; otherwise a press, which is a reading
\* that finds `pressed` clear, switches it over.
ExecuteToggle ==
  LET m          == Mappings[at]
      wasToggled == toggled[at] /\ ~Spent
      wasPressed == on[at] /\ ~Spent
      off        == NegKeysHeld(m, input)
      press      == ~off /\ MappingSubset(m, input) /\ ~wasPressed
  IN  /\ Deciding("toggle")
      /\ on' = [on EXCEPT ![at] = ~off /\ MappingSubset(m, input)]
      /\ toggled' = [toggled EXCEPT ![at] = ~off /\ wasToggled # press]
      /\ \/ press /\ ~wasToggled /\ Begin("add")
         \/ (press \/ off) /\ wasToggled /\ Begin("remove")
         \/ ~press /\ ~(off /\ wasToggled) /\ Skip /\ UNCHANGED verb
      /\ UNCHANGED counts /\ DecisionFrame

-----------------------------------------------------------------------------
\* One command of the mapping being executed.

Current == Mappings[at].cmds[next]

Schedule(c) ==
  /\ sched' = AddCommand(sched, c)
  /\ touched' = touched \cup Displaced(sched, c) \cup {c}

CommandFrame == UNCHANGED <<connected, input, on, toggled, before, repeats>>

\* addCommands.
AddNext ==
  /\ at # 0 /\ verb = "add"
  /\ Schedule(Current)
  /\ Advance
  /\ UNCHANGED counts /\ CommandFrame

OkToSchedule == Mappings[at].max = -1 \/ counts[at][next] < Mappings[at].max

Counted ==
  IF Mappings[at].max = -1 THEN counts
                           ELSE [counts EXCEPT ![at][next] = @ + 1]

\* Faulty form (mutant): a command that is still scheduled is added again.
RepeatsScheduled ==
  /\ at # 0 /\ verb = "repeat"
  /\ IF OkToSchedule
       THEN Schedule(Current) /\ counts' = Counted
       ELSE UNCHANGED <<sched, touched, counts>>
  /\ Advance
  /\ CommandFrame

\* A hold-repeat mapping that is held: add what is not scheduled.
RepeatNext ==
  /\ at # 0 /\ verb = "repeat"
  /\ IF ~IsCommandScheduled(sched, Current) /\ OkToSchedule
       THEN Schedule(Current) /\ counts' = Counted
       ELSE UNCHANGED <<sched, touched, counts>>
  /\ Advance
  /\ CommandFrame

\* Faulty form (mutant): only the first command is removed.
RemovesFirst ==
  /\ at # 0 /\ verb = "remove"
  /\ sched' = RemoveCommand(sched, Current)
  /\ touched' = touched \cup ({Current} \cap sched.added)
  /\ Skip /\ verb' = "decide" /\ next' = 1
  /\ UNCHANGED counts /\ CommandFrame

\* removeCommands.
RemoveNext ==
  /\ at # 0 /\ verb = "remove"
  /\ sched' = RemoveCommand(sched, Current)
  /\ touched' = touched \cup ({Current} \cap sched.added)
  /\ Advance
  /\ UNCHANGED counts /\ CommandFrame

-----------------------------------------------------------------------------
\* Faulty form (mutant): each run gives one free subsystem its default, not all.
OneDefaultPerRun(s) ==
  LET Free == {y \in Subsystems \ s.assoc : Default[y] # NoCommand}
  IN  IF Free = {} THEN {} ELSE {Default[CHOOSE y \in Free : TRUE]}

\* The default commands of the subsystems that are free in s.
DefaultsFor(s) ==
  {Default[x] : x \in {y \in Subsystems \ s.assoc : Default[y] # NoCommand}}

\* CommandScheduler::run: every command is executed, those of F report to be
\* finished and are removed, and free subsystems get their defaults (each requires
\* one free subsystem, so that none displaces another).
Run(F) ==
  /\ at = 0
  /\ F \subseteq Finishing \cap sched.added
  /\ sched' = AfterRun(sched, F, DefaultsFor(AfterRun(sched, F, {})))
  /\ repeats' = IF F = {} THEN repeats ELSE 0
  /\ UNCHANGED <<connected, input, flags, at, verb, next, before, touched>>

Init ==
  /\ connected = FALSE
  /\ input = Silent /\ before = Silent
  /\ on = [i \in Indices |-> FALSE]
  /\ toggled = [i \in Indices |-> FALSE]
  /\ counts = [i \in Indices |-> [k \in DOMAIN Mappings[i].cmds |-> 0]]
  /\ sched = [added |-> Startup, assoc |-> RequiredBy(Startup)]
  /\ at = 0 /\ verb = "decide" /\ next = 1
  /\ repeats = 0 /\ touched = {}

Execute ==
  \/ ExecuteHold \/ ExecuteHoldRepeat \/ ExecutePress \/ ExecuteToggle
  \/ AddNext \/ RepeatNext \/ RemoveNext

Next ==
  \/ \E in \in Inputs : Packet(in)
  \/ Silence
  \/ Execute
  \/ \E F \in SUBSET Finishing : Run(F)

Spec == Init /\ [][Next]_vars

\* Refuted, for a toggle mapping: when its commands have finished on their own it
\* "should automatically transition to not toggled" (comment in
\* ToggleCommandMapping::executeCommandMapping). With the key still down, the
\* reading that notices it toggles the mapping again and restarts the commands.
FinishedMeansUntoggled ==
  [][at # 0 /\ verb = "decide" /\ Mappings[at].kind = "toggle" /\ Spent =>
       ~toggled'[at]]_vars

-----------------------------------------------------------------------------
\* What a mapping keeps alive: a hold mapping its commands while it is wanted, a
\* toggle mapping while it is toggled; a press mapping, and a hold-repeat mapping
\* that does not end its commands, leave them running.
Sustains(i) ==
  LET m == Mappings[i]
  IN  \/ m.kind = "hold" /\ Wanted(i, input)
      \/ m.kind = "holdRepeat" /\ (Wanted(i, input) \/ ~m.ends)
      \/ m.kind = "press"
      \/ m.kind = "toggle" /\ toggled[i]

\* Safety. Between two readings, no command of a mapping that is released (or
\* untoggled, or forbidden by its keys, or cut off by a silent remote) is
\* scheduled, however often it was displaced, finished, counted out or added again
\* by its neighbours in the meantime.
ReleasedMeansRemoved ==
  at = 0 => \A i \in Indices :
              ~Sustains(i) => CommandsOf(i) \cap sched.added = {}

\* The commands no silence removes.
Lingering ==
  Startup \cup UNION {CommandsOf(i) : i \in {j \in Indices :
                        \/ Mappings[j].kind \in {"press", "toggle"}
                        \/ Mappings[j].kind = "holdRepeat" /\ ~Mappings[j].ends}}

\* Action property. The first run after the remote has fallen silent, and every
\* later one, leaves each subsystem that has a default (feeder and shooter, on the
\* robots) under that default or under a command meant to outlive its key.
SilenceStopsTheRobot ==
  [][(\E F \in SUBSET Finishing : Run(F)) /\ ~connected =>
       \A s \in Subsystems :
         Default[s] # NoCommand =>
           \E c \in sched'.added \cap (Lingering \cup {Default[s]}) : s \in Req[c]]_vars

\* This reading is the first that wants mapping i. (A toggle mapping switches over
\* instead, and is left out.)
Edge(i) ==
  /\ Mappings[i].kind \in {"hold", "holdRepeat", "press"}
  /\ Wanted(i, input)
  /\ ~Wanted(i, before)

\* Action property. When the reading that first wants a mapping has been handled,
\* each of its commands is scheduled, or this very reading started another that
\* took its subsystem. In particular this holds for the packet with which a silent
\* remote comes back, the bug that the comment in Remote::reset is about.
EdgeStartsCommands ==
  [][at # 0 /\ at' = 0 =>
       \A i \in Indices :
         Edge(i) =>
           \A c \in CommandsOf(i) :
             \/ c \in sched'.added
             \/ \E d \in sched'.added \cap touched' : Req[c] \cap Req[d] # {}]_vars

\* What EdgeStartsCommands needs of the tables: if a mapping displaces a command of
\* an earlier one and is displaced in turn, then by a command that the first one
\* contends with too. Otherwise the first subsystem is left to nobody.
NoDetours ==
  \A i, j, k \in Indices :
    i =< j /\ j =< k =>
      \A c \in CommandsOf(i), d \in CommandsOf(j), e \in CommandsOf(k) :
        Req[c] \cap Req[d] # {} /\ Req[d] \cap Req[e] # {} => Req[c] \cap Req[e] # {}

\* Safety. The mappings settle: the third equal reading in a row, with no command
\* finishing in between, initializes and ends nothing, so that a robot whose
\* operator holds still does not restart its feeder with every packet.
Settles == repeats = 2 => touched = {}

\* The kinds of mapping that act again on an equal reading.
Persistent(i) == Mappings[i].kind \in {"holdRepeat", "toggle"}

\* What Settles needs of the tables: mappings of those kinds that one input wants
\* at the same time do not contend for a subsystem, with each other or within.
NoContention ==
  \A in \in Inputs \cup {Silent} : \A i, j \in Indices :
    Persistent(i) /\ Persistent(j) /\ Wanted(i, in) /\ Wanted(j, in) =>
      \A c \in CommandsOf(i), d \in CommandsOf(j) :
        c # d => Req[c] \cap Req[d] = {}

\* The operator asks for mapping j by this reading: its key has gone down, or is down
\* and the mapping is of a kind that acts again.
Asks(j) == Edge(j) \/ (Persistent(j) /\ Wanted(j, input))

\* Safety. A reading that finds the key of a hold or press mapping still down leaves
\* its commands alone: they lose their subsystem to a mapping the operator asks for
\* by this very reading, and to nothing else, and once lost they are not started
\* again, although the flag of the mapping stands. So the sentry's match commands run
\* until a manual command takes a subsystem of theirs, and then not again before the
\* left switch has been away and back.
HeldIsLeftAlone ==
  \A i \in Indices :
    Mappings[i].kind \in {"hold", "press"} /\ Wanted(i, before) /\ Wanted(i, input) =>
      \A c \in CommandsOf(i) \cap touched :
        /\ c \notin sched.added
        /\ \E j \in Indices \ {i} :
             Asks(j) /\ \E d \in CommandsOf(j) \cap touched : Req[c] \cap Req[d] # {}

-----------------------------------------------------------------------------
\* The inductive invariant behind the theorems.

\* A mapping that owes the scheduler nothing: its own flag says so.
Off(i) ==
  LET m == Mappings[i]
  IN  \/ m.kind = "hold" /\ ~on[i]
      \/ m.kind = "holdRepeat" /\ ~on[i] /\ m.ends
      \/ m.kind = "toggle" /\ ~toggled[i]

\* Where the handling of a reading is.
Position ==
  /\ connected \in BOOLEAN
  /\ on \in [Indices -> BOOLEAN]
  /\ toggled \in [Indices -> BOOLEAN]
  /\ at \in Indices \cup {0}
  /\ verb \in {"decide", "add", "repeat", "remove"}
  /\ at = 0 => verb = "decide"
  /\ at # 0 => next \in DOMAIN Mappings[at].cmds
  /\ verb = "decide" => next = 1
  /\ verb \in {"add", "repeat"} => ~Off(at)
  /\ verb = "remove" => Off(at)
  /\ verb = "add" => Mappings[at].kind # "holdRepeat"
  /\ verb = "repeat" => Mappings[at].kind = "holdRepeat" /\ on[at]
  /\ ~connected => input = Silent

\* Mapping i has taken its decision in this reading, or no reading is under way.
Decided(i) == at = 0 \/ i < at \/ (i = at /\ verb # "decide")

\* The flag of a mapping agrees with the last reading that it was handed.
FlagsAgree ==
  \A i \in Indices : on[i] = Wanted(i, IF Decided(i) THEN input ELSE before)

\* A mapping that is off has no command scheduled, but for those it is just about
\* to remove.
OffIsClean ==
  \A i \in Indices :
    Off(i) => \A k \in DOMAIN Mappings[i].cmds :
                ~(at = i /\ verb = "remove") \/ k < next
                  => Mappings[i].cmds[k] \notin sched.added

\* The scheduler's own invariants, and where its commands come from.
SchedulerSound ==
  /\ sched \in SchedulerStates
  /\ Exclusive(sched)
  /\ InStep(sched)
  /\ \A c \in sched.added :
       \/ c \in Startup
       \/ \E s \in Subsystems : c = Default[s]
       \/ \E i \in Indices : c \in CommandsOf(i)

IInv == Position /\ FlagsAgree /\ OffIsClean /\ SchedulerSound

-----------------------------------------------------------------------------
\* What a reading has done so far: the invariant behind EdgeStartsCommands.

\* Mapping i has added its command number k in this reading.
Handled(i, k) == at = 0 \/ i < at \/ (i = at /\ verb \in {"add", "repeat"} /\ k < next)

\* A hold-repeat mapping that is off starts to count from zero.
CountsFresh ==
  \A i \in Indices :
    Mappings[i].kind = "holdRepeat" =>
      \A k \in DOMAIN Mappings[i].cmds :
        \/ ~on[i]
        \/ at = i /\ verb = "repeat" /\ ~Wanted(i, before) /\ next =< k
        => counts[i][k] = 0

\* What this reading has started is of mapping j, which has decided to be on.
StartedBy(d, j) == d \in CommandsOf(j) /\ Decided(j) /\ ~Off(j)

\* What this reading has touched and left scheduled, it has started.
TouchedIsStarted ==
  at # 0 => \A d \in sched.added \cap touched : \E j \in Indices : StartedBy(d, j)

\* Command c of mapping i is scheduled, or a rival that this reading started.
Answered(i, c) ==
  \/ c \in sched.added
  \/ \E j \in Indices :
       /\ i =< j
       /\ \E d \in sched.added \cap touched : StartedBy(d, j) /\ Req[c] \cap Req[d] # {}

EdgesAnswered ==
  \A i \in Indices :
    at # 0 /\ Edge(i) =>
      \A k \in DOMAIN Mappings[i].cmds : Handled(i, k) => Answered(i, Mappings[i].cmds[k])

EdgeInv == CountsFresh /\ TouchedIsStarted /\ EdgesAnswered

\* What is being added was asked for by this reading: the invariant behind
\* HeldIsLeftAlone, which the flags of the mappings bring about.
AddsAreAsked == verb \in {"add", "repeat"} => Asks(at)

-----------------------------------------------------------------------------
\* What an equal reading finds: the invariant behind Settles.

\* A hold-repeat mapping has no repetition of its command number k left.
Exhausted(i, k) == Mappings[i].max # -1 /\ ~(counts[i][k] < Mappings[i].max)

\* Executing mapping i once more with this input would start and end nothing.
Steady(i) ==
  /\ Mappings[i].kind = "holdRepeat" /\ Wanted(i, input) =>
       \A k \in DOMAIN Mappings[i].cmds :
         Mappings[i].cmds[k] \in sched.added \/ Exhausted(i, k)
  /\ Mappings[i].kind = "toggle" /\ toggled[i] =>
       /\ ~NegKeysHeld(Mappings[i], input)
       /\ Wanted(i, input) => CommandsOf(i) \cap sched.added # {}

\* The same of the commands already handled of the mapping being executed.
SteadySoFar ==
  verb \in {"add", "repeat"} =>
    /\ Persistent(at) /\ Wanted(at, input)
    /\ \A k \in DOMAIN Mappings[at].cmds :
         k < next => \/ Mappings[at].cmds[k] \in sched.added
                     \/ verb = "repeat" /\ Exhausted(at, k)

\* From the second equal reading on, what was executed is steady; in the third,
\* nothing is added, removed or touched.
Settling ==
  /\ repeats \in 0 .. 2
  /\ repeats > 0 /\ at # 0 => before = input
  /\ repeats > 0 =>
       /\ \A i \in Indices : at = 0 \/ i < at \/ repeats = 2 => Steady(i)
       /\ SteadySoFar
       /\ verb = "remove" => Mappings[at].kind = "toggle"
  /\ repeats = 2 => verb \in {"decide", "repeat"} /\ touched = {}
=============================================================================
