-------------------------- MODULE RobotControl_proofs --------------------------
(***************************************************************************)
(* Theorems about the way from the remote to the subsystems, for every     *)
(* robot: any mappings, requirements, defaults and start-up commands.      *)
(***************************************************************************)
EXTENDS RobotControl, SchedulerState_proofs, TLAPS

-----------------------------------------------------------------------------
(* Position in a reading.                                                  *)

\* The next step after one command: its successor in the same mapping, or the
\* decision of the next mapping, or the end of the reading.
LEMMA AdvanceMoves ==
  ASSUME at \in Indices, next \in DOMAIN Mappings[at].cmds, Advance
  PROVE  \/ /\ verb' = "decide" /\ next' = 1
            /\ next = Len(Mappings[at].cmds)
            /\ \/ at' = 0 /\ at = Len(Mappings)
               \/ at' = at + 1 /\ at' \in Indices
         \/ /\ UNCHANGED <<at, verb>>
            /\ next' = next + 1
            /\ next' \in DOMAIN Mappings[at].cmds
<1>1. /\ Len(Mappings[at].cmds) \in Nat
      /\ DOMAIN Mappings[at].cmds = 1 .. Len(Mappings[at].cmds)
  BY MappingAssumption
<1>2. Len(Mappings) \in Nat \ {0}
  BY MappingAssumption
<1>3. CASE next = Len(Mappings[at].cmds)
  BY <1>2, <1>3 DEF Advance, Skip, Indices
<1>4. CASE next # Len(Mappings[at].cmds)
  BY <1>1, <1>4 DEF Advance
<1> QED BY <1>3, <1>4

\* Skip goes to the next mapping or ends the reading.
LEMMA SkipMoves ==
  ASSUME at \in Indices, Skip
  PROVE  \/ at' = 0 /\ at = Len(Mappings)
         \/ at' = at + 1 /\ at' \in Indices
BY MappingAssumption DEF Skip, Indices

\* Every mapping has a first command.
LEMMA FirstCommand ==
  ASSUME NEW i \in Indices
  PROVE  1 \in DOMAIN Mappings[i].cmds
<1>1. /\ Len(Mappings[i].cmds) \in Nat \ {0}
      /\ DOMAIN Mappings[i].cmds = 1 .. Len(Mappings[i].cmds)
  BY MappingAssumption
<1> QED BY <1>1

\* The command being handled belongs to the mapping being executed, and to no
\* other.
LEMMA CurrentBelongs ==
  ASSUME at \in Indices, next \in DOMAIN Mappings[at].cmds
  PROVE  /\ Current \in Commands
         /\ Current \in CommandsOf(at)
         /\ \A i \in Indices : i # at => Current \notin CommandsOf(i)
<1>1. Mappings[at].cmds \in Seq(Commands)
  BY MappingAssumption
<1>2. Current \in Commands
  BY <1>1 DEF Current
<1>3. Current \in CommandsOf(at)
  BY DEF Current, CommandsOf
<1> QED BY <1>2, <1>3, InstanceAssumption

-----------------------------------------------------------------------------
(* The scheduler.                                                          *)

\* A run keeps the requirements of the scheduled commands disjoint and the bitmaps
\* in step: defaults go only to free subsystems.
LEMMA RunKeepsOwnership ==
  ASSUME SchedulerSound, NEW F, Run(F)
  PROVE  /\ SchedulerSound'
         /\ \A s \in Subsystems : Default[s] # NoCommand => s \in sched'.assoc
         /\ \A c \in sched'.added :
              c \in sched.added \/ \E s \in Subsystems : c = Default[s]
<1> DEFINE A == sched.added \ F
           S == sched.assoc \ RequiredBy(F)
           Free == {y \in Subsystems \ S : Default[y] # NoCommand}
           D == {Default[x] : x \in Free}
<1> USE RequirementAssumption
<1>1. /\ F \subseteq sched.added
      /\ sched.added \subseteq Commands
      /\ sched.assoc = RequiredBy(sched.added)
      /\ \A c, d \in sched.added : c # d => Req[c] \cap Req[d] = {}
  BY DEF Run, SchedulerSound, SchedulerStates, InStep, Exclusive
<1>2. S = RequiredBy(A)
  BY <1>1 DEF RequiredBy
<1>3. DefaultsFor(AfterRun(sched, F, {})) = D
  BY DEF DefaultsFor, AfterRun, RequiredBy
<1>4. sched' = [added |-> A \cup D, assoc |-> S \cup RequiredBy(D)]
  BY <1>3 DEF Run, AfterRun
<1>5. \A x \in Free : Default[x] \in Commands /\ Req[Default[x]] = {x}
  BY RobotAssumption
<1>6. RequiredBy(D) = Free
  BY <1>5 DEF RequiredBy
<1>7. sched' \in SchedulerStates
  <2>1. D \subseteq Commands
    BY <1>5
  <2>2. S \subseteq Subsystems
    BY <1>1 DEF SchedulerSound, SchedulerStates
  <2>3. A \cup D \in SUBSET Commands /\ S \cup RequiredBy(D) \in SUBSET Subsystems
    BY <1>1, <1>6, <2>1, <2>2
  <2> QED BY <1>4, <2>3 DEF SchedulerStates
<1>8. InStep(sched')
  BY <1>2, <1>4 DEF InStep, RequiredBy
<1>9. Exclusive(sched')
  <2> SUFFICES ASSUME NEW c \in A \cup D, NEW d \in A \cup D, c # d
               PROVE  Req[c] \cap Req[d] = {}
    BY <1>4 DEF Exclusive
  <2>1. \A e \in A : Req[e] \cap Free = {}
    BY <1>2 DEF RequiredBy
  <2>2. \A e \in D : \E x \in Free : e = Default[x] /\ Req[e] = {x}
    BY <1>5
  <2>3. CASE c \in A /\ d \in A
    BY <1>1, <2>3
  <2>4. CASE c \in A /\ d \in D
    BY <2>1, <2>2, <2>4
  <2>5. CASE c \in D /\ d \in A
    BY <2>1, <2>2, <2>5
  <2>6. CASE c \in D /\ d \in D
    BY <2>2, <2>6
  <2> QED BY <2>3, <2>4, <2>5, <2>6
<1>10. \A c \in sched'.added : c \in sched.added \/ \E s \in Subsystems : c = Default[s]
  BY <1>4
<1>11. \A s \in Subsystems : Default[s] # NoCommand => s \in sched'.assoc
  BY <1>4, <1>6
<1>12. \A c \in sched'.added : \/ c \in Startup
                               \/ \E s \in Subsystems : c = Default[s]
                               \/ \E i \in Indices : c \in CommandsOf(i)
  BY <1>10 DEF SchedulerSound
<1> QED BY <1>7, <1>8, <1>9, <1>10, <1>11, <1>12 DEF SchedulerSound

\* Scheduling the current command keeps the scheduler sound.
LEMMA ScheduleKeepsSound ==
  ASSUME SchedulerSound, at \in Indices, next \in DOMAIN Mappings[at].cmds,
         Schedule(Current)
  PROVE  /\ SchedulerSound'
         /\ sched'.added \subseteq sched.added \cup {Current}
<1>1. sched' = AddCommand(sched, Current)
  BY DEF Schedule
<1>2. /\ sched' \in SchedulerStates
      /\ Exclusive(sched')
      /\ InStep(sched')
  BY <1>1, CurrentBelongs, AddKeepsOwnership DEF SchedulerSound
<1>3. sched'.added \subseteq sched.added \cup {Current}
  BY <1>1 DEF AddCommand
<1> QED BY <1>2, <1>3, CurrentBelongs DEF SchedulerSound

\* Removing the current command keeps the scheduler sound.
LEMMA RemovalKeepsSound ==
  ASSUME SchedulerSound, at \in Indices, next \in DOMAIN Mappings[at].cmds,
         sched' = RemoveCommand(sched, Current)
  PROVE  /\ SchedulerSound'
         /\ sched'.added = sched.added \ {Current}
<1>1. CASE IsCommandScheduled(sched, Current)
  <2>1. /\ sched' \in SchedulerStates
        /\ Exclusive(sched')
        /\ InStep(sched')
    BY <1>1, RemoveKeepsOwnership DEF SchedulerSound, IsCommandScheduled
  <2>2. sched'.added = sched.added \ {Current}
    BY <1>1 DEF RemoveCommand
  <2> QED BY <2>1, <2>2 DEF SchedulerSound
<1>2. CASE ~IsCommandScheduled(sched, Current)
  BY <1>2 DEF RemoveCommand, IsCommandScheduled, SchedulerSound
<1> QED BY <1>1, <1>2

-----------------------------------------------------------------------------
(* The inductive invariant.                                                *)

\* At boot no mapping is on and only the start-up commands are scheduled.
LEMMA InitEstablishesIInv == Init => IInv
<1> SUFFICES ASSUME Init PROVE IInv
  OBVIOUS
<1>1. Position
  BY DEF Init, Position, Silent
<1>2. FlagsAgree
  <2>1. \A i \in Indices : ~Wanted(i, Silent)
    BY MappingAssumption DEF Wanted
  <2> QED BY <2>1 DEF Init, FlagsAgree, Decided, Wanted
<1>3. SchedulerSound
  <2>1. sched \in SchedulerStates
    BY RobotAssumption, RequirementAssumption DEF Init, SchedulerStates, RequiredBy
  <2>2. Exclusive(sched) /\ InStep(sched)
    BY RobotAssumption DEF Init, Exclusive, InStep
  <2> QED BY <2>1, <2>2 DEF Init, SchedulerSound
<1>4. OffIsClean
  <2>1. \A i \in Indices : \A k \in DOMAIN Mappings[i].cmds :
          Mappings[i].cmds[k] \in CommandsOf(i)
    BY DEF CommandsOf
  <2>2. \A i \in Indices : Off(i) => CommandsOf(i) \cap Startup = {}
    <3>1. \A i \in Indices : Off(i) => Mappings[i].kind # "press"
      BY DEF Off
    <3> QED BY <3>1, InstanceAssumption
  <2> QED BY <2>1, <2>2 DEF Init, OffIsClean
<1> QED BY <1>1, <1>2, <1>3, <1>4 DEF IInv

\* The decision of a mapping keeps the invariant if it sets its flag to what the
\* reading says, turns to adding only when it is on and to removing only when it is
\* off and, when it turns to none of its commands, is either on or clean.
LEMMA DecisionKeeps ==
  ASSUME IInv, NEW a \in Indices, at = a, verb = "decide", DecisionFrame,
         on' \in [Indices -> BOOLEAN], toggled' \in [Indices -> BOOLEAN],
         \A i \in Indices : i # a => on'[i] = on[i] /\ toggled'[i] = toggled[i],
         on'[a] = Wanted(a, input),
         \/ Begin("add") /\ ~Off(a)' /\ Mappings[a].kind # "holdRepeat"
         \/ Begin("repeat") /\ on'[a] /\ Mappings[a].kind = "holdRepeat"
         \/ Begin("remove") /\ Off(a)'
         \/ /\ Skip /\ UNCHANGED verb
            /\ Off(a)' => CommandsOf(a) \cap sched.added = {}
  PROVE  IInv'
<1>1. Len(Mappings) \in Nat \ {0} /\ a \in 1 .. Len(Mappings)
  BY MappingAssumption DEF Indices
<1>2. next = 1 /\ UNCHANGED <<next, input, before, sched, connected>>
  BY DEF IInv, Position, DecisionFrame
<1>3. \/ at' = a /\ verb' = "add" /\ ~Off(a)' /\ Mappings[a].kind # "holdRepeat"
      \/ /\ at' = a /\ verb' = "repeat" /\ on'[a] /\ ~Off(a)'
         /\ Mappings[a].kind = "holdRepeat"
      \/ at' = a /\ verb' = "remove" /\ Off(a)'
      \/ /\ (at' = 0 /\ a = Len(Mappings)) \/ (at' = a + 1 /\ at' \in Indices)
         /\ verb' = "decide"
         /\ Off(a)' => CommandsOf(a) \cap sched.added = {}
  BY SkipMoves DEF Begin, Off
<1>4. \A i \in Indices : i # a => Off(i)' = Off(i)
  BY DEF Off
<1>5. \A i \in Indices : 1 \in DOMAIN Mappings[i].cmds
  BY FirstCommand
<1>6. Position'
  <2>1. a # 0
    BY <1>1
  <2>2. \/ at' = a /\ verb' \in {"add", "repeat", "remove"}
        \/ at' = 0 /\ verb' = "decide"
        \/ at' \in Indices /\ verb' = "decide"
    BY <1>3
  <2>3. /\ verb' \in {"add", "repeat"} => ~Off(at)'
        /\ verb' = "remove" => Off(at)'
        /\ verb' = "add" => Mappings[at'].kind # "holdRepeat"
        /\ verb' = "repeat" => Mappings[at'].kind = "holdRepeat" /\ on'[at']
    BY <1>3 DEF Off
  <2>4. at' # 0 => next' \in DOMAIN Mappings[at'].cmds
    BY <1>2, <1>5, <2>2
  <2> QED BY <1>2, <2>1, <2>2, <2>3, <2>4 DEF IInv, Position
<1>7. FlagsAgree'
  <2> SUFFICES ASSUME NEW i \in Indices
               PROVE  on'[i] = Wanted(i, IF Decided(i)' THEN input ELSE before)
    BY <1>2 DEF FlagsAgree, Wanted
  <2>1. CASE i = a
    <3>1. Decided(i)'
      BY <1>1, <1>3, <2>1 DEF Decided
    <3> QED BY <2>1, <3>1
  <2>2. CASE i # a
    <3>1. i \in 1 .. Len(Mappings)
      BY DEF Indices
    <3>2. Decided(i)' = Decided(i)
      BY <1>1, <1>3, <2>2, <3>1 DEF Decided
    <3> QED BY <2>2, <3>2 DEF IInv, FlagsAgree
  <2> QED BY <2>1, <2>2
<1>8. OffIsClean'
  <2> SUFFICES ASSUME NEW i \in Indices, Off(i)', NEW k \in DOMAIN Mappings[i].cmds,
                      ~(at' = i /\ verb' = "remove") \/ k < next'
               PROVE  Mappings[i].cmds[k] \notin sched.added
    BY <1>2 DEF OffIsClean
  <2>1. CASE i # a
    BY <1>4, <2>1 DEF IInv, OffIsClean
  <2>2. CASE i = a /\ verb' = "remove" /\ at' = a
    <3>1. k < 1
      BY <1>2, <2>2
    <3>2. /\ Len(Mappings[i].cmds) \in Nat
          /\ DOMAIN Mappings[i].cmds = 1 .. Len(Mappings[i].cmds)
      BY MappingAssumption
    <3> QED BY <3>1, <3>2
  <2>3. CASE i = a /\ ~(verb' = "remove" /\ at' = a)
    <3>1. CommandsOf(i) \cap sched.added = {}
      BY <1>3, <2>3
    <3>2. Mappings[i].cmds[k] \in CommandsOf(i)
      BY DEF CommandsOf
    <3> QED BY <3>1, <3>2
  <2> QED BY <2>1, <2>2, <2>3
<1>9. SchedulerSound'
  BY <1>2 DEF IInv, SchedulerSound
<1> QED BY <1>6, <1>7, <1>8, <1>9 DEF IInv

\* So does the handling of one command: the adding verbs bring in a command of a
\* mapping that is on, and removal cleans one command more.
LEMMA CommandKeeps ==
  ASSUME IInv, at # 0, verb \in {"add", "repeat", "remove"},
         Advance, CommandFrame, SchedulerSound',
         \/ /\ verb \in {"add", "repeat"}
            /\ sched'.added \subseteq sched.added \cup {Current}
         \/ /\ verb = "remove"
            /\ sched'.added = sched.added \ {Current}
  PROVE  IInv'
<1>1. at \in Indices /\ next \in DOMAIN Mappings[at].cmds
  BY DEF IInv, Position
<1>2. \/ /\ verb' = "decide" /\ next' = 1
         /\ next = Len(Mappings[at].cmds)
         /\ \/ at' = 0 /\ at = Len(Mappings)
            \/ at' = at + 1 /\ at' \in Indices
      \/ /\ UNCHANGED <<at, verb>>
         /\ next' = next + 1
         /\ next' \in DOMAIN Mappings[at].cmds
  BY <1>1, AdvanceMoves
<1>3. UNCHANGED <<connected, input, before, on, toggled>>
  BY DEF CommandFrame
<1>4. \A i \in Indices : Off(i)' = Off(i)
  BY <1>3 DEF Off
<1>5. \A i \in Indices : /\ Len(Mappings[i].cmds) \in Nat \ {0}
                         /\ DOMAIN Mappings[i].cmds = 1 .. Len(Mappings[i].cmds)
  BY MappingAssumption
<1>6. Position'
  BY <1>1, <1>2, <1>3, <1>4, <1>5 DEF IInv, Position
<1>7. FlagsAgree'
  <2>1. Len(Mappings) \in Nat /\ at \in 1 .. Len(Mappings)
    BY <1>1, MappingAssumption DEF Indices
  <2>2. \A i \in Indices : Decided(i)' = Decided(i)
    BY <1>2, <2>1 DEF Decided, Indices
  <2> QED BY <1>3, <2>2 DEF IInv, FlagsAgree, Wanted
<1>8. OffIsClean'
  <2> SUFFICES ASSUME NEW i \in Indices, Off(i), NEW k \in DOMAIN Mappings[i].cmds,
                      ~(at' = i /\ verb' = "remove") \/ k < next'
               PROVE  Mappings[i].cmds[k] \notin sched'.added
    BY <1>4 DEF OffIsClean
  <2>1. Mappings[i].cmds[k] \in CommandsOf(i)
    BY DEF CommandsOf
  <2>2. CASE i # at
    <3>1. Mappings[i].cmds[k] # Current
      BY <1>1, <2>1, <2>2, CurrentBelongs
    <3>2. Mappings[i].cmds[k] \notin sched.added
      BY <2>2 DEF IInv, OffIsClean
    <3> QED BY <3>1, <3>2
  <2>3. CASE i = at
    <3>1. verb = "remove"
      BY <2>3 DEF IInv, Position
    <3>2. sched'.added = sched.added \ {Current}
      BY <3>1
    <3>3. k < next \/ k = next
      BY <1>1, <1>2, <1>5, <2>3, <3>1
    <3>4. k < next => Mappings[i].cmds[k] \notin sched.added
      BY DEF IInv, OffIsClean
    <3> QED BY <2>3, <3>2, <3>3, <3>4 DEF Current
  <2> QED BY <2>2, <2>3
<1> QED BY <1>6, <1>7, <1>8 DEF IInv

\* A reading starts with the first mapping; whatever its flag, none of the mappings
\* has been executed yet.
LEMMA ReadingKeepsIInv ==
  ASSUME IInv, NEW in, Reading(in), connected' \in BOOLEAN,
         connected' \/ in = Silent
  PROVE  IInv'
<1>1. Len(Mappings) \in Nat \ {0} /\ 1 \in Indices
  BY MappingAssumption DEF Indices
<1>2. /\ at = 0 /\ at' = 1 /\ verb' = "decide" /\ next' = 1 /\ input' = in
      /\ before' = input /\ UNCHANGED <<on, toggled, sched>>
  BY DEF Reading, flags
<1>3. Position'
  BY <1>1, <1>2, FirstCommand DEF IInv, Position
<1>4. FlagsAgree'
  <2>1. \A i \in Indices : Decided(i) /\ ~Decided(i)'
    BY <1>1, <1>2 DEF Decided, Indices
  <2> QED BY <1>2, <2>1 DEF IInv, FlagsAgree, Wanted
<1>5. OffIsClean'
  <2>1. \A i \in Indices : Off(i)' = Off(i)
    BY <1>2 DEF Off
  <2>2. verb # "remove"
    BY <1>2 DEF IInv, Position
  <2> QED BY <1>2, <2>1, <2>2 DEF IInv, OffIsClean
<1>6. SchedulerSound'
  BY <1>2 DEF IInv, SchedulerSound
<1> QED BY <1>3, <1>4, <1>5, <1>6 DEF IInv

\* A run brings in nothing but defaults, which belong to no mapping.
LEMMA RunKeepsIInv ==
  ASSUME IInv, NEW F, Run(F)
  PROVE  IInv'
<1>1. UNCHANGED <<connected, input, before, on, toggled, at, verb, next>>
  BY DEF Run, flags
<1>2. Position'
  BY <1>1 DEF IInv, Position, Off
<1>3. FlagsAgree'
  BY <1>1 DEF IInv, FlagsAgree, Decided, Wanted
<1>4. SchedulerSound'
  BY RunKeepsOwnership DEF IInv
<1>5. OffIsClean'
  <2> SUFFICES ASSUME NEW i \in Indices, Off(i), NEW k \in DOMAIN Mappings[i].cmds,
                      ~(at = i /\ verb = "remove") \/ k < next
               PROVE  Mappings[i].cmds[k] \notin sched'.added
    BY <1>1 DEF OffIsClean, Off
  <2>1. Mappings[i].cmds[k] \in CommandsOf(i)
    BY DEF CommandsOf
  <2>2. Mappings[i].cmds[k] \notin sched.added
    BY DEF IInv, OffIsClean
  <2> QED BY <2>1, <2>2, RunKeepsOwnership, InstanceAssumption DEF IInv
<1> QED BY <1>2, <1>3, <1>4, <1>5 DEF IInv

\* Every decision and every command of a mapping keeps the invariant.
LEMMA ExecuteKeepsIInv == IInv /\ Execute => IInv'
<1> SUFFICES ASSUME IInv, Execute PROVE IInv'
  OBVIOUS
<1>1. at \in Indices
  BY DEF IInv, Position, Execute, ExecuteHold, ExecuteHoldRepeat, ExecutePress,
         ExecuteToggle, AddNext, RepeatNext, RemoveNext, Deciding
<1>2. PICK a \in Indices : at = a
  BY <1>1
<1>3. /\ on \in [Indices -> BOOLEAN] /\ toggled \in [Indices -> BOOLEAN]
      /\ Mappings[a].ends \in BOOLEAN
  BY MappingAssumption DEF IInv, Position
<1>4. verb = "decide" /\ Off(a) => CommandsOf(a) \cap sched.added = {}
  BY DEF IInv, OffIsClean, CommandsOf
<1>5. Wanted(a, input) \in BOOLEAN
  BY DEF Wanted
<1>6. next \in DOMAIN Mappings[at].cmds
  BY <1>1 DEF IInv, Position, Indices
<1>7. CASE ExecuteHold
  <2>1. /\ verb = "decide" /\ Mappings[a].kind = "hold"
        /\ on' = [on EXCEPT ![a] = Wanted(a, input)]
        /\ UNCHANGED toggled /\ DecisionFrame
        /\ \/ Wanted(a, input) /\ Begin("add")
           \/ ~Wanted(a, input) /\ Begin("remove")
           \/ Wanted(a, input) = on[a] /\ Skip /\ UNCHANGED verb
    BY <1>2, <1>7 DEF ExecuteHold, Deciding
  <2>2. /\ on' \in [Indices -> BOOLEAN] /\ on'[a] = Wanted(a, input)
        /\ \A i \in Indices : i # a => on'[i] = on[i]
    BY <1>3, <1>5, <2>1
  <2>3. Off(a) = ~on[a] /\ Off(a)' = ~Wanted(a, input)
    BY <1>3, <1>5, <2>1, <2>2 DEF Off
  <2> QED BY <1>2, <1>3, <1>4, <2>1, <2>2, <2>3, DecisionKeeps
<1>8. CASE ExecuteHoldRepeat
  <2>1. /\ verb = "decide" /\ Mappings[a].kind = "holdRepeat"
        /\ on' = [on EXCEPT ![a] = Wanted(a, input)]
        /\ UNCHANGED toggled /\ DecisionFrame
        /\ \/ Wanted(a, input) /\ Begin("repeat")
           \/ ~Wanted(a, input) /\ Mappings[a].ends /\ Begin("remove")
           \/ /\ ~(on[a] /\ Mappings[a].ends)
              /\ Skip /\ UNCHANGED verb
    BY <1>2, <1>8 DEF ExecuteHoldRepeat, Deciding
  <2>2. /\ on' \in [Indices -> BOOLEAN] /\ on'[a] = Wanted(a, input)
        /\ \A i \in Indices : i # a => on'[i] = on[i]
    BY <1>3, <1>5, <2>1
  <2>3. /\ Off(a) = (~on[a] /\ Mappings[a].ends)
        /\ Off(a)' = (~Wanted(a, input) /\ Mappings[a].ends)
    BY <1>3, <1>5, <2>1, <2>2 DEF Off
  <2> QED BY <1>2, <1>3, <1>4, <2>1, <2>2, <2>3, DecisionKeeps
<1>9. CASE ExecutePress
  <2>1. /\ verb = "decide" /\ Mappings[a].kind = "press"
        /\ on' = [on EXCEPT ![a] = Wanted(a, input)]
        /\ UNCHANGED toggled /\ DecisionFrame
        /\ Begin("add") \/ (Skip /\ UNCHANGED verb)
    BY <1>2, <1>9 DEF ExecutePress, Deciding
  <2>2. /\ on' \in [Indices -> BOOLEAN] /\ on'[a] = Wanted(a, input)
        /\ \A i \in Indices : i # a => on'[i] = on[i]
    BY <1>3, <1>5, <2>1
  <2>3. ~Off(a)'
    BY <2>1 DEF Off
  <2> QED BY <1>2, <1>3, <2>1, <2>2, <2>3, DecisionKeeps
<1>10. CASE ExecuteToggle
  <2> DEFINE was == toggled[a] /\ ~Spent
             off == NegKeysHeld(Mappings[a], input)
             press == /\ ~off /\ MappingSubset(Mappings[a], input)
                      /\ ~(on[a] /\ ~Spent)
  <2>1. /\ verb = "decide" /\ Mappings[a].kind = "toggle"
        /\ on' = [on EXCEPT ![a] = ~off /\ MappingSubset(Mappings[a], input)]
        /\ toggled' = [toggled EXCEPT ![a] = ~off /\ was # press]
        /\ DecisionFrame
        /\ \/ press /\ ~was /\ Begin("add")
           \/ (press \/ off) /\ was /\ Begin("remove")
           \/ ~press /\ ~(off /\ was) /\ Skip /\ UNCHANGED verb
    BY <1>2, <1>10 DEF ExecuteToggle, Deciding
  <2>2. /\ on' \in [Indices -> BOOLEAN] /\ toggled' \in [Indices -> BOOLEAN]
        /\ on'[a] = Wanted(a, input)
        /\ toggled'[a] = (~off /\ was # press)
        /\ \A i \in Indices : i # a => on'[i] = on[i] /\ toggled'[i] = toggled[i]
    BY <1>3, <2>1 DEF Wanted
  <2>3. Off(a) = ~toggled[a] /\ Off(a)' = ~(~off /\ was # press)
    BY <1>3, <2>1, <2>2 DEF Off
  <2>4. ~was => CommandsOf(a) \cap sched.added = {}
    BY <1>2, <1>4, <2>1, <2>3 DEF Spent
  <2>5. press => ~off
    OBVIOUS
  <2> HIDE DEF was, off, press
  <2>6. \/ Begin("add") /\ ~Off(a)' /\ Mappings[a].kind # "holdRepeat"
        \/ Begin("remove") /\ Off(a)'
        \/ /\ Skip /\ UNCHANGED verb
           /\ Off(a)' => CommandsOf(a) \cap sched.added = {}
    BY <2>1, <2>3, <2>4, <2>5
  <2> QED BY <1>2, <2>1, <2>2, <2>6, DecisionKeeps
<1>11. CASE AddNext
  <2>1. SchedulerSound' /\ sched'.added \subseteq sched.added \cup {Current}
    BY <1>1, <1>6, <1>11, ScheduleKeepsSound DEF AddNext, IInv
  <2> QED BY <1>11, <2>1, CommandKeeps DEF AddNext
<1>12. CASE RepeatNext
  <2>1. SchedulerSound' /\ sched'.added \subseteq sched.added \cup {Current}
    <3>1. CASE Schedule(Current)
      BY <1>1, <1>6, <3>1, ScheduleKeepsSound DEF IInv
    <3>2. CASE UNCHANGED sched
      BY <3>2 DEF IInv, SchedulerSound
    <3> QED BY <1>12, <3>1, <3>2 DEF RepeatNext
  <2> QED BY <1>12, <2>1, CommandKeeps DEF RepeatNext
<1>13. CASE RemoveNext
  <2>1. SchedulerSound' /\ sched'.added = sched.added \ {Current}
    BY <1>1, <1>6, <1>13, RemovalKeepsSound DEF RemoveNext, IInv
  <2> QED BY <1>13, <2>1, CommandKeeps DEF RemoveNext
<1> QED BY <1>7, <1>8, <1>9, <1>10, <1>11, <1>12, <1>13 DEF Execute

\* Readings, mappings and runs: every step keeps the invariant.
LEMMA NextKeepsIInv == IInv /\ [Next]_vars => IInv'
<1> SUFFICES ASSUME IInv, [Next]_vars PROVE IInv'
  OBVIOUS
<1>1. ASSUME NEW in \in Inputs, Packet(in) PROVE IInv'
  BY <1>1, ReadingKeepsIInv DEF Packet
<1>2. CASE Silence
  BY <1>2, ReadingKeepsIInv DEF Silence
<1>3. CASE Execute
  BY <1>3, ExecuteKeepsIInv
<1>4. ASSUME NEW F \in SUBSET Finishing, Run(F) PROVE IInv'
  BY <1>4, RunKeepsIInv
<1>5. CASE UNCHANGED vars
  <2>1. UNCHANGED <<connected, input, before, on, toggled, sched, at, verb, next>>
    BY <1>5 DEF vars, flags
  <2>2. Position'
    BY <2>1 DEF IInv, Position, Off
  <2>3. FlagsAgree'
    BY <2>1 DEF IInv, FlagsAgree, Decided, Wanted
  <2>4. OffIsClean'
    BY <2>1 DEF IInv, OffIsClean, Off
  <2>5. SchedulerSound'
    BY <2>1 DEF IInv, SchedulerSound
  <2> QED BY <2>2, <2>3, <2>4, <2>5 DEF IInv
<1> QED BY <1>1, <1>2, <1>3, <1>4, <1>5 DEF Next

-----------------------------------------------------------------------------
(* The theorems.                                                           *)

\* The invariant holds in every reachable state of every robot.
THEOREM Invariance == Spec => []IInv
BY InitEstablishesIInv, NextKeepsIInv, PTL DEF Spec

\* Between two readings a released mapping has no command scheduled: the flags then
\* agree with the reading, and a mapping whose flag is off is clean.
LEMMA InvariantMeansReleased == IInv => ReleasedMeansRemoved
<1> SUFFICES ASSUME IInv, at = 0, NEW i \in Indices, ~Sustains(i)
             PROVE  CommandsOf(i) \cap sched.added = {}
  BY DEF ReleasedMeansRemoved
<1>1. Off(i)
  <2>1. Mappings[i].kind \in {"hold", "holdRepeat", "press", "toggle"}
    BY MappingAssumption
  <2>2. on[i] = Wanted(i, input)
    BY DEF IInv, FlagsAgree, Decided
  <2> QED BY <2>1, <2>2 DEF Sustains, Off
<1>2. verb = "decide"
  BY DEF IInv, Position
<1> QED BY <1>1, <1>2 DEF IInv, OffIsClean, CommandsOf

\* Commands go when their key goes, for every robot built from these mappings.
THEOREM ReleasedMeansRemovedHolds == Spec => []ReleasedMeansRemoved
BY Invariance, InvariantMeansReleased, PTL

\* A run of a silent robot leaves no subsystem that has a default to a mapping.
LEMMA SilentRunStops ==
  ASSUME IInv, NEW F, Run(F), ~connected,
         NEW s \in Subsystems, Default[s] # NoCommand
  PROVE  \E c \in sched'.added \cap (Lingering \cup {Default[s]}) : s \in Req[c]
<1>1. SchedulerSound' /\ s \in sched'.assoc
  BY RunKeepsOwnership DEF IInv
<1>2. PICK c \in sched'.added : s \in Req[c]
  BY <1>1 DEF SchedulerSound, InStep, RequiredBy
<1>3. CASE \E x \in Subsystems : c = Default[x]
  <2>1. PICK x \in Subsystems : c = Default[x]
    BY <1>3
  <2>2. c \in Commands
    BY <1>1 DEF SchedulerSound, SchedulerStates
  <2>3. Req[c] = {x}
    BY <2>1, <2>2, RobotAssumption
  <2>4. c = Default[s]
    BY <1>2, <2>1, <2>3
  <2> QED BY <1>2, <2>4
<1>4. CASE c \in sched.added /\ ~\E x \in Subsystems : c = Default[x]
  <2>1. c \in Startup \/ \E i \in Indices : c \in CommandsOf(i)
    BY <1>4 DEF IInv, SchedulerSound
  <2>2. ASSUME NEW i \in Indices, c \in CommandsOf(i) PROVE c \in Lingering
    <3>1. at = 0 /\ input = Silent
      BY DEF IInv, Position, Run
    <3>2. Sustains(i)
      BY <1>4, <2>2, <3>1, InvariantMeansReleased DEF ReleasedMeansRemoved
    <3>3. ~Wanted(i, input)
      BY <3>1, MappingAssumption DEF Wanted
    <3> QED BY <2>2, <3>2, <3>3 DEF Sustains, Lingering
  <2> QED BY <1>2, <2>1, <2>2 DEF Lingering
<1> QED BY <1>3, <1>4, RunKeepsOwnership DEF IInv

\* A silent remote stops the subsystems that have defaults, on every robot.
THEOREM SilenceStopsTheRobotHolds == Spec => SilenceStopsTheRobot
<1> DEFINE Stops ==
      (\E F \in SUBSET Finishing : Run(F)) /\ ~connected =>
        \A s \in Subsystems :
          Default[s] # NoCommand =>
            \E c \in sched'.added \cap (Lingering \cup {Default[s]}) : s \in Req[c]
<1>1. IInv => [Stops]_vars
  BY SilentRunStops
<1> QED BY <1>1, Invariance, PTL DEF SilenceStopsTheRobot

\* One more repetition is a natural number too.
LEMMA CountingKeepsTheType ==
  ASSUME NEW S, NEW f \in [S -> Nat], NEW x \in S
  PROVE  [f EXCEPT ![x] = @ + 1] \in [S -> Nat]
OBVIOUS

\* The history variables and the counts of the hold-repeat mappings keep their types.
LEMMA NextKeepsRecords ==
  ASSUME IInv, TypeOK, [Next]_vars
  PROVE  /\ input' \in Inputs \cup {Silent} /\ before' \in Inputs \cup {Silent}
         /\ repeats' \in 0 .. 2
         /\ touched' \subseteq Commands
         /\ DOMAIN counts' = Indices
         /\ \A i \in Indices : counts'[i] \in [DOMAIN Mappings[i].cmds -> Nat]
<1> USE DEF TypeOK
<1>1. ASSUME NEW in \in Inputs \cup {Silent}, Reading(in)
      PROVE  /\ input' \in Inputs \cup {Silent} /\ before' \in Inputs \cup {Silent}
             /\ repeats' \in 0 .. 2
             /\ touched' = {}
             /\ counts' = counts
  BY <1>1 DEF Reading, flags
<1>2. ASSUME ExecuteHold \/ ExecutePress \/ ExecuteToggle
      PROVE  UNCHANGED <<input, before, repeats, touched, counts>>
  BY <1>2 DEF ExecuteHold, ExecutePress, ExecuteToggle, DecisionFrame
<1>3. CASE ExecuteHoldRepeat
  <2>1. UNCHANGED <<input, before, repeats, touched>>
    BY <1>3 DEF ExecuteHoldRepeat, DecisionFrame
  <2>2. counts' = counts
          \/ counts' = [counts EXCEPT ![at] = [k \in DOMAIN Mappings[at].cmds |-> 0]]
    BY <1>3 DEF ExecuteHoldRepeat
  <2> QED BY <2>1, <2>2
<1>4. CASE AddNext \/ RepeatNext \/ RemoveNext
  <2>1. UNCHANGED <<input, before, repeats>>
    BY <1>4 DEF AddNext, RepeatNext, RemoveNext, CommandFrame
  <2>2. at \in Indices /\ next \in DOMAIN Mappings[at].cmds
    BY <1>4 DEF AddNext, RepeatNext, RemoveNext
  <2>3. Current \in Commands
    BY <2>2, MappingAssumption DEF Current
  <2>4. touched' \subseteq Commands
    BY <1>4, <2>3 DEF AddNext, RepeatNext, RemoveNext, Schedule, Displaced,
       SchedulerStates
  <2>5. counts' = counts \/ counts' = [counts EXCEPT ![at][next] = @ + 1]
    BY <1>4 DEF AddNext, RepeatNext, RemoveNext, Counted
  <2>6. ASSUME counts' = [counts EXCEPT ![at][next] = @ + 1], NEW i \in Indices
        PROVE  counts'[i] \in [DOMAIN Mappings[i].cmds -> Nat]
    <3>1. CASE i = at
      <4>1. counts'[at] = [counts[at] EXCEPT ![next] = @ + 1]
        BY <2>2, <2>6
      <4>2. counts[at] \in [DOMAIN Mappings[at].cmds -> Nat]
        BY <2>2
      <4>3. [counts[at] EXCEPT ![next] = @ + 1] \in [DOMAIN Mappings[at].cmds -> Nat]
        BY <2>2, <4>2, CountingKeepsTheType
      <4> QED BY <3>1, <4>1, <4>3
    <3>2. CASE i # at
      BY <2>6, <3>2
    <3> QED BY <3>1, <3>2
  <2> QED BY <2>1, <2>4, <2>5, <2>6
<1>5. ASSUME NEW F \in SUBSET Finishing, Run(F)
      PROVE  /\ UNCHANGED <<input, before, touched, counts>>
             /\ repeats' \in 0 .. 2
  BY <1>5 DEF Run, flags
<1>6. CASE UNCHANGED vars
  BY <1>6 DEF vars, flags
<1> QED BY <1>1, <1>2, <1>3, <1>4, <1>5, <1>6 DEF Next, Execute, Packet, Silence

\* Every variable keeps its type; in particular a mapping never walks past its last
\* command.
THEOREM TypeCorrectness == Spec => []TypeOK
<1>1. Init => TypeOK
  <2>1. Init => sched \in SchedulerStates
    BY InitEstablishesIInv DEF IInv, SchedulerSound
  <2>2. Init => /\ DOMAIN counts = Indices
                /\ \A i \in Indices : counts[i] \in [DOMAIN Mappings[i].cmds -> Nat]
    BY DEF Init
  <2>3. Init => /\ on \in [Indices -> BOOLEAN] /\ toggled \in [Indices -> BOOLEAN]
                /\ next \in Nat \ {0} /\ repeats \in 0 .. 2
    BY DEF Init
  <2> QED BY <2>1, <2>2, <2>3 DEF Init, TypeOK
<1>2. IInv /\ TypeOK /\ [Next]_vars => TypeOK'
  <2> SUFFICES ASSUME IInv, TypeOK, [Next]_vars
               PROVE  TypeOK'
    OBVIOUS
  <2>1. IInv'
    BY NextKeepsIInv
  <2>2. next' \in Nat \ {0}
    BY <2>1, MappingAssumption DEF IInv, Position
  <2> QED BY <2>1, <2>2, NextKeepsRecords DEF IInv, Position, SchedulerSound, TypeOK
<1> QED BY <1>1, <1>2, Invariance, PTL DEF Spec

-----------------------------------------------------------------------------
(* One step of a reading, seen from the other mappings.                    *)

\* A decision sets the mapping's own flags and moves on; a mapping that is wanted
\* for the first time turns to its commands.
LEMMA DecisionMoves ==
  ASSUME IInv, NEW a \in Indices, at = a,
         ExecuteHold \/ ExecuteHoldRepeat \/ ExecutePress \/ ExecuteToggle
  PROVE  /\ verb = "decide" /\ next = 1
         /\ UNCHANGED <<connected, input, sched, next, before, repeats, touched>>
         /\ on[a] = Wanted(a, before)
         /\ \A i \in Indices : i # a => on'[i] = on[i] /\ toggled'[i] = toggled[i]
         /\ \/ at' = a /\ verb' \in {"add", "repeat", "remove"}
            \/ at' = 0 /\ verb' = "decide" /\ a = Len(Mappings)
            \/ at' = a + 1 /\ verb' = "decide" /\ at' \in Indices
         /\ Edge(a) => at' = a /\ verb' \in {"add", "repeat"}
<1>1. /\ verb = "decide" /\ DecisionFrame
      /\ Begin("add") \/ Begin("repeat") \/ Begin("remove") \/ (Skip /\ UNCHANGED verb)
  BY DEF ExecuteHold, ExecuteHoldRepeat, ExecutePress, ExecuteToggle, Deciding
<1>2. next = 1
  BY <1>1 DEF IInv, Position
<1>3. on[a] = Wanted(a, before)
  <2>1. ~Decided(a)
    BY <1>1, MappingAssumption DEF Decided, Indices
  <2> QED BY <2>1 DEF IInv, FlagsAgree
<1>4. /\ on \in [Indices -> BOOLEAN] /\ toggled \in [Indices -> BOOLEAN]
      /\ \E b : on' = [on EXCEPT ![a] = b]
      /\ \E b : toggled' = [toggled EXCEPT ![a] = b]
  <2>1. /\ on \in [Indices -> BOOLEAN] /\ toggled \in [Indices -> BOOLEAN]
    BY DEF IInv, Position
  <2>2. toggled = [toggled EXCEPT ![a] = toggled[a]]
    BY <2>1
  <2> QED BY <2>1, <2>2
          DEF ExecuteHold, ExecuteHoldRepeat, ExecutePress, ExecuteToggle
<1>5. \A i \in Indices : i # a => on'[i] = on[i] /\ toggled'[i] = toggled[i]
  BY <1>4
<1>6. \/ at' = a /\ verb' \in {"add", "repeat", "remove"}
      \/ at' = 0 /\ verb' = "decide" /\ a = Len(Mappings)
      \/ at' = a + 1 /\ verb' = "decide" /\ at' \in Indices
  BY <1>1, SkipMoves DEF Begin
<1>7. Edge(a) => at' = a /\ verb' \in {"add", "repeat"}
  <2> SUFFICES ASSUME Edge(a) PROVE Begin("add") \/ Begin("repeat")
    BY DEF Begin
  <2>1. Wanted(a, input) /\ ~on[a]
    BY <1>3 DEF Edge
  <2> QED BY <2>1 DEF Edge, ExecuteHold, ExecuteHoldRepeat, ExecutePress, ExecuteToggle,
                      Deciding
<1> QED BY <1>1, <1>2, <1>3, <1>5, <1>6, <1>7 DEF DecisionFrame

\* What has been handled when a decision has been taken had been handled before it.
LEMMA DecisionHandlesNothing ==
  ASSUME NEW a \in Indices, at = a, verb = "decide", next' = 1,
         \/ at' = a /\ verb' \in {"add", "repeat", "remove"}
         \/ at' = 0 /\ verb' = "decide" /\ a = Len(Mappings)
         \/ at' = a + 1 /\ verb' = "decide" /\ at' \in Indices
  PROVE  /\ \A i \in Indices : Decided(i) => Decided(i)' /\ i # a
         /\ \A i \in Indices : \A k \in DOMAIN Mappings[i].cmds :
              Handled(i, k)' => Handled(i, k) \/ (i = a /\ at' # a)
<1>1. Len(Mappings) \in Nat \ {0} /\ a \in 1 .. Len(Mappings)
  BY MappingAssumption DEF Indices
<1>2. ASSUME NEW i \in Indices, Decided(i)
      PROVE  Decided(i)' /\ i # a
  <2>1. i \in 1 .. Len(Mappings)
    BY DEF Indices
  <2> QED BY <1>1, <1>2, <2>1 DEF Decided
<1>3. ASSUME NEW i \in Indices, NEW k \in DOMAIN Mappings[i].cmds, Handled(i, k)'
      PROVE  Handled(i, k) \/ (i = a /\ at' # a)
  <2>1. /\ i \in 1 .. Len(Mappings)
        /\ Len(Mappings[i].cmds) \in Nat
        /\ k \in 1 .. Len(Mappings[i].cmds)
    BY MappingAssumption DEF Indices
  <2> QED BY <1>1, <1>3, <2>1 DEF Handled
<1> QED BY <1>2, <1>3

\* The handling of one command moves past this command and no other.
LEMMA CommandMoves ==
  ASSUME IInv, NEW a \in Indices, at = a, verb \in {"add", "repeat", "remove"}, Advance
  PROVE  /\ next \in DOMAIN Mappings[a].cmds
         /\ \A i \in Indices : Decided(i)' = Decided(i)
         /\ \A i \in Indices : Decided(i) => i =< a
         /\ \A i \in Indices : \A k \in DOMAIN Mappings[i].cmds :
              Handled(i, k)' =>
                \/ Handled(i, k)
                \/ i = a /\ verb \in {"add", "repeat"} /\ k = next
                \/ i = a /\ verb = "remove"
         /\ \A i \in Indices : \A k \in DOMAIN Mappings[i].cmds :
              Handled(i, k) => i =< a /\ (i = a => verb # "remove" /\ k < next)
<1>1. Len(Mappings) \in Nat \ {0} /\ a \in 1 .. Len(Mappings)
  BY MappingAssumption DEF Indices
<1>2. \A i \in Indices : /\ i \in 1 .. Len(Mappings)
                         /\ Len(Mappings[i].cmds) \in Nat \ {0}
                         /\ DOMAIN Mappings[i].cmds = 1 .. Len(Mappings[i].cmds)
  BY MappingAssumption DEF Indices
<1>3. next \in DOMAIN Mappings[a].cmds
  BY <1>1 DEF IInv, Position
<1>4. \/ /\ verb' = "decide" /\ next' = 1
         /\ next = Len(Mappings[a].cmds)
         /\ \/ at' = 0 /\ a = Len(Mappings)
            \/ at' = a + 1 /\ at' \in Indices
      \/ /\ at' = a /\ verb' = verb
         /\ next' = next + 1
         /\ next' \in DOMAIN Mappings[a].cmds
  BY <1>3, AdvanceMoves
<1>5. ASSUME NEW i \in Indices
      PROVE  Decided(i)' = Decided(i) /\ (Decided(i) => i =< a)
  BY <1>1, <1>2, <1>4, <1>5 DEF Decided
<1>6. ASSUME NEW i \in Indices, NEW k \in DOMAIN Mappings[i].cmds
      PROVE  /\ Handled(i, k)' =>
                  \/ Handled(i, k)
                  \/ i = a /\ verb \in {"add", "repeat"} /\ k = next
                  \/ i = a /\ verb = "remove"
             /\ Handled(i, k) => i =< a /\ (i = a => verb # "remove" /\ k < next)
  <2>1. /\ next \in Nat /\ k \in Nat /\ i \in Nat /\ a \in Nat
        /\ i = a => k =< Len(Mappings[a].cmds) /\ Len(Mappings[a].cmds) \in Nat
    BY <1>1, <1>2, <1>3
  <2>2. Handled(i, k) <=> i < a \/ (i = a /\ verb \in {"add", "repeat"} /\ k < next)
    BY <1>1 DEF Handled
  <2>3. CASE verb' = "decide"
    <3>1. next = Len(Mappings[a].cmds)
      BY <1>4, <2>3
    <3>2. Handled(i, k)' => i < a \/ i = a
      BY <1>1, <1>2, <1>4, <2>3 DEF Handled
    <3>3. i = a => k < next \/ k = next
      BY <2>1, <3>1
    <3> QED BY <2>1, <2>2, <3>2, <3>3
  <2>4. CASE verb' # "decide"
    <3>1. at' = a /\ verb' = verb /\ next' = next + 1
      BY <1>4, <2>4
    <3>2. Handled(i, k)' <=>
            i < a \/ (i = a /\ verb \in {"add", "repeat"} /\ k < next + 1)
      BY <1>1, <3>1 DEF Handled
    <3>3. k < next + 1 => k < next \/ k = next
      BY <2>1
    <3> QED BY <2>1, <2>2, <3>2, <3>3
  <2> QED BY <2>3, <2>4
<1> QED BY <1>3, <1>5, <1>6

\* Counting a repetition changes one count of one mapping.
LEMMA CountingChangesOne ==
  ASSUME TypeOK, NEW a \in Indices, at = a, next \in DOMAIN Mappings[a].cmds,
         counts' \in {counts, Counted}
  PROVE  \A i \in Indices : \A k \in DOMAIN Mappings[i].cmds :
           i # a \/ k # next => counts'[i][k] = counts[i][k]
<1>1. DOMAIN counts = Indices
  BY DEF TypeOK
<1>2. counts[a] \in [DOMAIN Mappings[a].cmds -> Nat]
  BY DEF TypeOK
<1>3. counts' = counts \/ counts' = [counts EXCEPT ![a][next] = @ + 1]
  BY DEF Counted
<1>4. CASE counts' = [counts EXCEPT ![a][next] = @ + 1]
  <2>1. \A i \in Indices : i # a => counts'[i] = counts[i]
    BY <1>1, <1>4
  <2>2. counts'[a] = [counts[a] EXCEPT ![next] = @ + 1]
    BY <1>1, <1>4
  <2>3. \A k \in DOMAIN Mappings[a].cmds : k # next => counts'[a][k] = counts[a][k]
    BY <1>2, <2>2
  <2> QED BY <2>1, <2>3
<1> QED BY <1>3, <1>4

-----------------------------------------------------------------------------
(* EdgeStartsCommands.                                                     *)

\* A decision changes no command; those of the mappings decided before it stay on.
LEMMA DecisionKeepsStarts ==
  ASSUME IInv, EdgeInv, NEW a \in Indices, at = a,
         ExecuteHold \/ ExecuteHoldRepeat \/ ExecutePress \/ ExecuteToggle
  PROVE  /\ TouchedIsStarted'
         /\ \A i \in Indices : Edge(i) => \A k \in DOMAIN Mappings[i].cmds :
              Handled(i, k)' => Answered(i, Mappings[i].cmds[k])'
<1>1. /\ verb = "decide" /\ next = 1
      /\ UNCHANGED <<input, sched, next, before, touched>>
      /\ \A i \in Indices : i # a => on'[i] = on[i] /\ toggled'[i] = toggled[i]
      /\ Edge(a) => at' = a /\ verb' \in {"add", "repeat"}
  BY DecisionMoves
<1>2. /\ \A i \in Indices : Decided(i) => Decided(i)' /\ i # a
      /\ \A i \in Indices : \A k \in DOMAIN Mappings[i].cmds :
           Handled(i, k)' => Handled(i, k) \/ (i = a /\ at' # a)
  BY <1>1, DecisionMoves, DecisionHandlesNothing
<1>3. at # 0
  BY DEF Indices
<1>4. \A d : \A j \in Indices : StartedBy(d, j) => StartedBy(d, j)'
  BY <1>1, <1>2 DEF StartedBy, Off
<1>5. TouchedIsStarted'
  BY <1>1, <1>3, <1>4 DEF EdgeInv, TouchedIsStarted
<1>6. ASSUME NEW i \in Indices, Edge(i), NEW k \in DOMAIN Mappings[i].cmds, Handled(i, k)'
      PROVE  Answered(i, Mappings[i].cmds[k])'
  <2>1. Handled(i, k)
    BY <1>1, <1>2, <1>6
  <2>2. Answered(i, Mappings[i].cmds[k])
    BY <1>3, <1>6, <2>1 DEF EdgeInv, EdgesAnswered
  <2> QED BY <1>1, <1>4, <2>2 DEF Answered
<1> QED BY <1>5, <1>6

\* Scheduling a command: it is itself the rival that answers for whatever it
\* displaces, and for what those had displaced.
LEMMA SchedulingKeepsStarts ==
  ASSUME NoDetours, IInv, EdgeInv, NEW a \in Indices, at = a,
         verb \in {"add", "repeat"}, Advance, CommandFrame, Schedule(Current)
  PROVE  /\ TouchedIsStarted'
         /\ \A i \in Indices : Edge(i) => \A k \in DOMAIN Mappings[i].cmds :
              Handled(i, k)' => Answered(i, Mappings[i].cmds[k])'
<1>1. /\ next \in DOMAIN Mappings[a].cmds
      /\ \A i \in Indices : Decided(i)' = Decided(i)
      /\ \A i \in Indices : Decided(i) => i =< a
      /\ \A i \in Indices : \A k \in DOMAIN Mappings[i].cmds :
           /\ Handled(i, k)' => Handled(i, k) \/ (i = a /\ k = next)
           /\ Handled(i, k) => i =< a
  BY CommandMoves
<1>2. at # 0 /\ Current \in CommandsOf(a)
  BY <1>1, CurrentBelongs DEF Indices
<1>3. PICK e \in CommandsOf(a) : e = Current
  BY <1>2
<1>4. PICK D : D = Displaced(sched, e)
  OBVIOUS
<1>5. UNCHANGED <<input, before, on, toggled>>
  BY DEF CommandFrame
<1>6. /\ sched'.added = (sched.added \ D) \cup {e}
      /\ touched' = touched \cup D \cup {e}
      /\ \A d \in sched.added : d \in D <=> Req[d] \cap Req[e] # {}
  BY <1>3, <1>4 DEF Schedule, AddCommand, Displaced
<1>7. StartedBy(e, a)' /\ \A d : \A j \in Indices : StartedBy(d, j)' = StartedBy(d, j)
  <2>1. Decided(a) /\ ~Off(a)
    BY DEF IInv, Position, Decided
  <2> QED BY <1>1, <1>5, <2>1 DEF StartedBy, Off
<1>8. TouchedIsStarted'
  <2> SUFFICES ASSUME NEW d \in sched'.added \cap touched'
               PROVE  \E j \in Indices : StartedBy(d, j)'
    BY DEF TouchedIsStarted
  <2>1. CASE d = e
    BY <1>7, <2>1
  <2>2. CASE d # e
    <3>1. d \in sched.added \cap touched
      BY <1>6, <2>2
    <3> QED BY <1>2, <1>7, <3>1 DEF EdgeInv, TouchedIsStarted
  <2> QED BY <2>1, <2>2
<1>9. ASSUME NEW i \in Indices, NEW c, i =< a, Req[c] \cap Req[e] # {}
      PROVE  Answered(i, c)'
  <2>1. e \in sched'.added \cap touched'
    BY <1>6
  <2> QED BY <1>7, <1>9, <2>1 DEF Answered
<1>10. ASSUME NEW i \in Indices, Edge(i), NEW k \in DOMAIN Mappings[i].cmds, Handled(i, k)'
       PROVE  Answered(i, Mappings[i].cmds[k])'
  <2>1. CASE i = a /\ k = next
    <3>1. Mappings[i].cmds[k] = e
      BY <1>3, <2>1 DEF Current
    <3> QED BY <1>6, <3>1 DEF Answered
  <2>2. CASE Handled(i, k)
    <3>1. PICK c \in CommandsOf(i) : c = Mappings[i].cmds[k]
      BY DEF CommandsOf
    <3>2. i =< a /\ Answered(i, c)
      BY <1>1, <1>2, <1>10, <2>2, <3>1 DEF EdgeInv, EdgesAnswered
    <3>3. CASE c \in sched.added
      <4>1. CASE c \in D
        BY <1>6, <1>9, <3>1, <3>2, <3>3, <4>1
      <4>2. CASE c \notin D
        BY <1>6, <3>1, <3>3, <4>2 DEF Answered
      <4> QED BY <4>1, <4>2
    <3>4. CASE c \notin sched.added
      <4>1. PICK j \in Indices, d \in sched.added \cap touched :
              i =< j /\ StartedBy(d, j) /\ Req[c] \cap Req[d] # {}
        BY <3>2, <3>4 DEF Answered
      <4>2. CASE d \in D
        <5>1. j =< a /\ d \in CommandsOf(j) /\ Req[d] \cap Req[e] # {}
          BY <1>1, <1>6, <4>1, <4>2 DEF StartedBy
        <5>2. Req[c] \cap Req[e] # {}
          BY <4>1, <5>1 DEF NoDetours
        <5> QED BY <1>9, <3>1, <3>2, <5>2
      <4>3. CASE d \notin D
        <5>1. d \in sched'.added \cap touched' /\ StartedBy(d, j)'
          BY <1>6, <1>7, <4>1, <4>3
        <5> QED BY <3>1, <4>1, <5>1 DEF Answered
      <4> QED BY <4>2, <4>3
    <3> QED BY <3>3, <3>4
  <2> QED BY <1>1, <1>10, <2>1, <2>2
<1> QED BY <1>8, <1>10

\* Removing a command: its mapping is off, so it is none of those that this reading
\* started, nor of a mapping whose edge this is.
LEMMA RemovingKeepsStarts ==
  ASSUME IInv, EdgeInv, NEW a \in Indices, at = a, RemoveNext
  PROVE  /\ TouchedIsStarted'
         /\ \A i \in Indices : Edge(i) => \A k \in DOMAIN Mappings[i].cmds :
              Handled(i, k)' => Answered(i, Mappings[i].cmds[k])'
<1>1. /\ verb = "remove" /\ Advance /\ CommandFrame
      /\ sched' = RemoveCommand(sched, Current)
      /\ touched' = touched \cup ({Current} \cap sched.added)
  BY DEF RemoveNext
<1>2. /\ next \in DOMAIN Mappings[a].cmds
      /\ \A i \in Indices : Decided(i)' = Decided(i)
      /\ \A i \in Indices : \A k \in DOMAIN Mappings[i].cmds :
           /\ Handled(i, k)' => Handled(i, k) \/ i = a
           /\ Handled(i, k) => i # a
  BY <1>1, CommandMoves
<1>3. /\ at # 0 /\ Current \in CommandsOf(a)
      /\ \A i \in Indices : i # a => Current \notin CommandsOf(i)
  BY <1>2, CurrentBelongs DEF Indices
<1>4. PICK e \in CommandsOf(a) : e = Current /\ \A i \in Indices : i # a => e \notin CommandsOf(i)
  BY <1>3
<1>5. sched'.added = sched.added \ {e} /\ touched' = touched \cup ({e} \cap sched.added)
  <2>1. SchedulerSound
    BY DEF IInv
  <2> QED BY <1>1, <1>2, <1>4, <2>1, RemovalKeepsSound
<1>6. UNCHANGED <<input, before, on, toggled>>
  BY <1>1 DEF CommandFrame
<1>7. Off(a) /\ on[a] = Wanted(a, input)
  BY <1>1 DEF IInv, Position, FlagsAgree, Decided
<1>8. \A d : \A j \in Indices : StartedBy(d, j) => StartedBy(d, j)' /\ d # e
  BY <1>2, <1>4, <1>6, <1>7 DEF StartedBy, Off
<1>9. ASSUME NEW d \in sched'.added \cap touched'
      PROVE  \E j \in Indices : StartedBy(d, j)'
  <2>1. d \in sched.added \cap touched
    BY <1>5
  <2> QED BY <1>3, <1>8, <2>1 DEF EdgeInv, TouchedIsStarted
<1>10. ASSUME NEW i \in Indices, Edge(i), NEW k \in DOMAIN Mappings[i].cmds, Handled(i, k)'
       PROVE  Answered(i, Mappings[i].cmds[k])'
  <2>1. i # a
    BY <1>7, <1>10 DEF Edge, Off
  <2>2. PICK c \in CommandsOf(i) : c = Mappings[i].cmds[k]
    BY DEF CommandsOf
  <2>3. Answered(i, c) /\ c # e
    BY <1>2, <1>3, <1>4, <1>10, <2>1, <2>2 DEF EdgeInv, EdgesAnswered
  <2>4. CASE c \in sched.added
    BY <1>5, <2>2, <2>3, <2>4 DEF Answered
  <2>5. CASE c \notin sched.added
    <3>1. PICK j \in Indices, d \in sched.added \cap touched :
            i =< j /\ StartedBy(d, j) /\ Req[c] \cap Req[d] # {}
      BY <2>3, <2>5 DEF Answered
    <3>2. d \in sched'.added \cap touched' /\ StartedBy(d, j)'
      BY <1>5, <1>8, <3>1
    <3> QED BY <2>2, <3>1, <3>2 DEF Answered
  <2> QED BY <2>4, <2>5
<1> QED BY <1>9, <1>10 DEF TouchedIsStarted

\* A repetition that adds nothing: the command is scheduled, or its mapping has
\* counted before, so that this is not its edge.
LEMMA PausingKeepsStarts ==
  ASSUME IInv, TypeOK, EdgeInv, NEW a \in Indices, at = a, verb = "repeat",
         Advance, CommandFrame, UNCHANGED <<sched, touched>>,
         IsCommandScheduled(sched, Current) \/ ~OkToSchedule
  PROVE  /\ TouchedIsStarted'
         /\ \A i \in Indices : Edge(i) => \A k \in DOMAIN Mappings[i].cmds :
              Handled(i, k)' => Answered(i, Mappings[i].cmds[k])'
<1>1. /\ next \in DOMAIN Mappings[a].cmds
      /\ \A i \in Indices : Decided(i)' = Decided(i)
      /\ \A i \in Indices : \A k \in DOMAIN Mappings[i].cmds :
           Handled(i, k)' => Handled(i, k) \/ (i = a /\ k = next)
  BY CommandMoves
<1>2. at # 0
  BY DEF Indices
<1>3. UNCHANGED <<input, before, on, toggled>>
  BY DEF CommandFrame
<1>4. \A d : \A j \in Indices : StartedBy(d, j)' = StartedBy(d, j)
  BY <1>1, <1>3 DEF StartedBy, Off
<1>5. ASSUME Edge(a) PROVE Current \in sched.added
  <2>1. Mappings[a].kind = "holdRepeat" /\ ~Wanted(a, before)
    BY <1>5 DEF IInv, Position, Edge
  <2>2. next \in Nat
    BY DEF TypeOK
  <2>3. counts[a][next] = 0
    BY <1>1, <2>1, <2>2 DEF EdgeInv, CountsFresh
  <2>4. OkToSchedule
    <3>1. Mappings[a].max = -1 \/ Mappings[a].max \in Nat \ {0}
      BY MappingAssumption
    <3> QED BY <2>3, <3>1 DEF OkToSchedule
  <2> QED BY <2>4 DEF IsCommandScheduled
<1>6. TouchedIsStarted'
  BY <1>2, <1>4 DEF EdgeInv, TouchedIsStarted
<1>7. ASSUME NEW i \in Indices, Edge(i), NEW k \in DOMAIN Mappings[i].cmds, Handled(i, k)'
      PROVE  Answered(i, Mappings[i].cmds[k])'
  <2>1. CASE i = a /\ k = next
    BY <1>5, <1>7, <2>1 DEF Answered, Current
  <2>2. CASE Handled(i, k)
    <3>1. Answered(i, Mappings[i].cmds[k])
      BY <1>2, <1>7, <2>2 DEF EdgeInv, EdgesAnswered
    <3> QED BY <1>4, <3>1 DEF Answered
  <2> QED BY <1>1, <1>7, <2>1, <2>2
<1> QED BY <1>6, <1>7

\* Whatever the mappings do with a reading, they account for its edges.
LEMMA ExecuteKeepsStarts ==
  ASSUME NoDetours, IInv, TypeOK, EdgeInv, Execute
  PROVE  /\ TouchedIsStarted'
         /\ \A i \in Indices : Edge(i) => \A k \in DOMAIN Mappings[i].cmds :
              Handled(i, k)' => Answered(i, Mappings[i].cmds[k])'
<1>1. PICK a \in Indices : at = a
  BY DEF IInv, Position, Execute, ExecuteHold, ExecuteHoldRepeat, ExecutePress,
         ExecuteToggle, AddNext, RepeatNext, RemoveNext, Deciding
<1>2. CASE ExecuteHold \/ ExecuteHoldRepeat \/ ExecutePress \/ ExecuteToggle
  BY <1>1, <1>2, DecisionKeepsStarts
<1>3. CASE AddNext
  BY <1>1, <1>3, SchedulingKeepsStarts DEF AddNext
<1>4. CASE RepeatNext
  BY <1>1, <1>4, SchedulingKeepsStarts, PausingKeepsStarts DEF RepeatNext
<1>5. CASE RemoveNext
  BY <1>1, <1>5, RemovingKeepsStarts
<1> QED BY <1>2, <1>3, <1>4, <1>5 DEF Execute

\* A hold-repeat mapping clears its counts when it goes off and counts only while it
\* is on.
LEMMA ExecuteKeepsCounts == IInv /\ TypeOK /\ CountsFresh /\ Execute => CountsFresh'
<1> SUFFICES ASSUME IInv, TypeOK, CountsFresh, Execute,
                    NEW i \in Indices, Mappings[i].kind = "holdRepeat",
                    NEW k \in DOMAIN Mappings[i].cmds,
                    \/ ~on'[i]
                    \/ at' = i /\ verb' = "repeat" /\ ~Wanted(i, before)' /\ next' =< k
             PROVE  counts'[i][k] = 0
  BY DEF CountsFresh
<1>1. PICK a \in Indices : at = a
  BY DEF IInv, Position, Execute, ExecuteHold, ExecuteHoldRepeat, ExecutePress,
         ExecuteToggle, AddNext, RepeatNext, RemoveNext, Deciding
<1>2. a # 0 /\ DOMAIN counts = Indices
  BY DEF Indices, TypeOK
<1>3. CASE ExecuteHold \/ ExecuteHoldRepeat \/ ExecutePress \/ ExecuteToggle
  <2>1. /\ UNCHANGED before
        /\ on[a] = Wanted(a, before)
        /\ \A j \in Indices : j # a => on'[j] = on[j]
        /\ verb' = "repeat" => at' = a
    BY <1>1, <1>3, DecisionMoves
  <2>2. CASE i # a
    <3>1. counts'[i] = counts[i]
      BY <1>1, <1>2, <1>3, <2>2
         DEF ExecuteHold, ExecuteHoldRepeat, ExecutePress, ExecuteToggle
    <3> QED BY <2>1, <2>2, <3>1 DEF CountsFresh
  <2>3. CASE i = a
    <3>1. /\ ExecuteHoldRepeat
          /\ on' = [on EXCEPT ![a] = Wanted(a, input)]
      BY <1>1, <1>3, <2>3
         DEF ExecuteHold, ExecuteHoldRepeat, ExecutePress, ExecuteToggle, Deciding
    <3>2. CASE ~Wanted(a, input) /\ on[a]
      <4>1. counts' = [counts EXCEPT ![a] = [l \in DOMAIN Mappings[a].cmds |-> 0]]
        BY <1>1, <3>1, <3>2 DEF ExecuteHoldRepeat
      <4> QED BY <1>2, <2>3, <4>1
    <3>3. CASE ~(~Wanted(a, input) /\ on[a])
      <4>1. counts' = counts
        BY <1>1, <3>1, <3>3 DEF ExecuteHoldRepeat
      <4>2. on'[a] = Wanted(a, input)
        BY <3>1 DEF TypeOK
      <4>3. Wanted(a, before)' = Wanted(a, before)
        BY <2>1 DEF Wanted
      <4>4. ~on[a]
        BY <2>1, <2>3, <3>3, <4>2, <4>3
      <4> QED BY <2>3, <4>1, <4>4 DEF CountsFresh
    <3> QED BY <3>2, <3>3
  <2> QED BY <2>2, <2>3
<1>4. CASE AddNext \/ RepeatNext \/ RemoveNext
  <2>1. /\ verb \in {"add", "repeat", "remove"} /\ Advance
        /\ UNCHANGED <<on, before>>
        /\ counts' \in {counts, Counted}
        /\ verb # "repeat" => counts' = counts
    BY <1>4 DEF AddNext, RepeatNext, RemoveNext, CommandFrame
  <2>2. /\ next \in DOMAIN Mappings[a].cmds
        /\ next \in Nat
        /\ \/ verb' = "decide"
           \/ at' = a /\ verb' = verb /\ next' = next + 1
    BY <1>1, <1>2, <2>1, AdvanceMoves DEF TypeOK
  <2>3. k \in Nat
    <3>1. Len(Mappings[i].cmds) \in Nat /\ DOMAIN Mappings[i].cmds = 1 .. Len(Mappings[i].cmds)
      BY MappingAssumption
    <3> QED BY <3>1
  <2>4. i # a \/ k # next => counts'[i][k] = counts[i][k]
    BY <1>1, <2>1, <2>2, CountingChangesOne
  <2>5. CASE ~on'[i]
    <3>1. counts[i][k] = 0 /\ ~on[i]
      BY <2>1, <2>5 DEF CountsFresh
    <3>2. i = a => counts' = counts
      BY <1>1, <2>1, <3>1 DEF IInv, Position
    <3> QED BY <2>4, <3>1, <3>2
  <2>6. CASE at' = i /\ verb' = "repeat" /\ ~Wanted(i, before)' /\ next' =< k
    <3>1. i = a /\ verb = "repeat" /\ next' = next + 1 /\ ~Wanted(i, before)
      BY <2>1, <2>2, <2>6 DEF Wanted
    <3>2. next =< k /\ k # next
      BY <2>2, <2>3, <2>6, <3>1
    <3> QED BY <1>1, <2>4, <3>1, <3>2 DEF CountsFresh
  <2> QED BY <2>5, <2>6
<1> QED BY <1>3, <1>4 DEF Execute

\* The invariant about a reading's edges is kept by every step.
LEMMA NextKeepsEdgeInv ==
  ASSUME NoDetours
  PROVE  IInv /\ TypeOK /\ EdgeInv /\ [Next]_vars => EdgeInv'
<1> SUFFICES ASSUME IInv, TypeOK, EdgeInv, [Next]_vars PROVE EdgeInv'
  OBVIOUS
<1>1. ASSUME NEW in, Reading(in) PROVE EdgeInv'
  <2>1. /\ at' = 1 /\ verb' = "decide" /\ touched' = {}
        /\ UNCHANGED <<on, toggled, counts>>
    BY <1>1 DEF Reading, flags
  <2>2. CountsFresh'
    BY <2>1 DEF EdgeInv, CountsFresh
  <2>3. EdgesAnswered'
    <3>1. ASSUME NEW i \in Indices, NEW k PROVE ~Handled(i, k)'
      BY <2>1, MappingAssumption DEF Handled, Indices
    <3> QED BY <3>1 DEF EdgesAnswered
  <2> QED BY <2>1, <2>2, <2>3 DEF EdgeInv, TouchedIsStarted
<1>2. CASE Execute
  <2>1. EdgesAnswered'
    <3>1. UNCHANGED <<input, before>>
      BY <1>2 DEF Execute, ExecuteHold, ExecuteHoldRepeat, ExecutePress, ExecuteToggle,
         AddNext, RepeatNext, RemoveNext, DecisionFrame, CommandFrame
    <3>2. \A i \in Indices : Edge(i)' = Edge(i)
      BY <3>1 DEF Edge, Wanted
    <3> QED BY <1>2, <3>2, ExecuteKeepsStarts DEF EdgesAnswered
  <2> QED BY <1>2, <2>1, ExecuteKeepsStarts, ExecuteKeepsCounts DEF EdgeInv
<1>3. ASSUME NEW F, Run(F) PROVE EdgeInv'
  <2>1. at = 0 /\ UNCHANGED <<on, counts, at, verb, next, before>>
    BY <1>3 DEF Run, flags
  <2> QED BY <2>1
          DEF EdgeInv, CountsFresh, TouchedIsStarted, EdgesAnswered, Indices, Wanted
<1>4. CASE UNCHANGED vars
  <2>1. /\ UNCHANGED <<input, before, on, toggled, counts, sched>>
        /\ UNCHANGED <<at, verb, next, touched>>
    BY <1>4 DEF vars, flags
  <2>2. /\ \A i \in Indices : Edge(i)' = Edge(i)
        /\ \A d : \A j \in Indices : StartedBy(d, j)' = StartedBy(d, j)
        /\ \A i, k : Handled(i, k)' = Handled(i, k)
    BY <2>1 DEF Edge, Wanted, StartedBy, Decided, Off, Handled
  <2>3. \A i \in Indices : \A c : Answered(i, c)' = Answered(i, c)
    BY <2>1, <2>2 DEF Answered
  <2>4. CountsFresh'
    BY <2>1 DEF EdgeInv, CountsFresh, Wanted
  <2>5. TouchedIsStarted' /\ EdgesAnswered'
    BY <2>1, <2>2, <2>3 DEF EdgeInv, TouchedIsStarted, EdgesAnswered
  <2> QED BY <2>4, <2>5 DEF EdgeInv
<1> QED BY <1>1, <1>2, <1>3, <1>4 DEF Next, Packet, Silence

\* In every robot whose tables have no detours, a key that goes down has its commands
\* started by the end of that reading, or a rival of theirs.
THEOREM EdgeStartsCommandsHolds ==
  ASSUME NoDetours
  PROVE  Spec => EdgeStartsCommands
<1> DEFINE Starts ==
      at # 0 /\ at' = 0 =>
        \A i \in Indices :
          Edge(i) =>
            \A c \in CommandsOf(i) :
              \/ c \in sched'.added
              \/ \E d \in sched'.added \cap touched' : Req[c] \cap Req[d] # {}
<1>1. Init => EdgeInv
  BY DEF Init, EdgeInv, CountsFresh, TouchedIsStarted, EdgesAnswered
<1>2. IInv /\ TypeOK /\ EdgeInv /\ [Next]_vars => EdgeInv'
  BY NextKeepsEdgeInv
<1>3. IInv /\ TypeOK /\ EdgeInv /\ [Next]_vars => [Starts]_vars
  <2> SUFFICES ASSUME IInv, TypeOK, EdgeInv, Next, at # 0, at' = 0,
                      NEW i \in Indices, Edge(i), NEW c \in CommandsOf(i)
               PROVE  \/ c \in sched'.added
                      \/ \E d \in sched'.added \cap touched' : Req[c] \cap Req[d] # {}
    OBVIOUS
  <2>1. Execute
    BY DEF Next, Packet, Silence, Reading, Run
  <2>2. PICK k \in DOMAIN Mappings[i].cmds : c = Mappings[i].cmds[k]
    BY DEF CommandsOf
  <2>3. Handled(i, k)'
    BY DEF Handled
  <2>4. Answered(i, Mappings[i].cmds[k])'
    BY <2>1, <2>3, ExecuteKeepsStarts
  <2> QED BY <2>2, <2>4 DEF Answered
<1> QED BY <1>1, <1>2, <1>3, Invariance, TypeCorrectness, PTL DEF Spec, EdgeStartsCommands

-----------------------------------------------------------------------------
(* Settles.                                                                *)

\* The steps of a mapping leave the reading itself alone.
LEMMA ExecuteLeavesTheReading ==
  Execute => UNCHANGED <<connected, input, before, repeats>>
BY DEF Execute, ExecuteHold, ExecuteHoldRepeat, ExecutePress, ExecuteToggle,
   AddNext, RepeatNext, RemoveNext, DecisionFrame, CommandFrame

\* A mapping stays steady as long as its own flag and counts, the reading and the
\* scheduling of its commands stay.
LEMMA SteadyStays ==
  ASSUME NEW i \in Indices, Steady(i), UNCHANGED input,
         toggled'[i] => toggled[i],
         Mappings[i].kind = "holdRepeat" =>
           \A k \in DOMAIN Mappings[i].cmds : counts'[i][k] = counts[i][k],
         Persistent(i) /\ Wanted(i, input) =>
           \A c \in CommandsOf(i) : c \in sched.added => c \in sched'.added
  PROVE  Steady(i)'
<1>1. CASE Mappings[i].kind = "holdRepeat"
  <2>1. \A k \in DOMAIN Mappings[i].cmds : Exhausted(i, k)' = Exhausted(i, k)
    BY <1>1 DEF Exhausted
  <2>2. \A k \in DOMAIN Mappings[i].cmds : Mappings[i].cmds[k] \in CommandsOf(i)
    BY DEF CommandsOf
  <2> QED BY <1>1, <2>1, <2>2 DEF Steady, Persistent, Wanted
<1>2. CASE Mappings[i].kind = "toggle"
  BY <1>2 DEF Steady, Persistent, Wanted, NegKeysHeld
<1> QED BY <1>1, <1>2 DEF Steady

\* On an equal reading, the decision of a hold or press mapping is to do nothing, and
\* so is that of any mapping that is steady and not a hold-repeat one that is wanted.
LEMMA EqualReadingDecides ==
  ASSUME IInv, TypeOK, before = input, NEW a \in Indices, at = a,
         ExecuteHold \/ ExecuteHoldRepeat \/ ExecutePress \/ ExecuteToggle
  PROVE  /\ UNCHANGED counts
         /\ \/ verb' = "decide" /\ Steady(a)'
            \/ verb' = "repeat" /\ Mappings[a].kind = "holdRepeat" /\ Wanted(a, input)
            \/ verb' = "add" /\ Mappings[a].kind = "toggle" /\ Wanted(a, input)
            \/ verb' = "remove" /\ Mappings[a].kind = "toggle"
         /\ Steady(a) => /\ verb' \in {"decide", "repeat"}
                         /\ toggled'[a] => toggled[a]
<1>1. /\ verb = "decide" /\ UNCHANGED <<input, sched>>
      /\ on[a] = Wanted(a, input)
  BY DecisionMoves
<1>2. /\ on \in [Indices -> BOOLEAN] /\ toggled \in [Indices -> BOOLEAN]
      /\ on[a] \in BOOLEAN /\ toggled[a] \in BOOLEAN
  BY DEF TypeOK
<1>3. CASE ExecuteHold
  <2>1. Mappings[a].kind = "hold" /\ verb' = "decide" /\ UNCHANGED <<counts, toggled>>
    BY <1>1, <1>2, <1>3 DEF ExecuteHold, Deciding
  <2> QED BY <2>1 DEF Steady
<1>4. CASE ExecutePress
  <2>1. Mappings[a].kind = "press" /\ verb' = "decide" /\ UNCHANGED <<counts, toggled>>
    BY <1>1, <1>2, <1>4 DEF ExecutePress, Deciding
  <2> QED BY <2>1 DEF Steady
<1>5. CASE ExecuteHoldRepeat
  <2>1. /\ Mappings[a].kind = "holdRepeat" /\ UNCHANGED <<counts, toggled>>
        /\ \/ Wanted(a, input) /\ verb' = "repeat"
           \/ ~Wanted(a, input) /\ verb' = "decide"
    BY <1>1, <1>2, <1>5 DEF ExecuteHoldRepeat, Deciding, Begin
  <2>2. Wanted(a, input)' = Wanted(a, input)
    BY <1>1 DEF Wanted
  <2> QED BY <2>1, <2>2 DEF Steady
<1>6. CASE ExecuteToggle
  <2> DEFINE was == toggled[a] /\ ~Spent
             off == NegKeysHeld(Mappings[a], input)
             press == /\ ~off /\ MappingSubset(Mappings[a], input)
                      /\ ~(on[a] /\ ~Spent)
  <2>1. /\ Mappings[a].kind = "toggle" /\ UNCHANGED counts
        /\ toggled'[a] = (~off /\ was # press)
        /\ \/ press /\ ~was /\ verb' = "add"
           \/ (press \/ off) /\ was /\ verb' = "remove"
           \/ ~press /\ ~(off /\ was) /\ verb' = "decide"
    BY <1>1, <1>2, <1>6 DEF ExecuteToggle, Deciding, Begin
  <2>2. /\ Spent <=> toggled[a] /\ CommandsOf(a) \cap sched.added = {}
        /\ Wanted(a, input) <=> MappingSubset(Mappings[a], input) /\ ~off
        /\ Wanted(a, input)' <=> Wanted(a, input)
        /\ NegKeysHeld(Mappings[a], input)' <=> off
    BY <1>1 DEF Spent, Wanted, NegKeysHeld, MappingSubset
  <2>3. press => Wanted(a, input)
    BY <2>2
  <2>4. CASE verb' = "decide"
    <3>1. toggled'[a] => toggled[a] /\ ~off /\ CommandsOf(a) \cap sched.added # {}
      BY <2>1, <2>2, <2>4
    <3> QED BY <1>1, <2>1, <2>2, <2>4, <3>1 DEF Steady
  <2>5. CASE verb' # "decide"
    <3>1. ~Steady(a)
      BY <1>1, <2>1, <2>2, <2>5 DEF Steady
    <3> QED BY <2>1, <2>3, <2>5, <3>1
  <2> QED BY <2>4, <2>5
<1> QED BY <1>3, <1>4, <1>5, <1>6

\* After the decision of an equal reading, what was decided before is steady still, and
\* so is this mapping, unless it turns to its commands.
LEMMA DecisionSettles ==
  ASSUME IInv, TypeOK, Settling, repeats > 0, NEW a \in Indices, at = a,
         ExecuteHold \/ ExecuteHoldRepeat \/ ExecutePress \/ ExecuteToggle
  PROVE  Settling'
<1>1. /\ next = 1
      /\ UNCHANGED <<input, sched, next, before, repeats, touched>>
      /\ \A i \in Indices : i # a => toggled'[i] = toggled[i]
      /\ \/ at' = a /\ verb' \in {"add", "repeat", "remove"}
         \/ at' = 0 /\ verb' = "decide" /\ a = Len(Mappings)
         \/ at' = a + 1 /\ verb' = "decide" /\ at' \in Indices
  BY DecisionMoves
<1>2. Len(Mappings) \in Nat \ {0} /\ a \in 1 .. Len(Mappings) /\ before = input
  BY MappingAssumption DEF Indices, Settling
<1>3. /\ UNCHANGED counts
      /\ \/ verb' = "decide" /\ Steady(a)'
         \/ verb' = "repeat" /\ Mappings[a].kind = "holdRepeat" /\ Wanted(a, input)
         \/ verb' = "add" /\ Mappings[a].kind = "toggle" /\ Wanted(a, input)
         \/ verb' = "remove" /\ Mappings[a].kind = "toggle"
      /\ Steady(a) => /\ verb' \in {"decide", "repeat"}
                      /\ toggled'[a] => toggled[a]
  BY <1>2, EqualReadingDecides
<1>4. ASSUME NEW i \in Indices, at' = 0 \/ i < at' \/ repeats = 2
      PROVE  Steady(i)'
  <2>1. i \in 1 .. Len(Mappings)
    BY DEF Indices
  <2>2. CASE repeats = 2 \/ i # a
    <3>1. i < a \/ repeats = 2
      BY <1>1, <1>2, <1>4, <2>1, <2>2
    <3>2. Steady(i)
      BY <3>1 DEF Settling
    <3>3. toggled'[i] => toggled[i]
      BY <1>1, <1>3, <3>2
    <3> QED BY <1>1, <1>3, <3>2, <3>3, SteadyStays
  <2>3. CASE i = a /\ repeats # 2
    <3>1. at' # a
      BY <1>2, <1>4, <2>3
    <3> QED BY <1>1, <1>3, <2>3, <3>1
  <2> QED BY <2>2, <2>3
<1>5. SteadySoFar'
  <2> SUFFICES ASSUME verb' \in {"add", "repeat"}
               PROVE  /\ at' = a /\ Persistent(a) /\ Wanted(a, input)
                      /\ \A k \in DOMAIN Mappings[a].cmds : ~(k < 1)
    BY <1>1 DEF SteadySoFar, Persistent, Wanted
  <2>1. \A k \in DOMAIN Mappings[a].cmds : ~(k < 1)
    <3>1. /\ Len(Mappings[a].cmds) \in Nat
          /\ DOMAIN Mappings[a].cmds = 1 .. Len(Mappings[a].cmds)
      BY MappingAssumption
    <3> QED BY <3>1
  <2> QED BY <1>1, <1>3, <2>1 DEF Persistent
<1>6. repeats = 2 => verb' \in {"decide", "repeat"} /\ touched' = {}
  BY <1>1, <1>3 DEF Settling
<1>7. verb' = "remove" => Mappings[at'].kind = "toggle"
  BY <1>1, <1>3
<1> QED BY <1>1, <1>2, <1>4, <1>5, <1>6, <1>7 DEF Settling

\* A command of an equal reading: it takes nothing from the mappings that were wanted
\* together with its own.
LEMMA CommandSparesOthers ==
  ASSUME NoContention, IInv, TypeOK, Settling, repeats > 0, NEW a \in Indices, at = a,
         AddNext \/ RepeatNext \/ RemoveNext,
         NEW i \in Indices, i # a \/ verb # "remove", Persistent(i), Wanted(i, input),
         NEW c \in CommandsOf(i), c \in sched.added
  PROVE  c \in sched'.added
<1>1. next \in DOMAIN Mappings[a].cmds
  BY DEF TypeOK, Indices
<1>2. PICK e \in CommandsOf(a) : e = Current /\ (i # a => e # c)
  BY <1>1, CurrentBelongs
<1>3. CASE RemoveNext
  <2>1. i # a
    BY <1>3 DEF RemoveNext
  <2> QED BY <1>2, <1>3, <2>1 DEF RemoveNext, RemoveCommand
<1>4. CASE Schedule(Current)
  <2>1. sched'.added = {d \in sched.added : Req[d] \cap Req[e] = {}} \cup {e}
    BY <1>2, <1>4 DEF Schedule, AddCommand, Displaced
  <2>2. CASE ~RemoveNext /\ c # e
    <3>1. Persistent(a) /\ Wanted(a, input)
      BY <2>2 DEF AddNext, RepeatNext, Settling, SteadySoFar
    <3>2. Req[c] \cap Req[e] = {}
      BY <2>2, <3>1 DEF NoContention, TypeOK
    <3> QED BY <2>1, <3>2
  <2> QED BY <1>3, <2>1, <2>2
<1>5. CASE UNCHANGED sched
  BY <1>5
<1> QED BY <1>3, <1>4, <1>5 DEF AddNext, RepeatNext

\* On the third equal reading, every command is scheduled already or counted out.
LEMMA ThirdReadingPauses ==
  ASSUME IInv, Settling, repeats = 2, NEW a \in Indices, at = a,
         AddNext \/ RepeatNext \/ RemoveNext
  PROVE  UNCHANGED <<sched, touched, counts>>
<1>1. RepeatNext
  BY DEF Settling, AddNext, RemoveNext
<1>2. next \in DOMAIN Mappings[a].cmds /\ Mappings[a].kind = "holdRepeat"
  BY <1>1 DEF RepeatNext, IInv, Position, Indices
<1>3. Wanted(a, input) /\ Steady(a)
  BY <1>1 DEF Settling, SteadySoFar, RepeatNext
<1>4. IsCommandScheduled(sched, Current) \/ ~OkToSchedule
  BY <1>2, <1>3 DEF Steady, Exhausted, Current, OkToSchedule, IsCommandScheduled
<1> QED BY <1>1, <1>4 DEF RepeatNext

\* When a command of an equal reading has been handled, it is scheduled or counted
\* out, like those before it.
LEMMA CommandSettlesItsMapping ==
  ASSUME NoContention, IInv, TypeOK, Settling, repeats > 0, NEW a \in Indices, at = a,
         AddNext \/ RepeatNext
  PROVE  \A k \in DOMAIN Mappings[a].cmds :
           k < next \/ k = next =>
             \/ Mappings[a].cmds[k] \in sched'.added
             \/ verb = "repeat" /\ Exhausted(a, k)'
<1>1. /\ next \in DOMAIN Mappings[a].cmds /\ next \in Nat
      /\ verb \in {"add", "repeat"}
      /\ counts' \in {counts, Counted}
  BY DEF TypeOK, Indices, AddNext, RepeatNext
<1>2. Persistent(a) /\ Wanted(a, input)
  BY <1>1 DEF Settling, SteadySoFar
<1>3. ASSUME NEW k \in DOMAIN Mappings[a].cmds, k < next
      PROVE  \/ Mappings[a].cmds[k] \in sched'.added
             \/ verb = "repeat" /\ Exhausted(a, k)'
  <2>1. CASE Mappings[a].cmds[k] \in sched.added
    <3>1. Mappings[a].cmds[k] \in CommandsOf(a)
      BY DEF CommandsOf
    <3> QED BY <1>1, <1>2, <2>1, <3>1, CommandSparesOthers
  <2>2. CASE Mappings[a].cmds[k] \notin sched.added
    <3>1. verb = "repeat" /\ Exhausted(a, k)
      BY <1>1, <1>3, <2>2 DEF Settling, SteadySoFar
    <3>2. k # next
      BY <1>1, <1>3
    <3>3. counts'[a][k] = counts[a][k]
      BY <1>1, <3>2, CountingChangesOne
    <3> QED BY <3>1, <3>3 DEF Exhausted
  <2> QED BY <2>1, <2>2
<1>4. ASSUME NEW k \in DOMAIN Mappings[a].cmds, k = next
      PROVE  \/ Mappings[a].cmds[k] \in sched'.added
             \/ verb = "repeat" /\ Exhausted(a, k)'
  <2>1. Mappings[a].cmds[k] = Current
    BY <1>4 DEF Current
  <2>2. CASE Schedule(Current)
    BY <2>1, <2>2 DEF Schedule, AddCommand
  <2>3. CASE ~Schedule(Current)
    <3>1. /\ verb = "repeat" /\ UNCHANGED <<sched, counts>>
          /\ IsCommandScheduled(sched, Current) \/ ~OkToSchedule
      BY <2>3 DEF AddNext, RepeatNext
    <3>2. CASE ~OkToSchedule
      BY <1>4, <3>1, <3>2 DEF OkToSchedule, Exhausted
    <3> QED BY <2>1, <3>1, <3>2 DEF IsCommandScheduled
  <2> QED BY <2>2, <2>3
<1> QED BY <1>3, <1>4

\* After one command of an equal reading, what had settled before is settled still.
LEMMA CommandSettles ==
  ASSUME NoContention, IInv, TypeOK, Settling, repeats > 0, NEW a \in Indices, at = a,
         AddNext \/ RepeatNext \/ RemoveNext
  PROVE  Settling'
<1>1. /\ verb \in {"add", "repeat", "remove"} /\ Advance
      /\ UNCHANGED <<input, before, repeats, on, toggled>>
      /\ counts' \in {counts, Counted}
      /\ next \in DOMAIN Mappings[a].cmds
  BY DEF AddNext, RepeatNext, RemoveNext, CommandFrame, TypeOK, Indices
<1>2. \/ /\ verb' = "decide" /\ next' = 1 /\ next = Len(Mappings[a].cmds)
         /\ \/ at' = 0 /\ a = Len(Mappings)
            \/ at' = a + 1
      \/ at' = a /\ verb' = verb /\ next' = next + 1
  BY <1>1, AdvanceMoves
<1>3. /\ Len(Mappings) \in Nat \ {0} /\ a \in 1 .. Len(Mappings) /\ before = input
      /\ \A i \in Indices : /\ i \in 1 .. Len(Mappings)
                            /\ Len(Mappings[i].cmds) \in Nat \ {0}
                            /\ DOMAIN Mappings[i].cmds = 1 .. Len(Mappings[i].cmds)
  BY MappingAssumption DEF Indices, Settling
<1>4. verb = "remove" => Mappings[a].kind = "toggle" /\ ~toggled[a]
  BY DEF Settling, IInv, Position, Off
<1>5. ASSUME NEW i \in Indices, i < a \/ (repeats = 2 /\ (i # a \/ verb # "remove"))
      PROVE  Steady(i)'
  <2>1. Steady(i) /\ (i # a \/ verb # "remove")
    BY <1>3, <1>5 DEF Settling
  <2>2. ASSUME NEW k \in DOMAIN Mappings[i].cmds
        PROVE  counts'[i][k] = counts[i][k]
    <3>1. CASE repeats = 2
      BY <3>1, ThirdReadingPauses
    <3>2. CASE i # a
      BY <1>1, <3>2, CountingChangesOne
    <3> QED BY <1>3, <1>5, <3>1, <3>2
  <2>3. Persistent(i) /\ Wanted(i, input) =>
          \A c \in CommandsOf(i) : c \in sched.added => c \in sched'.added
    BY <2>1, CommandSparesOthers
  <2> QED BY <1>1, <2>1, <2>2, <2>3, SteadyStays
<1>6. ASSUME at' # a, repeats # 2
      PROVE  Steady(a)'
  <2>1. Wanted(a, input)' = Wanted(a, input)
    BY <1>1 DEF Wanted
  <2>2. CASE verb = "remove"
    BY <1>1, <1>4, <2>2 DEF Steady
  <2>3. CASE verb = "add"
    <3>1. /\ Mappings[a].kind = "toggle" /\ Wanted(a, input)
      BY <2>3 DEF Settling, SteadySoFar, IInv, Position, Persistent
    <3>2. PICK e \in CommandsOf(a) : e = Current
      BY <1>1, CurrentBelongs
    <3>3. e \in sched'.added
      BY <2>3, <3>2 DEF AddNext, RepeatNext, RemoveNext, Schedule, AddCommand
    <3>4. ~NegKeysHeld(Mappings[a], input)'
      BY <1>1, <3>1 DEF Wanted, NegKeysHeld
    <3> QED BY <3>1, <3>2, <3>3, <3>4 DEF Steady
  <2>4. CASE verb = "repeat"
    <3>1. Mappings[a].kind = "holdRepeat"
      BY <2>4 DEF IInv, Position
    <3>2. \A k \in DOMAIN Mappings[a].cmds : k < next \/ k = next
      BY <1>2, <1>3, <1>6
    <3>3. \A k \in DOMAIN Mappings[a].cmds :
            Mappings[a].cmds[k] \in sched'.added \/ Exhausted(a, k)'
      BY <2>4, <3>2, CommandSettlesItsMapping DEF RemoveNext
    <3> QED BY <3>1, <3>3 DEF Steady
  <2> QED BY <1>1, <2>2, <2>3, <2>4
<1>7. ASSUME NEW i \in Indices, at' = 0 \/ i < at' \/ repeats = 2
      PROVE  Steady(i)'
  <2>1. repeats = 2 => verb # "remove"
    BY DEF Settling
  <2>2. i < a \/ repeats = 2 \/ (i = a /\ at' # a)
    BY <1>2, <1>3, <1>7
  <2> QED BY <1>5, <1>6, <2>1, <2>2
<1>8. SteadySoFar'
  <2> SUFFICES ASSUME verb' \in {"add", "repeat"}
               PROVE  /\ Persistent(a) /\ Wanted(a, input)' /\ at' = a
                      /\ \A k \in DOMAIN Mappings[a].cmds :
                           k < next' => \/ Mappings[a].cmds[k] \in sched'.added
                                        \/ verb' = "repeat" /\ Exhausted(a, k)'
    BY DEF SteadySoFar, Persistent
  <2>1. at' = a /\ verb' = verb /\ next' = next + 1
    BY <1>2
  <2>2. Persistent(a) /\ Wanted(a, input)
    BY <2>1 DEF Settling, SteadySoFar
  <2>3. \A k \in DOMAIN Mappings[a].cmds : k < next' => k < next \/ k = next
    BY <1>1, <1>3, <2>1
  <2> QED BY <1>1, <2>1, <2>2, <2>3, CommandSettlesItsMapping DEF RemoveNext, Wanted
<1>9. verb' = "remove" => Mappings[at'].kind = "toggle"
  BY <1>2, <1>4
<1>10. repeats = 2 => verb' \in {"decide", "repeat"} /\ touched' = {}
  BY <1>2, ThirdReadingPauses DEF Settling
<1> QED BY <1>1, <1>3, <1>7, <1>8, <1>9, <1>10 DEF Settling

\* A reading equal to the last one finds every mapping as that one left it.
LEMMA ReadingSettles ==
  ASSUME Settling, NEW in, Reading(in)
  PROVE  Settling'
<1>1. /\ at = 0 /\ at' = 1 /\ verb' = "decide" /\ touched' = {}
      /\ before' = input /\ input' = in
      /\ UNCHANGED <<on, toggled, counts, sched>>
  BY DEF Reading, flags
<1>2. CASE in # input
  <2>1. repeats' = 0
    BY <1>2 DEF Reading
  <2> QED BY <1>1, <2>1 DEF Settling
<1>3. CASE in = input
  <2>1. /\ repeats \in 0 .. 2 /\ repeats' \in 0 .. 2
        /\ repeats' = 2 => repeats > 0
    BY <1>3 DEF Settling, Reading
  <2>2. ASSUME NEW i \in Indices, at' = 0 \/ i < at' \/ repeats' = 2
        PROVE  Steady(i)'
    <3>1. repeats > 0
      BY <1>1, <2>1, <2>2, MappingAssumption DEF Indices
    <3>2. Steady(i)
      BY <1>1, <3>1 DEF Settling
    <3> QED BY <1>1, <1>3, <3>2, SteadyStays
  <2> QED BY <1>1, <1>3, <2>1, <2>2 DEF Settling, SteadySoFar
<1> QED BY <1>2, <1>3

\* A run in which no command finishes adds defaults and takes nothing away.
LEMMA RunSettles ==
  ASSUME Settling, Position, NEW F, Run(F)
  PROVE  Settling'
<1>1. /\ at = 0 /\ verb = "decide"
      /\ UNCHANGED <<input, before, toggled, counts, at, verb, touched>>
      /\ repeats' = IF F = {} THEN repeats ELSE 0
  BY DEF Run, flags, Position
<1>2. CASE F # {}
  BY <1>1, <1>2 DEF Settling
<1>3. CASE F = {}
  <2>1. sched.added \subseteq sched'.added
    BY <1>3 DEF Run, AfterRun
  <2>2. ASSUME repeats > 0, NEW i \in Indices PROVE Steady(i)'
    <3>1. Steady(i)
      BY <1>1, <2>2 DEF Settling
    <3> QED BY <1>1, <2>1, <3>1, SteadyStays
  <2> QED BY <1>1, <1>3, <2>2 DEF Settling, SteadySoFar
<1> QED BY <1>2, <1>3

\* Every step keeps what equal readings have settled.
LEMMA NextKeepsSettling ==
  ASSUME NoContention
  PROVE  IInv /\ TypeOK /\ Settling /\ [Next]_vars => Settling'
<1> SUFFICES ASSUME IInv, TypeOK, Settling, [Next]_vars PROVE Settling'
  OBVIOUS
<1>1. ASSUME NEW in, Reading(in) PROVE Settling'
  BY <1>1, ReadingSettles
<1>2. CASE Execute
  <2>1. PICK a \in Indices : at = a
    BY <1>2 DEF IInv, Position, Execute, ExecuteHold, ExecuteHoldRepeat, ExecutePress,
       ExecuteToggle, AddNext, RepeatNext, RemoveNext, Deciding
  <2>2. CASE repeats > 0
    BY <1>2, <2>1, <2>2, DecisionSettles, CommandSettles DEF Execute
  <2>3. CASE ~(repeats > 0)
    <3>1. repeats = 0 /\ repeats' = 0
      BY <1>2, <2>3, ExecuteLeavesTheReading DEF TypeOK
    <3> QED BY <3>1 DEF Settling
  <2> QED BY <2>2, <2>3
<1>3. ASSUME NEW F, Run(F) PROVE Settling'
  BY <1>3, RunSettles DEF IInv
<1>4. CASE UNCHANGED vars
  <2>1. /\ UNCHANGED <<input, before, repeats, touched, toggled, counts>>
        /\ UNCHANGED <<sched, at, verb, next>>
    BY <1>4 DEF vars, flags
  <2>2. /\ \A i \in Indices : Steady(i) => Steady(i)'
        /\ \A i, k : Exhausted(i, k)' = Exhausted(i, k)
    BY <2>1, SteadyStays DEF Exhausted
  <2>3. SteadySoFar => SteadySoFar'
    BY <2>1, <2>2 DEF SteadySoFar, Persistent, Wanted
  <2> QED BY <2>1, <2>2, <2>3 DEF Settling
<1> QED BY <1>1, <1>2, <1>3, <1>4 DEF Next, Packet, Silence

\* In every robot whose hold-repeat and toggle mappings do not contend, the third equal
\* reading in a row initializes and ends nothing.
THEOREM SettlesHolds ==
  ASSUME NoContention
  PROVE  Spec => []Settles
<1>1. Init => Settling
  BY DEF Init, Settling, SteadySoFar
<1>2. IInv /\ TypeOK /\ Settling /\ [Next]_vars => Settling'
  BY NextKeepsSettling
<1>3. Settling => Settles
  BY DEF Settling, Settles
<1> QED BY <1>1, <1>2, <1>3, Invariance, TypeCorrectness, PTL DEF Spec

-----------------------------------------------------------------------------
(* What stays asked for is left alone.                                     *)

\* No mapping that acts in this reading is a hold or press mapping whose key was
\* down before.
LEMMA AskedIsNotHeld ==
  ASSUME NEW i \in Indices, NEW j \in Indices, Asks(j),
         Mappings[i].kind \in {"hold", "press"}, Wanted(i, before)
  PROVE  i # j
BY DEF Asks, Edge, Persistent

\* A mapping turns to adding its commands only when it is asked to.
LEMMA DecisionAsks ==
  ASSUME IInv, ExecuteHold \/ ExecuteHoldRepeat \/ ExecutePress \/ ExecuteToggle
  PROVE  AddsAreAsked'
<1>1. at \in Indices
  BY DEF IInv, Position, ExecuteHold, ExecuteHoldRepeat, ExecutePress, ExecuteToggle, Deciding
<1>2. /\ UNCHANGED <<input, before>>
      /\ on[at] = Wanted(at, before)
      /\ verb' \in {"add", "repeat"} => at' = at
  BY <1>1, DecisionMoves
<1>3. ASSUME verb' \in {"add", "repeat"}
      PROVE  Asks(at)
  <2>1. CASE ExecuteHold
    BY <1>1, <1>2, <1>3, <2>1 DEF ExecuteHold, Deciding, Begin, Asks, Edge
  <2>2. CASE ExecuteHoldRepeat
    BY <1>3, <2>2 DEF ExecuteHoldRepeat, Deciding, Begin, Asks, Persistent
  <2>3. CASE ExecutePress
    BY <1>1, <1>2, <1>3, <2>3 DEF ExecutePress, Deciding, Begin, Asks, Edge
  <2>4. CASE ExecuteToggle
    <3>1. Mappings[at].kind = "toggle" /\ verb = "decide"
      BY <2>4 DEF ExecuteToggle, Deciding
    <3>2. MappingSubset(Mappings[at], input) /\ ~NegKeysHeld(Mappings[at], input)
      BY <1>3, <2>4, <3>1 DEF ExecuteToggle, Begin
    <3> QED BY <3>1, <3>2 DEF Asks, Persistent, Wanted
  <2> QED BY <2>1, <2>2, <2>3, <2>4
<1>4. ASSUME verb' \in {"add", "repeat"}
      PROVE  Asks(at)'
  BY <1>2, <1>3, <1>4 DEF Asks, Edge, Wanted, Persistent
<1> QED BY <1>4 DEF AddsAreAsked

\* Advance asks nobody else.
LEMMA AdvanceAsks ==
  ASSUME IInv, AddsAreAsked, at # 0, verb # "decide", Advance, UNCHANGED <<input, before>>
  PROVE  AddsAreAsked'
<1>1. at \in Indices /\ next \in DOMAIN Mappings[at].cmds
  BY DEF IInv, Position
<1>2. verb' = "decide" \/ UNCHANGED <<at, verb>>
  BY <1>1, AdvanceMoves
<1> QED BY <1>2 DEF AddsAreAsked, Asks, Edge, Wanted, Persistent

\* A command that is added displaces commands of other mappings, and its mapping
\* was asked for.
LEMMA SchedulingLeavesHeld ==
  ASSUME IInv, HeldIsLeftAlone, at \in Indices, Asks(at), Current \in CommandsOf(at),
         Schedule(Current), UNCHANGED <<input, before>>
  PROVE  HeldIsLeftAlone'
<1> DEFINE c0 == Current
<1>1. /\ touched' = touched \cup Displaced(sched, c0) \cup {c0}
      /\ sched'.added = (sched.added \ Displaced(sched, c0)) \cup {c0}
  BY DEF Schedule, AddCommand
<1>2. \A j \in Indices : Asks(j)' = Asks(j)
  BY DEF Asks, Edge, Wanted, Persistent
<1>3. ASSUME NEW i \in Indices, Mappings[i].kind \in {"hold", "press"},
             Wanted(i, before), Wanted(i, input), NEW c \in CommandsOf(i), c \in touched'
      PROVE  /\ c \notin sched'.added
             /\ \E j \in Indices \ {i} :
                  Asks(j) /\ \E d \in CommandsOf(j) \cap touched' : Req[c] \cap Req[d] # {}
  <2>1. i # at
    BY <1>3, AskedIsNotHeld
  <2>2. c # c0
    BY <1>3, <2>1, InstanceAssumption
  <2>3. CASE c \in touched
    <3>1. /\ c \notin sched.added
          /\ \E j \in Indices \ {i} :
               Asks(j) /\ \E d \in CommandsOf(j) \cap touched : Req[c] \cap Req[d] # {}
      BY <1>3, <2>3 DEF HeldIsLeftAlone
    <3> QED BY <1>1, <2>2, <3>1
  <2>4. CASE c \in Displaced(sched, c0)
    <3>1. Req[c] \cap Req[c0] # {}
      BY <2>4 DEF Displaced
    <3>2. c0 \in CommandsOf(at) \cap touched'
      BY <1>1
    <3> QED BY <1>1, <2>1, <2>2, <2>4, <3>1, <3>2
  <2> QED BY <1>1, <1>3, <2>2, <2>3, <2>4
<1>4. \A i \in Indices : Wanted(i, before)' = Wanted(i, before)
                         /\ Wanted(i, input)' = Wanted(i, input)
  BY DEF Wanted
<1> QED BY <1>2, <1>3, <1>4 DEF HeldIsLeftAlone

\* A mapping that removes its commands is not held.
LEMMA RemovingLeavesHeld ==
  ASSUME IInv, HeldIsLeftAlone, at \in Indices, Current \in CommandsOf(at), RemoveNext
  PROVE  HeldIsLeftAlone'
<1>1. /\ verb = "remove" /\ UNCHANGED <<input, before>>
      /\ touched' \subseteq touched \cup {Current} /\ touched \subseteq touched'
      /\ sched'.added \subseteq sched.added
  BY DEF RemoveNext, CommandFrame, RemoveCommand
<1>2. Off(at) /\ on[at] = Wanted(at, input)
  BY <1>1 DEF IInv, Position, FlagsAgree, Decided
<1>3. \A j \in Indices : Asks(j)' = Asks(j)
  BY <1>1 DEF Asks, Edge, Wanted, Persistent
<1>4. ASSUME NEW i \in Indices, Mappings[i].kind \in {"hold", "press"},
             Wanted(i, before), Wanted(i, input), NEW c \in CommandsOf(i), c \in touched'
      PROVE  /\ c \notin sched'.added
             /\ \E j \in Indices \ {i} :
                  Asks(j) /\ \E d \in CommandsOf(j) \cap touched' : Req[c] \cap Req[d] # {}
  <2>1. i # at
    BY <1>2, <1>4 DEF Off
  <2>2. c # Current
    BY <1>4, <2>1, InstanceAssumption
  <2>3. c \in touched
    BY <1>1, <1>4, <2>2
  <2>4. /\ c \notin sched.added
        /\ \E j \in Indices \ {i} :
             Asks(j) /\ \E d \in CommandsOf(j) \cap touched : Req[c] \cap Req[d] # {}
    BY <1>4, <2>3 DEF HeldIsLeftAlone
  <2> QED BY <1>1, <2>4
<1>5. \A i \in Indices : Wanted(i, before)' = Wanted(i, before)
                         /\ Wanted(i, input)' = Wanted(i, input)
  BY <1>1 DEF Wanted
<1> QED BY <1>3, <1>4, <1>5 DEF HeldIsLeftAlone

\* Runs remove what has finished and add defaults, which belong to no mapping.
LEMMA RunLeavesHeld ==
  ASSUME IInv, HeldIsLeftAlone, NEW F \in SUBSET Finishing, Run(F)
  PROVE  HeldIsLeftAlone'
<1>1. UNCHANGED <<input, before, touched>>
  BY DEF Run
<1>2. ASSUME NEW i \in Indices, NEW c \in CommandsOf(i), c \in sched'.added
      PROVE  c \in sched.added
  BY <1>2, InstanceAssumption DEF Run, AfterRun, DefaultsFor
<1> QED BY <1>1, <1>2 DEF HeldIsLeftAlone, Asks, Edge, Wanted, Persistent

\* For every robot: what a held key has started, only a mapping that is asked for
\* takes away, and nothing but a new press of the key starts it again.
THEOREM HeldIsLeftAloneHolds == Spec => []HeldIsLeftAlone
<1>1. Init => HeldIsLeftAlone /\ AddsAreAsked
  BY DEF Init, HeldIsLeftAlone, AddsAreAsked
<1>2. IInv /\ HeldIsLeftAlone /\ AddsAreAsked /\ [Next]_vars
        => (HeldIsLeftAlone /\ AddsAreAsked)'
  <2> SUFFICES ASSUME IInv, HeldIsLeftAlone, AddsAreAsked, [Next]_vars
               PROVE  HeldIsLeftAlone' /\ AddsAreAsked'
    OBVIOUS
  <2>1. CASE (\E in \in Inputs : Packet(in)) \/ Silence
    <3>1. touched' = {} /\ verb' = "decide"
      BY <2>1 DEF Packet, Silence, Reading
    <3> QED BY <3>1 DEF HeldIsLeftAlone, AddsAreAsked
  <2>2. CASE ExecuteHold \/ ExecuteHoldRepeat \/ ExecutePress \/ ExecuteToggle
    <3>1. UNCHANGED <<input, before, sched, touched>>
      BY <2>2 DEF ExecuteHold, ExecuteHoldRepeat, ExecutePress, ExecuteToggle, DecisionFrame
    <3>2. HeldIsLeftAlone'
      BY <3>1 DEF HeldIsLeftAlone, Asks, Edge, Wanted, Persistent
    <3> QED BY <2>2, <3>2, DecisionAsks
  <2>3. CASE AddNext \/ RepeatNext \/ RemoveNext
    <3>1. /\ at # 0 /\ verb # "decide" /\ Advance /\ UNCHANGED <<input, before>>
      BY <2>3 DEF AddNext, RepeatNext, RemoveNext, CommandFrame
    <3>2. AddsAreAsked'
      BY <3>1, AdvanceAsks
    <3>3. at \in Indices /\ Current \in CommandsOf(at)
      BY <3>1 DEF IInv, Position, Current, CommandsOf
    <3>4. ASSUME RemoveNext PROVE HeldIsLeftAlone'
      BY <3>3, <3>4, RemovingLeavesHeld
    <3>5. ASSUME AddNext \/ RepeatNext PROVE HeldIsLeftAlone'
      <4>1. Asks(at)
        BY <3>5 DEF AddNext, RepeatNext, AddsAreAsked
      <4>2. CASE Schedule(Current)
        BY <3>1, <3>3, <4>1, <4>2, SchedulingLeavesHeld
      <4>3. CASE UNCHANGED <<sched, touched>>
        BY <3>1, <4>3 DEF HeldIsLeftAlone, Asks, Edge, Wanted, Persistent
      <4> QED BY <3>5, <4>2, <4>3 DEF AddNext, RepeatNext
    <3> QED BY <2>3, <3>2, <3>4, <3>5
  <2>4. ASSUME NEW F \in SUBSET Finishing, Run(F)
        PROVE  HeldIsLeftAlone' /\ AddsAreAsked'
    <3>1. verb' = "decide"
      BY <2>4 DEF Run, IInv, Position
    <3> QED BY <2>4, <3>1, RunLeavesHeld DEF AddsAreAsked
  <2>5. CASE UNCHANGED vars
    BY <2>5 DEF vars, HeldIsLeftAlone, AddsAreAsked, Asks, Edge, Wanted, Persistent
  <2> QED BY <2>1, <2>2, <2>3, <2>4, <2>5 DEF Next, Execute
<1> QED BY <1>1, <1>2, Invariance, PTL DEF Spec
=============================================================================
