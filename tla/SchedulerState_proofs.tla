------------------------ MODULE SchedulerState_proofs ------------------------
(***************************************************************************)
(* What the operations on the two bitmaps of a scheduler preserve, for     *)
(* every set of commands and subsystems: the lemmas that the proofs about  *)
(* the command scheduler and about the robot's controls share.             *)
(***************************************************************************)
EXTENDS SchedulerState, TLAPS

\* addCommand keeps the commands' requirements disjoint and the two bitmaps in
\* step, because it ends every command that shares a requirement.
LEMMA AddKeepsOwnership ==
  ASSUME NEW s \in SchedulerStates, NEW c \in Commands, Exclusive(s), InStep(s)
  PROVE  /\ AddCommand(s, c) \in SchedulerStates
         /\ Exclusive(AddCommand(s, c))
         /\ InStep(AddCommand(s, c))
<1> DEFINE D == Displaced(s, c)
           r == AddCommand(s, c)
<1> USE RequirementAssumption
<1>1. /\ s.added \subseteq Commands
      /\ s.assoc = RequiredBy(s.added)
      /\ s.assoc \subseteq Subsystems
  BY DEF SchedulerStates, InStep
<1>2. /\ r.added = (s.added \ D) \cup {c}
      /\ r.assoc = (s.assoc \ RequiredBy(D)) \cup Req[c]
  BY DEF AddCommand
<1>3. r \in SchedulerStates
  BY <1>1 DEF AddCommand, SchedulerStates
<1>4. \A d \in s.added \ D : Req[d] \cap Req[c] = {}
  BY DEF Displaced
<1>5. Exclusive(r)
  BY <1>2, <1>4, Exclusive(s) DEF Exclusive
<1>6. \A d \in s.added \ D : Req[d] \cap RequiredBy(D) = {}
  BY DEF Exclusive, RequiredBy, Displaced
<1>7. RequiredBy(s.added) \ RequiredBy(D) = RequiredBy(s.added \ D)
  BY <1>6 DEF RequiredBy, Displaced
<1>8. RequiredBy(r.added) = RequiredBy(s.added \ D) \cup Req[c]
  BY <1>2 DEF RequiredBy
<1>9. InStep(r)
  BY <1>1, <1>2, <1>7, <1>8 DEF InStep
<1> QED BY <1>3, <1>5, <1>9

\* So does removeCommand: nobody else requires the bits it clears.
LEMMA RemoveKeepsOwnership ==
  ASSUME NEW s \in SchedulerStates, NEW c \in s.added, Exclusive(s), InStep(s)
  PROVE  /\ RemoveCommand(s, c) \in SchedulerStates
         /\ Exclusive(RemoveCommand(s, c))
         /\ InStep(RemoveCommand(s, c))
<1> DEFINE r == RemoveCommand(s, c)
<1> USE RequirementAssumption
<1>1. r = [added |-> s.added \ {c}, assoc |-> s.assoc \ Req[c]]
  BY DEF RemoveCommand, IsCommandScheduled
<1>2. r \in SchedulerStates
  BY <1>1 DEF SchedulerStates
<1>3. Exclusive(r)
  BY <1>1 DEF Exclusive
<1>4. RequiredBy(s.added) \ Req[c] = RequiredBy(s.added \ {c})
  BY DEF Exclusive, RequiredBy
<1>5. InStep(r)
  BY <1>1, <1>4 DEF InStep
<1> QED BY <1>2, <1>3, <1>5

\* A command whose requirements are all free displaces nobody.
LEMMA FreeRequirementsDisplaceNobody ==
  ASSUME NEW s \in SchedulerStates, NEW c \in Commands, InStep(s),
         Req[c] \cap s.assoc = {}
  PROVE  Displaced(s, c) = {}
BY DEF InStep, RequiredBy, Displaced

\* A run keeps the bitmaps in step: nobody else requires the bits it clears.
LEMMA RunKeepsInStep ==
  ASSUME NEW s \in SchedulerStates, Exclusive(s), InStep(s),
         NEW F \in SUBSET s.added, NEW D \in SUBSET Commands
  PROVE  InStep(AfterRun(s, F, D))
<1>1. RequiredBy(s.added) \ RequiredBy(F) = RequiredBy(s.added \ F)
  BY DEF Exclusive, RequiredBy
<1>2. RequiredBy((s.added \ F) \cup D) = RequiredBy(s.added \ F) \cup RequiredBy(D)
  BY DEF RequiredBy
<1> QED BY <1>1, <1>2 DEF InStep, AfterRun
=============================================================================
