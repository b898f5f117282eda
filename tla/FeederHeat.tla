----------------------------- MODULE FeederHeat -----------------------------
(***************************************************************************)
(* The feeder of a robot with one feeder motor (standard, sentry, aerial): *)
(* FullAutoFeederCommand while the trigger is pulled, StopFeederCommand    *)
(* otherwise, the target they set in FeederSubsystem, and the heat         *)
(* arithmetic of RefereeHelperTurreted in its real widths.                 *)
(*                                                                         *)
(* Rotation is counted in projectiles (a tenth of a turn) from where the   *)
(* last initialize() found the feeder: the code only compares differences. *)
(* The motor itself is external.  It follows its target when it likes, may *)
(* jam at any time, turns by at most one projectile between two runs, and  *)
(* by at most one more before it stands still under another target.        *)
(* Time passes in units of which the two timeouts last a few.              *)
(***************************************************************************)
EXTENDS Integers, Timeouts

CONSTANTS
  Reports,               (* what the referee reports: heat and limit       *)
  HeatGainedPerProjectile,
  ProjectileBuffer,      (* 0 on the standard, 1 on the sentry             *)
  GraceTime,             (* 500 ms of startupThreshold                     *)
  UNJAM_TIMER_MS,
  MaxForward, MaxBack    (* bounds of the rotation that is followed        *)

ASSUME FeederAssumption ==
  /\ Reports # {}
  /\ \A r \in Reports : /\ r.heat \in Nat /\ r.heat < 65536
                        /\ r.limit \in Nat /\ r.limit < 65536
  /\ HeatGainedPerProjectile \in Nat \ {0}
  /\ ProjectileBuffer \in Nat /\ ProjectileBuffer < 256
  /\ GraceTime \in Nat \ {0} /\ UNJAM_TIMER_MS \in Nat \ {0}
  /\ MaxForward \in Nat /\ MaxBack \in Nat

VARIABLES
  report,     (* the referee's last message                                *)
  running,    (* the full-auto command is scheduled, not the stop command  *)
  target,     (* the target RPM: none, FEEDER_NORMAL, minus FEEDER_UNJAM   *)
  threshold,  (* antiOverheatEncoderThreshold                              *)
  startup,    (* startupThreshold                                          *)
  unjam,      (* unjamTimer                                                *)
  spin,       (* sense in which the motor turns, 0 when at most 10 RPM     *)
  encoder,    (* getEncoderUnwrapped                                       *)
  turned,     (* the motor has turned since the last run                   *)
  granted,    (* history: projectiles the heat left at the last initialize *)
  since       (* history: time since the pull or the last activation       *)

command == <<running, target, threshold, startup, unjam>>
motor == <<spin, encoder>>
vars == <<report, command, motor, turned, granted, since>>

TypeOK ==
  /\ report \in Reports
  /\ running \in BOOLEAN
  /\ target \in {"stop", "feed", "unjam"}
  /\ threshold \in Nat /\ threshold < 256
  /\ startup \in Timers /\ unjam \in Timers
  /\ spin \in {-1, 0, 1}
  /\ encoder \in Int
  /\ turned \in BOOLEAN
  /\ granted \in Int
  /\ since \in 0 .. GraceTime

-----------------------------------------------------------------------------
\* RefereeHelperTurreted. The subtraction wraps in 16 bits, the result in 8.

GetRemainingProjectiles(r) ==
  (((r.limit - r.heat) % 65536) \div HeatGainedPerProjectile) % 256

\* getAllowableFeederRotation, in projectiles: the difference is a uint8_t.
GetAllowableFeederRotation(r) ==
  (GetRemainingProjectiles(r) - ProjectileBuffer) % 256

\* What these compute when nothing wraps: the projectiles the heat leaves, less the
\* buffer.
HeatLeaves(r) ==
  ((r.limit - r.heat) \div HeatGainedPerProjectile) - ProjectileBuffer

\* Nothing wraps: there is heat left for the buffer and at most 255 projectiles.
Sound(n) == n >= 0 /\ n < 256

-----------------------------------------------------------------------------
\* The commands.

\* Faulty form (mutant): a second pull finds the start-up delay as the first left it.
InitializeKeepsDelay ==
  /\ ~running
  /\ running' = TRUE
  /\ target' = "stop"
  /\ unjam' = Restart(0)
  /\ threshold' = GetAllowableFeederRotation(report)
  /\ encoder' = 0
  /\ granted' = HeatLeaves(report)
  /\ since' = 0
  /\ UNCHANGED <<report, startup, spin, turned>>

\* The trigger is pulled: FullAutoFeederCommand::initialize.
Initialize ==
  /\ ~running
  /\ running' = TRUE
  /\ target' = "stop"
  /\ startup' = Restart(GraceTime)
  /\ unjam' = Restart(0)
  /\ threshold' = GetAllowableFeederRotation(report)
  /\ encoder' = 0
  /\ granted' = HeatLeaves(report)
  /\ since' = 0
  /\ UNCHANGED <<report, spin, turned>>

\* The trigger is released: end() of the one command and initialize() of the other.
End ==
  /\ running
  /\ running' = FALSE
  /\ target' = "stop"
  /\ UNCHANGED <<report, threshold, startup, unjam, motor, turned, granted, since>>

\* Faulty form (mutant): the feeder stops one count late.
SpentLate == encoder > threshold

Spent == encoder >= threshold

\* Faulty forms (mutants): turning back does not restart unjamTimer; going forward
\* again does not restart startupThreshold.
JamKeepsTimer == unjam
ActivationKeepsTimer == startup

\* unjamTimer once the feeder is turned back, startupThreshold once it is activated.
JamTimer == Restart(UNJAM_TIMER_MS)
GraceTimer == Restart(GraceTime)

\* FullAutoFeederCommand::execute: below the threshold, a feeder that stands still
\* after its start-up delay is turned back, and forward again when unjamTimer ends.
Execute ==
  LET jammed   == ~Spent /\ spin = 0 /\ Due(startup)
      timer    == IF jammed THEN JamTimer ELSE unjam
      activate == ~Spent /\ Due(timer)
  IN  /\ target' = IF Spent THEN "stop"
                   ELSE IF activate THEN "feed"
                   ELSE IF jammed THEN "unjam" ELSE target
      /\ unjam' = IF activate THEN Executed(timer) ELSE timer
      /\ startup' = IF activate THEN GraceTimer
                    ELSE IF jammed THEN Executed(startup) ELSE startup
      /\ since' = IF activate THEN 0 ELSE since

\* One run of the scheduler.
Run ==
  /\ \/ running /\ Execute
     \/ ~running /\ target' = "stop" /\ UNCHANGED <<startup, unjam, since>>
  /\ turned' = FALSE
  /\ UNCHANGED <<report, running, threshold, motor, granted>>

-----------------------------------------------------------------------------
\* The motor, the clock and the referee.

Sense == CASE target = "feed" -> 1 [] target = "unjam" -> -1 [] target = "stop" -> 0

MotorFrame == UNCHANGED <<report, command, granted, since>>

Speed ==
  /\ spin = 0 /\ Sense # 0
  /\ spin' = Sense
  /\ UNCHANGED <<encoder, turned>> /\ MotorFrame

Turn ==
  /\ spin = Sense /\ spin # 0 /\ ~turned
  /\ encoder + spin \in -MaxBack .. MaxForward
  /\ encoder' = encoder + spin
  /\ turned' = TRUE
  /\ UNCHANGED spin /\ MotorFrame

\* The motor stands still, jammed or because its target is another one.
Stall ==
  /\ spin # 0
  /\ spin' = 0
  /\ \/ encoder' = encoder
     \/ spin # Sense /\ encoder' = encoder + spin
  /\ encoder' \in -MaxBack .. MaxForward
  /\ UNCHANGED turned /\ MotorFrame

Tick ==
  /\ startup' = Elapse(startup)
  /\ unjam' = Elapse(unjam)
  /\ since' = IF since = GraceTime THEN since ELSE since + 1
  /\ UNCHANGED <<report, running, target, threshold, motor, turned, granted>>

\* decodeToPowerAndHeat: the next message of the referee.
Report ==
  /\ report' \in Reports
  /\ UNCHANGED <<command, motor, turned, granted, since>>

\* Before the first pull the timeouts are stopped: they answer as if executed.
Init ==
  /\ report \in Reports
  /\ running = FALSE /\ target = "stop"
  /\ threshold = 0 /\ encoder = 0
  /\ startup = NeverStarted /\ unjam = NeverStarted
  /\ spin = 0 /\ turned = FALSE
  /\ granted = 0 /\ since = 0

Next ==
  \/ Initialize \/ End \/ Run
  \/ Speed \/ Turn \/ Stall
  \/ Tick \/ Report

\* The main loop runs the scheduler forever and the clock never stops. The motor
\* owes nothing.
Fairness == WF_vars(Run) /\ WF_vars(Tick)

Spec == Init /\ [][Next]_vars /\ Fairness

-----------------------------------------------------------------------------
\* Safety. From a pull until the feeder stands still it has turned forward, net of
\* what it was turned back, by at most the projectiles the heat left at the pull and
\* the one it coasts by; whatever jams, releases and reports fall in between.
RotationBudget == Sound(granted) => encoder <= granted + 1

\* Refuted. The same without the proviso, as the comment before
\* FullAutoFeederCommand::initialize has it: a barrel with no heat left grants
\* nothing. In the code it grants 255 projectiles, less the overheating.
RotationWithinHeat == encoder <= 1 + (IF granted < 0 THEN 0 ELSE granted)

\* Action property. The feeder is turned back only when the whole start-up delay has
\* passed since the trigger was pulled and since it was last activated: neither a
\* quick second pull nor a jam right after a jam shortens it.
GraceBeforeReverse ==
  [][target' = "unjam" /\ target # "unjam" => since = GraceTime]_vars

\* Liveness. A trigger that stays pulled does not keep the feeder turning back.
ReverseEnds == running /\ target = "unjam" ~> target # "unjam"

\* Liveness. A feeder that may turn and stands still does not stay so with nothing
\* done about it while the trigger is pulled, at the first jam or at a later one.
JamIsAnswered == ~<>[](running /\ ~Spent /\ spin = 0 /\ target # "unjam")
=============================================================================
