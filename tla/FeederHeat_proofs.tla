------------------------- MODULE FeederHeat_proofs -------------------------
(***************************************************************************)
(* Theorems about FeederHeat, for every buffer, report, heat per           *)
(* projectile and duration of the two timeouts.                            *)
(***************************************************************************)
EXTENDS FeederHeat, TLAPS

\* A quotient by a positive divisor is negative when the dividend is.
LEMMA NegativeQuotient ==
  ASSUME NEW d \in Int, NEW h \in Int, h > 0, d \div h >= 0
  PROVE  d >= 0
OBVIOUS

\* The two reductions modulo 256 of getAllowableFeederRotation make one.
LEMMA BytesCompose ==
  ASSUME NEW q \in Int, NEW b \in Int, b >= 0, b < 256, q >= b, q - b < 256
  PROVE  ((q % 256) - b) % 256 = q - b
OBVIOUS

\* The widths do no harm to a barrel with heat left for the buffer and for at most
\* 255 projectiles: getAllowableFeederRotation then is what the heat leaves.
LEMMA AllowanceExact ==
  ASSUME NEW r \in Reports, Sound(HeatLeaves(r))
  PROVE  GetAllowableFeederRotation(r) = HeatLeaves(r)
<1> DEFINE d == r.limit - r.heat
           q == d \div HeatGainedPerProjectile
<1>1. d \in Int /\ d < 65536
  BY FeederAssumption
<1>2. /\ HeatGainedPerProjectile \in Int /\ HeatGainedPerProjectile > 0
      /\ ProjectileBuffer \in Int /\ ProjectileBuffer >= 0 /\ ProjectileBuffer < 256
  BY FeederAssumption
<1>3. HeatLeaves(r) = q - ProjectileBuffer
  BY DEF HeatLeaves
<1>4. GetRemainingProjectiles(r) = ((d % 65536) \div HeatGainedPerProjectile) % 256
  BY DEF GetRemainingProjectiles
<1> HIDE DEF d
<1>5. q \in Int
  BY <1>1, <1>2
<1>6. q - ProjectileBuffer >= 0 /\ q - ProjectileBuffer < 256
  BY <1>3 DEF Sound
<1>7. q >= ProjectileBuffer /\ q >= 0
  <2> HIDE DEF q
  <2> QED  BY <1>2, <1>5, <1>6
<1>8. d >= 0
  BY <1>1, <1>2, <1>7, NegativeQuotient
<1>9. d % 65536 = d
  BY <1>1, <1>8
<1>10. GetRemainingProjectiles(r) = q % 256
  BY <1>4, <1>9
<1> HIDE DEF q
<1>11. ((q % 256) - ProjectileBuffer) % 256 = q - ProjectileBuffer
  BY <1>2, <1>5, <1>6, <1>7, BytesCompose
<1> QED
  BY <1>3, <1>10, <1>11 DEF GetAllowableFeederRotation

\* Whatever the report, the allowance fits its uint8_t.
LEMMA AllowanceIsByte ==
  ASSUME NEW r \in Reports
  PROVE  /\ GetAllowableFeederRotation(r) \in Nat
         /\ GetAllowableFeederRotation(r) < 256
         /\ HeatLeaves(r) \in Int
<1>1. r.limit \in Int /\ r.heat \in Int /\ HeatGainedPerProjectile \in Nat \ {0}
      /\ ProjectileBuffer \in Int
  BY FeederAssumption
<1>2. (r.limit - r.heat) % 65536 \in Int /\ r.limit - r.heat \in Int
  BY <1>1
<1>3. /\ ((r.limit - r.heat) % 65536) \div HeatGainedPerProjectile \in Int
      /\ (r.limit - r.heat) \div HeatGainedPerProjectile \in Int
  BY <1>1, <1>2
<1>4. GetRemainingProjectiles(r) \in Int
  BY <1>3 DEF GetRemainingProjectiles
<1> QED
  BY <1>1, <1>3, <1>4 DEF GetAllowableFeederRotation, HeatLeaves

\* What restart, execute and the passing of time make of a timeout.
LEMMA RestartIsTimer ==
  ASSUME NEW t \in Nat
  PROVE  Restart(t) \in Timers /\ Restart(t).left = t /\ ~Restart(t).executed
BY DEF Restart, Timers

\* An executed timer is a timer.
LEMMA ExecutedIsTimer ==
  ASSUME NEW timer \in Timers
  PROVE  Executed(timer) \in Timers /\ Executed(timer).executed
BY DEF Executed, Timers

\* So is one after a unit of time.
LEMMA ElapseIsTimer ==
  ASSUME NEW timer \in Timers
  PROVE  /\ Elapse(timer) \in Timers
         /\ Elapse(timer).left >= timer.left - 1
         /\ Elapse(timer).executed = timer.executed
BY DEF Elapse, Timers

\* An execute() of the command leaves its variables with their types.
LEMMA ExecuteTypes ==
  ASSUME TypeOK, Execute
  PROVE  /\ target' \in {"stop", "feed", "unjam"}
         /\ startup' \in Timers /\ unjam' \in Timers
         /\ since' \in 0 .. GraceTime
<1>1. startup \in Timers /\ unjam \in Timers /\ target \in {"stop", "feed", "unjam"}
      /\ since \in 0 .. GraceTime
  BY DEF TypeOK
<1>2. JamTimer \in Timers /\ GraceTimer \in Timers
  BY RestartIsTimer, FeederAssumption DEF JamTimer, GraceTimer
<1>3. Executed(JamTimer) \in Timers /\ Executed(unjam) \in Timers
      /\ Executed(startup) \in Timers
  BY <1>1, <1>2, ExecutedIsTimer
<1>4. startup' \in {GraceTimer, Executed(startup), startup}
  BY DEF Execute
<1>5. unjam' \in {Executed(JamTimer), Executed(unjam), JamTimer, unjam}
  BY DEF Execute
<1>6. target' \in {"stop", "feed", "unjam", target}
  BY DEF Execute
<1>7. since' \in {0, since}
  BY DEF Execute
<1>8. 0 \in 0 .. GraceTime
  BY FeederAssumption
<1> QED  BY <1>1, <1>2, <1>3, <1>4, <1>5, <1>6, <1>7, <1>8

-----------------------------------------------------------------------------
\* The variables have their types: in particular the threshold, which every pull
\* computes in 16 and then 8 bits, is at most 255 projectiles away.
THEOREM TypeCorrectness == Spec => []TypeOK
<1>1. Init => TypeOK
  <2>1. NeverStarted \in Timers
    BY RestartIsTimer, ExecutedIsTimer DEF NeverStarted
  <2>2. Init => running \in BOOLEAN /\ turned \in BOOLEAN
    BY DEF Init
  <2> QED  BY <2>1, <2>2, FeederAssumption DEF Init, TypeOK
<1>2. TypeOK /\ [Next]_vars => TypeOK'
  <2> SUFFICES ASSUME TypeOK, [Next]_vars  PROVE TypeOK'
    OBVIOUS
  <2>a. End => running' \in BOOLEAN
    BY DEF End
  <2>b. Run => turned' \in BOOLEAN
    BY DEF Run
  <2> USE FeederAssumption DEF TypeOK, command, motor
  <2>1. CASE Initialize
    <3>1. threshold' \in Nat /\ threshold' < 256 /\ granted' \in Int
      BY <2>1, AllowanceIsByte DEF Initialize
    <3>2. startup' \in Timers /\ unjam' \in Timers
      BY <2>1, RestartIsTimer DEF Initialize
    <3> QED  BY <2>1, <3>1, <3>2 DEF Initialize
  <2>2. CASE End
    BY <2>2, <2>a DEF End
  <2>3. CASE Run
    <3>1. ASSUME Execute  PROVE TypeOK'
      BY <2>3, <2>b, <3>1, ExecuteTypes DEF Run
    <3>2. ASSUME target' = "stop", UNCHANGED <<startup, unjam, since>>
          PROVE  TypeOK'
      BY <2>3, <2>b, <3>2 DEF Run
    <3> QED  BY <2>3, <3>1, <3>2 DEF Run
  <2>4. CASE Speed
    BY <2>4 DEF Speed, Sense, MotorFrame
  <2>5. CASE Turn
    BY <2>5 DEF Turn, MotorFrame
  <2>6. CASE Stall
    BY <2>6 DEF Stall, MotorFrame
  <2>7. CASE Tick
    BY <2>7, ElapseIsTimer DEF Tick
  <2>8. CASE Report
    BY <2>8 DEF Report
  <2>9. CASE UNCHANGED vars
    BY <2>9 DEF vars
  <2> QED
    BY <2>1, <2>2, <2>3, <2>4, <2>5, <2>6, <2>7, <2>8, <2>9 DEF Next
<1> QED
  BY <1>1, <1>2, PTL DEF Spec

-----------------------------------------------------------------------------
\* How far the feeder is from its threshold. A feeder with a target of its own was
\* below it at the last run and has turned by one since; one that coasts forward is
\* not past it, and stands still one beyond it at the most.
Distance ==
  /\ target = "feed" => encoder < threshold \/ (turned /\ encoder <= threshold)
  /\ target = "unjam" => spin < 1
  /\ spin = 1 => encoder <= threshold
  /\ encoder <= threshold + 1

\* What the threshold is worth when nothing wrapped.
Worth == Sound(granted) => threshold = granted

\* RotationBudget, from the inductive invariant TypeOK /\ Distance /\ Worth, for every
\* report and every behaviour of the motor.
THEOREM RotationBudgetHolds == Spec => []RotationBudget
<1>1. Init => Distance /\ Worth
  BY DEF Init, Distance, Worth
<1>2. TypeOK /\ TypeOK' /\ Distance /\ Worth /\ [Next]_vars => Distance' /\ Worth'
  <2> SUFFICES ASSUME TypeOK, TypeOK', Distance, Worth, [Next]_vars
               PROVE  Distance' /\ Worth'
    OBVIOUS
  <2> USE DEF command, motor
  <2>1. CASE Initialize
    <3>1. Worth'
      BY <2>1, AllowanceExact DEF Initialize, Worth, TypeOK, Sound
    <3>2. Distance'
      BY <2>1 DEF Initialize, Distance, TypeOK
    <3> QED  BY <3>1, <3>2
  <2>2. CASE End
    BY <2>2 DEF End, Distance, Worth, Sound
  <2>3. CASE Run
    <3>1. Worth'
      BY <2>3 DEF Run, Worth, Sound
    <3>2. ASSUME Execute  PROVE Distance'
      <4>1. CASE Spent
        BY <2>3, <3>2, <4>1 DEF Run, Execute, Distance
      <4>2. CASE ~Spent
        <5>1. encoder < threshold
          BY <4>2 DEF Spent, TypeOK
        <5>2. target' = "unjam" => target = "unjam" \/ spin = 0
          BY <3>2, <4>2 DEF Execute
        <5>3. spin' = spin /\ encoder' = encoder /\ threshold' = threshold
          BY <2>3 DEF Run
        <5> QED  BY <5>1, <5>2, <5>3 DEF Distance, TypeOK
      <4> QED  BY <4>1, <4>2
    <3>3. ASSUME target' = "stop"  PROVE Distance'
      BY <2>3, <3>3 DEF Run, Distance
    <3> QED  BY <2>3, <3>1, <3>2, <3>3 DEF Run
  <2>4. CASE Speed
    BY <2>4 DEF Speed, Sense, MotorFrame, Distance, Worth, Sound, TypeOK
  <2>5. CASE Turn
    BY <2>5 DEF Turn, Sense, MotorFrame, Distance, Worth, Sound, TypeOK
  <2>6. CASE Stall
    BY <2>6 DEF Stall, Sense, MotorFrame, Distance, Worth, Sound, TypeOK
  <2>7. CASE Tick
    BY <2>7 DEF Tick, Distance, Worth, Sound
  <2>8. CASE Report
    BY <2>8 DEF Report, Distance, Worth, Sound
  <2>9. CASE UNCHANGED vars
    BY <2>9 DEF vars, Distance, Worth, Sound
  <2> QED
    BY <2>1, <2>2, <2>3, <2>4, <2>5, <2>6, <2>7, <2>8, <2>9 DEF Next
<1>3. TypeOK /\ Distance /\ Worth => RotationBudget
  BY DEF Distance, Worth, RotationBudget, TypeOK, Sound
<1> QED
  BY <1>1, <1>2, <1>3, TypeCorrectness, PTL DEF Spec

-----------------------------------------------------------------------------
\* A start-up delay that has not been used up has at most the time left that is
\* missing since the pull or the activation that started it.
GraceInv == running /\ ~startup.executed => startup.left + since >= GraceTime

\* GraceBeforeReverse for every duration of the two timeouts.
THEOREM GraceBeforeReverseHolds == Spec => GraceBeforeReverse
<1>1. Init => GraceInv
  BY DEF Init, GraceInv
<1>2. TypeOK /\ GraceInv /\ [Next]_vars => GraceInv'
  <2> SUFFICES ASSUME TypeOK, GraceInv, [Next]_vars  PROVE GraceInv'
    OBVIOUS
  <2> USE FeederAssumption DEF command, motor, GraceInv
  <2>1. CASE Initialize
    BY <2>1 DEF Initialize, Restart
  <2>2. CASE Run
    <3>1. CASE running /\ Execute
      <4>1. startup \in Timers /\ since \in 0 .. GraceTime
        BY DEF TypeOK
      <4>2. GraceTimer.left = GraceTime /\ Executed(startup).executed
        BY <4>1, RestartIsTimer, ExecutedIsTimer DEF GraceTimer
      <4>3. \/ startup' = GraceTimer /\ since' = 0
            \/ startup' = Executed(startup)
            \/ startup' = startup /\ since' = since
        BY <3>1 DEF Execute
      <4> QED  BY <2>2, <3>1, <4>1, <4>2, <4>3 DEF Run
    <3> QED  BY <2>2, <3>1 DEF Run
  <2>3. CASE Tick
    <3>1. startup \in Timers /\ startup.left \in Nat /\ since \in 0 .. GraceTime
      BY DEF TypeOK, Timers
    <3>2. /\ startup'.left \in Nat /\ startup'.left >= startup.left - 1
          /\ startup'.executed = startup.executed
      BY <2>3, <3>1, ElapseIsTimer DEF Tick, Timers
    <3> QED  BY <2>3, <3>1, <3>2 DEF Tick
  <2>4. CASE End
    BY <2>4 DEF End
  <2>5. CASE Speed \/ Turn \/ Stall \/ Report \/ UNCHANGED vars
    <3>1. UNCHANGED <<running, startup, since>>
      BY <2>5 DEF Speed, Turn, Stall, Report, MotorFrame, vars
    <3> QED  BY <3>1
  <2> QED  BY <2>1, <2>2, <2>3, <2>4, <2>5 DEF Next
<1>3. TypeOK /\ GraceInv /\ [Next]_vars
        => [target' = "unjam" /\ target # "unjam" => since = GraceTime]_vars
  <2> SUFFICES ASSUME TypeOK, GraceInv, Next, target' = "unjam", target # "unjam"
               PROVE  since = GraceTime
    BY DEF vars
  <2>1. running /\ Execute
    BY DEF Next, Initialize, End, Run, Speed, Turn, Stall, Tick, Report, MotorFrame,
           command
  <2>2. Due(startup)
    BY <2>1 DEF Execute
  <2> QED  BY <2>1, <2>2, FeederAssumption DEF Due, IsExpired, GraceInv, TypeOK, Timers
<1> QED
  BY <1>1, <1>2, <1>3, TypeCorrectness, PTL DEF Spec, GraceBeforeReverse
=============================================================================
