------------------------------ MODULE MCSentry ------------------------------
(***************************************************************************)
(* The sentry (src/robots/sentry/sentry_control.cpp). matchFiring requires *)
(* feeder and shooter together; the right switch's commands require one of *)
(* them each, so they end it as a whole and free its other subsystem.      *)
(***************************************************************************)
EXTENDS RobotControl, SequencesExt

SentryReq ==
  [c \in Commands |->
     CASE c \in {"chassisToggleDrive", "matchChassis"} -> {"chassis"}
       [] c \in {"gimbalFieldRelative", "matchGimbal"} -> {"gimbal"}
       [] c = "matchFiring"                            -> {"feeder", "shooter"}
       [] c \in {"dualBarrelsFeeder", "stopFeeder"}    -> {"feeder"}
       [] c \in {"runShooter", "runShooterWithFeeder", "stopShooter"} -> {"shooter"}]

SentryDefault ==
  [s \in Subsystems |-> CASE s = "feeder"  -> "stopFeeder"
                          [] s = "shooter" -> "stopShooter"
                          [] OTHER         -> NoCommand]

Hold(left, right, cmds) ==
  [kind |-> "hold", left |-> left, right |-> right, pressed |-> {},
   neg |-> {}, cmds |-> cmds, ends |-> TRUE, max |-> -1]

leftSwitchMid  == Hold("MID", "UNKNOWN", <<"chassisToggleDrive", "gimbalFieldRelative">>)
leftSwitchUp   == Hold("UP", "UNKNOWN", <<"matchChassis", "matchGimbal", "matchFiring">>)
rightSwitchMid == Hold("UNKNOWN", "MID", <<"runShooter">>)
rightSwitchUp  == Hold("UNKNOWN", "UP", <<"dualBarrelsFeeder", "runShooterWithFeeder">>)

SentryMappings ==
  FoldLeft(AddMap, <<>>,
           <<leftSwitchMid, leftSwitchUp, rightSwitchMid, rightSwitchUp>>)

SentryInputs ==
  [left : {"UP", "DOWN", "MID"}, right : {"UP", "DOWN", "MID"}, pressed : {{}}]

\* What the theorems about edges and about equal readings ask of a robot's tables.
ASSUME TablesAssumption == NoDetours /\ NoContention
=============================================================================
