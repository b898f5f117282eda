----------------------------- MODULE MCStandard -----------------------------
(***************************************************************************)
(* The standard robot (src/robots/standard/standard_control.cpp): its      *)
(* subsystems, the commands that reach the scheduler, its mappings in the  *)
(* order of registerIOMappings, defaults and start-up commands.            *)
(***************************************************************************)
EXTENDS RobotControl, SequencesExt

StandardReq ==
  [c \in Commands |->
     CASE c \in {"chassisTokyo", "chassisToggleDrive"} -> {"chassis"}
       [] c \in {"gimbalChase2", "gimbalToggleAim"}    -> {"gimbal"}
       [] c \in {"runFeeder", "runFeederFromMouse", "stopFeeder"} -> {"feeder"}
       [] c \in {"runShooter", "runShooterWithFeeder", "stopShooter"} -> {"shooter"}
       [] c \in {"openHopper", "closeHopper2", "toggleHopper"} -> {"hopper"}
       [] c = "clientDisplay" -> {"clientDisplay"}]

StandardDefault ==
  [s \in Subsystems |-> CASE s = "feeder"  -> "stopFeeder"
                          [] s = "shooter" -> "stopShooter"
                          [] OTHER         -> NoCommand]

Hold(left, right, pressed, cmds) ==
  [kind |-> "hold", left |-> left, right |-> right, pressed |-> pressed,
   neg |-> {}, cmds |-> cmds, ends |-> TRUE, max |-> -1]

leftSwitchUp   == Hold("UP", "UNKNOWN", {}, <<"chassisTokyo", "gimbalChase2">>)
leftSwitchMid  == Hold("MID", "UNKNOWN", {}, <<"chassisToggleDrive", "gimbalToggleAim">>)
rightSwitchUp  == [Hold("UNKNOWN", "UP", {},
                        <<"runFeeder", "runShooterWithFeeder", "closeHopper2">>)
                     EXCEPT !.kind = "holdRepeat"]
rightSwitchMid == Hold("UNKNOWN", "MID", {}, <<"runShooter", "toggleHopper">>)
rightSwitchDown == Hold("UNKNOWN", "DOWN", {}, <<"openHopper">>)
leftClickMouse == Hold("UNKNOWN", "UNKNOWN", {"mouseLeft"}, <<"runFeederFromMouse">>)
bCtrlPressed   == [Hold("UNKNOWN", "UNKNOWN", {"CTRL", "B"}, <<"clientDisplay">>)
                     EXCEPT !.kind = "press"]

StandardMappings ==
  FoldLeft(AddMap, <<>>,
           <<leftSwitchUp, leftSwitchMid, rightSwitchUp, rightSwitchMid,
             rightSwitchDown, leftClickMouse, bCtrlPressed, bCtrlPressed>>)

\* Every position of both switches; the two mapped buttons one at a time (no
\* command of the one shares a subsystem with the other).
StandardInputs ==
  [left : {"UP", "DOWN", "MID"}, right : {"UP", "DOWN", "MID"},
   pressed : {{}, {"mouseLeft"}, {"CTRL", "B"}}]

\* What the theorems about edges and about equal readings ask of a robot's tables.
ASSUME TablesAssumption == NoDetours /\ NoContention
=============================================================================
