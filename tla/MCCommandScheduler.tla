------------------------ MODULE MCCommandScheduler ------------------------
(***************************************************************************)
(* Three subsystems and five commands: 0 and 1 are the defaults of         *)
(* subsystems 0 and 1; 2 and 3 require two subsystems each and overlap on  *)
(* subsystem 1; 4 requires subsystem 2, so that adding 3 can displace two  *)
(* commands at once.  Subsystem 2 has no default; 3 and 4 may refuse       *)
(* (isReady).                                                              *)
(***************************************************************************)
EXTENDS CommandScheduler

MCReq == [c \in Commands |-> CASE c = 0 -> {0}
                               [] c = 1 -> {1}
                               [] c = 2 -> {0, 1}
                               [] c = 3 -> {1, 2}
                               [] c = 4 -> {2}]

MCDefault == [s \in Subsystems |-> IF s = 2 THEN NoCommand ELSE s]
=============================================================================
