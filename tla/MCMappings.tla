----------------------------- MODULE MCMappings -----------------------------
(***************************************************************************)
(* Every kind of mapping and every option of one, on a robot made up for   *)
(* the purpose: three subsystems that the mappings contend for, keys that  *)
(* forbid, a limited number of repetitions, commands that finish.          *)
(***************************************************************************)
EXTENDS RobotControl, SequencesExt

MapReq ==
  [c \in Commands |->
     CASE c \in {"toggleA", "holdA", "pressA"}  -> {"A"}
       [] c \in {"toggleB", "repeatB", "stopB"} -> {"B"}
       [] c = "limitedC"                        -> {"C"}
       [] c = "holdBC"                          -> {"B", "C"}]

MapDefault == [s \in Subsystems |-> IF s = "B" THEN "stopB" ELSE NoCommand]

Mapping(kind, pressed, neg, cmds, ends, max) ==
  [kind |-> kind, left |-> "UNKNOWN", right |-> "UNKNOWN", pressed |-> pressed,
   neg |-> neg, cmds |-> cmds, ends |-> ends, max |-> max]

MapMappings ==
  FoldLeft(AddMap, <<>>,
    <<Mapping("toggle", {"X"}, {"Z"}, <<"toggleA", "toggleB">>, TRUE, -1),
      Mapping("holdRepeat", {"C"}, {"X"}, <<"limitedC", "repeatB">>, FALSE, 2),
      Mapping("hold", {"V"}, {"Z"}, <<"holdA", "holdBC">>, TRUE, -1),
      Mapping("press", {"B"}, {}, <<"pressA">>, TRUE, -1)>>)

MapInputs ==
  [left : {"MID"}, right : {"MID"}, pressed : SUBSET {"X", "C", "V", "B", "Z"}]

\* What the theorems about edges and about equal readings ask of a robot's tables.
ASSUME TablesAssumption == NoDetours /\ NoContention
=============================================================================
