------------------------- MODULE SubsystemOwnership -------------------------
(***************************************************************************)
(* What the CommandScheduler promises (the class comment of                *)
(* command_scheduler.hpp): a map from subsystems to the command that       *)
(* controls each.  A command gets all the subsystems it requires at once,  *)
(* and a command that loses one of its subsystems loses every one.  Runs,  *)
(* callbacks, bitmaps and iterators are not visible here.                  *)
(***************************************************************************)
CONSTANTS Commands, Subsystems, Req, Free

VARIABLE owner   (* the command in control of each subsystem, or Free      *)

Owners == [Subsystems -> Commands \cup {Free}]

\* The commands that must go before c can have its subsystems.
Rivals(c) == {owner[s] : s \in Req[c]}

Take(c) ==
  /\ Req[c] # {}
  /\ owner' = [s \in Subsystems |->
                 IF s \in Req[c] THEN c
                 ELSE IF owner[s] \in Rivals(c) THEN Free ELSE owner[s]]

Release(c) ==
  owner' = [s \in Subsystems |-> IF owner[s] = c THEN Free ELSE owner[s]]

ReleaseAll == owner' = [s \in Subsystems |-> Free]

Init == owner = [s \in Subsystems |-> Free]

Next ==
  \/ \E c \in Commands : Take(c) \/ Release(c)
  \/ ReleaseAll

Spec == Init /\ [][Next]_owner

-----------------------------------------------------------------------------
\* A command in control of one of its subsystems controls all of them, and no
\* subsystem it does not require.
AllOrNothing ==
  \A s \in Subsystems :
    owner[s] # Free => /\ s \in Req[owner[s]]
                       /\ \A t \in Req[owner[s]] : owner[t] = owner[s]
=============================================================================
