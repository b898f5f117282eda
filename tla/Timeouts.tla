------------------------------ MODULE Timeouts ------------------------------
(***************************************************************************)
(* tap::arch::Timeout (tap/architecture/timeout.hpp) as its callers in     *)
(* this repository use it: restarted, asked whether it has expired, and    *)
(* executed, which answers once per restart.  A timer keeps what is left   *)
(* of it, in units of time its module chooses, instead of the time at      *)
(* which it expires, so that the clock needs no bound.                     *)
(***************************************************************************)
EXTENDS Naturals

Timers == [left : Nat, executed : BOOLEAN]

\* restart(t). A restart with 0 expires at once.
Restart(t) == [left |-> t, executed |-> FALSE]

\* isExpired of a timeout that was restarted.
IsExpired(timer) == timer.left = 0

\* execute() answers yes, and what it leaves behind when it does.
Due(timer) == IsExpired(timer) /\ ~timer.executed

Executed(timer) == [left |-> timer.left, executed |-> TRUE]

\* One unit of time.
Elapse(timer) ==
  [left |-> IF timer.left = 0 THEN 0 ELSE timer.left - 1, executed |-> timer.executed]

\* A timeout that was never restarted: execute() answers as if it had been asked.
NeverStarted == Executed(Restart(0))
=============================================================================
