---------------------------- MODULE MCFeederHeat ----------------------------
(***************************************************************************)
(* The feeder of the sentry: a buffer of one projectile of 10 heat each,   *)
(* and reports that leave two, one and no projectile, none for the buffer, *)
(* and a barrel above its limit.                                           *)
(***************************************************************************)
EXTENDS FeederHeat

MCReports == {[heat |-> h, limit |-> 40] : h \in {10, 20, 30, 35, 45}}
=============================================================================
