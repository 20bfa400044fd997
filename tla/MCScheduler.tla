---------------------------- MODULE MCScheduler ----------------------------
(***************************************************************************)
(* Instances of Scheduler for TLC; the .cfg files give the constants.      *)
(***************************************************************************)
EXTENDS Scheduler
=============================================================================
