-------------------------- MODULE MCDistroPublish --------------------------
(***************************************************************************)
(* Instances of DistroPublish for TLC; the .cfg files give the constants.  *)
(***************************************************************************)
EXTENDS DistroPublish, TLC
===========================================================================
