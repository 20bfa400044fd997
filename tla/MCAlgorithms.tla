---------------------------- MODULE MCAlgorithms ----------------------------
(***************************************************************************)
(* Instances of Algorithms for TLC; the .cfg files give the constants.     *)
(***************************************************************************)
EXTENDS Algorithms
=============================================================================
