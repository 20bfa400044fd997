-------------------------- MODULE MCShieldMatrix --------------------------
(***************************************************************************)
(* Instances of ShieldMatrix for TLC; the .cfg files give the constants.   *)
(***************************************************************************)
EXTENDS ShieldMatrix, TLC

\* Requests of the same route are interchangeable (safety runs only).
RequestSymmetry == Permutations(Canonical) \cup Permutations(Legacy)
===========================================================================
