------------------------- MODULE MCBitdefenderProxy -------------------------
(***************************************************************************)
(* Instances of BitdefenderProxy for TLC; the .cfg files give the constants.*)
(***************************************************************************)
EXTENDS BitdefenderProxy, TLC

\* Requests do not differ from each other, nor do clean-up runs.
Symmetry == Permutations(Requests) \cup Permutations(Cleaners)
=============================================================================
