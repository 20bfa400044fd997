----------------------------- MODULE MCLicense -----------------------------
(***************************************************************************)
(* Instances of License for TLC; the .cfg files give the constants.        *)
(***************************************************************************)
EXTENDS License
===========================================================================
