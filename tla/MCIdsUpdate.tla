---------------------------- MODULE MCIdsUpdate ----------------------------
(***************************************************************************)
(* Instances of IdsUpdate for TLC; the .cfg files give the constants.      *)
(***************************************************************************)
EXTENDS IdsUpdate

\* GeoIP and the kind with the Snort template, in a run's order.
GeoAndSnort == <<"4", "5">>
\* A kind with a signature and no template, for overlapping runs.
OnlySigned == <<"1">>
===========================================================================
