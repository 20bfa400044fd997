--------------------------- MODULE MCVendorCache ---------------------------
(***************************************************************************)
(* Instances of VendorCache for TLC; the .cfg files give the constants.    *)
(***************************************************************************)
EXTENDS VendorCache
===========================================================================
