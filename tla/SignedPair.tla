---------------------------- MODULE SignedPair ----------------------------
(***************************************************************************)
(* What a client of mirror/distros may count on for one distribution name: *)
(* the image and its signature are listed together or not at all, they     *)
(* belong to the same upload, and that is the upload published last.  A    *)
(* listed pair may be withdrawn for a while (a new upload moves it aside)  *)
(* and come back, but an older one never does.                             *)
(***************************************************************************)
CONSTANTS Uploads, None

VARIABLES
    shown,   \* the <<image, signature>> listSignedDistros lists, or None
    kept     \* the upload published last, or None

pairVars == <<shown, kept>>

Init == shown = None /\ kept = None

Publish(u) ==
    /\ kept' = u
    /\ shown' = <<u, u>>

Withdraw ==
    /\ shown # None
    /\ shown' = None
    /\ UNCHANGED kept

PutBack ==
    /\ shown = None /\ kept # None
    /\ shown' = <<kept, kept>>
    /\ UNCHANGED kept

Next == (\E u \in Uploads : Publish(u)) \/ Withdraw \/ PutBack

Spec == Init /\ [][Next]_pairVars
===========================================================================
