------------------------------- MODULE MCHawkbit -----------------------------
(* What the server assigns in the runs of HawkbitClient.                     *)
EXTENDS HawkbitClient, TLC

OneImage == 1 :> "image"
VersionOfOne == 1 :> 2

(* An image and one that is refused; an empty deployment leaves as little as *)
(* the second, and "skip" is ignored like one that cannot be retrieved.      *)
TwoKinds == 1 :> "image" @@ 2 :> "invalid"
VersionsOfTwo == 1 :> 2 @@ 2 :> 3
==============================================================================
