------------------------------ MODULE MCTrack ------------------------------
(* Values of the constants of Track for TLC: a quiet track with high peaks   *)
(* and a loud one.                                                           *)
EXTENDS Track, TLC

CONSTANTS t1, t2, s1, s2, s3
Tracks == {t1, t2}
Slots == {s1, s2, s3}
Lufses == t1 :> -30 @@ t2 :> -5
Peaks == t1 :> -6 @@ t2 :> 0
Companions == {"gain", "fade", "text", "sponsor", "tray"}
Symmetry == Permutations(Slots)
=============================================================================
