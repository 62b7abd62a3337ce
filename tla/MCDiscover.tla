------------------------------ MODULE MCDiscover ----------------------------
(* Values of the constants of Discover for TLC: two artists that share a     *)
(* genre, each with a song; the listener has a favourite.                    *)
EXTENDS Discover, TLC

CONSTANTS a1, a2, v1, v2, t1, t2
Artists == {a1, a2}
Genres == {"g1", "g2"}
Videos == {v1, v2}
Songs == (v1 :> a1) @@ (v2 :> a2)
Tags == (a1 :> {"g1"}) @@ (a2 :> {"g1", "g2"})
Favourites == {v1}
OnDisk == {v1}
CatalogueVideos == {v2}
Found == {v1, v2}
PhraseFound == {v2}
Tasks == {t1, t2}
Symmetry == Permutations(Tasks)
=============================================================================
