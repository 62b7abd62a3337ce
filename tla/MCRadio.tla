------------------------------- MODULE MCRadio ------------------------------
(* Values of the constants of Radio for TLC: an artist with three songs, one *)
(* of which is another upload of a song of the second artist, or too long.   *)
(* The last song is by the second artist or by a third.  The listener asks   *)
(* for one song by name.                                                     *)
EXTENDS Radio, TLC

CONSTANTS a1, a2, a3, b, c, t1, t2
Songs == {a1, a2, a3, b, c}
By2(x) == (a1 :> "A") @@ (a2 :> "A") @@ (a3 :> "A") @@ (b :> "B") @@ (c :> x)
TwoArtists == By2("B")
ThreeArtists == By2("C")
Names == [x \in Songs |-> IF x \in {a3, b} THEN "dup" ELSE "-"]
NoneTooLong == {}
OneTooLong == {a3}
OnePick == {a1}
Tasks == {t1, t2}
(* interleave_by_artist round by round, as its loop builds the list: what     *)
(* Interleaved says of a list is what the loop can return.                    *)
RoundOrders(artists, last) ==
    {o \in SetToSeqs(artists) : Cardinality(artists) > 1 => o[1] # last}
Rounds(s) ==
    LET group == [a \in {ArtistOf[x] : x \in ToSet(s)} |->
                     SelectSeq(s, LAMBDA x : ArtistOf[x] = a)]
        after[k \in 0 .. Len(s)] ==
            IF k = 0 THEN {<<>>}
            ELSE LET some == {a \in DOMAIN group : Len(group[a]) >= k}
                     last(r) == IF r = <<>> THEN None ELSE ArtistOf[Last(r)]
                 IN  UNION {{r \o [i \in DOMAIN o |-> group[o[i]][k]] :
                                o \in RoundOrders(some, last(r))} : r \in after[k - 1]}
    IN  after[Len(s)]

ASSUME LoopIsInterleaved ==
    Lists = UNION {Rounds(s) : s \in UNION {SetToSeqs(S) : S \in SUBSET Song}}

Symmetry == Permutations(Tasks)
=============================================================================
