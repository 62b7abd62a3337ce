----------------------------- MODULE RadioProofs -----------------------------
(***************************************************************************)
(* Proofs about Radio: what a batch is made of, that every radio queue and *)
(* every standby list stays varied, and who holds _fetch_lock.             *)
(***************************************************************************)
EXTENDS Radio, FiniteSetTheorems, FunctionTheorems, SequenceTheorems,
        WellFoundedInduction, TLAPS

(* A list that names no song and no title twice and keeps the quota.        *)
Varied(s) ==
    /\ s \in Seq(Song)
    /\ \A i, j \in DOMAIN s : i # j =>
          s[i] # s[j] /\ (TitleOf[s[i]] = TitleOf[s[j]] => TitleOf[s[i]] = NoTitle)
    /\ \A x \in Song : CountBy(ArtistOf[x], s) <= MaxPerArtist

(* What a task may hold.                                                    *)
Slot == [pc : Pcs, own : BOOLEAN, seen : SUBSET Song, song : Song \cup {None}, then : Then]

RadioInv == TypeOK /\ Varied(queue) /\ Varied(standby) /\ Interleaved(standby)

-----------------------------------------------------------------------------
(* A set of numbers that is not empty has a smallest one.                   *)
LEMMA HasASmallest ==
    ASSUME NEW U \in SUBSET Nat, U # {}
    PROVE  \E k \in U : \A l \in U : k <= l
<1> DEFINE R == StrictSubsetOrdering(Nat)
           T == {A \in FiniteSubsetsOf(Nat) : \E m \in U : A = 0 .. m - 1}
<1>1. \A m \in Nat : 0 .. m - 1 \in FiniteSubsetsOf(Nat)
  BY FS_Interval DEF FiniteSubsetsOf
<1>2. T \subseteq FiniteSubsetsOf(Nat) /\ T # {}
  BY <1>1
<1>3. IsWellFoundedOn(R, FiniteSubsetsOf(Nat))
  BY FS_StrictSubsetOrderingWellFounded
<1>4. PICK A \in T : \A B \in T : <<B, A>> \notin R
  <2> HIDE DEF R, T
  <2> QED BY <1>2, <1>3, WFMin
<1>5. PICK m \in U : A = 0 .. m - 1
  BY <1>4
<1>6. ASSUME NEW l \in U, l < m PROVE FALSE
  <2>1. 0 .. l - 1 \in T
    BY <1>1
  <2>2. <<0 .. l - 1, A>> \in R
    BY <1>5, <1>6 DEF StrictSubsetOrdering
  <2> QED BY <1>4, <2>1, <2>2
<1> QED BY <1>6

-----------------------------------------------------------------------------
(* Lists                                                                    *)

(* The places of an artist in a list are finitely many.                     *)
LEMMA CountIs ==
    ASSUME NEW s \in Seq(Song), NEW a
    PROVE  /\ IsFiniteSet({i \in DOMAIN s : ArtistOf[s[i]] = a})
           /\ CountBy(a, s) \in Nat
<1> DEFINE P == {i \in DOMAIN s : ArtistOf[s[i]] = a}
<1>1. DOMAIN s = 1 .. Len(s) /\ Len(s) \in Nat
  BY LenProperties
<1>2. IsFiniteSet(1 .. Len(s)) /\ P \in SUBSET (1 .. Len(s))
  BY <1>1, FS_Interval
<1> HIDE DEF P
<1>3. IsFiniteSet(P) /\ Cardinality(P) \in Nat
  BY <1>2, FS_Subset, FS_CardinalityType
<1> QED BY <1>3 DEF CountBy, P

(* A stretch of a varied list is varied.                                    *)
LEMMA StretchIsVaried ==
    ASSUME NEW s, Varied(s), NEW t \in Seq(Song), NEW d \in Nat, Len(t) + d <= Len(s),
           \A i \in 1 .. Len(t) : t[i] = s[d + i]
    PROVE  Varied(t)
<1>1. /\ s \in Seq(Song) /\ DOMAIN s = 1 .. Len(s) /\ Len(s) \in Nat
      /\ DOMAIN t = 1 .. Len(t) /\ Len(t) \in Nat
  BY LenProperties DEF Varied
<1>2. \A i \in DOMAIN t : d + i \in DOMAIN s
  BY <1>1
<1>3. ASSUME NEW i \in DOMAIN t, NEW j \in DOMAIN t, i # j
      PROVE  t[i] # t[j] /\ (TitleOf[t[i]] = TitleOf[t[j]] => TitleOf[t[i]] = NoTitle)
  <2>1. d + i \in DOMAIN s /\ d + j \in DOMAIN s /\ d + i # d + j
    BY <1>1, <1>2, <1>3
  <2>2. t[i] = s[d + i] /\ t[j] = s[d + j]
    BY <1>1
  <2> QED BY <2>1, <2>2 DEF Varied
<1>4. ASSUME NEW x \in Song PROVE CountBy(ArtistOf[x], t) <= MaxPerArtist
  <2> DEFINE a == ArtistOf[x]
             P == {i \in DOMAIN t : ArtistOf[t[i]] = a}
             Q == {i \in DOMAIN s : ArtistOf[s[i]] = a}
             f == [i \in P |-> d + i]
  <2>1. /\ \A i \in P : i \in Int /\ f[i] \in Q
        /\ f \in [P -> Q]
    BY <1>1, <1>2
  <2>2. \A i, j \in P : f[i] = f[j] => i = j
    BY <2>1
  <2>3. f \in Injection(P, Q)
    <3>1. DOMAIN f = P
      OBVIOUS
    <3> HIDE DEF f, P, Q
    <3> QED BY <2>1, <2>2, <3>1 DEF Injection, IsInjective
  <2>4. IsFiniteSet(Q) /\ Cardinality(P) = CountBy(a, t) /\ Cardinality(Q) = CountBy(a, s)
    BY <1>1, CountIs DEF CountBy
  <2>5. CountBy(a, s) <= MaxPerArtist /\ CountBy(a, s) \in Nat /\ CountBy(a, t) \in Nat
    BY <1>1, CountIs DEF Varied
  <2>6. CountBy(a, t) <= CountBy(a, s)
    <3> HIDE DEF f, P, Q
    <3> QED BY <2>3, <2>4, FS_Injection
  <2> QED BY <2>5, <2>6, RadioAssumption
<1> QED BY <1>3, <1>4 DEF Varied

LEMMA TailIsVaried ==
    ASSUME NEW s, Varied(s), s # <<>>
    PROVE  Varied(Tail(s)) /\ Tail(s) \in Seq(Song) /\ Head(s) \in Song
<1>1. s \in Seq(Song) /\ Len(s) \in Nat
  BY LenProperties DEF Varied
<1>2. /\ Tail(s) \in Seq(Song) /\ Len(Tail(s)) = Len(s) - 1 /\ Head(s) \in Song
      /\ \A i \in 1 .. Len(Tail(s)) : Tail(s)[i] = s[1 + i]
  BY <1>1, HeadTailProperties
<1> DEFINE t == Tail(s)
<1>3. /\ t \in Seq(Song) /\ 1 \in Nat /\ Len(t) + 1 <= Len(s)
      /\ \A i \in 1 .. Len(t) : t[i] = s[1 + i]
  BY <1>1, <1>2
<1> HIDE DEF t
<1>4. Varied(t)
  BY <1>3, StretchIsVaried
<1> QED BY <1>2, <1>4 DEF t

LEMMA NothingIsVaried == Varied(<<>>) /\ Interleaved(<<>>)
<1>1. <<>> \in Seq(Song) /\ DOMAIN <<>> = {} /\ Len(<<>>) = 0
  OBVIOUS
<1>2. ASSUME NEW x \in Song PROVE CountBy(ArtistOf[x], <<>>) <= MaxPerArtist
  <2>1. {i \in DOMAIN <<>> : ArtistOf[(<<>>)[i]] = ArtistOf[x]} = {}
    BY <1>1
  <2>2. CountBy(ArtistOf[x], <<>>) = 0
    BY <2>1, FS_EmptySet DEF CountBy
  <2> QED BY <2>2, RadioAssumption
<1> QED BY <1>1, <1>2 DEF Varied, Interleaved

-----------------------------------------------------------------------------
(* Batches                                                                  *)

(* A batch names songs the filter let through, each of them once, and the   *)
(* interleaver has put them in order.                                       *)
LEMMA BatchIs ==
    ASSUME NEW n, NEW seen, NEW b \in Batches(n, seen)
    PROVE  /\ b \in Seq(Song) /\ \A i, j \in DOMAIN b : i # j => b[i] # b[j]
           /\ Interleaved(b) /\ FilterTracks(ToSet(b))
<1>1. b \in Lists /\ FilterTracks(ToSet(b))
  BY DEF Batches
<1>2. PICK S \in SUBSET Song : b \in SetToSeqs(S)
  BY <1>1 DEF Lists
<1>3. /\ b \in [1 .. Cardinality(S) -> S]
      /\ \A i, j \in 1 .. Cardinality(S) : i # j => b[i] # b[j]
  BY <1>2 DEF SetToSeqs
<1>4. IsFiniteSet(S) /\ Cardinality(S) \in Nat
  BY RadioAssumption, FS_Subset, FS_CardinalityType
<1>5. b \in Seq(Song)
  BY <1>3, <1>4, SeqDef
<1> QED BY <1>1, <1>3, <1>5 DEF Lists

(* What the filter lets through can follow the queue: no song, no title     *)
(* comes again, and no artist comes too often.                              *)
LEMMA BatchFits ==
    ASSUME Varied(queue), NEW b \in Seq(Song), FilterTracks(ToSet(b)),
           \A i, j \in DOMAIN b : i # j => b[i] # b[j]
    PROVE  Varied(queue \o b) /\ Varied(b)
<1> DEFINE q == queue
           m == Len(q)
           n == Len(b)
           all == q \o b
<1>1. /\ q \in Seq(Song) /\ m \in Nat /\ DOMAIN q = 1 .. m
      /\ n \in Nat /\ DOMAIN b = 1 .. n
  BY LenProperties DEF Varied
<1>2. /\ all \in Seq(Song) /\ Len(all) = m + n
      /\ \A i \in 1 .. m + n : all[i] = IF i <= m THEN q[i] ELSE b[i - m]
  BY <1>1, ConcatProperties
<1>3. DOMAIN all = 1 .. m + n
  <2> HIDE DEF all
  <2> QED BY <1>2, LenProperties
<1>4. /\ \A i \in 1 .. m : all[i] = q[i] /\ all[i] \in ToSet(queue)
      /\ \A i \in 1 .. n : all[m + i] = b[i] /\ all[m + i] \in ToSet(b)
      /\ \A i \in 1 .. m + n : i \notin 1 .. m => i - m \in 1 .. n /\ i = m + (i - m)
  <2>1. \A i \in 1 .. m : i \in 1 .. m + n /\ i <= m
    BY <1>1
  <2>2. \A i \in 1 .. n : m + i \in 1 .. m + n /\ ~(m + i <= m) /\ (m + i) - m = i
    BY <1>1
  <2>3. \A i \in 1 .. m + n : i \notin 1 .. m => i - m \in 1 .. n /\ i = m + (i - m)
    BY <1>1
  <2>4. /\ \A i \in 1 .. m : q[i] \in ToSet(queue)
        /\ \A i \in 1 .. n : b[i] \in ToSet(b)
    BY <1>1 DEF ToSet
  <2> HIDE DEF all, m, n
  <2> QED BY <1>2, <2>1, <2>2, <2>3, <2>4
<1> HIDE DEF all, m, n
<1>5. /\ \A x \in ToSet(b) : x \notin ToSet(queue)
      /\ \A x \in ToSet(b), y \in ToSet(queue) : TitleOf[x] = TitleOf[y] => TitleOf[x] = NoTitle
      /\ \A x, y \in ToSet(b) : x # y /\ TitleOf[x] = TitleOf[y] => TitleOf[x] = NoTitle
      /\ \A x \in ToSet(b) : CountBy(ArtistOf[x], queue) + OfArtist(x, ToSet(b)) <= MaxPerArtist
  BY DEF FilterTracks, Titles
<1>6. ASSUME NEW i \in DOMAIN all, NEW j \in DOMAIN all, i # j
      PROVE  all[i] # all[j] /\ (TitleOf[all[i]] = TitleOf[all[j]] => TitleOf[all[i]] = NoTitle)
  <2>1. CASE i \in 1 .. m /\ j \in 1 .. m
    BY <1>1, <1>4, <1>6, <2>1 DEF Varied
  <2>2. CASE i \in 1 .. m /\ j \notin 1 .. m
    <3>1. all[i] \in ToSet(queue) /\ all[j] \in ToSet(b)
      BY <1>3, <1>4, <2>2
    <3> QED BY <3>1, <1>5
  <2>3. CASE i \notin 1 .. m /\ j \in 1 .. m
    <3>1. all[j] \in ToSet(queue) /\ all[i] \in ToSet(b)
      BY <1>3, <1>4, <2>3
    <3> QED BY <3>1, <1>5
  <2>4. CASE i \notin 1 .. m /\ j \notin 1 .. m
    <3>1. /\ i - m \in DOMAIN b /\ j - m \in DOMAIN b /\ i - m # j - m
          /\ all[i] = b[i - m] /\ all[j] = b[j - m]
          /\ all[i] \in ToSet(b) /\ all[j] \in ToSet(b)
      BY <1>1, <1>3, <1>4, <1>6, <2>4
    <3>2. all[i] # all[j]
      BY <3>1
    <3> QED BY <3>1, <3>2, <1>5
  <2> QED BY <2>1, <2>2, <2>3, <2>4
<1>7. ASSUME NEW x \in Song PROVE CountBy(ArtistOf[x], all) <= MaxPerArtist
  <2> DEFINE a  == ArtistOf[x]
             P  == {i \in DOMAIN all : ArtistOf[all[i]] = a}
             P1 == {i \in DOMAIN q : ArtistOf[q[i]] = a}
             P2 == {i \in DOMAIN b : ArtistOf[b[i]] = a}
             Y  == {y \in ToSet(b) : ArtistOf[y] = a}
             R  == P \ P1
             f  == [i \in R |-> all[i]]
  <2>1. /\ IsFiniteSet(P) /\ IsFiniteSet(P1) /\ Cardinality(P) = CountBy(a, all)
        /\ Cardinality(P1) = CountBy(a, q)
        /\ CountBy(a, all) \in Nat /\ CountBy(a, q) \in Nat /\ CountBy(a, q) <= MaxPerArtist
    <3>1. IsFiniteSet(P) /\ CountBy(a, all) \in Nat
      BY <1>2, CountIs
    <3>2. IsFiniteSet(P1) /\ CountBy(a, q) \in Nat
      BY <1>1, CountIs
    <3> QED BY <3>1, <3>2 DEF CountBy, Varied
  <2>2. P1 \in SUBSET P
    BY <1>1, <1>3, <1>4
  <2>3. \A i \in R : all[i] \in Y /\ i \in 1 .. m + n /\ i \notin 1 .. m
    <3>1. \A i \in R : i \in 1 .. m + n /\ i \notin 1 .. m
      BY <1>1, <1>3, <1>4
    <3>2. \A i \in R : ArtistOf[all[i]] = a
      OBVIOUS
    <3> HIDE DEF R
    <3> QED BY <1>4, <3>1, <3>2
  <2>4. f \in Injection(R, Y)
    <3>1. f \in [R -> Y] /\ DOMAIN f = R
      BY <2>3
    <3>2. R \in SUBSET DOMAIN all /\ \A i \in R : f[i] = all[i]
      OBVIOUS
    <3>3. \A i, j \in R : f[i] = f[j] => i = j
      <4> HIDE DEF R, f
      <4> QED BY <1>6, <3>2
    <3> HIDE DEF f, R, Y
    <3> QED BY <3>1, <3>3 DEF Injection, IsInjective
  <2>5. IsFiniteSet(Y) /\ Y \in SUBSET Song
    <3>1. Y \in SUBSET Song
      BY <1>1, LenProperties, ElementOfSeq DEF ToSet
    <3> HIDE DEF Y
    <3> QED BY <3>1, RadioAssumption, FS_Subset
  <2>6. /\ IsFiniteSet(R) /\ Cardinality(R) \in Nat /\ Cardinality(Y) \in Nat
        /\ Cardinality(R) <= Cardinality(Y)
    <3> HIDE DEF f, R, Y
    <3> QED BY <2>4, <2>5, FS_Injection, FS_CardinalityType
  <2>7. Cardinality(P) = Cardinality(P1) + Cardinality(R)
    <3>1. P = P1 \cup R /\ P1 \cap R = {}
      BY <2>2
    <3>2. Cardinality({}) = 0
      BY FS_EmptySet
    <3> HIDE DEF P, P1, R
    <3>3. Cardinality(P1 \cup R) = Cardinality(P1) + Cardinality(R) - Cardinality(P1 \cap R)
      BY <2>1, <2>6, FS_Union
    <3>4. Cardinality(P1 \cap R) = 0
      BY <3>1, <3>2
    <3>5. Cardinality(P1) \in Nat /\ Cardinality(R) \in Nat
      BY <2>1, <2>6
    <3>6. Cardinality(P1 \cup R) = Cardinality(P1) + Cardinality(R)
      BY <3>3, <3>4, <3>5
    <3> QED BY <3>1, <3>6
  <2>8. CASE R = {}
    <3>1. Cardinality(R) = 0
      BY <2>8, FS_EmptySet
    <3> HIDE DEF P, P1, R
    <3> QED BY <2>1, <2>7, <3>1
  <2>9. CASE R # {}
    <3>1. PICK y \in Y : TRUE
      BY <2>3, <2>9
    <3>2. ArtistOf[y] = a /\ y \in ToSet(b)
      BY <3>1
    <3>3. OfArtist(y, ToSet(b)) = Cardinality(Y)
      BY <3>2 DEF OfArtist
    <3>4. CountBy(a, q) + Cardinality(Y) <= MaxPerArtist
      <4> HIDE DEF Y
      <4> QED BY <1>5, <3>2, <3>3
    <3> HIDE DEF P, P1, R, Y
    <3> QED BY <2>1, <2>6, <2>7, <3>4, RadioAssumption
  <2> QED BY <2>8, <2>9
<1>8. Varied(all)
  BY <1>2, <1>6, <1>7 DEF Varied
<1>9. Varied(b)
  <2>1. /\ Len(b) + m <= Len(all) /\ m \in Nat
        /\ \A i \in 1 .. Len(b) : b[i] = all[m + i]
    BY <1>1, <1>2, <1>4 DEF n
  <2> QED BY <1>8, <2>1, StretchIsVaried
<1> QED BY <1>8, <1>9 DEF all

(* The artist of the i-th song has had a song in every round before.        *)
LEMMA RoundsReached ==
    ASSUME NEW s \in Seq(Song), NEW i \in 1 .. Len(s)
    PROVE  /\ RoundOf(s, i) \in Nat /\ RoundOf(s, i) # 0
           /\ \A r \in 1 .. RoundOf(s, i) : \E j \in 1 .. i :
                 ArtistOf[s[j]] = ArtistOf[s[i]] /\ RoundOf(s, j) = r
<1> DEFINE Upto(j) == {k \in 1 .. j : ArtistOf[s[k]] = ArtistOf[s[j]]}
           P == Upto(i)
           T == 1 .. Cardinality(P)
           f == [j \in P |-> RoundOf(s, j)]
<1>1. i \in Nat /\ i >= 1 /\ P \in SUBSET (1 .. i) /\ i \in P
  BY LenProperties
<1>2. ASSUME NEW j \in P
      PROVE  IsFiniteSet(Upto(j)) /\ Cardinality(Upto(j)) \in Nat /\ j \in Upto(j)
  <2>1. IsFiniteSet(1 .. j) /\ Upto(j) \in SUBSET (1 .. j) /\ j \in Upto(j)
    <3>1. j \in Int /\ j >= 1 /\ 1 \in Int
      BY <1>1
    <3>2. IsFiniteSet(1 .. j)
      BY <3>1, FS_Interval
    <3> QED BY <3>1, <3>2
  <2> HIDE DEF Upto, P
  <2> QED BY <2>1, FS_Subset, FS_CardinalityType
<1>3. IsFiniteSet(P) /\ Cardinality(P) \in Nat
  BY <1>1, <1>2
<1>4. ASSUME NEW j \in P PROVE RoundOf(s, j) \in T
  <2>1. Upto(j) \in SUBSET P
    BY <1>1
  <2>2. Upto(j) # {} /\ RoundOf(s, j) = Cardinality(Upto(j))
    BY <1>2 DEF RoundOf
  <2> HIDE DEF Upto, P
  <2>3. Cardinality(Upto(j)) <= Cardinality(P) /\ Cardinality(Upto(j)) # 0
    BY <1>2, <1>3, <2>1, <2>2, FS_Subset, FS_EmptySet
  <2> QED BY <1>2, <1>3, <2>2, <2>3
<1>5. ASSUME NEW j \in P, NEW k \in P, j < k PROVE RoundOf(s, j) < RoundOf(s, k)
  <2>1. Upto(j) \in SUBSET Upto(k) /\ k \in Upto(k) /\ k \notin Upto(j)
    BY <1>1, <1>5
  <2>2. /\ RoundOf(s, j) = Cardinality(Upto(j)) /\ RoundOf(s, k) = Cardinality(Upto(k))
    BY DEF RoundOf
  <2> HIDE DEF Upto, P
  <2>3. Upto(j) # Upto(k)
    BY <2>1
  <2>4. /\ Cardinality(Upto(j)) <= Cardinality(Upto(k))
        /\ Cardinality(Upto(j)) # Cardinality(Upto(k))
    BY <1>2, <2>1, <2>3, FS_Subset
  <2> QED BY <1>2, <2>2, <2>4
<1>6. f \in Injection(P, T)
  <2>1. \A j, k \in P : RoundOf(s, j) = RoundOf(s, k) => j = k
    <3>1. \A j \in P : RoundOf(s, j) \in Nat /\ j \in Nat
      <4> HIDE DEF P, Upto
      <4> QED BY <1>1, <1>3, <1>4
    <3> HIDE DEF P
    <3> QED BY <1>5, <3>1
  <2>2. f \in [P -> T] /\ DOMAIN f = P
    BY <1>4
  <2>3. \A j \in P : f[j] = RoundOf(s, j)
    OBVIOUS
  <2> HIDE DEF f, P, T
  <2> QED BY <2>1, <2>2, <2>3 DEF Injection, IsInjective
<1>7. f \in Surjection(P, T)
  <2>1. IsFiniteSet(T) /\ Cardinality(T) = Cardinality(P)
    <3> HIDE DEF P
    <3> QED BY <1>3, FS_Interval
  <2> HIDE DEF f, P, T
  <2> QED BY <1>6, <2>1, FS_Injection
<1>8. RoundOf(s, i) = Cardinality(P) /\ RoundOf(s, i) \in T
  BY <1>1, <1>4 DEF RoundOf
<1>9. ASSUME NEW r \in T
      PROVE  \E j \in 1 .. i : ArtistOf[s[j]] = ArtistOf[s[i]] /\ RoundOf(s, j) = r
  <2>1. PICK j \in P : f[j] = r
    <3> HIDE DEF f, P, T
    <3> QED BY <1>7, <1>9 DEF Surjection
  <2> QED BY <2>1
<1> QED BY <1>3, <1>8, <1>9

(* Where two songs of one artist follow each other, only songs of that      *)
(* artist follow.                                                           *)
LEMMA AdjacentAtTheEnd ==
    ASSUME NEW s \in Seq(Song), Interleaved(s),
           NEW i \in 2 .. Len(s), ArtistOf[s[i]] = ArtistOf[s[i - 1]],
           NEW j \in i .. Len(s)
    PROVE  ArtistOf[s[j]] = ArtistOf[s[i]]
<1>1. Len(s) \in Nat /\ DOMAIN s = 1 .. Len(s) /\ i \in 1 .. Len(s) /\ j \in 1 .. Len(s)
  BY LenProperties
<1>2. \A k \in DOMAIN s : RoundOf(s, k) = RoundOf(s, i) => ArtistOf[s[k]] = ArtistOf[s[i]]
  BY DEF Interleaved
<1>3. \A k \in 1 .. Len(s) : RoundOf(s, k) \in Nat /\ RoundOf(s, k) # 0
  BY RoundsReached
<1>4. RoundOf(s, i) <= RoundOf(s, j)
  <2> DEFINE U == {k \in i .. Len(s) : RoundOf(s, k) < RoundOf(s, i)}
  <2>1. ASSUME U # {} PROVE FALSE
    <3>1. PICK k \in U : \A l \in U : k <= l
      <4>1. U \in SUBSET Nat /\ \A l \in U : l \in Nat
        BY <1>1
      <4> HIDE DEF U
      <4> QED BY <2>1, <4>1, HasASmallest
    <3>2. k \in 2 .. Len(s) /\ k # i /\ k - 1 \in i .. Len(s) /\ k - 1 \notin U
      BY <1>1, <1>3, <3>1
    <3>3. RoundOf(s, k - 1) <= RoundOf(s, k)
      BY <3>2 DEF Interleaved
    <3>4. RoundOf(s, k) < RoundOf(s, i) /\ ~(RoundOf(s, k - 1) < RoundOf(s, i))
      BY <3>1, <3>2
    <3>5. RoundOf(s, k) \in Nat /\ RoundOf(s, i) \in Nat /\ RoundOf(s, k - 1) \in Nat
      BY <1>1, <1>3, <3>2
    <3> QED BY <3>3, <3>4, <3>5
  <2>2. ~(RoundOf(s, j) < RoundOf(s, i))
    BY <2>1
  <2> QED BY <1>1, <1>3, <2>2
<1>5. PICK k \in 1 .. j : ArtistOf[s[k]] = ArtistOf[s[j]] /\ RoundOf(s, k) = RoundOf(s, i)
  <2>1. RoundOf(s, i) \in 1 .. RoundOf(s, j)
    BY <1>1, <1>3, <1>4
  <2>2. \A r \in 1 .. RoundOf(s, j) : \E k \in 1 .. j :
          ArtistOf[s[k]] = ArtistOf[s[j]] /\ RoundOf(s, k) = r
    BY <1>1, RoundsReached
  <2> QED BY <2>1, <2>2
<1> QED BY <1>1, <1>2, <1>5


-----------------------------------------------------------------------------
(* The tasks                                                                *)

Gathers(pc) == pc = "fill" \/ pc = "gather"

LEMMA OffIs ==
    /\ Off \in Slot /\ ~Gathers(Off.pc)
    /\ \A pc \in Pcs, own \in BOOLEAN : /\ [Off EXCEPT !.pc = pc, !.own = own] \in Slot
                                        /\ [Off EXCEPT !.pc = pc] \in Slot
                                        /\ [Off EXCEPT !.pc = pc].pc = pc
                                        /\ [Off EXCEPT !.pc = pc, !.own = own].pc = pc
BY DEF Off, Slot, Pcs, Then, Gathers

(* What is typed, task by task.                                             *)
LEMMA TypeIs ==
    ASSUME TypeOK
    PROVE  /\ radioOn \in BOOLEAN /\ cmds \in 0 .. MaxCmds
           /\ queue \in Seq(Song) /\ standby \in Seq(Song) /\ history \in Seq(Song)
           /\ current \in Song \cup {None} /\ fetchLock \in Task \cup {None}
           /\ task \in [Task -> Slot] /\ ExclusionSet \in SUBSET Song
           /\ \A t \in Task : Gathers(task[t].pc) <=> fetchLock = t
<1>1. ToSet(queue) \subseteq Song /\ ToSet(history) \subseteq Song
  BY LenProperties, ElementOfSeq DEF TypeOK, ToSet
<1>2. Newest \subseteq ToSet(history)
  BY DEF Newest, ToSet
<1> QED BY <1>1, <1>2 DEF TypeOK, Slot, Gathers, At, ExclusionSet

(* One task goes on: it may take the lock or let it go.                     *)
LEMMA TaskMoves ==
    ASSUME TypeOK, NEW t \in Task, NEW r \in Slot, task' = [task EXCEPT ![t] = r],
           fetchLock' \in Task \cup {None}, Gathers(r.pc) <=> fetchLock' = t,
           \A u \in Task \ {t} : fetchLock' = u <=> fetchLock = u,
           radioOn' \in BOOLEAN, cmds' \in 0 .. MaxCmds,
           queue' \in Seq(Song), standby' \in Seq(Song), history' \in Seq(Song),
           current' \in Song \cup {None}
    PROVE  TypeOK'
<1>1. task' \in [Task -> Slot] /\ task'[t] = r /\ \A u \in Task \ {t} : task'[u] = task[u]
  BY TypeIs
<1>2. ASSUME NEW u \in Task PROVE Gathers(task'[u].pc) <=> fetchLock' = u
  BY <1>1, TypeIs
<1> QED BY <1>1, <1>2 DEF TypeOK, Slot, Gathers, At

LEMMA PlayingIs ==
    ASSUME TypeOK, NEW t \in Task, NEW b \in Seq(Song), b # <<>>, NEW then \in Then
    PROVE  /\ [task[t] EXCEPT !.pc = "play", !.seen = {}, !.song = Head(b), !.then = then] \in Slot
           /\ Tail(b) \in Seq(Song)
<1>1. task[t] \in Slot /\ Head(b) \in Song /\ Tail(b) \in Seq(Song)
  BY TypeIs, HeadTailProperties
<1> QED BY <1>1 DEF Slot, Pcs

LEMMA NowPlayingIs ==
    ASSUME TypeOK, NEW x, NowPlaying(x)
    PROVE  history' \in Seq(Song) /\ current' = x
<1>1. /\ history \in Seq(Song) /\ current \in Song \cup {None}
  BY TypeIs
<1>2. CASE current = None
  BY <1>1, <1>2 DEF NowPlaying
<1>3. CASE current # None
  <2> DEFINE h == Append(history, current)
  <2>1. h \in Seq(Song) /\ h # <<>>
    BY <1>1, <1>3, AppendProperties
  <2>2. history' = IF Len(h) > HistoryCheck THEN Tail(h) ELSE h
    BY <1>3 DEF NowPlaying
  <2> HIDE DEF h
  <2>3. Tail(h) \in Seq(Song)
    BY <2>1, HeadTailProperties
  <2> QED BY <2>1, <2>2, <2>3 DEF NowPlaying
<1> QED BY <1>2, <1>3 DEF NowPlaying

LEMMA TypesInit == ASSUME Init PROVE TypeOK
<1>1. task \in [Task -> Slot] /\ \A t \in Task : ~At(t, "fill") /\ ~At(t, "gather") /\ t # None
  BY OffIs, RadioAssumption DEF Init, At, Off
<1>2. cmds \in 0 .. MaxCmds
  <2>1. cmds = 0
    BY DEF Init
  <2> QED BY <2>1, RadioAssumption
<1>3. queue \in Seq(Song) /\ standby \in Seq(Song) /\ history \in Seq(Song)
  BY DEF Init
<1>4. radioOn \in BOOLEAN /\ current \in Song \cup {None} /\ fetchLock = None
  BY DEF Init
<1> QED BY <1>1, <1>2, <1>3, <1>4 DEF TypeOK, Slot

(* A task that is not in a gather under the lock, and moves to a step that  *)
(* is none either.                                                          *)
LEMMA TaskSteps ==
    ASSUME TypeOK, NEW t \in Task, TaskStep(t)
    PROVE  TypeOK'
<1>1. /\ radioOn \in BOOLEAN /\ cmds \in 0 .. MaxCmds
      /\ queue \in Seq(Song) /\ standby \in Seq(Song) /\ history \in Seq(Song)
      /\ current \in Song \cup {None} /\ fetchLock \in Task \cup {None}
      /\ task \in [Task -> Slot] /\ ExclusionSet \in SUBSET Song
      /\ \A u \in Task : Gathers(task[u].pc) <=> fetchLock = u
      /\ task[t] \in Slot /\ t # None
  BY TypeIs, RadioAssumption
<1>2. <<>> \in Seq(Song)
  OBVIOUS
<1>3. ASSUME NEW pc \in Pcs
      PROVE  /\ [task[t] EXCEPT !.pc = pc] \in Slot /\ [task[t] EXCEPT !.pc = pc].pc = pc
             /\ [task[t] EXCEPT !.pc = pc, !.seen = ExclusionSet] \in Slot
             /\ [task[t] EXCEPT !.pc = pc, !.seen = ExclusionSet].pc = pc
             /\ Goto(t, pc) => task' = [task EXCEPT ![t] = [task[t] EXCEPT !.pc = pc]]
             /\ Gather(t, pc) => task' = [task EXCEPT ![t] = [task[t] EXCEPT !.pc = pc,
                                                                         !.seen = ExclusionSet]]
  BY <1>1 DEF Slot, Goto, Gather
<1>4. ASSUME NEW b \in Seq(Song), b # <<>>, NEW then \in Then, PlayFirst(t, b, then)
      PROVE  \E r \in Slot : /\ task' = [task EXCEPT ![t] = r] /\ r.pc = "play"
                             /\ queue' \in Seq(Song)
  <2> DEFINE r == [task[t] EXCEPT !.pc = "play", !.seen = {}, !.song = Head(b), !.then = then]
  <2>1. r \in Slot /\ Tail(b) \in Seq(Song)
    BY <1>4, PlayingIs
  <2>2. task' = [task EXCEPT ![t] = r] /\ r.pc = "play" /\ queue' = Tail(b)
    BY <1>1, <1>4 DEF PlayFirst, Slot
  <2> QED BY <2>1, <2>2
<1>5. Start(t) => TypeOK'
  <2> SUFFICES ASSUME Start(t) PROVE TypeOK'
    OBVIOUS
  <2>1. /\ task[t].pc = "start" /\ fetchLock # t
        /\ UNCHANGED <<radioOn, current, history, fetchLock, cmds>>
    BY <1>1 DEF Start, At, Gathers
  <2>2. CASE standby # <<>>
    <3>1. PICK r \in Slot : /\ task' = [task EXCEPT ![t] = r] /\ r.pc = "play"
                            /\ queue' \in Seq(Song) /\ standby' = <<>>
      BY <1>1, <1>4, <2>2 DEF Start, Then
    <3> QED BY <1>1, <1>2, <2>1, <3>1, TaskMoves DEF Gathers
  <2>3. CASE standby = <<>>
    <3>1. Gather(t, "quick") /\ UNCHANGED <<queue, standby>>
      BY <2>3 DEF Start
    <3>2. PICK r \in Slot : task' = [task EXCEPT ![t] = r] /\ r.pc = "quick"
      BY <1>3, <3>1 DEF Pcs
    <3> QED BY <1>1, <2>1, <3>1, <3>2, TaskMoves DEF Gathers
  <2> QED BY <2>2, <2>3
<1>6. ASSUME NEW n, NEW then \in Then, NEW b \in Batches(n, task[t].seen),
             ~Gathers(task[t].pc),
             \/ b = <<>> /\ End(t) /\ UNCHANGED queue
             \/ b # <<>> /\ PlayFirst(t, b, then),
             UNCHANGED <<radioOn, current, history, standby, fetchLock, cmds>>
      PROVE  TypeOK'
  <2>1. b \in Seq(Song) /\ fetchLock # t
    BY <1>1, <1>6, BatchIs
  <2>2. PICK r \in Slot : /\ task' = [task EXCEPT ![t] = r] /\ ~Gathers(r.pc)
                          /\ queue' \in Seq(Song)
    <3>1. CASE b = <<>>
      BY <1>1, <1>6, <3>1, OffIs DEF End
    <3>2. CASE b # <<>>
      BY <1>4, <1>6, <2>1, <3>2 DEF Gathers
    <3> QED BY <3>1, <3>2
  <2> QED BY <1>1, <1>6, <2>1, <2>2, TaskMoves
<1>7. QuickDone(t) => TypeOK'
  BY <1>6 DEF QuickDone, At, Gathers, Then
<1>8. ShuffleDone(t) => TypeOK'
  BY <1>6 DEF ShuffleDone, At, Gathers, Then
<1>9. Play(t) => TypeOK'
  <2> SUFFICES ASSUME Play(t) PROVE TypeOK'
    OBVIOUS
  <2> DEFINE r == [task[t] EXCEPT !.pc = "loading", !.song = None]
  <2>1. r \in Slot /\ r.pc = "loading" /\ task' = [task EXCEPT ![t] = r]
    BY <1>1 DEF Slot, Pcs, Play
  <2>2. history' \in Seq(Song) /\ current' \in Song \cup {None}
    <3>1. task[t].song \in Song \cup {None}
      BY <1>1 DEF Slot
    <3> QED BY <3>1, NowPlayingIs DEF Play
  <2>3. fetchLock # t /\ UNCHANGED <<radioOn, queue, standby, fetchLock, cmds>>
    BY <1>1 DEF Play, At, Gathers
  <2> HIDE DEF r
  <2> QED BY <1>1, <2>1, <2>2, <2>3, TaskMoves DEF Gathers
<1>10. PlayDone(t) => TypeOK'
  <2> SUFFICES ASSUME PlayDone(t) PROVE TypeOK'
    OBVIOUS
  <2> DEFINE r == [Off EXCEPT !.pc = task[t].then]
  <2>1. task[t].then \in Pcs /\ task[t].then \in Then
    BY <1>1 DEF Slot, Then, Pcs
  <2>2. r \in Slot /\ ~Gathers(r.pc) /\ task' = [task EXCEPT ![t] = r]
    BY <2>1, OffIs DEF PlayDone, Gathers, Then
  <2>3. fetchLock # t /\ UNCHANGED <<radioOn, queue, current, history, standby, fetchLock, cmds>>
    BY <1>1 DEF PlayDone, At, Gathers
  <2> HIDE DEF r
  <2> QED BY <1>1, <2>2, <2>3, TaskMoves
<1>11. Backfill(t) => TypeOK'
  <2> SUFFICES ASSUME Backfill(t) PROVE TypeOK'
    OBVIOUS
  <2>1. fetchLock # t /\ UNCHANGED <<radioOn, queue, current, history, standby, cmds>>
    BY <1>1 DEF Backfill, At, Gathers
  <2>2. CASE fetchLock = None
    <3>1. fetchLock' = t /\ Gather(t, "fill")
      BY <2>2 DEF Backfill
    <3>2. PICK r \in Slot : task' = [task EXCEPT ![t] = r] /\ r.pc = "fill"
      BY <1>3, <3>1 DEF Pcs
    <3> QED BY <1>1, <2>1, <2>2, <3>1, <3>2, RadioAssumption, TaskMoves DEF Gathers
  <2>3. CASE fetchLock # None
    <3>1. Goto(t, "build") /\ UNCHANGED fetchLock
      BY <2>3 DEF Backfill
    <3>2. PICK r \in Slot : task' = [task EXCEPT ![t] = r] /\ r.pc = "build"
      BY <1>3, <3>1 DEF Pcs
    <3> QED BY <1>1, <2>1, <3>1, <3>2, TaskMoves DEF Gathers
  <2> QED BY <2>2, <2>3
<1>12. Fill(t) => TypeOK'
  <2> SUFFICES ASSUME Fill(t) PROVE TypeOK'
    OBVIOUS
  <2>1. PICK b \in Batches(ArtistsBatch - ArtistsQuick, task[t].seen) :
          queue' = SubSeq(queue \o b, 1, IF b # <<>> /\ Len(queue \o b) > RadioCap
                                         THEN RadioCap ELSE Len(queue \o b))
    BY DEF Fill
  <2>2. queue' \in Seq(Song)
    <3>1. queue \o b \in Seq(Song)
      BY <1>1, BatchIs, ConcatProperties
    <3> DEFINE all == queue \o b
               n   == IF b # <<>> /\ Len(all) > RadioCap THEN RadioCap ELSE Len(all)
    <3>2. n \in Int /\ 1 \in Int /\ n <= Len(all) /\ Len(all) \in Nat
      <4> HIDE DEF all
      <4> QED BY <3>1, LenProperties, RadioAssumption DEF all
    <3>3. \A i \in 1 .. n : all[i] \in Song
      <4> HIDE DEF all, n
      <4> QED BY <3>1, <3>2, ElementOfSeq DEF all
    <3> HIDE DEF all, n
    <3>4. SubSeq(all, 1, n) \in Seq(Song)
      BY <3>2, <3>3, SubSeqProperties
    <3> QED BY <2>1, <3>4 DEF all, n
  <2>3. /\ fetchLock = t /\ fetchLock' = None
        /\ task' = [task EXCEPT ![t] = [Off EXCEPT !.pc = "build"]]
        /\ UNCHANGED <<radioOn, current, history, standby, cmds>>
    BY <1>1 DEF Fill, At, Gathers
  <2>4. [Off EXCEPT !.pc = "build"] \in Slot /\ [Off EXCEPT !.pc = "build"].pc = "build"
    BY OffIs DEF Pcs
  <2> DEFINE r == [Off EXCEPT !.pc = "build"]
  <2>5. r \in Slot /\ ~Gathers(r.pc) /\ task' = [task EXCEPT ![t] = r]
    BY <2>3, <2>4 DEF Gathers
  <2> HIDE DEF r
  <2> QED BY <1>1, <2>2, <2>3, <2>5, RadioAssumption, TaskMoves
<1>13. Build(t) => TypeOK'
  <2> SUFFICES ASSUME Build(t) PROVE TypeOK'
    OBVIOUS
  <2>1. fetchLock # t /\ UNCHANGED <<radioOn, queue, current, history, standby, fetchLock, cmds>>
    BY <1>1 DEF Build, At, Gathers
  <2>2. PICK r \in Slot : task' = [task EXCEPT ![t] = r] /\ ~Gathers(r.pc)
    <3>1. CASE End(t)
      BY <3>1, OffIs DEF End
    <3>2. CASE Goto(t, "wait")
      BY <1>3, <3>2 DEF Pcs, Gathers
    <3> QED BY <3>1, <3>2 DEF Build
  <2> QED BY <1>1, <2>1, <2>2, TaskMoves
<1>14. BuildLocked(t) => TypeOK'
  <2> SUFFICES ASSUME BuildLocked(t) PROVE TypeOK'
    OBVIOUS
  <2>1. fetchLock = None /\ UNCHANGED <<radioOn, queue, current, history, standby, cmds>>
    BY DEF BuildLocked
  <2>2. CASE standby # <<>>
    <3>1. End(t) /\ UNCHANGED fetchLock
      BY <2>2 DEF BuildLocked
    <3> QED BY <1>1, <2>1, <3>1, OffIs, TaskMoves DEF End
  <2>3. CASE standby = <<>>
    <3>1. fetchLock' = t /\ Gather(t, "gather")
      BY <2>3 DEF BuildLocked
    <3>2. PICK r \in Slot : task' = [task EXCEPT ![t] = r] /\ r.pc = "gather"
      BY <1>3, <3>1 DEF Pcs
    <3> QED BY <1>1, <2>1, <3>1, <3>2, RadioAssumption, TaskMoves DEF Gathers
  <2> QED BY <2>2, <2>3
<1>15. BuildDone(t) => TypeOK'
  <2> SUFFICES ASSUME BuildDone(t) PROVE TypeOK'
    OBVIOUS
  <2>1. /\ fetchLock = t /\ fetchLock' = None /\ task' = [task EXCEPT ![t] = Off]
        /\ UNCHANGED <<radioOn, queue, current, history, cmds>>
    BY <1>1 DEF BuildDone, At, Gathers, End
  <2>2. standby' \in Seq(Song)
    BY <1>1, BatchIs DEF BuildDone
  <2> QED BY <1>1, <2>1, <2>2, OffIs, RadioAssumption, TaskMoves
<1>16. Random(t) => TypeOK'
  <2> SUFFICES ASSUME Random(t) PROVE TypeOK'
    OBVIOUS
  <2>1. /\ fetchLock # t /\ standby' = <<>> /\ Gather(t, "shuffle")
        /\ UNCHANGED <<radioOn, queue, current, history, fetchLock, cmds>>
    BY <1>1 DEF Random, At, Gathers
  <2>2. PICK r \in Slot : task' = [task EXCEPT ![t] = r] /\ r.pc = "shuffle"
    BY <1>3, <2>1 DEF Pcs
  <2> QED BY <1>1, <1>2, <2>1, <2>2, TaskMoves DEF Gathers
<1> QED BY <1>5, <1>7, <1>8, <1>9, <1>10, <1>11, <1>12, <1>13, <1>14, <1>15, <1>16 DEF TaskStep

(* A command starts its tasks where nothing is underway.                    *)
LEMMA CommandSteps ==
    ASSUME TypeOK, Command
    PROVE  TypeOK'
<1>1. /\ radioOn \in BOOLEAN /\ cmds \in 0 .. MaxCmds
      /\ queue \in Seq(Song) /\ standby \in Seq(Song) /\ history \in Seq(Song)
      /\ current \in Song \cup {None} /\ fetchLock \in Task \cup {None}
      /\ task \in [Task -> Slot]
      /\ \A u \in Task : Gathers(task[u].pc) <=> fetchLock = u
      /\ <<>> \in Seq(Song)
  BY TypeIs
<1>2. cmds' \in 0 .. MaxCmds
  <2>1. cmds < MaxCmds /\ cmds' = cmds + 1
    BY DEF Command, Commanded, OnActivated, NextTrack, Randomize, PlayTrack, SetModeQueue, Prev, Stop
  <2> QED BY <1>1, <2>1, RadioAssumption
<1>3. ASSUME OnDeactivated, radioOn' \in BOOLEAN, standby' \in Seq(Song),
             history' \in Seq(Song), current' \in Song \cup {None}
      PROVE  TypeOK'
  <2>1. /\ queue' = <<>>
        /\ \A t \in Task : task'[t] = IF Tracked(t) THEN Off ELSE task[t]
        /\ task' \in [Task -> Slot]
    BY <1>1, <1>3, OffIs DEF OnDeactivated
  <2>2. fetchLock' = IF fetchLock # None /\ Tracked(fetchLock) THEN None ELSE fetchLock
    BY <1>3 DEF OnDeactivated
  <2>3. ASSUME NEW t \in Task PROVE Gathers(task'[t].pc) <=> fetchLock' = t
    <3>1. t # None
      BY RadioAssumption
    <3>2. CASE Tracked(t)
      <4>1. ~Gathers(task'[t].pc)
        BY <2>1, <3>2, OffIs
      <4> QED BY <2>2, <3>1, <3>2, <4>1
    <3>3. CASE ~Tracked(t)
      <4>1. task'[t] = task[t]
        BY <2>1, <3>3
      <4>2. fetchLock' = t <=> fetchLock = t
        BY <2>2, <3>1, <3>3
      <4> QED BY <1>1, <4>1, <4>2
    <3> QED BY <3>2, <3>3
  <2> QED BY <1>1, <1>2, <1>3, <2>1, <2>2, <2>3 DEF TypeOK, Slot, Gathers, At
<1>4. ASSUME NEW t \in Task, NEW pc \in Pcs, NEW own \in BOOLEAN, ~Gathers(pc),
             At(t, "off"), Spawn(t, pc, own), radioOn' \in BOOLEAN, queue' \in Seq(Song),
             current' \in Song \cup {None}, UNCHANGED <<history, standby, fetchLock>>
      PROVE  TypeOK'
  <2> DEFINE r == [Off EXCEPT !.pc = pc, !.own = own]
  <2>1. r \in Slot /\ ~Gathers(r.pc) /\ task' = [task EXCEPT ![t] = r]
    BY <1>4, OffIs DEF Spawn
  <2>2. fetchLock # t
    BY <1>1, <1>4 DEF At, Gathers
  <2> HIDE DEF r
  <2> QED BY <1>1, <1>2, <1>4, <2>1, <2>2, TaskMoves
<1>5. ASSUME NEW t \in Task, OnActivated(t) PROVE TypeOK'
  BY <1>1, <1>4, <1>5 DEF OnActivated, Pcs, Gathers
<1>6. ASSUME NEW t \in Task, Randomize(t) PROVE TypeOK'
  BY <1>1, <1>4, <1>6 DEF Randomize, Pcs, Gathers
<1>7. ASSUME SetModeQueue PROVE TypeOK'
  BY <1>1, <1>3, <1>7 DEF SetModeQueue
<1>8. ASSUME NEW x \in Pick, PlayTrack(x) PROVE TypeOK'
  <2>1. /\ radioOn' = FALSE /\ standby' \in Seq(Song) /\ history' \in Seq(Song)
        /\ current' \in Song \cup {None}
    BY <1>1, <1>8, NowPlayingIs, RadioAssumption DEF PlayTrack
  <2>2. CASE radioOn
    BY <1>3, <1>8, <2>1, <2>2 DEF PlayTrack
  <2>3. CASE ~radioOn
    <3>1. UNCHANGED <<queue, task, fetchLock>>
      BY <1>8, <2>3 DEF PlayTrack
    <3> QED BY <1>1, <1>2, <2>1, <3>1 DEF TypeOK, At
  <2> QED BY <2>2, <2>3
<1>9. ASSUME NEW t \in Task, NextTrack(t) PROVE TypeOK'
  <2>1. At(t, "off") /\ fetchLock # t /\ UNCHANGED <<radioOn, current, history, standby, fetchLock>>
    BY <1>1, <1>9 DEF NextTrack, At, Gathers
  <2>2. CASE queue # <<>> /\ queue' = Tail(queue)
    <3> DEFINE playing == [Off EXCEPT !.pc = "play", !.own = FALSE, !.song = Head(queue)]
               fresh   == [Off EXCEPT !.pc = "build"]
    <3>1. /\ playing \in Slot /\ ~Gathers(playing.pc) /\ fresh \in Slot /\ ~Gathers(fresh.pc)
          /\ queue' \in Seq(Song)
      <4>1. Head(queue) \in Song /\ queue' \in Seq(Song)
        BY <1>1, <2>2, HeadTailProperties
      <4> QED BY <4>1 DEF Off, Slot, Pcs, Then, Gathers
    <3>2. PICK u \in Task \ {t} :
            \/ At(u, "off") /\ task' = [task EXCEPT ![t] = playing, ![u] = fresh]
            \/ task' = [task EXCEPT ![t] = playing]
      BY <1>9, <2>2 DEF NextTrack
    <3> HIDE DEF playing, fresh
    <3>3. CASE At(u, "off") /\ task' = [task EXCEPT ![t] = playing, ![u] = fresh]
      <4>1. /\ task' \in [Task -> Slot] /\ task'[t] = playing /\ task'[u] = fresh
            /\ \A v \in Task : v # t /\ v # u => task'[v] = task[v]
        BY <1>1, <3>1, <3>3
      <4>2. fetchLock # u
        BY <1>1, <3>3 DEF At, Gathers
      <4>3. ASSUME NEW v \in Task PROVE Gathers(task'[v].pc) <=> fetchLock' = v
        BY <1>1, <2>1, <3>1, <4>1, <4>2
      <4> QED BY <1>1, <1>2, <2>1, <3>1, <4>1, <4>3 DEF TypeOK, Slot, Gathers, At
    <3>4. CASE task' = [task EXCEPT ![t] = playing]
      BY <1>1, <1>2, <2>1, <3>1, <3>4, TaskMoves
    <3> QED BY <3>2, <3>3, <3>4
  <2>3. CASE queue' = queue /\ Spawn(t, "start", TRUE)
    BY <1>1, <1>4, <2>1, <2>3 DEF Pcs, Gathers
  <2> QED BY <1>9, <2>2, <2>3 DEF NextTrack
<1>10. ASSUME Prev PROVE TypeOK'
  <2>1. Last(history) \in Song /\ Front(history) \in Seq(Song)
    <3>1. history \in Seq(Song) /\ history # <<>> /\ Len(history) \in Nat /\ Len(history) # 0
      BY <1>1, <1>10, LenProperties, EmptySeq DEF Prev
    <3>2. Len(history) \in 1 .. Len(history) /\ Len(history) - 1 \in Int /\ 1 \in Int
      BY <3>1
    <3>3. \A i \in 1 .. Len(history) - 1 : history[i] \in Song
      BY <3>1, ElementOfSeq
    <3> QED BY <3>1, <3>2, <3>3, ElementOfSeq, SubSeqProperties DEF Last, Front
  <2> QED BY <1>1, <1>2, <1>10, <2>1 DEF Prev, TypeOK, At
<1>11. ASSUME Stop PROVE TypeOK'
  BY <1>1, <1>2, <1>11 DEF Stop, TypeOK, At
<1> QED BY <1>5, <1>6, <1>7, <1>8, <1>9, <1>10, <1>11 DEF Command

LEMMA TypesStep == ASSUME TypeOK, [Next]_vars PROVE TypeOK'
<1>1. ASSUME UNCHANGED vars PROVE TypeOK'
  BY <1>1 DEF TypeOK, At, vars
<1> QED BY <1>1, TaskSteps, CommandSteps DEF Next

(* For every library, any number of tasks and every way the cycles, the     *)
(* backfills and the cancellations interleave: the lists hold songs, and    *)
(* the one task that holds _fetch_lock is the one that gathers under it.    *)
THEOREM RadioTypes == Spec => []TypeOK
BY TypesInit, TypesStep, PTL DEF Spec

-----------------------------------------------------------------------------
(* The lists stay varied                                                    *)

LEMMA VariedInit == ASSUME Init PROVE RadioInv
BY TypesInit, NothingIsVaried DEF Init, RadioInv

(* What a step may make of the two lists.                                   *)
LEMMA ListsAreMade ==
    ASSUME RadioInv, [Next]_vars
    PROVE  /\ Varied(queue') /\ Varied(standby') /\ Interleaved(standby')
<1>1. /\ Varied(queue) /\ Varied(standby) /\ Interleaved(standby)
      /\ Varied(<<>>) /\ Interleaved(<<>>)
  BY NothingIsVaried DEF RadioInv
<1>2. ASSUME NEW n, NEW seen, NEW b \in Batches(n, seen)
      PROVE  Varied(b) /\ Varied(queue \o b) /\ Interleaved(b)
  BY <1>1, <1>2, BatchIs, BatchFits
<1>3. ASSUME NEW b, Varied(b), b # <<>> PROVE Varied(Tail(b))
  BY <1>3, TailIsVaried
<1> USE DEF PlayFirst
<1>4. ASSUME NEW t \in Task, TaskStep(t)
      PROVE  /\ Varied(queue') /\ Varied(standby') /\ Interleaved(standby')
  <2>1. CASE Start(t)
    BY <1>1, <1>3, <2>1 DEF Start
  <2>2. CASE QuickDone(t)
    BY <1>1, <1>2, <1>3, <2>2 DEF QuickDone
  <2>3. CASE ShuffleDone(t)
    BY <1>1, <1>2, <1>3, <2>3 DEF ShuffleDone
  <2>4. CASE Fill(t)
    <3>1. PICK b \in Batches(ArtistsBatch - ArtistsQuick, task[t].seen) :
            queue' = SubSeq(queue \o b, 1, IF b # <<>> /\ Len(queue \o b) > RadioCap
                                           THEN RadioCap ELSE Len(queue \o b))
      BY <2>4 DEF Fill
    <3> DEFINE all == queue \o b
               n   == IF b # <<>> /\ Len(all) > RadioCap THEN RadioCap ELSE Len(all)
    <3>2. Varied(all) /\ all \in Seq(Song)
      BY <1>2 DEF Varied
    <3> HIDE DEF all
    <3>3. n \in Nat /\ n \in Int /\ 1 \in Int /\ n <= Len(all) /\ Len(all) \in Nat
      BY <3>2, LenProperties, RadioAssumption
    <3>4. \A i \in 1 .. n : all[i] \in Song
      BY <3>2, <3>3, ElementOfSeq
    <3> HIDE DEF n
    <3>5. /\ SubSeq(all, 1, n) \in Seq(Song)
          /\ Len(SubSeq(all, 1, n)) = IF 1 <= n THEN n - 1 + 1 ELSE 0
          /\ \A i \in 1 .. n - 1 + 1 : SubSeq(all, 1, n)[i] = all[1 + i - 1]
      BY <3>3, <3>4, SubSeqProperties
    <3> DEFINE cut == SubSeq(all, 1, n)
    <3>6. /\ cut \in Seq(Song) /\ 0 \in Nat /\ Len(cut) + 0 <= Len(all)
          /\ \A i \in 1 .. Len(cut) : cut[i] = all[0 + i]
      <4>1. cut \in Seq(Song) /\ Len(cut) = n
        BY <3>3, <3>5
      <4>2. \A i \in 1 .. n : cut[i] = all[0 + i]
        BY <3>3, <3>5
      <4> HIDE DEF cut
      <4> QED BY <3>3, <4>1, <4>2
    <3> HIDE DEF cut
    <3>7. Varied(cut)
      BY <3>2, <3>6, StretchIsVaried
    <3> QED BY <1>1, <2>4, <3>1, <3>7 DEF cut, all, n, Fill
  <2>5. CASE BuildDone(t)
    BY <1>1, <1>2, <2>5 DEF BuildDone
  <2>6. CASE Random(t)
    BY <1>1, <2>6 DEF Random
  <2>7. CASE Play(t) \/ PlayDone(t) \/ Backfill(t) \/ Build(t) \/ BuildLocked(t)
    <3>1. UNCHANGED <<queue, standby>>
      BY <2>7 DEF Play, PlayDone, Backfill, Build, BuildLocked
    <3> QED BY <1>1, <3>1
  <2> QED BY <1>4, <2>1, <2>2, <2>3, <2>4, <2>5, <2>6, <2>7 DEF TaskStep
<1>5. ASSUME Command
      PROVE  /\ Varied(queue') /\ Varied(standby') /\ Interleaved(standby')
  <2>1. standby' = standby
    BY <1>5 DEF Command, OnActivated, NextTrack, Randomize, PlayTrack, SetModeQueue, Prev, Stop
  <2>2. \/ queue' = queue \/ queue' = <<>>
        \/ queue # <<>> /\ queue' = Tail(queue)
    BY <1>5 DEF Command, OnActivated, NextTrack, Randomize, PlayTrack, SetModeQueue, Prev, Stop,
                OnDeactivated
  <2> QED BY <1>1, <1>3, <2>1, <2>2
<1>6. ASSUME UNCHANGED vars
      PROVE  /\ Varied(queue') /\ Varied(standby') /\ Interleaved(standby')
  BY <1>1, <1>6 DEF vars
<1> QED BY <1>4, <1>5, <1>6 DEF Next

(* The inductive invariant: both lists are varied, and the standby is in    *)
(* the order of the interleaver.                                            *)
THEOREM RadioInvariant == Spec => []RadioInv
<1>1. RadioInv /\ [Next]_vars => RadioInv'
  BY ListsAreMade, TypesStep DEF RadioInv, Varied, Interleaved, CountBy, RoundOf
<1> QED BY <1>1, VariedInit, PTL DEF Spec

(* For every library, every quota and any number of overlapping tasks: the  *)
(* radio queue names no song twice, no title twice, and no artist more      *)
(* often than the quota allows.                                             *)
THEOREM QueueStaysVaried == Spec => []QueueIsVaried
<1>1. RadioInv => QueueIsVaried
  <2> SUFFICES ASSUME RadioInv, NEW i \in DOMAIN queue, NEW j \in DOMAIN queue, i # j
               PROVE  /\ TitleOf[queue[i]] = TitleOf[queue[j]] =>
                            TitleOf[queue[i]] = NoTitle /\ queue[i] # queue[j]
                      /\ CountBy(ArtistOf[queue[i]], queue) <= MaxPerArtist
    BY DEF QueueIsVaried
  <2>1. Varied(queue) /\ queue[i] \in Song
    BY LenProperties, ElementOfSeq DEF RadioInv, Varied
  <2> QED BY <2>1 DEF Varied
<1> QED BY <1>1, RadioInvariant, PTL

(* For every library: in a standby list two songs of one artist only follow *)
(* each other where no other artist has a song left.                        *)
THEOREM AdjacentOnlyWhereNoChoice == Spec => []AdjacentOnlyAtTheEnd
<1>1. RadioInv => AdjacentOnlyAtTheEnd
  BY AdjacentAtTheEnd DEF RadioInv, Varied, AdjacentOnlyAtTheEnd
<1> QED BY <1>1, RadioInvariant, PTL

=============================================================================
