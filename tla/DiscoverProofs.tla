--------------------------- MODULE DiscoverProofs ---------------------------
(***************************************************************************)
(* Proofs about Discover for any artists, videos and tasks: the cache of   *)
(* the rewards misses nothing the table has, whichever task reads the rows *)
(* while others change them, a search loses no hit, and the sections of a  *)
(* page do not contradict each other.                                      *)
(*                                                                         *)
(* The first rests on the order of the answers.  A task that learned of an *)
(* event has two answers to collect, its UPDATE's and its COMMIT's, before *)
(* it changes the cache; a task that reads the rows has two to collect     *)
(* before it fills the cache.  Answers come in the order of the statements, *)
(* so an event that came too late for the rows is applied after them.      *)
(*                                                                         *)
(* The last rests on the arithmetic of the rewards: what one event added   *)
(* never decays to nothing within MaxEvents events, so an artist is either *)
(* ranked or still as at the start; and on what a section said staying true *)
(* while the next ones are read, since rewards, plays and clicks only grow. *)
(***************************************************************************)
EXTENDS Discover, FiniteSetTheorems, SequenceTheorems, WellFoundedInduction, TLAPS

Rewards == [Artist -> Seq(Events)]
Records == [kind : {"record"}, pc : {"commit", "apply"}, a : Artist, e : Events]
Stats == [kind : {"stats"}, pc : {"fetch", "fill"}, rows : Rewards]
IsPage(j) ==
    /\ DOMAIN j = {"kind", "pc", "page", "known", "strangers"}
    /\ j.kind = "page" /\ j.pc \in PagePcs
IsSearch(j) == DOMAIN j = {"kind", "pc", "list", "known"} /\ j.kind = "search" /\ j.pc = "found"
Job(j) == j = Idle \/ j \in Records \/ j \in Stats \/ IsPage(j) \/ IsSearch(j)

(* One statement of each task that is underway is on its way.               *)
Types ==
    /\ learned \in Rewards /\ (cache = None \/ cache \in Rewards)
    /\ task = [t \in Task |-> task[t]] /\ \A t \in Task : Job(task[t])
    /\ answers \in Seq(Task) /\ IsInjective(answers)
    /\ \A t \in Task : task[t] # Idle <=> \E i \in DOMAIN answers : answers[i] = t

(* The answers a task collects before its last step and with it.            *)
Steps(t) == IF task[t].pc \in {"commit", "fetch"} THEN 2 ELSE 1
Behind(r, s) == \E i, j \in DOMAIN answers : i < j /\ answers[i] = s /\ answers[j] = r
After(r, s) == Steps(r) > Steps(s) \/ (Steps(r) = Steps(s) /\ Behind(r, s))

(* The events on their way to the cache, and those that come after rows.    *)
Underway(a, e) == {r \in Task : task[r] \in Records /\ task[r].a = a /\ task[r].e = e}
Later(s, a, e) == {r \in Underway(a, e) : After(r, s)}
RowsKeepUp(s) ==
    task[s] \in Stats => \A a \in Artist \ unsaved, e \in Events :
        Count(task[s].rows[a], e) + Cardinality(Later(s, a, e)) >= Count(learned[a], e)
CacheIsAhead ==
    cache # None => \A a \in Artist \ unsaved, e \in Events :
        Count(cache[a], e) + Cardinality(Underway(a, e)) >= Count(learned[a], e)

(* What a search that has been answered is about to send.                   *)
Found(list, known) ==
    LET shown == {list[i].v : i \in DOMAIN list}
    IN  /\ Cardinality(shown) = Len(list)
        /\ Len(list) < SearchLimit =>
              /\ shown = Hits \cap (known \cup Catalogue)
              /\ \A i \in DOMAIN list : list[i].own <=> list[i].v \in known
Searches == \A t \in Task : IsSearch(task[t]) => Found(task[t].list, task[t].known)

Inv == Types /\ (\A s \in Task : RowsKeepUp(s)) /\ CacheIsAhead /\ Searches

-----------------------------------------------------------------------------
(* Counting                                                                  *)

LEMMA CountType ==
    ASSUME NEW s \in Seq(Events), NEW e
    PROVE  Count(s, e) \in Nat /\ IsFiniteSet({i \in DOMAIN s : s[i] = e})
<1>1. DOMAIN s = 1 .. Len(s) /\ Len(s) \in Nat
  BY LenProperties
<1>2. IsFiniteSet(1 .. Len(s))
  BY <1>1, FS_Interval
<1>3. {i \in DOMAIN s : s[i] = e} \in SUBSET (1 .. Len(s))
  BY <1>1
<1> QED BY <1>2, <1>3, FS_Subset, FS_CardinalityType DEF Count

LEMMA CountAppend ==
    ASSUME NEW s \in Seq(Events), NEW x \in Events, NEW e
    PROVE  Count(Append(s, x), e) = IF x = e THEN Count(s, e) + 1 ELSE Count(s, e)
<1> DEFINE at(q) == {i \in DOMAIN q : q[i] = e}
           n == Len(s)
           q == Append(s, x)
<1>1. DOMAIN s = 1 .. n /\ n \in Nat /\ DOMAIN q = 1 .. (n + 1) /\ q[n + 1] = x
      /\ \A i \in 1 .. n : q[i] = s[i]
  BY LenProperties, AppendProperties
<1>2. at(q) = IF x = e THEN at(s) \cup {n + 1} ELSE at(s)
  BY <1>1
<1>3. n + 1 \notin at(s)
  BY <1>1
<1>4. IsFiniteSet(at(s))
  BY CountType
<1>5. Count(q, e) = Cardinality(at(q)) /\ Count(s, e) = Cardinality(at(s))
  BY DEF Count
<1> HIDE DEF at, n, q
<1>6. Cardinality(at(s) \cup {n + 1}) = Cardinality(at(s)) + 1
  BY <1>3, <1>4, FS_AddElement
<1>7. Count(q, e) = IF x = e THEN Count(s, e) + 1 ELSE Count(s, e)
  BY <1>2, <1>5, <1>6
<1> QED BY <1>7 DEF q

(* Sets of tasks are finite, and more tasks are not fewer.                   *)
LEMMA MoreTasks ==
    ASSUME DiscoverAssumption, NEW T \in SUBSET Task, NEW S \in SUBSET T
    PROVE  Cardinality(S) \in Nat /\ Cardinality(T) \in Nat /\ Cardinality(S) <= Cardinality(T)
BY FS_Subset, FS_CardinalityType DEF DiscoverAssumption

LEMMA OneMoreTask ==
    ASSUME DiscoverAssumption, NEW S \in SUBSET Task, NEW t \in Task, t \notin S
    PROVE  /\ Cardinality(S) \in Nat /\ Cardinality(S \cup {t}) = Cardinality(S) + 1
BY FS_Subset, FS_CardinalityType, FS_AddElement DEF DiscoverAssumption

LEMMA OneTaskLess ==
    ASSUME DiscoverAssumption, NEW S \in SUBSET Task, NEW t \in S
    PROVE  /\ Cardinality(S) \in Nat /\ Cardinality(S \ {t}) = Cardinality(S) - 1
BY FS_Subset, FS_CardinalityType, FS_RemoveElement DEF DiscoverAssumption

-----------------------------------------------------------------------------
(* The queue of answers                                                      *)

(* A task that issues its first statement is behind all the others.          *)
LEMMA Joins ==
    ASSUME Types, NEW t \in Task, task[t] = Idle, answers' = Append(answers, t)
    PROVE  /\ answers' \in Seq(Task) /\ IsInjective(answers)'
           /\ \A r \in Task : (\E i \in DOMAIN answers' : answers'[i] = r)
                              <=> (r = t \/ task[r] # Idle)
           /\ \A r, s \in Task : Behind(r, s) => Behind(r, s)'
           /\ \A s \in Task : task[s] # Idle => Behind(t, s)'
<1> DEFINE n == Len(answers)
<1>1. /\ answers \in Seq(Task) /\ n \in Nat /\ DOMAIN answers = 1 .. n
      /\ DOMAIN answers' = 1 .. (n + 1) /\ answers'[n + 1] = t
      /\ \A i \in 1 .. n : answers'[i] = answers[i]
  BY LenProperties, AppendProperties DEF Types
<1>2. answers' \in Seq(Task)
  BY <1>1, AppendProperties
<1>3. /\ \A i, j \in 1 .. n : answers[i] = answers[j] => i = j
      /\ \A r \in Task : task[r] # Idle <=> \E i \in 1 .. n : answers[i] = r
  BY <1>1 DEF Types, IsInjective
<1> HIDE DEF n
<1>4. \A i \in 1 .. n : answers[i] # t
  BY <1>3
<1>5. \A i, j \in 1 .. (n + 1) : answers'[i] = answers'[j] => i = j
  BY <1>1, <1>3, <1>4
<1>6. IsInjective(answers)'
  BY <1>1, <1>5 DEF IsInjective
<1>7. \A r \in Task : (\E i \in 1 .. (n + 1) : answers'[i] = r) <=> (r = t \/ task[r] # Idle)
  BY <1>1, <1>3
<1>8. \A r, s \in Task : Behind(r, s) => Behind(r, s)'
  BY <1>1 DEF Behind
<1>9. \A s \in Task : task[s] # Idle => Behind(t, s)'
  BY <1>1, <1>3 DEF Behind
<1> QED BY <1>1, <1>2, <1>6, <1>7, <1>8, <1>9

(* A task whose answer is collected is the first, and is gone, ...           *)
LEMMA Leaves ==
    ASSUME Types, NEW t \in Task, answers # <<>>, Head(answers) = t, answers' = Tail(answers)
    PROVE  /\ answers' \in Seq(Task) /\ IsInjective(answers)'
           /\ \A r \in Task : (\E i \in DOMAIN answers' : answers'[i] = r)
                              <=> (r # t /\ task[r] # Idle)
           /\ \A r, s \in Task : s # t /\ Behind(r, s) => Behind(r, s)'
           /\ \A s \in Task : ~Behind(t, s)
<1> DEFINE n == Len(answers)
<1>1. /\ answers \in Seq(Task) /\ n \in Nat /\ n > 0 /\ DOMAIN answers = 1 .. n /\ answers[1] = t
      /\ answers' \in Seq(Task) /\ DOMAIN answers' = 1 .. (n - 1)
      /\ \A i \in 1 .. (n - 1) : answers'[i] = answers[i + 1]
  BY LenProperties, EmptySeq, HeadTailProperties DEF Types
<1>2. /\ \A i, j \in 1 .. n : answers[i] = answers[j] => i = j
      /\ \A r \in Task : task[r] # Idle <=> \E i \in 1 .. n : answers[i] = r
  BY <1>1 DEF Types, IsInjective
<1> HIDE DEF n
<1>3. IsInjective(answers)'
  BY <1>1, <1>2 DEF IsInjective
<1>4. \A i \in 2 .. n : i - 1 \in 1 .. (n - 1) /\ answers'[i - 1] = answers[i] /\ answers[i] # t
  BY <1>1, <1>2
<1>5. \A r \in Task : (\E i \in 1 .. (n - 1) : answers'[i] = r) <=> (r # t /\ task[r] # Idle)
  <2>1. ASSUME NEW r \in Task, NEW i \in 1 .. (n - 1), answers'[i] = r PROVE r # t /\ task[r] # Idle
    BY <1>1, <1>2, <2>1
  <2>2. ASSUME NEW r \in Task, r # t, task[r] # Idle PROVE \E i \in 1 .. (n - 1) : answers'[i] = r
    <3>1. PICK i \in 1 .. n : answers[i] = r
      BY <1>2, <2>2
    <3>2. i \in 2 .. n
      BY <1>1, <2>2, <3>1
    <3> QED BY <1>4, <3>1, <3>2
  <2> QED BY <2>1, <2>2
<1>6. ASSUME NEW r \in Task, NEW s \in Task, s # t, Behind(r, s) PROVE Behind(r, s)'
  <2>1. PICK i, j \in 1 .. n : i < j /\ answers[i] = s /\ answers[j] = r
    BY <1>1, <1>6 DEF Behind
  <2>2. i \in 2 .. n /\ j \in 2 .. n /\ i - 1 < j - 1
    BY <1>1, <1>6, <2>1
  <2>3. answers'[i - 1] = s /\ answers'[j - 1] = r /\ i - 1 \in DOMAIN answers' /\ j - 1 \in DOMAIN answers'
    BY <1>1, <1>4, <2>1, <2>2
  <2> QED BY <2>2, <2>3 DEF Behind
<1>7. \A s \in Task : ~Behind(t, s)
  BY <1>1, <1>2 DEF Behind
<1> QED BY <1>1, <1>3, <1>5, <1>6, <1>7

(* ... or issues its next statement and is the last.                         *)
LEMMA GoesRound ==
    ASSUME Types, NEW t \in Task, answers # <<>>, Head(answers) = t,
           answers' = Append(Tail(answers), t)
    PROVE  /\ answers' \in Seq(Task) /\ IsInjective(answers)'
           /\ \A r \in Task : (\E i \in DOMAIN answers' : answers'[i] = r) <=> task[r] # Idle
           /\ \A r, s \in Task : s # t /\ Behind(r, s) => Behind(r, s)'
           /\ \A s \in Task : s # t /\ task[s] # Idle => Behind(t, s)'
           /\ \A s \in Task : ~Behind(t, s)
<1> DEFINE n == Len(answers)
<1>1. /\ answers \in Seq(Task) /\ n \in Nat /\ n > 0 /\ DOMAIN answers = 1 .. n /\ answers[1] = t
      /\ Tail(answers) \in Seq(Task) /\ Len(Tail(answers)) = n - 1
      /\ \A i \in 1 .. (n - 1) : Tail(answers)[i] = answers[i + 1]
  BY LenProperties, EmptySeq, HeadTailProperties DEF Types
<1>2. /\ answers' \in Seq(Task) /\ DOMAIN answers' = 1 .. n /\ answers'[n] = t
      /\ \A i \in 1 .. (n - 1) : answers'[i] = answers[i + 1]
  BY <1>1, LenProperties, AppendProperties
<1>3. /\ \A i, j \in 1 .. n : answers[i] = answers[j] => i = j
      /\ \A r \in Task : task[r] # Idle <=> \E i \in 1 .. n : answers[i] = r
  BY <1>1 DEF Types, IsInjective
<1> HIDE DEF n
<1>4. \A i \in 2 .. n : i - 1 \in 1 .. (n - 1) /\ answers'[i - 1] = answers[i] /\ answers[i] # t
  BY <1>1, <1>2, <1>3
<1>5. IsInjective(answers)'
  <2>1. ASSUME NEW i \in 1 .. n, NEW j \in 1 .. n, answers'[i] = answers'[j] PROVE i = j
    <3>1. CASE i = n /\ j = n
      BY <3>1
    <3>2. CASE i \in 1 .. (n - 1) /\ j \in 1 .. (n - 1)
      BY <1>1, <1>2, <1>3, <2>1, <3>2
    <3>3. \A k \in 1 .. (n - 1) : answers'[k] # t
      BY <1>1, <1>2, <1>3
    <3> QED BY <1>1, <1>2, <2>1, <3>1, <3>2, <3>3
  <2> QED BY ZenonT(30), <1>2, <2>1 DEF IsInjective
<1>6. \A r \in Task : (\E i \in 1 .. n : answers'[i] = r) <=> task[r] # Idle
  <2>1. ASSUME NEW r \in Task, NEW i \in 1 .. n, answers'[i] = r PROVE task[r] # Idle
    BY <1>1, <1>2, <1>3, <2>1
  <2>2. ASSUME NEW r \in Task, task[r] # Idle PROVE \E i \in 1 .. n : answers'[i] = r
    <3>1. PICK i \in 1 .. n : answers[i] = r
      BY <1>3, <2>2
    <3>2. CASE i = 1
      BY <1>1, <1>2, <3>1, <3>2
    <3>3. CASE i \in 2 .. n
      <4>1. i - 1 \in 1 .. n /\ answers'[i - 1] = r
        BY <1>1, <1>4, <3>1, <3>3
      <4> QED BY <4>1
    <3> QED BY <1>1, <3>2, <3>3
  <2> QED BY <2>1, <2>2
<1>7. ASSUME NEW r \in Task, NEW s \in Task, s # t, Behind(r, s) PROVE Behind(r, s)'
  <2>1. PICK i, j \in 1 .. n : i < j /\ answers[i] = s /\ answers[j] = r
    BY <1>1, <1>7 DEF Behind
  <2>2. i \in 2 .. n /\ j \in 2 .. n /\ i - 1 < j - 1 /\ i - 1 \in 1 .. n /\ j - 1 \in 1 .. n
    BY <1>1, <1>7, <2>1
  <2>3. answers'[i - 1] = s /\ answers'[j - 1] = r /\ i - 1 \in DOMAIN answers' /\ j - 1 \in DOMAIN answers'
    BY <1>2, <1>4, <2>1, <2>2
  <2> QED BY <2>2, <2>3 DEF Behind
<1>8. ASSUME NEW s \in Task, s # t, task[s] # Idle PROVE Behind(t, s)'
  <2>1. PICK i \in 1 .. n : answers[i] = s
    BY <1>3, <1>8
  <2>2. i \in 2 .. n /\ i - 1 < n /\ i - 1 \in 1 .. n /\ n \in 1 .. n
    BY <1>1, <1>8, <2>1
  <2> QED BY <1>2, <1>4, <2>1, <2>2 DEF Behind
<1>9. \A s \in Task : ~Behind(t, s)
  BY <1>1, <1>3 DEF Behind
<1> QED BY <1>2, <1>5, <1>6, <1>7, <1>8, <1>9

-----------------------------------------------------------------------------
(* One task moves                                                            *)

Moves(t, j) == task' = [task EXCEPT ![t] = j]
OrderKept(t) == \A r, s \in Task : s # t /\ Behind(r, s) => Behind(r, s)'

LEMMA Moved ==
    ASSUME Types, NEW t \in Task, NEW j, Moves(t, j)
    PROVE  /\ task'[t] = j /\ task' = [r \in Task |-> task'[r]]
           /\ \A r \in Task : r # t => task'[r] = task[r]
BY DEF Types, Moves

(* The types stay, if the queue holds t exactly when t goes on.              *)
LEMMA TypesKept ==
    ASSUME Types, NEW t \in Task, NEW j, Moves(t, j), Job(j),
           learned' \in Rewards, cache' = None \/ cache' \in Rewards,
           answers' \in Seq(Task), IsInjective(answers)',
           \A r \in Task : (\E i \in DOMAIN answers' : answers'[i] = r)
                           <=> IF r = t THEN j # Idle ELSE task[r] # Idle
    PROVE  Types'
<1>1. /\ task'[t] = j /\ task' = [r \in Task |-> task'[r]]
      /\ \A r \in Task : r # t => task'[r] = task[r]
  BY Moved
<1>2. \A r \in Task : Job(task'[r])
  BY <1>1 DEF Types
<1>3. \A r \in Task : task'[r] # Idle <=> \E i \in DOMAIN answers' : answers'[i] = r
  BY <1>1
<1>4. \A r \in Task : Job(task[r])'
  BY <1>2 DEF Job, IsPage, IsSearch
<1> QED BY <1>1, <1>3, <1>4 DEF Types

LEMMA SearchesKept ==
    ASSUME Types, Searches, NEW t \in Task, NEW j, Moves(t, j),
           IsSearch(j) => Found(j.list, j.known)
    PROVE  Searches'
<1>1. \A r \in Task : IsSearch(task'[r]) => Found(task'[r].list, task'[r].known)
  BY Moved DEF Searches
<1> QED BY <1>1 DEF Searches, IsSearch, Found

(* Whatever is not a record of t stays where it was.                         *)
LEMMA OthersLater ==
    ASSUME Types, NEW t \in Task, NEW j, Moves(t, j), OrderKept(t),
           NEW s \in Task, s # t, NEW a \in Artist, NEW e \in Events,
           NEW r \in Task, r # t, r \in Later(s, a, e)
    PROVE  r \in Later(s, a, e)'
<1>1. task'[r] = task[r] /\ task'[s] = task[s]
  BY Moved
<1>2. After(r, s) => After(r, s)'
  BY <1>1 DEF After, Steps, OrderKept
<1> QED BY <1>1, <1>2 DEF Later, Underway

LEMMA OthersUnderway ==
    ASSUME Types, NEW t \in Task, NEW j, Moves(t, j), NEW a \in Artist, NEW e \in Events,
           NEW r \in Task, r # t
    PROVE  r \in Underway(a, e) <=> r \in Underway(a, e)'
BY Moved DEF Underway

(* The rows of s, as far as nobody learns more.                              *)
LEMMA RowsKept ==
    ASSUME DiscoverAssumption, NEW s \in Task, RowsKeepUp(s), task'[s] = task[s],
           learned' = learned, unsaved \subseteq unsaved', Types,
           \A a \in Artist, e \in Events : Later(s, a, e) \subseteq Later(s, a, e)'
    PROVE  RowsKeepUp(s)'
<1> SUFFICES ASSUME task[s] \in Stats, NEW a \in Artist, a \notin unsaved', NEW e \in Events
             PROVE  Count(task[s].rows[a], e) + Cardinality(Later(s, a, e)') >= Count(learned[a], e)
  BY DEF RowsKeepUp, Count
<1>1. Count(task[s].rows[a], e) + Cardinality(Later(s, a, e)) >= Count(learned[a], e)
  BY DEF RowsKeepUp
<1>2. Count(task[s].rows[a], e) \in Nat /\ Count(learned[a], e) \in Nat
  BY CountType DEF Types, Rewards, Stats
<1>3. Later(s, a, e) \in SUBSET Task /\ Later(s, a, e)' \in SUBSET Task
  BY DEF Later, Underway
<1>4. /\ Cardinality(Later(s, a, e)) \in Nat /\ Cardinality(Later(s, a, e)') \in Nat
      /\ Cardinality(Later(s, a, e)) <= Cardinality(Later(s, a, e)')
  BY <1>3, MoreTasks
<1> QED BY <1>1, <1>2, <1>4

LEMMA CacheKept ==
    ASSUME DiscoverAssumption, Types, CacheIsAhead, UNCHANGED <<learned, cache, unsaved>>,
           \A a \in Artist, e \in Events : Underway(a, e) \subseteq Underway(a, e)'
    PROVE  CacheIsAhead'
<1> SUFFICES ASSUME cache # None, NEW a \in Artist, a \notin unsaved, NEW e \in Events
             PROVE  Count(cache[a], e) + Cardinality(Underway(a, e)') >= Count(learned[a], e)
  BY DEF CacheIsAhead, Count
<1>1. Count(cache[a], e) + Cardinality(Underway(a, e)) >= Count(learned[a], e)
  BY DEF CacheIsAhead
<1>2. Count(cache[a], e) \in Nat /\ Count(learned[a], e) \in Nat
  BY CountType DEF Types, Rewards
<1>3. Underway(a, e) \in SUBSET Task /\ Underway(a, e)' \in SUBSET Task
  BY DEF Underway
<1>4. /\ Cardinality(Underway(a, e)) \in Nat /\ Cardinality(Underway(a, e)') \in Nat
      /\ Cardinality(Underway(a, e)) <= Cardinality(Underway(a, e)')
  BY <1>3, MoreTasks
<1> QED BY <1>1, <1>2, <1>4

(* A step that is not about the rewards.                                     *)
LEMMA BesideTheRewards ==
    ASSUME DiscoverAssumption, Types, \A s \in Task : RowsKeepUp(s), CacheIsAhead,
           NEW t \in Task, NEW j, Moves(t, j), OrderKept(t),
           task[t] \notin Records, j \notin Stats, UNCHANGED <<learned, cache, unsaved>>
    PROVE  (\A s \in Task : RowsKeepUp(s)') /\ CacheIsAhead'
<1>1. \A a \in Artist, e \in Events : t \notin Underway(a, e)
  BY DEF Underway
<1>2. ASSUME NEW s \in Task PROVE RowsKeepUp(s)'
  <2>1. CASE s = t
    BY <2>1, Moved DEF RowsKeepUp
  <2>2. CASE s # t
    <3>1. \A a \in Artist, e \in Events : Later(s, a, e) \subseteq Later(s, a, e)'
      BY <1>1, <2>2, OthersLater DEF Later, Underway
    <3> QED BY <2>2, <3>1, Moved, RowsKept
  <2> QED BY <2>1, <2>2
<1>3. \A a \in Artist, e \in Events : Underway(a, e) \subseteq Underway(a, e)'
  BY <1>1, OthersUnderway DEF Underway
<1> QED BY <1>2, <1>3, CacheKept

-----------------------------------------------------------------------------
(* The steps of a record                                                     *)

LEMMA NotIdle ==
    /\ \A j \in Records \cup Stats : j # Idle
    /\ \A j : IsPage(j) \/ IsSearch(j) => j # Idle
    /\ \A j \in Records : j \notin Stats /\ ~IsSearch(j)
    /\ \A j \in Stats : j \notin Records /\ ~IsSearch(j)
    /\ \A j : IsPage(j) => j \notin Records /\ j \notin Stats /\ ~IsSearch(j)
    /\ \A j : IsSearch(j) => j \notin Records /\ j \notin Stats
    /\ Idle \notin Records /\ Idle \notin Stats /\ ~IsSearch(Idle)
BY DEF Records, Stats, IsPage, IsSearch, Idle

(* The UPDATE: the event is underway to the cache, and later than all rows.  *)
LEMMA UpdateKeeps ==
    ASSUME DiscoverAssumption, Inv, NEW t \in Task, NEW b \in Artist, NEW x \in Events,
           RecordUpdate(t, b, x)
    PROVE  Inv'
<1> DEFINE j == [kind |-> "record", pc |-> "commit", a |-> b, e |-> x]
<1>1. /\ task[t] = Idle /\ Moves(t, j) /\ answers' = Append(answers, t)
      /\ learned' = [learned EXCEPT ![b] = Append(@, x)] /\ UNCHANGED <<cache, unsaved>>
  BY DEF RecordUpdate, Issue, Moves
<1>2. j \in Records /\ j.a = b /\ j.e = x /\ j.pc = "commit"
  BY DEF Records
<1> HIDE DEF j
<1>3. Types
  BY DEF Inv
<1>4. task'[t] = j /\ \A r \in Task : r # t => task'[r] = task[r]
  BY <1>1, <1>3, Moved
<1>5. OrderKept(t) /\ \A s \in Task : task[s] # Idle => Behind(t, s)'
  BY <1>1, <1>3, Joins DEF OrderKept
<1>6. learned' \in Rewards /\ \A a \in Artist : learned[a] \in Seq(Events)
  <2>1. Append(learned[b], x) \in Seq(Events)
    BY <1>3, AppendProperties DEF Types, Rewards
  <2> QED BY <1>1, <1>3, <2>1 DEF Types, Rewards
<1>7. Types'
  <2>1. Job(j) /\ j # Idle
    BY <1>2, NotIdle DEF Job
  <2>2. \A r \in Task : (\E i \in DOMAIN answers' : answers'[i] = r)
                        <=> IF r = t THEN j # Idle ELSE task[r] # Idle
    BY <1>1, <1>3, <2>1, Joins
  <2>3. answers' \in Seq(Task) /\ IsInjective(answers)' /\ (cache' = None \/ cache' \in Rewards)
    BY <1>1, <1>3, Joins DEF Types
  <2> QED BY <1>1, <1>3, <1>6, <2>1, <2>2, <2>3, TypesKept
<1>8. Searches'
  BY <1>1, <1>2, <1>3, NotIdle, SearchesKept DEF Inv
<1>9. \A a \in Artist, e \in Events : t \notin Underway(a, e)
  BY <1>1, NotIdle DEF Underway
<1>10. ASSUME NEW a \in Artist, NEW e \in Events
       PROVE  /\ Count(learned[a], e) \in Nat /\ Count(learned[a], e)' \in Nat
              /\ Count(learned[a], e)' = Count(learned[a], e) \/
                 (a = b /\ e = x /\ Count(learned[a], e)' = Count(learned[a], e) + 1)
  <2>1. learned'[a] = IF a = b THEN Append(learned[b], x) ELSE learned[a]
    BY <1>1, <1>3 DEF Types, Rewards
  <2>2. Count(learned'[a], e) = IF a = b THEN Count(Append(learned[b], x), e) ELSE Count(learned[a], e)
    BY <2>1
  <2>3. Count(Append(learned[b], x), e) = IF x = e THEN Count(learned[b], e) + 1 ELSE Count(learned[b], e)
    BY <1>6, CountAppend
  <2>4. Count(learned[a], e) \in Nat /\ Count(learned'[a], e) \in Nat
    <3>1. learned'[a] \in Seq(Events)
      BY <1>6 DEF Rewards
    <3> QED BY <1>6, <3>1, CountType
  <2>5. Count(learned[a], e)' = Count(learned'[a], e)
    BY DEF Count
  <2> QED BY <2>2, <2>3, <2>4, <2>5
<1>11. ASSUME NEW s \in Task PROVE RowsKeepUp(s)'
  <2>1. CASE s = t
    BY <1>2, <1>4, <2>1, NotIdle DEF RowsKeepUp
  <2>2. CASE s # t
    <3> SUFFICES ASSUME task[s] \in Stats, NEW a \in Artist, a \notin unsaved, NEW e \in Events
                 PROVE  Count(task[s].rows[a], e) + Cardinality(Later(s, a, e)') >= Count(learned[a], e)'
      BY <1>1, <1>4, <2>2 DEF RowsKeepUp, Count
    <3> DEFINE L == Later(s, a, e)
               M == Later(s, a, e)'
    <3>1. Count(task[s].rows[a], e) + Cardinality(L) >= Count(learned[a], e)
      BY <1>1 DEF Inv, RowsKeepUp
    <3>2. Count(task[s].rows[a], e) \in Nat
      BY CountType DEF Stats, Rewards
    <3>3. L \subseteq M /\ L \in SUBSET Task /\ M \in SUBSET Task /\ t \notin L
      BY <1>1, <1>3, <1>5, <1>9, <2>2, OthersLater DEF Later, Underway
    <3>4. a = b /\ e = x => t \in M
      <4>1. Steps(t)' = 2 /\ Steps(s)' \in {1, 2} /\ Behind(t, s)'
        BY <1>2, <1>4, <1>5, NotIdle DEF Steps
      <4>2. After(t, s)'
        BY <4>1 DEF After
      <4> QED BY <1>2, <1>4, <4>2 DEF Later, Underway
    <3>5. Cardinality(L) \in Nat /\ Cardinality(M) \in Nat /\ Cardinality(L) <= Cardinality(M)
      BY <3>3, MoreTasks
    <3>6. a = b /\ e = x => Cardinality(L) + 1 <= Cardinality(M)
      <4> HAVE a = b /\ e = x
      <4>1. L \cup {t} \in SUBSET M
        BY <3>3, <3>4
      <4> HIDE DEF L, M
      <4>2. Cardinality(L \cup {t}) = Cardinality(L) + 1
        BY <3>3, OneMoreTask
      <4>3. Cardinality(L \cup {t}) <= Cardinality(M)
        BY <3>3, <4>1, MoreTasks
      <4> QED BY <4>2, <4>3
    <3> HIDE DEF L, M
    <3>7. Count(task[s].rows[a], e) + Cardinality(M) >= Count(learned[a], e)'
      BY <1>10, <3>1, <3>2, <3>5, <3>6
    <3> QED BY <3>7 DEF M
  <2> QED BY <2>1, <2>2
<1>12. CacheIsAhead'
  <2> SUFFICES ASSUME cache # None, NEW a \in Artist, a \notin unsaved, NEW e \in Events
               PROVE  Count(cache[a], e) + Cardinality(Underway(a, e)') >= Count(learned[a], e)'
    BY <1>1 DEF CacheIsAhead, Count
  <2> DEFINE L == Underway(a, e)
             M == Underway(a, e)'
  <2>1. Count(cache[a], e) + Cardinality(L) >= Count(learned[a], e)
    BY DEF Inv, CacheIsAhead
  <2>2. Count(cache[a], e) \in Nat
    BY <1>3, CountType DEF Types, Rewards
  <2>3. L \subseteq M /\ L \in SUBSET Task /\ M \in SUBSET Task /\ t \notin L
    BY <1>1, <1>3, <1>9, OthersUnderway DEF Underway
  <2>4. a = b /\ e = x => t \in M
    BY <1>2, <1>4 DEF Underway
  <2>5. Cardinality(L) \in Nat /\ Cardinality(M) \in Nat /\ Cardinality(L) <= Cardinality(M)
    BY <2>3, MoreTasks
  <2>6. a = b /\ e = x => Cardinality(L) + 1 <= Cardinality(M)
    <3> HAVE a = b /\ e = x
    <3>1. L \cup {t} \in SUBSET M
      BY <2>3, <2>4
    <3> HIDE DEF L, M
    <3>2. Cardinality(L \cup {t}) = Cardinality(L) + 1
      BY <2>3, OneMoreTask
    <3>3. Cardinality(L \cup {t}) <= Cardinality(M)
      BY <2>3, <3>1, MoreTasks
    <3> QED BY <3>2, <3>3
  <2> HIDE DEF L, M
  <2>7. Count(cache[a], e) + Cardinality(M) >= Count(learned[a], e)'
    BY <1>10, <2>1, <2>2, <2>5, <2>6
  <2> QED BY <2>7 DEF M
<1> QED BY <1>7, <1>8, <1>11, <1>12 DEF Inv

(* What the other steps do to the queue: the first statement of a task, one  *)
(* more for one that collects an answer, the last answer.                    *)
Turn(t, j) ==
    \/ task[t] = Idle /\ j # Idle /\ Issue(t)
    \/ task[t] # Idle /\ j # Idle /\ CollectAndIssue(t)
    \/ task[t] # Idle /\ j = Idle /\ Collect(t)

LEMMA TurnKeeps ==
    ASSUME Types, NEW t \in Task, NEW j, Moves(t, j), Job(j), Turn(t, j),
           learned' = learned, cache' = None \/ cache' \in Rewards
    PROVE  Types' /\ OrderKept(t)
<1>1. /\ answers' \in Seq(Task) /\ IsInjective(answers)'
      /\ \A r \in Task : (\E i \in DOMAIN answers' : answers'[i] = r)
                         <=> IF r = t THEN j # Idle ELSE task[r] # Idle
      /\ OrderKept(t)
  <2>1. CASE task[t] = Idle /\ j # Idle /\ Issue(t)
    <3>1. answers' = Append(answers, t)
      BY <2>1 DEF Issue
    <3> QED BY <2>1, <3>1, Joins DEF OrderKept
  <2>2. CASE task[t] # Idle /\ j # Idle /\ CollectAndIssue(t)
    <3>1. answers # <<>> /\ Head(answers) = t /\ answers' = Append(Tail(answers), t)
      BY <2>2 DEF CollectAndIssue
    <3> QED BY <2>2, <3>1, GoesRound DEF OrderKept
  <2>3. CASE task[t] # Idle /\ j = Idle /\ Collect(t)
    <3>1. answers # <<>> /\ Head(answers) = t /\ answers' = Tail(answers)
      BY <2>3 DEF Collect
    <3> QED BY <2>3, <3>1, Leaves DEF OrderKept
  <2> QED BY <2>1, <2>2, <2>3 DEF Turn
<1>2. learned' \in Rewards
  BY DEF Types
<1> QED BY <1>1, <1>2, TypesKept

(* Which task is at which step.                                              *)
LEMMA Whose ==
    ASSUME Types, NEW t \in Task, task[t] # Idle
    PROVE  /\ task[t].pc \in {"commit", "apply"} => task[t] \in Records
           /\ task[t].pc \in {"fetch", "fill"} => task[t] \in Stats
           /\ task[t].pc \in PagePcs => IsPage(task[t])
           /\ task[t].pc = "found" => IsSearch(task[t])
BY DEF Types, Job, Records, Stats, IsPage, IsSearch, PagePcs

(* The rows of another task keep up when t is not one that comes after them, *)
(* or still is.                                                              *)
LEMMA OtherRows ==
    ASSUME DiscoverAssumption, Types, NEW t \in Task, NEW j, Moves(t, j), OrderKept(t),
           NEW s \in Task, s # t, RowsKeepUp(s), learned' = learned, unsaved \subseteq unsaved',
           \A a \in Artist, e \in Events : t \in Later(s, a, e) => t \in Later(s, a, e)'
    PROVE  RowsKeepUp(s)'
<1>1. \A a \in Artist, e \in Events : Later(s, a, e) \subseteq Later(s, a, e)'
  BY OthersLater DEF Later, Underway
<1>2. task'[s] = task[s]
  BY Moved
<1> QED BY <1>1, <1>2, RowsKept

(* The COMMIT: one answer is left to collect, but it is now the last.        *)
LEMMA CommitKeeps ==
    ASSUME DiscoverAssumption, Inv, NEW t \in Task, RecordCommit(t)
    PROVE  Inv'
<1> DEFINE j == [task[t] EXCEPT !.pc = "apply"]
<1>1. Types /\ task[t] # Idle /\ task[t] \in Records /\ task[t].pc = "commit"
  BY Whose DEF Inv, RecordCommit, At
<1>2. Moves(t, j) /\ CollectAndIssue(t) /\ UNCHANGED <<learned, cache, unsaved>>
  BY <1>1 DEF RecordCommit, Goto, Moves, Types
<1>3. j \in Records /\ j.a = task[t].a /\ j.e = task[t].e /\ j.pc = "apply"
  BY <1>1 DEF Records
<1> HIDE DEF j
<1>4. task'[t] = j /\ \A r \in Task : r # t => task'[r] = task[r]
  BY <1>1, <1>2, Moved
<1>5. Job(j) /\ Turn(t, j)
  BY <1>1, <1>2, <1>3, NotIdle DEF Job, Turn
<1>6. Types' /\ OrderKept(t)
  <2>1. learned' = learned /\ (cache' = None \/ cache' \in Rewards)
    BY <1>1, <1>2 DEF Types
  <2> QED BY <1>1, <1>2, <1>5, <2>1, TurnKeeps
<1>7. Searches'
  BY <1>1, <1>2, <1>3, NotIdle, SearchesKept DEF Inv
<1>8. /\ \A s \in Task : ~Behind(t, s)
      /\ \A s \in Task : s # t /\ task[s] # Idle => Behind(t, s)'
  BY <1>1, <1>2, GoesRound DEF CollectAndIssue
<1>9. ASSUME NEW s \in Task PROVE RowsKeepUp(s)'
  <2>1. CASE s = t
    BY <1>3, <1>4, <2>1, NotIdle DEF RowsKeepUp
  <2>2. CASE s # t /\ task[s] \notin Stats
    BY <1>4, <2>2 DEF RowsKeepUp
  <2>3. CASE s # t /\ task[s] \in Stats
    <3>1. ASSUME NEW a \in Artist, NEW e \in Events, t \in Later(s, a, e)
          PROVE  t \in Later(s, a, e)'
      <4>1. task[s] # Idle /\ Steps(s) = 1
        BY <1>8, <2>3, <3>1, NotIdle DEF Later, After, Steps
      <4>2. Steps(s)' = 1 /\ Steps(t)' = 1 /\ Behind(t, s)'
        BY <1>3, <1>4, <1>8, <2>3, <4>1 DEF Steps
      <4>3. After(t, s)'
        BY <4>2 DEF After
      <4> QED BY <1>3, <1>4, <3>1, <4>3 DEF Later, Underway
    <3>2. RowsKeepUp(s) /\ learned' = learned /\ unsaved \subseteq unsaved'
      BY <1>2 DEF Inv
    <3> QED BY <1>1, <1>2, <1>6, <2>3, <3>1, <3>2, OtherRows
  <2> QED BY <2>1, <2>2, <2>3
<1>10. CacheIsAhead'
  <2>1. \A a \in Artist, e \in Events : Underway(a, e) \subseteq Underway(a, e)'
    BY <1>1, <1>2, <1>3, <1>4, OthersUnderway DEF Underway
  <2> QED BY <1>1, <1>2, <2>1, CacheKept DEF Inv
<1> QED BY <1>6, <1>7, <1>9, <1>10 DEF Inv

(* The cache learns the event, or its commit has failed.  No rows waited for *)
(* it: its answer was the first.                                             *)
LEMMA ApplyKeeps ==
    ASSUME DiscoverAssumption, Inv, NEW t \in Task, RecordApply(t)
    PROVE  Inv'
<1> DEFINE b == task[t].a
           x == task[t].e
<1>1. Types /\ task[t] # Idle /\ task[t] \in Records /\ task[t].pc = "apply"
  BY Whose DEF Inv, RecordApply, At
<1>2. /\ Moves(t, Idle) /\ Collect(t) /\ learned' = learned
      /\ \/ /\ cache' = IF cache = None THEN None ELSE [cache EXCEPT ![b] = Append(@, x)]
            /\ unsaved' = unsaved
         \/ unsaved' = unsaved \cup {b} /\ cache' = cache
  BY DEF RecordApply, End, Moves
<1>3. b \in Artist /\ x \in Events
  BY <1>1 DEF Records
<1>4. task'[t] = Idle /\ \A r \in Task : r # t => task'[r] = task[r]
  BY <1>1, <1>2, Moved
<1>5. cache' = None \/ cache' \in Rewards
  <2>1. CASE cache # None
    <3>1. Append(cache[b], x) \in Seq(Events)
      BY <1>1, <1>3, <2>1, AppendProperties DEF Types, Rewards
    <3> QED BY <1>1, <1>2, <2>1, <3>1 DEF Types, Rewards
  <2>2. CASE cache = None
    BY <1>2, <2>2
  <2> QED BY <2>1, <2>2
<1>6. Types' /\ OrderKept(t)
  <2>1. Job(Idle) /\ Turn(t, Idle)
    BY <1>1, <1>2 DEF Job, Turn
  <2> QED BY <1>1, <1>2, <1>5, <2>1, TurnKeeps
<1>7. Searches'
  BY <1>1, <1>2, NotIdle, SearchesKept DEF Inv
<1>8. \A s \in Task : ~Behind(t, s)
  BY <1>1, <1>2, Leaves DEF Collect
<1>9. ASSUME NEW s \in Task PROVE RowsKeepUp(s)'
  <2>1. CASE s = t
    BY <1>4, <2>1, NotIdle DEF RowsKeepUp
  <2>2. CASE s # t
    <3>1. Steps(t) = 1 /\ Steps(s) \in {1, 2} /\ ~Behind(t, s)
      BY <1>1, <1>8 DEF Steps
    <3>2. ~After(t, s)
      BY <3>1 DEF After
    <3>3. \A a \in Artist, e \in Events : t \in Later(s, a, e) => t \in Later(s, a, e)'
      BY <3>2 DEF Later
    <3>4. RowsKeepUp(s) /\ unsaved \subseteq unsaved'
      BY <1>2 DEF Inv
    <3> QED BY <1>1, <1>2, <1>6, <2>2, <3>3, <3>4, OtherRows
  <2> QED BY <2>1, <2>2
<1>10. CacheIsAhead'
  <2> SUFFICES ASSUME cache' # None, NEW a \in Artist, a \notin unsaved', NEW e \in Events
               PROVE  Count(cache'[a], e) + Cardinality(Underway(a, e)') >= Count(learned[a], e)
    BY <1>2 DEF CacheIsAhead, Count
  <2> DEFINE L == Underway(a, e)
             M == Underway(a, e)'
  <2>1. cache # None /\ a \notin unsaved
    BY <1>2
  <2>2. Count(cache[a], e) + Cardinality(L) >= Count(learned[a], e)
    BY <2>1 DEF Inv, CacheIsAhead
  <2>3. cache[a] \in Seq(Events) /\ Count(cache[a], e) \in Nat /\ Count(learned[a], e) \in Nat
    BY <1>1, <2>1, CountType DEF Types, Rewards
  <2>4. L \in SUBSET Task /\ (t \in L <=> a = b /\ e = x)
    BY <1>1 DEF Underway
  <2>5. M = L \ {t}
    BY <1>1, <1>2, <1>4, OthersUnderway, NotIdle DEF Underway
  <2> HIDE DEF L, M
  <2>6. Cardinality(L) \in Nat
    BY <2>4, MoreTasks
  <2>7. CASE t \in L
    <3>1. a = b /\ e = x /\ cache' = [cache EXCEPT ![b] = Append(@, x)]
      BY <1>2, <2>1, <2>4, <2>7
    <3>2. cache'[a] = Append(cache[a], e)
      BY <1>1, <2>1, <3>1 DEF Types, Rewards
    <3>3. Count(cache'[a], e) = Count(cache[a], e) + 1
      BY <2>3, <3>2, CountAppend
    <3>4. Cardinality(M) = Cardinality(L) - 1
      BY <2>4, <2>5, <2>7, OneTaskLess
    <3> QED BY <2>2, <2>3, <2>6, <3>3, <3>4 DEF M
  <2>8. CASE t \notin L
    <3>1. M = L /\ ~(a = b /\ e = x)
      BY <2>4, <2>5, <2>8
    <3>2. Count(cache'[a], e) = Count(cache[a], e)
      <4>1. CASE a # b \/ cache' = cache
        <5>1. cache'[a] = cache[a]
          BY <1>1, <1>2, <2>1, <4>1 DEF Types, Rewards
        <5> QED BY <5>1
      <4>2. CASE a = b /\ cache' # cache
        <5>1. cache'[a] = Append(cache[a], x) /\ x # e
          BY <1>1, <1>2, <2>1, <3>1, <4>2 DEF Types, Rewards
        <5> QED BY <1>3, <2>3, <5>1, CountAppend
      <4> QED BY <4>1, <4>2
    <3> QED BY <2>2, <3>1, <3>2 DEF M
  <2> QED BY <2>7, <2>8
<1> QED BY <1>6, <1>7, <1>9, <1>10 DEF Inv

-----------------------------------------------------------------------------
(* The steps of a task that reads the rows                                   *)

(* What every one of them leaves alone: the table, and who is underway.      *)
LEMMA StatsKeep ==
    ASSUME DiscoverAssumption, Inv, NEW t \in Task, NEW j, Moves(t, j), Turn(t, j),
           task[t] = Idle \/ task[t] \in Stats, j = Idle \/ j \in Stats,
           learned' = learned, unsaved' = unsaved, cache' = None \/ cache' \in Rewards
    PROVE  /\ Types' /\ Searches' /\ OrderKept(t)
           /\ \A s \in Task : s # t => RowsKeepUp(s)'
           /\ \A a \in Artist, e \in Events : Underway(a, e)' = Underway(a, e)
<1>1. Types /\ Job(j) /\ task[t] \notin Records /\ j \notin Records /\ ~IsSearch(j)
  BY NotIdle DEF Inv, Job
<1>2. Types' /\ OrderKept(t)
  BY <1>1, TurnKeeps
<1>3. Searches'
  BY <1>1, SearchesKept DEF Inv
<1>4. task'[t] = j
  BY <1>1, Moved
<1>5. \A a \in Artist, e \in Events : Underway(a, e)' = Underway(a, e)
  BY <1>1, <1>4, OthersUnderway DEF Underway
<1>6. ASSUME NEW s \in Task, s # t PROVE RowsKeepUp(s)'
  <2>1. \A a \in Artist, e \in Events : t \in Later(s, a, e) => t \in Later(s, a, e)'
    BY <1>1 DEF Later, Underway
  <2>2. RowsKeepUp(s) /\ unsaved \subseteq unsaved'
    BY DEF Inv
  <2> QED BY <1>1, <1>2, <1>6, <2>1, <2>2, OtherRows
<1> QED BY <1>2, <1>3, <1>5, <1>6

(* The SELECT: the rows are those of the table.                              *)
LEMMA SelectKeeps ==
    ASSUME DiscoverAssumption, Inv, NEW t \in Task, StatsSelect(t)
    PROVE  Inv'
<1> DEFINE j == [kind |-> "stats", pc |-> "fetch", rows |-> learned]
<1>1. /\ task[t] = Idle /\ Moves(t, j) /\ Issue(t) /\ cache' = None
      /\ UNCHANGED <<learned, cache, unsaved>>
  BY DEF StatsSelect, Moves
<1>2. j \in Stats /\ j.rows = learned
  BY DEF Inv, Types, Stats
<1> HIDE DEF j
<1>3. Turn(t, j)
  BY <1>1, <1>2, NotIdle DEF Turn
<1>4. /\ Types' /\ Searches' /\ \A s \in Task : s # t => RowsKeepUp(s)'
      /\ \A a \in Artist, e \in Events : Underway(a, e)' = Underway(a, e)
  BY <1>1, <1>2, <1>3, StatsKeep
<1>5. RowsKeepUp(t)'
  <2>1. task'[t] = j
    BY <1>1, Moved DEF Inv
  <2> SUFFICES ASSUME NEW a \in Artist, NEW e \in Events
               PROVE  Count(learned[a], e) + Cardinality(Later(t, a, e)') >= Count(learned[a], e)
    BY <1>1, <1>2, <2>1 DEF RowsKeepUp, Count
  <2>2. Count(learned[a], e) \in Nat
    BY CountType DEF Inv, Types, Rewards
  <2>3. Later(t, a, e)' \in SUBSET Task
    BY DEF Later, Underway
  <2>4. Cardinality(Later(t, a, e)') \in Nat
    BY <2>3, MoreTasks
  <2> QED BY <2>2, <2>4
<1> QED BY <1>1, <1>4, <1>5 DEF Inv, CacheIsAhead

(* The rows: some are as they were, some as they are by now.  An event that  *)
(* came later than the SELECT has its COMMIT before it.                      *)
LEMMA FetchKeeps ==
    ASSUME DiscoverAssumption, Inv, NEW t \in Task, StatsFetch(t)
    PROVE  Inv'
<1>1. Types /\ task[t] # Idle /\ task[t] \in Stats /\ task[t].pc = "fetch"
  BY Whose DEF Inv, StatsFetch, At
<1>2. PICK late \in SUBSET Artist :
        task' = [task EXCEPT ![t].pc = "fill",
                             ![t].rows = [a \in Artist |-> IF a \in late THEN learned[a] ELSE @[a]]]
  BY DEF StatsFetch
<1> DEFINE now == [a \in Artist |-> IF a \in late THEN learned[a] ELSE task[t].rows[a]]
           j == [task[t] EXCEPT !.pc = "fill", !.rows = now]
<1>3. now \in Rewards
  BY <1>1 DEF Types, Rewards, Stats
<1>4. \A a \in Artist : now[a] = learned[a] \/ now[a] = task[t].rows[a]
  OBVIOUS
<1>5. task' = [task EXCEPT ![t] = j]
  BY <1>1, <1>2 DEF Types
<1> HIDE DEF now
<1>6. j \in Stats /\ j.rows = now /\ j.pc = "fill"
  BY <1>1, <1>3 DEF Stats
<1> HIDE DEF j
<1>7. /\ Moves(t, j) /\ CollectAndIssue(t) /\ UNCHANGED <<learned, cache, unsaved>>
      /\ (cache' = None \/ cache' \in Rewards)
  BY <1>1, <1>5 DEF StatsFetch, Moves, Types
<1>8. Turn(t, j)
  BY <1>1, <1>6, <1>7, NotIdle DEF Turn
<1>9. /\ Types' /\ Searches' /\ OrderKept(t) /\ \A s \in Task : s # t => RowsKeepUp(s)'
      /\ \A a \in Artist, e \in Events : Underway(a, e)' = Underway(a, e)
  BY <1>1, <1>6, <1>7, <1>8, StatsKeep
<1>10. task'[t] = j /\ \A r \in Task : r # t => task'[r] = task[r]
  BY <1>1, <1>7, Moved
<1>11. ASSUME NEW a \in Artist, NEW e \in Events PROVE Later(t, a, e) \subseteq Later(t, a, e)'
  <2> SUFFICES ASSUME NEW r \in Later(t, a, e) PROVE r \in Later(t, a, e)'
    OBVIOUS
  <2>1. r \in Task /\ r \in Underway(a, e) /\ task[r] \in Records /\ After(r, t)
    BY DEF Later, Underway
  <2>2. r # t
    BY <1>1, <2>1, NotIdle
  <2>3. Steps(t) = 2 /\ Steps(r) = 2
    BY <1>1, <2>1 DEF After, Steps
  <2>4. Steps(t)' = 1 /\ Steps(r)' = 2
    BY <1>6, <1>10, <2>1, <2>2, <2>3 DEF Steps
  <2>5. After(r, t)'
    BY <2>4 DEF After
  <2> QED BY <1>9, <2>1, <2>5 DEF Later
<1>12. RowsKeepUp(t)'
  <2> SUFFICES ASSUME NEW a \in Artist, a \notin unsaved, NEW e \in Events
               PROVE  Count(now[a], e) + Cardinality(Later(t, a, e)') >= Count(learned[a], e)
    BY <1>6, <1>7, <1>10 DEF RowsKeepUp, Count
  <2>1. /\ Count(now[a], e) \in Nat /\ Count(learned[a], e) \in Nat
        /\ Count(task[t].rows[a], e) \in Nat
    BY <1>1, <1>3, CountType DEF Types, Rewards, Stats
  <2>2. Count(task[t].rows[a], e) + Cardinality(Later(t, a, e)) >= Count(learned[a], e)
    BY <1>1 DEF Inv, RowsKeepUp
  <2>3. Later(t, a, e) \in SUBSET Task /\ Later(t, a, e)' \in SUBSET Task
    BY DEF Later, Underway
  <2>4. /\ Cardinality(Later(t, a, e)) \in Nat /\ Cardinality(Later(t, a, e)') \in Nat
        /\ Cardinality(Later(t, a, e)) <= Cardinality(Later(t, a, e)')
    BY <1>11, <2>3, MoreTasks
  <2>5. CASE now[a] = learned[a]
    BY <2>1, <2>4, <2>5
  <2>6. CASE now[a] = task[t].rows[a]
    BY <2>1, <2>2, <2>4, <2>6
  <2> QED BY <1>4, <2>5, <2>6
<1>13. CacheIsAhead'
  BY <1>1, <1>7, <1>9, CacheKept DEF Inv
<1> QED BY <1>9, <1>12, <1>13 DEF Inv

(* The cache is the rows: what came later than they did is still underway.   *)
LEMMA FillKeeps ==
    ASSUME DiscoverAssumption, Inv, NEW t \in Task, StatsFill(t)
    PROVE  Inv'
<1>1. Types /\ task[t] # Idle /\ task[t] \in Stats /\ task[t].pc = "fill"
  BY Whose DEF Inv, StatsFill, At
<1>2. /\ Moves(t, Idle) /\ Collect(t) /\ learned' = learned /\ unsaved' = unsaved
      /\ cache' = task[t].rows
  BY DEF StatsFill, End, Moves
<1>3. cache' \in Rewards /\ Turn(t, Idle)
  BY <1>1, <1>2 DEF Stats, Turn
<1>4. /\ Types' /\ Searches' /\ \A s \in Task : s # t => RowsKeepUp(s)'
      /\ \A a \in Artist, e \in Events : Underway(a, e)' = Underway(a, e)
  BY <1>1, <1>2, <1>3, StatsKeep
<1>5. RowsKeepUp(t)'
  <2>1. task'[t] = Idle
    BY <1>1, <1>2, Moved
  <2> QED BY <2>1, NotIdle DEF RowsKeepUp
<1>6. CacheIsAhead'
  <2> SUFFICES ASSUME NEW a \in Artist, a \notin unsaved, NEW e \in Events
               PROVE  Count(cache'[a], e) + Cardinality(Underway(a, e)') >= Count(learned[a], e)
    BY <1>2 DEF CacheIsAhead, Count
  <2>1. Count(task[t].rows[a], e) + Cardinality(Later(t, a, e)) >= Count(learned[a], e)
    BY <1>1 DEF Inv, RowsKeepUp
  <2>2. Count(task[t].rows[a], e) \in Nat /\ Count(learned[a], e) \in Nat
    BY <1>1, CountType DEF Types, Rewards, Stats
  <2>3. Underway(a, e) \in SUBSET Task /\ Later(t, a, e) \in SUBSET Underway(a, e)
    BY DEF Later, Underway
  <2>4. /\ Cardinality(Later(t, a, e)) \in Nat /\ Cardinality(Underway(a, e)) \in Nat
        /\ Cardinality(Later(t, a, e)) <= Cardinality(Underway(a, e))
    BY <2>3, MoreTasks
  <2>5. Cardinality(Underway(a, e)') = Cardinality(Underway(a, e))
    BY <1>4
  <2>6. Count(cache'[a], e) = Count(task[t].rows[a], e)
    BY <1>2
  <2> QED BY <2>1, <2>2, <2>4, <2>5, <2>6
<1> QED BY <1>4, <1>5, <1>6 DEF Inv

-----------------------------------------------------------------------------
(* What a search finds                                                       *)

LEMMA LimitedSet ==
    ASSUME DiscoverAssumption, NEW S \in SUBSET Hits, NEW T \in BestOf(S)
    PROVE  /\ T \in SUBSET S /\ IsFiniteSet(T)
           /\ Cardinality(T) < SearchLimit => T = S
<1>1. T = S \/ (T \in SUBSET S /\ Cardinality(T) = SearchLimit)
  BY DEF BestOf, AnyOf, kSubset
<1>2. T \in SUBSET Video
  BY <1>1 DEF DiscoverAssumption
<1>3. IsFiniteSet(T)
  BY <1>2, FS_Subset DEF DiscoverAssumption
<1>4. SearchLimit \in Nat
  BY DEF DiscoverAssumption
<1> QED BY <1>1, <1>3, <1>4

(* A row is one of the history exactly when the history found its video, and *)
(* there is one row for each video.                                          *)
LEMMA MergedRows ==
    ASSUME NEW tracks, NEW songs, IsFiniteSet(tracks), IsFiniteSet(songs)
    PROVE  /\ IsFiniteSet(Merged(tracks, songs))
           /\ {row.v : row \in Merged(tracks, songs)} = tracks \cup songs
           /\ \A row \in Merged(tracks, songs) : row.own <=> row.v \in tracks
           /\ \A x, y \in Merged(tracks, songs) : x.v = y.v => x = y
<1> DEFINE both == tracks \cup songs
           rows == Merged(tracks, songs)
           row(v) == [v |-> v, own |-> v \in tracks]
           f == [v \in both |-> row(v)]
<1>1. \A r \in rows : \/ r = [v |-> r.v, own |-> TRUE] /\ r.v \in tracks
                      \/ r = [v |-> r.v, own |-> FALSE] /\ r.v \in songs \ tracks
  <2>1. ASSUME NEW r \in [v : tracks, own : {TRUE}]
        PROVE  r = [v |-> r.v, own |-> TRUE] /\ r.v \in tracks
    OBVIOUS
  <2>2. ASSUME NEW r \in [v : songs \ tracks, own : {FALSE}]
        PROVE  r = [v |-> r.v, own |-> FALSE] /\ r.v \in songs \ tracks
    OBVIOUS
  <2>3. rows = [v : tracks, own : {TRUE}] \cup [v : songs \ tracks, own : {FALSE}]
    BY DEF Merged
  <2> HIDE DEF rows
  <2> QED BY <2>1, <2>2, <2>3, Zenon
<1>2. \A v \in tracks : [v |-> v, own |-> TRUE] \in rows
  BY DEF Merged
<1>3. \A v \in songs \ tracks : [v |-> v, own |-> FALSE] \in rows
  BY DEF Merged
<1> HIDE DEF rows
<1>4. \A r \in rows : r.own <=> r.v \in tracks
  BY <1>1
<1>5. \A x, y \in rows : x.v = y.v => x = y
  BY <1>1
<1>6. {r.v : r \in rows} = both
  <2>1. \A r \in rows : r.v \in both
    BY <1>1
  <2>2. \A v \in both : \E r \in rows : r.v = v
    <3> TAKE v \in both
    <3>1. [v |-> v, own |-> TRUE].v = v /\ [v |-> v, own |-> FALSE].v = v
      OBVIOUS
    <3>2. CASE v \in tracks
      BY <1>2, <3>1, <3>2
    <3>3. CASE v \in songs \ tracks
      BY <1>3, <3>1, <3>3
    <3> QED BY <3>2, <3>3
  <2> QED BY <2>1, <2>2
<1>7. IsFiniteSet(rows)
  <2>1. IsFiniteSet(both)
    BY FS_Union
  <2>2. \A v \in both : row(v) \in rows
    <3> TAKE v \in both
    <3>1. CASE v \in tracks
      <4>1. (v \in tracks) = TRUE
        BY <3>1
      <4>2. row(v) = [v |-> v, own |-> TRUE]
        BY <4>1, Zenon
      <4> QED BY <1>2, <3>1, <4>2
    <3>2. CASE v \in songs \ tracks
      <4>1. (v \in tracks) = FALSE
        BY <3>2
      <4>2. row(v) = [v |-> v, own |-> FALSE]
        BY <4>1, Zenon
      <4> QED BY <1>3, <3>2, <4>2
    <3> QED BY <3>1, <3>2
  <2>3. \A r \in rows : \E v \in both : f[v] = r
    <3> TAKE r \in rows
    <3>1. r.v \in both
      BY <1>1
    <3>2. row(r.v) \in rows /\ row(r.v).v = r.v
      BY <2>2, <3>1
    <3>3. row(r.v) = r
      BY <1>5, <3>2
    <3> QED BY <3>1, <3>3
  <2>4. f \in [both -> rows]
    BY <2>2
  <2> HIDE DEF f, both
  <2>5. f \in Surjection(both, rows)
    BY <2>3, <2>4 DEF Surjection
  <2> QED BY <2>1, <2>5, FS_Surjection
<1> QED BY <1>4, <1>5, <1>6, <1>7 DEF rows

(* A list of the search shows no video twice and, when it is not full, all   *)
(* the rows.                                                                 *)
LEMMA RankedRows ==
    ASSUME DiscoverAssumption, NEW rows, IsFiniteSet(rows), NEW list \in Ranked(rows),
           \A x, y \in rows : x.v = y.v => x = y
    PROVE  LET shown == {list[i].v : i \in DOMAIN list}
           IN  /\ Cardinality(shown) = Len(list) /\ IsFiniteSet(shown) /\ Len(list) \in Nat
               /\ \A i \in DOMAIN list : list[i] \in rows
               /\ Len(list) < SearchLimit => shown = {row.v : row \in rows}
<1> DEFINE n == Cardinality(rows)
           m == IF n < SearchLimit THEN n ELSE SearchLimit
           shown == {list[i].v : i \in DOMAIN list}
           f == [i \in 1 .. m |-> list[i].v]
<1>1. n \in Nat /\ SearchLimit \in Nat /\ m \in Nat /\ m <= n
  BY FS_CardinalityType DEF DiscoverAssumption
<1>2. PICK s \in [1 .. n -> rows] :
        /\ \A i, j \in 1 .. n : i # j => s[i] # s[j]
        /\ list = FirstOf(s, SearchLimit)
  BY DEF Ranked, SetToSeqs
<1>3. s \in Seq(rows) /\ Len(s) = n
  BY <1>1, <1>2, LenProperties, IsASeq
<1>4. list = SubSeq(s, 1, m)
  BY <1>2, <1>3 DEF FirstOf
<1> HIDE DEF n, m
<1>5. \A i \in 1 .. m : s[i] \in rows
  BY <1>1, <1>2
<1>6. /\ list \in Seq(rows) /\ Len(list) = m
      /\ \A i \in 1 .. m : list[i] = s[i]
  <2>1. /\ SubSeq(s, 1, m) \in Seq(rows) /\ Len(SubSeq(s, 1, m)) = IF 1 <= m THEN m - 1 + 1 ELSE 0
        /\ \A i \in 1 .. (m - 1 + 1) : SubSeq(s, 1, m)[i] = s[1 + i - 1]
    BY <1>1, <1>5, SubSeqProperties
  <2>2. m - 1 + 1 = m /\ (1 <= m \/ m = 0) /\ \A i \in 1 .. m : 1 + i - 1 = i
    BY <1>1
  <2> QED BY <1>4, <2>1, <2>2
<1>7. DOMAIN list = 1 .. m
  BY <1>6, LenProperties
<1>8. \A i, j \in 1 .. m : list[i].v = list[j].v => i = j
  BY <1>1, <1>2, <1>5, <1>6
<1>9. f \in Bijection(1 .. m, shown)
  <2>1. f \in [1 .. m -> shown]
    BY <1>7
  <2>2. \A i, j \in 1 .. m : f[i] = f[j] => i = j
    BY <1>8
  <2>3. \A v \in shown : \E i \in 1 .. m : f[i] = v
    BY <1>7
  <2> HIDE DEF f, shown
  <2> QED BY <2>1, <2>2, <2>3 DEF Bijection, Injection, Surjection, IsInjective
<1>10. IsFiniteSet(1 .. m) /\ Cardinality(1 .. m) = m
  <2>1. /\ IsFiniteSet(1 .. m)
        /\ Cardinality(1 .. m) = IF 1 > m THEN 0 ELSE m - 1 + 1
    <3>1. 1 \in Int /\ m \in Int
      BY <1>1
    <3> QED BY <3>1, FS_Interval
  <2>2. (IF 1 > m THEN 0 ELSE m - 1 + 1) = m
    BY <1>1
  <2> QED BY <2>1, <2>2
<1>11. IsFiniteSet(shown) /\ Cardinality(shown) = m
  <2> HIDE DEF f, shown
  <2>1. ExistsBijection(1 .. m, shown)
    BY <1>9 DEF ExistsBijection
  <2> QED BY <1>10, <2>1, FS_Bijection
<1>12. ASSUME m < SearchLimit PROVE shown = {row.v : row \in rows}
  <2>1. m = n
    BY <1>1, <1>12 DEF m
  <2>2. s \in Injection(1 .. m, rows)
    BY <1>2, <2>1 DEF Injection, IsInjective
  <2>3. s \in Surjection(1 .. m, rows)
    <3>1. Cardinality(1 .. m) = Cardinality(rows)
      BY <1>10, <2>1 DEF n
    <3> QED BY <2>2, <3>1, FS_Injection
  <2>4. \A row \in rows : \E i \in 1 .. m : s[i] = row
    BY <2>3 DEF Surjection
  <2>5. \A i \in DOMAIN list : list[i] \in rows
    BY <1>5, <1>6, <1>7
  <2>6. \A row \in rows : \E i \in DOMAIN list : list[i] = row
    BY <1>6, <1>7, <2>4
  <2>7. \A v \in shown : \E row \in rows : v = row.v
    BY <2>5
  <2>8. \A row \in rows : row.v \in shown
    BY <2>6
  <2> HIDE DEF shown
  <2> QED BY <2>7, <2>8
<1> QED BY <1>1, <1>5, <1>6, <1>7, <1>11, <1>12

LEMMA Finds ==
    ASSUME DiscoverAssumption, NEW known, NEW tracks \in BestOf(Hits \cap known),
           NEW songs \in BestOf(Hits \cap Catalogue), NEW list \in Ranked(Merged(tracks, songs))
    PROVE  Found(list, known)
<1> DEFINE shown == {list[i].v : i \in DOMAIN list}
           rows == Merged(tracks, songs)
<1>1. /\ tracks \in SUBSET (Hits \cap known) /\ IsFiniteSet(tracks)
      /\ Cardinality(tracks) < SearchLimit => tracks = Hits \cap known
  <2>1. Hits \cap known \in SUBSET Hits
    OBVIOUS
  <2> QED BY <2>1, LimitedSet
<1>2. /\ songs \in SUBSET (Hits \cap Catalogue) /\ IsFiniteSet(songs)
      /\ Cardinality(songs) < SearchLimit => songs = Hits \cap Catalogue
  <2>1. Hits \cap Catalogue \in SUBSET Hits
    OBVIOUS
  <2> QED BY <2>1, LimitedSet
<1>3. /\ IsFiniteSet(rows) /\ {row.v : row \in rows} = tracks \cup songs
      /\ \A row \in rows : row.own <=> row.v \in tracks
      /\ \A x, y \in rows : x.v = y.v => x = y
  BY <1>1, <1>2, MergedRows
<1> HIDE DEF rows
<1>4. /\ Cardinality(shown) = Len(list) /\ IsFiniteSet(shown) /\ Len(list) \in Nat
      /\ \A i \in DOMAIN list : list[i] \in rows
      /\ Len(list) < SearchLimit => shown = tracks \cup songs
  <2>1. list \in Ranked(rows)
    BY DEF rows
  <2> QED BY <1>3, <2>1, RankedRows
<1>5. ASSUME Len(list) < SearchLimit
      PROVE  /\ shown = Hits \cap (known \cup Catalogue)
             /\ \A i \in DOMAIN list : list[i].own <=> list[i].v \in known
  <2>1. shown = tracks \cup songs
    BY <1>4, <1>5
  <2> HIDE DEF shown
  <2>2. \A T : T \subseteq shown => Cardinality(T) < SearchLimit
    <3> TAKE T
    <3> HAVE T \subseteq shown
    <3>1. IsFiniteSet(T) /\ Cardinality(T) <= Cardinality(shown)
      BY <1>4, FS_Subset
    <3>2. Cardinality(T) \in Nat /\ SearchLimit \in Nat
      BY <3>1, FS_CardinalityType DEF DiscoverAssumption
    <3> QED BY <1>4, <1>5, <3>1, <3>2
  <2>3. tracks = Hits \cap known /\ songs = Hits \cap Catalogue
    BY <1>1, <1>2, <2>1, <2>2
  <2>4. shown = Hits \cap (known \cup Catalogue)
    BY <2>1, <2>3
  <2>5. \A i \in DOMAIN list : list[i].v \in Hits
    BY <2>4 DEF shown
  <2>6. \A i \in DOMAIN list : list[i].own <=> list[i].v \in tracks
    BY <1>3, <1>4
  <2> QED BY <2>3, <2>4, <2>5, <2>6
<1> QED BY <1>4, <1>5 DEF Found

-----------------------------------------------------------------------------
(* The steps of the page and of the search                                   *)

LEMMA ReaderKeeps ==
    ASSUME DiscoverAssumption, Inv, NEW t \in Task, NEW j, Moves(t, j), Turn(t, j),
           task[t] = Idle \/ IsPage(task[t]) \/ IsSearch(task[t]),
           j = Idle \/ IsPage(j) \/ (IsSearch(j) /\ Found(j.list, j.known)),
           UNCHANGED <<learned, cache, unsaved>>
    PROVE  Inv'
<1>1. /\ Types /\ Searches /\ CacheIsAhead /\ (\A s \in Task : RowsKeepUp(s))
      /\ task[t] \notin Records /\ j \notin Stats /\ Job(j)
      /\ IsSearch(j) => Found(j.list, j.known)
  BY NotIdle DEF Inv, Job
<1>2. cache' = None \/ cache' \in Rewards
  BY <1>1 DEF Types
<1>3. Types' /\ OrderKept(t)
  BY <1>1, <1>2, TurnKeeps
<1>4. Searches'
  BY <1>1, SearchesKept
<1>5. (\A s \in Task : RowsKeepUp(s)') /\ CacheIsAhead'
  BY <1>1, <1>3, BesideTheRewards
<1> QED BY <1>3, <1>4, <1>5 DEF Inv

LEMMA PageReadKeeps ==
    ASSUME DiscoverAssumption, Inv, NEW t \in Task, PageRead(t)
    PROVE  Inv'
<1>1. PICK p, k, n : task' = [task EXCEPT ![t] =
          [kind |-> "page", pc |-> "forYou", page |-> p, known |-> k, strangers |-> n]]
  BY DEF PageRead
<1> DEFINE j == [kind |-> "page", pc |-> "forYou", page |-> p, known |-> k, strangers |-> n]
<1>2. IsPage(j)
  BY DEF IsPage, PagePcs
<1>3. Moves(t, j)
  BY <1>1 DEF Moves
<1> HIDE DEF j
<1>4. task[t] = Idle /\ Turn(t, j) /\ UNCHANGED <<learned, cache, unsaved>>
  BY <1>2, NotIdle DEF PageRead, Turn
<1> QED BY <1>2, <1>3, <1>4, ReaderKeeps

(* One more section of a page.                                               *)
LEMMA SectionIsPage ==
    ASSUME Types, NEW t \in Task, NEW p, NEW next \in PagePcs, IsPage(task[t]), Section(t, p, next)
    PROVE  /\ Moves(t, [task[t] EXCEPT !.pc = next, !.page = p])
           /\ IsPage([task[t] EXCEPT !.pc = next, !.page = p])
           /\ task'[t].page = p /\ task'[t].pc = next
           /\ task'[t].known = task[t].known /\ task'[t].strangers = task[t].strangers
           /\ \A r \in Task : r # t => task'[r] = task[r]
<1>1. task' = [task EXCEPT ![t].pc = next, ![t].page = p]
  BY DEF Section
<1> DEFINE j == [task[t] EXCEPT !.pc = next, !.page = p]
<1>2. IsPage(j) /\ j.page = p /\ j.pc = next
      /\ j.known = task[t].known /\ j.strangers = task[t].strangers
  BY DEF IsPage
<1>3. Moves(t, j)
  BY ZenonT(30), <1>1 DEF Moves, Types
<1> HIDE DEF j
<1>4. task'[t] = j /\ \A r \in Task : r # t => task'[r] = task[r]
  BY <1>3, Moved
<1> QED BY <1>2, <1>3, <1>4 DEF j

LEMMA SectionKeeps ==
    ASSUME DiscoverAssumption, Inv, NEW t \in Task, NEW p, NEW next \in PagePcs,
           IsPage(task[t]), Section(t, p, next)
    PROVE  Inv'
<1> DEFINE j == [task[t] EXCEPT !.pc = next, !.page = p]
<1>1. Types /\ task[t] # Idle
  BY NotIdle DEF Inv
<1>2. Moves(t, j) /\ IsPage(j)
  BY <1>1, SectionIsPage
<1> HIDE DEF j
<1>3. Turn(t, j) /\ UNCHANGED <<learned, cache, unsaved>>
  BY <1>1, <1>2, NotIdle DEF Section, Turn
<1> QED BY <1>2, <1>3, ReaderKeeps

(* Every step between the first and the last is one.                         *)
Reads(t) ==
    ForYouRead(t) \/ UnheardRead(t) \/ TopGenreRead(t) \/ SpectrumRead(t) \/ GenreAffinity(t)

LEMMA ReadsAreSections ==
    ASSUME Types, NEW t \in Task, Reads(t)
    PROVE  /\ task[t] # Idle /\ IsPage(task[t])
           /\ \E p : \E next \in PagePcs : Section(t, p, next)
<1>1. At(t, "forYou") \/ At(t, "unheard") \/ At(t, "genre") \/ At(t, "spectrum") \/ At(t, "alike")
  BY DEF Reads, ForYouRead, UnheardRead, TopGenreRead, SpectrumRead, GenreAffinity
<1>2. task[t] # Idle /\ IsPage(task[t])
  BY <1>1, Whose DEF At, PagePcs
<1>3. /\ "unheard" \in PagePcs /\ "genre" \in PagePcs /\ "spectrum" \in PagePcs
      /\ "alike" \in PagePcs /\ "send" \in PagePcs
  BY DEF PagePcs
<1>4. CASE ForYouRead(t)
  <2>1. PICK f : Section(t, [task[t].page EXCEPT !.forYou = f], "unheard")
    BY <1>4 DEF ForYouRead
  <2> QED BY <1>2, <1>3, <2>1
<1>5. CASE UnheardRead(t)
  <2>1. PICK u : Section(t, [task[t].page EXCEPT !.unheard = u], "genre")
    BY <1>5 DEF UnheardRead
  <2> QED BY <1>2, <1>3, <2>1
<1>6. CASE TopGenreRead(t)
  <2>1. PICK g : Section(t, [task[t].page EXCEPT !.genre = g], "spectrum")
    BY <1>6 DEF TopGenreRead
  <2> QED BY <1>2, <1>3, <2>1
<1>7. CASE SpectrumRead(t)
  <2>1. PICK s : Section(t, [task[t].page EXCEPT !.spectrum = s], "alike")
    BY <1>7 DEF SpectrumRead
  <2> QED BY <1>2, <1>3, <2>1
<1>8. CASE GenreAffinity(t)
  <2>1. PICK some : Section(t, [task[t].page EXCEPT !.alike = some], "send")
    BY <1>8 DEF GenreAffinity
  <2> QED BY <1>2, <1>3, <2>1
<1> QED BY <1>2, <1>4, <1>5, <1>6, <1>7, <1>8 DEF Reads

LEMMA ReadsKeep ==
    ASSUME DiscoverAssumption, Inv, NEW t \in Task, Reads(t)
    PROVE  Inv'
BY ReadsAreSections, SectionKeeps DEF Inv

LEMMA SendKeeps ==
    ASSUME DiscoverAssumption, Inv, NEW t \in Task, PageSend(t) \/ SearchSend(t)
    PROVE  Inv'
<1>1. task[t] # Idle /\ (IsPage(task[t]) \/ IsSearch(task[t]))
  BY Whose DEF Inv, PageSend, SearchSend, At, PagePcs
<1>2. Moves(t, Idle) /\ Turn(t, Idle) /\ UNCHANGED <<learned, cache, unsaved>>
  BY <1>1 DEF PageSend, SearchSend, End, Moves, Turn
<1> QED BY <1>1, <1>2, ReaderKeeps

LEMMA SearchReadKeeps ==
    ASSUME DiscoverAssumption, Inv, NEW t \in Task, SearchRead(t)
    PROVE  Inv'
<1>1. PICK tracks \in BestOf(Hits \cap InHistory), songs \in BestOf(Hits \cap Catalogue) :
        \E list \in Ranked(Merged(tracks, songs)) :
            task' = [task EXCEPT ![t] = [kind |-> "search", pc |-> "found", list |-> list,
                                         known |-> InHistory]]
  BY DEF SearchRead
<1>2. PICK list \in Ranked(Merged(tracks, songs)) :
        task' = [task EXCEPT ![t] = [kind |-> "search", pc |-> "found", list |-> list,
                                     known |-> InHistory]]
  BY <1>1
<1> DEFINE j == [kind |-> "search", pc |-> "found", list |-> list, known |-> InHistory]
<1>3. IsSearch(j) /\ j.list = list /\ j.known = InHistory
  BY DEF IsSearch
<1>4. Moves(t, j)
  BY <1>2 DEF Moves
<1> HIDE DEF j
<1>5. Found(list, InHistory)
  BY <1>1, <1>2, Finds
<1>6. task[t] = Idle /\ Turn(t, j) /\ UNCHANGED <<learned, cache, unsaved>>
  BY <1>3, NotIdle DEF SearchRead, Turn
<1> QED BY <1>3, <1>4, <1>5, <1>6, ReaderKeeps

-----------------------------------------------------------------------------
(* The invariant                                                             *)

LEMMA InitInv ==
    ASSUME DiscoverAssumption, Init
    PROVE  Inv
<1>1. /\ learned \in Rewards /\ cache = None /\ answers = <<>>
      /\ task = [t \in Task |-> Idle] /\ \A t \in Task : task[t] = Idle
  BY DEF Init, NoEvents, Rewards
<1>2. /\ answers \in Seq(Task) /\ DOMAIN answers = {}
  BY <1>1
<1>3. Types
  BY <1>1, <1>2 DEF Types, Job, IsInjective
<1> QED BY <1>1, <1>3, NotIdle DEF Inv, RowsKeepUp, CacheIsAhead, Searches

LEMMA NextInv ==
    ASSUME DiscoverAssumption, Inv, [Next]_vars
    PROVE  Inv'
<1>1. ASSUME NEW t \in Task, NEW a \in Artist, NEW e \in Events, RecordUpdate(t, a, e) PROVE Inv'
  BY <1>1, UpdateKeeps
<1>2. ASSUME NEW t \in Task, RecordCommit(t) PROVE Inv'
  BY <1>2, CommitKeeps
<1>3. ASSUME NEW t \in Task, RecordApply(t) PROVE Inv'
  BY <1>3, ApplyKeeps
<1>4. ASSUME NEW t \in Task, StatsSelect(t) PROVE Inv'
  BY <1>4, SelectKeeps
<1>5. ASSUME NEW t \in Task, StatsFetch(t) PROVE Inv'
  BY <1>5, FetchKeeps
<1>6. ASSUME NEW t \in Task, StatsFill(t) PROVE Inv'
  BY <1>6, FillKeeps
<1>7. ASSUME NEW t \in Task, PageRead(t) PROVE Inv'
  BY <1>7, PageReadKeeps
<1>8. ASSUME NEW t \in Task, Reads(t) PROVE Inv'
  BY <1>8, ReadsKeep
<1>9. ASSUME NEW t \in Task, SearchRead(t) PROVE Inv'
  BY <1>9, SearchReadKeeps
<1>10. ASSUME NEW t \in Task, PageSend(t) \/ SearchSend(t) PROVE Inv'
  BY <1>10, SendKeeps
<1>11. ASSUME UNCHANGED <<learned, cache, unsaved, task, answers>> PROVE Inv'
  <2>1. Types'
    BY <1>11 DEF Inv, Types, Job, IsPage, IsSearch
  <2>2. Searches'
    BY <1>11 DEF Inv, Searches, IsSearch, Found
  <2>3. \A a, e : Underway(a, e)' = Underway(a, e)
    BY <1>11 DEF Underway
  <2>4. \A r, s : After(r, s)' <=> After(r, s)
    BY <1>11 DEF After, Steps, Behind
  <2>5. \A s, a, e : Later(s, a, e)' = Later(s, a, e)
    BY <2>3, <2>4 DEF Later
  <2>6. ASSUME NEW s \in Task PROVE RowsKeepUp(s)'
    BY <1>11, <2>5, RowsKept DEF Inv
  <2>7. CacheIsAhead'
    BY <1>11, <2>3, CacheKept DEF Inv
  <2> QED BY <2>1, <2>2, <2>6, <2>7 DEF Inv
<1>12. ASSUME NEW a \in Artist, Click(a) PROVE Inv'
  BY <1>11, <1>12 DEF Click
<1>13. ASSUME NEW v \in Video, Started(v) PROVE Inv'
  BY <1>11, <1>13 DEF Started
<1>14. CASE UNCHANGED vars
  BY <1>11, <1>14 DEF vars
<1> QED BY <1>1, <1>2, <1>3, <1>4, <1>5, <1>6, <1>7, <1>8, <1>9, <1>10, <1>12, <1>13, <1>14
        DEF Next, Reads

(* What rows and the cache lack of the table is still on its way to them,    *)
(* and every answer is awaited by one task.                                  *)
THEOREM DiscoverInvariant == Spec => []Inv
<1>1. Init => Inv
  BY DiscoverAssumption, InitInv
<1>2. Inv /\ [Next]_vars => Inv'
  BY DiscoverAssumption, NextInv
<1> QED BY <1>1, <1>2, PTL DEF Spec

(* The cache of the rewards never misses an end or a skip that the table has *)
(* (ArtistRepository._reward_cache), however reads and records interleave.   *)
THEOREM CacheMissesNothing == Spec => []CacheKeepsUp
<1>1. Inv => CacheKeepsUp
  <2> SUFFICES ASSUME Inv, cache # None, NEW a \in Artist, Settled(a), NEW e \in Events
               PROVE  Count(cache[a], e) >= Count(learned[a], e)
    BY DEF CacheKeepsUp
  <2>1. Underway(a, e) = {}
    BY NotIdle DEF Settled, Underway, Records
  <2>2. Cardinality(Underway(a, e)) = 0
    BY <2>1, FS_EmptySet
  <2>3. Count(cache[a], e) + Cardinality(Underway(a, e)) >= Count(learned[a], e)
    BY DEF Inv, CacheIsAhead, Settled
  <2>4. Count(cache[a], e) \in Nat /\ Count(learned[a], e) \in Nat
    BY CountType DEF Inv, Types, Rewards
  <2> QED BY <2>2, <2>3, <2>4
<1> QED BY <1>1, DiscoverInvariant, PTL

(* A search shows no video twice, and all it found unless its list is full,  *)
(* with what the history knows of each (DiscoverRepository.search_tracks).   *)
THEOREM SearchLosesNothing == Spec => []SearchKnowsTheHistory
<1>1. Inv => SearchKnowsTheHistory
  BY Whose DEF Inv, Searches, Found, SearchKnowsTheHistory, At
<1> QED BY <1>1, DiscoverInvariant, PTL

-----------------------------------------------------------------------------
(* The rewards.  That the functions Scale and Reward choose exist is an      *)
(* induction over the numbers, which comes from the well-foundedness of the  *)
(* finite sets under inclusion.                                              *)

LEMMA Induct ==
    ASSUME NEW S \in SUBSET Nat, 0 \in S, \A n \in S : n + 1 \in S
    PROVE  S = Nat
<1> DEFINE R == StrictSubsetOrdering(Nat)
           T == {A \in FiniteSubsetsOf(Nat) : \E m \in Nat \ S : A = 0 .. m - 1}
<1>1. SUFFICES ASSUME NEW k \in Nat \ S PROVE FALSE
  OBVIOUS
<1>2. \A m \in Nat : 0 .. m - 1 \in FiniteSubsetsOf(Nat)
  BY FS_Interval DEF FiniteSubsetsOf
<1>3. T \subseteq FiniteSubsetsOf(Nat) /\ T # {}
  BY <1>1, <1>2
<1>4. IsWellFoundedOn(R, FiniteSubsetsOf(Nat))
  BY FS_StrictSubsetOrderingWellFounded
<1>5. PICK A \in T : \A B \in T : <<B, A>> \notin R
  <2> HIDE DEF R, T
  <2> QED BY <1>3, <1>4, WFMin
<1>6. PICK m \in Nat \ S : A = 0 .. m - 1
  BY <1>5
<1>7. m - 1 \in Nat \ S
  BY <1>6
<1>8. 0 .. (m - 1) - 1 \in T
  BY <1>2, <1>7
<1>9. <<0 .. (m - 1) - 1, A>> \in R
  BY <1>6, <1>7 DEF StrictSubsetOrdering
<1> QED BY <1>5, <1>8, <1>9

Power(p, n) == IF n = 0 THEN 1 ELSE 50 * p[n - 1]
Powers(p, n) == p = [i \in 0 .. n |-> Power(p, i)]

LEMMA PowersExist ==
    ASSUME NEW n \in Nat
    PROVE  \E p : Powers(p, n)
<1> DEFINE S == {m \in Nat : \E p : Powers(p, m)}
<1>1. 0 \in S
  <2>1. Powers([i \in 0 .. 0 |-> 1], 0)
    BY DEF Powers, Power
  <2> QED BY <2>1
<1>2. ASSUME NEW m \in S PROVE m + 1 \in S
  <2>1. PICK p : Powers(p, m)
    OBVIOUS
  <2> DEFINE q == [i \in 0 .. m + 1 |-> IF i = m + 1 THEN Power(p, i) ELSE p[i]]
  <2>2. m \in Nat /\ \A i \in 0 .. m : q[i] = p[i] /\ p[i] = Power(p, i)
    BY <1>2, <2>1 DEF Powers
  <2>3. ASSUME NEW i \in 0 .. m + 1 PROVE q[i] = Power(q, i)
    <3>1. i = 0 \/ i - 1 \in 0 .. m
      BY <2>2
    <3>2. Power(q, i) = Power(p, i)
      BY <2>2, <3>1 DEF Power
    <3>3. i = m + 1 \/ i \in 0 .. m
      BY <2>2
    <3> QED BY <2>2, <3>2, <3>3
  <2>4. DOMAIN q = 0 .. m + 1 /\ q = [i \in DOMAIN q |-> q[i]]
    OBVIOUS
  <2> HIDE DEF q
  <2>5. Powers(q, m + 1)
    BY <2>3, <2>4, Zenon DEF Powers
  <2> QED BY <2>2, <2>5
<1>3. S = Nat
  <2>1. S \in SUBSET Nat
    OBVIOUS
  <2> HIDE DEF S
  <2> QED BY <1>1, <1>2, <2>1, Induct
<1> QED BY <1>3

(* The powers of 50 up to Scale.                                             *)
LEMMA ScaleIs ==
    ASSUME DiscoverAssumption
    PROVE  \E p : /\ Scale = p[MaxEvents] /\ p[0] = 1
                  /\ \A n \in 0 .. MaxEvents : p[n] \in Nat /\ p[n] >= 1
                  /\ \A n \in 1 .. MaxEvents : p[n] = 50 * p[n - 1]
<1> DEFINE f == CHOOSE p : Powers(p, MaxEvents)
<1>1. MaxEvents \in Nat
  BY DEF DiscoverAssumption
<1>2. Powers(f, MaxEvents)
  BY <1>1, PowersExist
<1>3. Scale = f[MaxEvents]
  BY DEF Scale, Powers, Power
<1> HIDE DEF f
<1>4. f[0] = 1 /\ \A n \in 1 .. MaxEvents : f[n] = 50 * f[n - 1]
  BY <1>1, <1>2 DEF Powers, Power
<1> DEFINE S == {n \in Nat : n <= MaxEvents => f[n] \in Nat /\ f[n] >= 1}
<1>5. 0 \in S
  BY <1>4
<1>6. ASSUME NEW n \in S PROVE n + 1 \in S
  <2>1. CASE n + 1 <= MaxEvents
    <3>1. f[n] \in Nat /\ f[n] >= 1 /\ f[n + 1] = 50 * f[n]
      BY <1>1, <1>4, <2>1
    <3> QED BY <3>1
  <2> QED BY <1>1, <2>1
<1>7. S = Nat
  <2>1. S \in SUBSET Nat
    OBVIOUS
  <2> HIDE DEF S
  <2> QED BY <1>5, <1>6, <2>1, Induct
<1> QED BY <1>1, <1>3, <1>4, <1>7

Step(s, e, r, i) ==
    IF i = 0 THEN Scale ELSE (r[i - 1] * 49) \div 50 + (IF s[i] = e THEN Scale ELSE 0)
StepsOf(s, e, r, n) == r = [i \in 0 .. n |-> Step(s, e, r, i)]

LEMMA StepsExist ==
    ASSUME NEW s, NEW e, NEW n \in Nat
    PROVE  \E r : StepsOf(s, e, r, n)
<1> DEFINE S == {m \in Nat : \E r : StepsOf(s, e, r, m)}
<1>1. 0 \in S
  <2>1. StepsOf(s, e, [i \in 0 .. 0 |-> Scale], 0)
    BY DEF StepsOf, Step
  <2> QED BY <2>1
<1>2. ASSUME NEW m \in S PROVE m + 1 \in S
  <2>1. PICK r : StepsOf(s, e, r, m)
    OBVIOUS
  <2> DEFINE q == [i \in 0 .. m + 1 |-> IF i = m + 1 THEN Step(s, e, r, i) ELSE r[i]]
  <2>2. m \in Nat /\ \A i \in 0 .. m : q[i] = r[i] /\ r[i] = Step(s, e, r, i)
    BY <1>2, <2>1 DEF StepsOf
  <2>3. ASSUME NEW i \in 0 .. m + 1 PROVE q[i] = Step(s, e, q, i)
    <3>1. i = 0 \/ i - 1 \in 0 .. m
      BY <2>2
    <3>2. Step(s, e, q, i) = Step(s, e, r, i)
      BY <2>2, <3>1 DEF Step
    <3>3. i = m + 1 \/ i \in 0 .. m
      BY <2>2
    <3> QED BY <2>2, <3>2, <3>3
  <2>4. DOMAIN q = 0 .. m + 1 /\ q = [i \in DOMAIN q |-> q[i]]
    OBVIOUS
  <2> HIDE DEF q
  <2>5. StepsOf(s, e, q, m + 1)
    BY <2>3, <2>4, Zenon DEF StepsOf
  <2> QED BY <2>2, <2>5
<1>3. S = Nat
  <2>1. S \in SUBSET Nat
    OBVIOUS
  <2> HIDE DEF S
  <2> QED BY <1>1, <1>2, <2>1, Induct
<1> QED BY <1>3

(* One event multiplies what is left by 49 and never loses all of it.        *)
LEMMA Decayed ==
    ASSUME NEW x \in Nat, NEW p \in Nat, p >= 1, x >= 50 * p
    PROVE  (x * 49) \div 50 \in Nat /\ (x * 49) \div 50 >= p
OBVIOUS

(* An artist of whom nothing was heard or skipped has the rewards of the     *)
(* start; the last event of any other left one of the two above it.          *)
LEMMA RewardsTell ==
    ASSUME DiscoverAssumption, NEW s \in Seq(Events), Len(s) <= MaxEvents
    PROVE  /\ Scale \in Nat
           /\ \A e : s = <<>> => Reward(s, e) = Scale
           /\ s # <<>> => Reward(s, s[Len(s)]) > Scale
<1>1. PICK p : /\ Scale = p[MaxEvents] /\ p[0] = 1
               /\ \A n \in 0 .. MaxEvents : p[n] \in Nat /\ p[n] >= 1
               /\ \A n \in 1 .. MaxEvents : p[n] = 50 * p[n - 1]
  BY ScaleIs
<1>2. MaxEvents \in Nat /\ Len(s) \in Nat /\ Scale \in Nat
  BY <1>1 DEF DiscoverAssumption
<1>3. ASSUME NEW e
      PROVE  \E r : Reward(s, e) = r[Len(s)] /\ \A i \in 0 .. Len(s) : r[i] = Step(s, e, r, i)
  <2> DEFINE f == CHOOSE r : StepsOf(s, e, r, Len(s))
  <2>1. StepsOf(s, e, f, Len(s))
    BY <1>2, StepsExist
  <2>2. Reward(s, e) = f[Len(s)]
    BY DEF Reward, StepsOf, Step
  <2> HIDE DEF f
  <2>3. \A i \in 0 .. Len(s) : f[i] = Step(s, e, f, i)
    BY <2>1 DEF StepsOf
  <2> QED BY <2>2, <2>3
<1>4. ASSUME NEW e, s = <<>> PROVE Reward(s, e) = Scale
  BY <1>3, <1>4 DEF Step
<1>5. ASSUME s # <<>> PROVE Reward(s, s[Len(s)]) > Scale
  <2> DEFINE e == s[Len(s)]
  <2>1. PICK r : Reward(s, e) = r[Len(s)] /\ \A i \in 0 .. Len(s) : r[i] = Step(s, e, r, i)
    BY <1>3
  <2>2. Len(s) >= 1
    BY <1>2, <1>5
  <2> DEFINE S == {i \in Nat : i < Len(s) => r[i] \in Nat /\ r[i] >= p[MaxEvents - i]}
  <2>3. 0 \in S
    BY <1>1, <1>2, <2>1, <2>2 DEF Step
  <2>4. ASSUME NEW i \in Nat, i < Len(s), r[i] \in Nat, r[i] >= p[MaxEvents - i]
        PROVE  LET x == (r[i] * 49) \div 50
               IN  /\ x \in Nat /\ x >= p[MaxEvents - (i + 1)] /\ x >= 1
                   /\ r[i + 1] = x + (IF s[i + 1] = e THEN Scale ELSE 0)
    <3> DEFINE k == MaxEvents - (i + 1)
    <3>1. k \in 0 .. MaxEvents /\ k + 1 \in 1 .. MaxEvents /\ k + 1 = MaxEvents - i
      BY <1>2, <2>4
    <3>2. p[k] \in Nat /\ p[k] >= 1 /\ p[k + 1] = 50 * p[k]
      BY <1>1, <3>1
    <3>3. r[i] >= 50 * p[k]
      BY <2>4, <3>1, <3>2
    <3>4. (r[i] * 49) \div 50 \in Nat /\ (r[i] * 49) \div 50 >= p[k]
      BY <2>4, <3>2, <3>3, Decayed
    <3>5. r[i + 1] = Step(s, e, r, i + 1)
      BY <1>2, <2>1, <2>4
    <3>6. r[i + 1] = (r[i] * 49) \div 50 + (IF s[i + 1] = e THEN Scale ELSE 0)
      BY <2>4, <3>5 DEF Step
    <3> QED BY <3>2, <3>4, <3>6
  <2>5. ASSUME NEW i \in S PROVE i + 1 \in S
    <3>1. CASE i + 1 < Len(s)
      <4>1. i \in Nat /\ i < Len(s) /\ r[i] \in Nat /\ r[i] >= p[MaxEvents - i]
        BY <1>2, <3>1
      <4> DEFINE x == (r[i] * 49) \div 50
      <4>2. /\ x \in Nat /\ x >= p[MaxEvents - (i + 1)]
            /\ r[i + 1] = x + (IF s[i + 1] = e THEN Scale ELSE 0)
        BY <2>4, <4>1
      <4> HIDE DEF x
      <4>3. p[MaxEvents - (i + 1)] \in Nat
        <5>1. MaxEvents - (i + 1) \in 0 .. MaxEvents
          BY <1>2, <3>1, <4>1
        <5> QED BY <1>1, <5>1
      <4>4. r[i + 1] \in Nat /\ r[i + 1] >= p[MaxEvents - (i + 1)]
        BY <1>2, <4>2, <4>3
      <4> QED BY <4>4
    <3> QED BY <3>1
  <2>6. S = Nat
    <3>1. S \in SUBSET Nat
      OBVIOUS
    <3> HIDE DEF S
    <3> QED BY <2>3, <2>5, <3>1, Induct
  <2> DEFINE i == Len(s) - 1
             x == (r[i] * 49) \div 50
  <2>7. i \in Nat /\ i < Len(s) /\ i + 1 = Len(s)
    BY <1>2, <2>2
  <2>8. r[i] \in Nat /\ r[i] >= p[MaxEvents - i]
    BY <2>6, <2>7
  <2>9. x \in Nat /\ x >= 1 /\ r[i + 1] = x + (IF s[i + 1] = e THEN Scale ELSE 0)
    BY <2>4, <2>7, <2>8
  <2>10. r[Len(s)] = x + Scale
    BY <2>7, <2>9
  <2> HIDE DEF x
  <2> QED BY <1>2, <2>1, <2>9, <2>10
<1> QED BY <1>2, <1>4, <1>5

-----------------------------------------------------------------------------
(* The sections of a page                                                    *)

LEMMA Limited ==
    ASSUME NEW S, NEW n, NEW T \in AnyOf(S, n)
    PROVE  T \subseteq S /\ (T = S \/ Cardinality(T) = n)
BY DEF AnyOf, kSubset

(* A list of all elements of a finite set, cut after n of them.              *)
LEMMA CutList ==
    ASSUME NEW S, IsFiniteSet(S), NEW n \in Nat, NEW s \in SetToSeqs(S)
    PROVE  /\ s \in Seq(S) /\ ToSet(s) = S
           /\ ToSet(FirstOf(s, n)) \subseteq S
           /\ ToSet(FirstOf(s, n)) = S \/ Len(FirstOf(s, n)) = n
<1> DEFINE c == Cardinality(S)
           m == IF c < n THEN c ELSE n
           D == 1 .. c
<1>1. c \in Nat /\ m \in Nat /\ m <= c
  BY FS_CardinalityType
<1>2. s \in [D -> S] /\ \A i, j \in D : i # j => s[i] # s[j]
  BY DEF SetToSeqs
<1>3. s \in Seq(S) /\ Len(s) = c
  BY <1>1, <1>2, LenProperties, IsASeq
<1>4. ToSet(s) = S
  <2>1. IsFiniteSet(D) /\ Cardinality(D) = c
    <3>1. 1 \in Int /\ c \in Int
      BY <1>1
    <3>2. IsFiniteSet(1 .. c) /\ Cardinality(1 .. c) = IF 1 > c THEN 0 ELSE c - 1 + 1
      BY <3>1, FS_Interval
    <3>3. (IF 1 > c THEN 0 ELSE c - 1 + 1) = c
      BY <1>1
    <3> QED BY <3>2, <3>3
  <2> HIDE DEF D
  <2>2. s \in Injection(D, S)
    BY <1>2 DEF Injection, IsInjective
  <2>3. s \in Surjection(D, S)
    BY <2>1, <2>2, FS_Injection
  <2>4. \A x \in S : \E i \in D : s[i] = x
    BY <2>3 DEF Surjection
  <2>5. DOMAIN s = D /\ \A i \in D : s[i] \in S
    BY <1>2
  <2> QED BY <2>4, <2>5 DEF ToSet
<1> HIDE DEF c
<1> DEFINE list == SubSeq(s, 1, m)
<1>5. FirstOf(s, n) = list
  BY <1>3 DEF FirstOf
<1>6. \A i \in 1 .. m : s[i] \in S
  BY <1>1, <1>2
<1>7. /\ list \in Seq(S) /\ Len(list) = m
      /\ \A i \in 1 .. m : list[i] = s[i]
  <2>1. /\ SubSeq(s, 1, m) \in Seq(S) /\ Len(SubSeq(s, 1, m)) = IF 1 <= m THEN m - 1 + 1 ELSE 0
        /\ \A i \in 1 .. (m - 1 + 1) : SubSeq(s, 1, m)[i] = s[1 + i - 1]
    BY <1>1, <1>6, SubSeqProperties
  <2>2. m - 1 + 1 = m /\ (1 <= m \/ m = 0) /\ \A i \in 1 .. m : 1 + i - 1 = i
    BY <1>1
  <2> QED BY <1>6, <2>1, <2>2
<1> HIDE DEF list
<1>8. DOMAIN list = 1 .. m /\ DOMAIN s = 1 .. c
  BY <1>2, <1>7, LenProperties
<1>9. ToSet(list) \subseteq S
  BY <1>6, <1>7, <1>8 DEF ToSet
<1>10. ASSUME m # n PROVE ToSet(list) = S
  <2>1. m = c
    BY <1>1, <1>10
  <2>2. ToSet(list) = ToSet(s)
    BY <1>7, <1>8, <2>1 DEF ToSet
  <2> QED BY <1>4, <2>2
<1> QED BY <1>3, <1>4, <1>5, <1>7, <1>9, <1>10

(* A genre has points exactly when a song of it is in the history.           *)
LEMMA PointsOfAGenre ==
    ASSUME DiscoverAssumption, plays \in [Video -> Nat], NEW g \in Genre
    PROVE  /\ Score(g) \in Nat
           /\ Score(g) > 0 <=> \E v \in InHistory : g \in GenresOf[ArtistOf[v]]
<1> DEFINE W == {w \in Video : g \in GenresOf[ArtistOf[w]]}
           F == {{v} \X (1 .. Weight(v)) : v \in W}
<1>1. \A v \in Video : Weight(v) \in Nat /\ (Weight(v) >= 1 <=> v \in InHistory)
  BY DEF Weight, InHistory
<1>2. IsFiniteSet(W)
  BY FS_Subset DEF DiscoverAssumption
<1>3. Score(g) = Cardinality(UNION F)
  BY DEF Score
<1>4. IsFiniteSet(F)
  <2> DEFINE f == [v \in W |-> {v} \X (1 .. Weight(v))]
  <2>1. f \in Surjection(W, F)
    BY DEF Surjection
  <2> HIDE DEF f, F, W
  <2> QED BY <1>2, <2>1, FS_Surjection
<1>5. ASSUME NEW v \in W PROVE IsFiniteSet({v} \X (1 .. Weight(v)))
  <2>1. IsFiniteSet({v}) /\ IsFiniteSet(1 .. Weight(v))
    <3>1. 1 \in Int /\ Weight(v) \in Int
      BY <1>1
    <3> QED BY <3>1, FS_Interval, FS_Singleton
  <2> QED BY <2>1, FS_Product
<1>6. \A T \in F : IsFiniteSet(T)
  BY <1>5
<1>7. IsFiniteSet(UNION F)
  <2> HIDE DEF F
  <2> QED BY <1>4, <1>6, FS_UNION
<1>8. UNION F # {} <=> \E v \in InHistory : g \in GenresOf[ArtistOf[v]]
  <2>1. ASSUME UNION F # {} PROVE \E v \in InHistory : g \in GenresOf[ArtistOf[v]]
    <3>1. PICK v \in W : {v} \X (1 .. Weight(v)) # {}
      BY <2>1
    <3>2. 1 .. Weight(v) # {}
      BY <3>1
    <3>3. Weight(v) >= 1
      BY <1>1, <3>2
    <3> QED BY <1>1, <3>3
  <2>2. ASSUME NEW v \in InHistory, g \in GenresOf[ArtistOf[v]] PROVE UNION F # {}
    <3>1. v \in Video
      BY DEF InHistory, DiscoverAssumption
    <3>2. v \in W /\ 1 \in 1 .. Weight(v)
      BY <1>1, <2>2, <3>1
    <3>3. <<v, 1>> \in {v} \X (1 .. Weight(v))
      BY <3>2
    <3>4. {v} \X (1 .. Weight(v)) \in F
      BY <3>2
    <3> QED BY <3>3, <3>4
  <2> QED BY <2>1, <2>2
<1> HIDE DEF F
<1>9. Cardinality(UNION F) \in Nat /\ (Cardinality(UNION F) = 0 <=> UNION F = {})
  BY <1>7, FS_CardinalityType, FS_EmptySet
<1> QED BY <1>3, <1>8, <1>9

Learner == {a \in Artist : Learned(a)}
Unmet == {a \in Artist : RewardAlpha(a) = Scale /\ RewardBeta(a) = Scale /\ a \notin clicked}
Heard == {a \in Artist : learned[a] # <<>>}

(* What the rewards tell: whether anything was recorded of an artist.        *)
LEMMA LearnedOrUnmet ==
    ASSUME DiscoverAssumption, learned \in Rewards, \A a \in Artist : Len(learned[a]) <= MaxEvents
    PROVE  Learner = Heard /\ Unmet = (Artist \ Heard) \ clicked
<1>1. ASSUME NEW a \in Artist
      PROVE  /\ Learned(a) <=> learned[a] # <<>>
             /\ (RewardAlpha(a) = Scale /\ RewardBeta(a) = Scale) <=> learned[a] = <<>>
  <2> DEFINE s == learned[a]
  <2>1. s \in Seq(Events) /\ Len(s) <= MaxEvents
    BY DEF Rewards
  <2>2. RewardAlpha(a) = Reward(s, "done") /\ RewardBeta(a) = Reward(s, "skip")
    BY DEF RewardAlpha, RewardBeta
  <2> HIDE DEF s
  <2>3. /\ Scale \in Nat
        /\ s = <<>> => Reward(s, "done") = Scale /\ Reward(s, "skip") = Scale
        /\ s # <<>> => Reward(s, s[Len(s)]) > Scale
    BY <2>1, RewardsTell
  <2>4. s # <<>> => s[Len(s)] = "done" \/ s[Len(s)] = "skip"
    <3>1. s # <<>> => s[Len(s)] \in Events
      BY <2>1, EmptySeq, LenProperties
    <3> QED BY <3>1 DEF Events
  <2>5. /\ Learned(a) <=> s # <<>>
        /\ (RewardAlpha(a) = Scale /\ RewardBeta(a) = Scale) <=> s = <<>>
    BY <2>2, <2>3, <2>4 DEF Learned
  <2> QED BY <2>5 DEF s
<1> QED BY <1>1 DEF Learner, Unmet, Heard

Histories ==
    /\ learned \in Rewards /\ \A a \in Artist : Len(learned[a]) <= MaxEvents
    /\ plays \in [Video -> Nat] /\ clicked \subseteq Artist

(* The ranking under "for you" and the artists not met.                      *)
LEMMA RankedAreHeard ==
    ASSUME DiscoverAssumption, Histories, NEW f \in ForYou
    PROVE  ToSet(f) \subseteq Heard /\ (ToSet(f) = Heard \/ Len(f) = PageSize)
<1>1. Learner = Heard
  BY LearnedOrUnmet DEF Histories
<1>2. PICK s \in SetToSeqs(Learner) : f = FirstOf(s, PageSize)
  BY DEF ForYou, Learner
<1>3. IsFiniteSet(Learner) /\ PageSize \in Nat
  BY FS_Subset DEF DiscoverAssumption, Learner
<1> QED BY <1>1, <1>2, <1>3, CutList

LEMMA UnheardAreUnmet ==
    ASSUME DiscoverAssumption, Histories, NEW u \in Unheard
    PROVE  u \cap Heard = {} /\ (u = (Artist \ Heard) \ clicked \/ Cardinality(u) = PageSize)
<1>1. Unmet = (Artist \ Heard) \ clicked
  BY LearnedOrUnmet DEF Histories
<1>2. u \subseteq Unmet /\ (u = Unmet \/ Cardinality(u) = PageSize)
  BY Limited DEF Unheard, Unmet
<1> QED BY <1>1, <1>2

(* The genre at the top of the taste is that of a song in the history, and   *)
(* there is one when such a song has genres.                                 *)
LEMMA TopGenre ==
    ASSUME DiscoverAssumption, Histories, NEW rows \in TasteRows,
           NEW g, g = IF rows = <<>> THEN None ELSE Head(rows)
    PROVE  /\ g = None => \A v \in InHistory : GenresOf[ArtistOf[v]] = {}
           /\ g # None => \E v \in InHistory : g \in GenresOf[ArtistOf[v]]
<1> DEFINE liked == {h \in Genre : Score(h) > 0}
<1>1. rows \in Seq(liked) /\ ToSet(rows) = liked
  <2>1. IsFiniteSet(liked) /\ PageSize \in Nat
    BY FS_Subset DEF DiscoverAssumption
  <2>2. rows \in SetToSeqs(liked)
    BY DEF TasteRows
  <2> HIDE DEF liked
  <2> QED BY <2>1, <2>2, CutList
<1>2. \A h \in Genre : Score(h) > 0 <=> \E v \in InHistory : h \in GenresOf[ArtistOf[v]]
  BY PointsOfAGenre DEF Histories
<1>3. rows # <<>> => Head(rows) \in liked
  <2> HIDE DEF liked
  <2> QED BY <1>1, HeadTailProperties
<1>4. \A v \in InHistory : GenresOf[ArtistOf[v]] \subseteq Genre
  <2>1. InHistory \subseteq Video
    BY DEF InHistory, DiscoverAssumption
  <2> QED BY <2>1 DEF DiscoverAssumption
<1>5. ASSUME g = None PROVE \A v \in InHistory : GenresOf[ArtistOf[v]] = {}
  <2>1. rows = <<>>
    BY <1>3, <1>5 DEF DiscoverAssumption
  <2>2. liked = {}
    <3> HIDE DEF liked
    <3>1. ToSet(rows) = {}
      BY <2>1 DEF ToSet
    <3> QED BY <1>1, <3>1
  <2> QED BY <1>2, <1>4, <2>2
<1>6. ASSUME g # None PROVE \E v \in InHistory : g \in GenresOf[ArtistOf[v]]
  <2>1. g \in Genre /\ Score(g) > 0
    BY <1>3, <1>6
  <2> QED BY <1>2, <2>1
<1> QED BY <1>5, <1>6

-----------------------------------------------------------------------------
(* What is right of a page after each of its reads.  Nothing of it can be     *)
(* spoilt by more events, songs or clicks.                                   *)

WhenAsked(j, heard, history) ==
    /\ DOMAIN j.page = DOMAIN NoPage /\ j.strangers \subseteq Artist
    /\ Artist \ j.strangers \subseteq heard
    /\ j.known \subseteq history /\ j.page.favorites \subseteq j.known
    /\ j.page.favorites = j.known \/ Cardinality(j.page.favorites) = PageSize
Ranks(j, heard) ==
    /\ ToSet(j.page.forYou) \subseteq heard
    /\ Artist \ j.strangers \subseteq ToSet(j.page.forYou) \/ Len(j.page.forYou) = PageSize
Everybody(j, heard, met) ==
    /\ ToSet(j.page.forYou) \cap j.page.unheard = {}
    /\ \/ Len(j.page.forYou) = PageSize \/ Cardinality(j.page.unheard) = PageSize
       \/ \A a \in Artist : \/ a \in ToSet(j.page.forYou) \/ a \in j.page.unheard
                            \/ a \in met \/ (a \in j.strangers /\ a \in heard)
Loves(j, history) ==
    /\ j.page.genre = None => \A v \in j.page.favorites : GenresOf[ArtistOf[v]] = {}
    /\ j.page.genre # None =>
          \/ \E v \in j.page.favorites \cup (history \ j.known) :
                j.page.genre \in GenresOf[ArtistOf[v]]
          \/ Cardinality(j.page.favorites) = PageSize

PageIsRight(j, heard, history, met) ==
    /\ WhenAsked(j, heard, history)
    /\ j.pc # "forYou" => Ranks(j, heard)
    /\ j.pc \notin {"forYou", "unheard"} => Everybody(j, heard, met)
    /\ j.pc \notin {"forYou", "unheard", "genre"} => Loves(j, history)

PageInv ==
    /\ Inv /\ Histories
    /\ \A t \in Task : IsPage(task[t]) => PageIsRight(task[t], Heard, InHistory, clicked)

LEMMA StaysRight ==
    ASSUME NEW j, NEW heard, NEW history, NEW met, NEW heard1, NEW history1, NEW met1,
           heard \subseteq heard1, history \subseteq history1, met \subseteq met1,
           PageIsRight(j, heard, history, met)
    PROVE  PageIsRight(j, heard1, history1, met1)
<1>1. WhenAsked(j, heard, history) => WhenAsked(j, heard1, history1)
  BY DEF WhenAsked
<1>2. Ranks(j, heard) => Ranks(j, heard1)
  BY DEF Ranks
<1>3. Everybody(j, heard, met) => Everybody(j, heard1, met1)
  BY DEF Everybody
<1>4. Loves(j, history) => Loves(j, history1)
  BY DEF Loves
<1> QED BY <1>1, <1>2, <1>3, <1>4 DEF PageIsRight

LEMMA PagesKept ==
    ASSUME PageInv, Inv', Histories', Heard \subseteq Heard', InHistory \subseteq InHistory',
           clicked \subseteq clicked',
           \A r \in Task : IsPage(task'[r]) =>
               task'[r] = task[r] \/ PageIsRight(task'[r], Heard', InHistory', clicked')
    PROVE  PageInv'
<1>1. ASSUME NEW r \in Task, IsPage(task'[r])
      PROVE  PageIsRight(task'[r], Heard', InHistory', clicked')
  <2>1. CASE task'[r] = task[r]
    <3>1. PageIsRight(task'[r], Heard, InHistory, clicked)
      BY <1>1, <2>1 DEF PageInv
    <3> QED BY <3>1, StaysRight
  <2> QED BY <1>1, <2>1
<1>2. \A r \in Task : IsPage(task[r])' => PageIsRight(task[r], Heard, InHistory, clicked)'
  <2>1. \A r \in Task : IsPage(task[r])' <=> IsPage(task'[r])
    BY DEF IsPage
  <2>2. \A r \in Task : PageIsRight(task[r], Heard, InHistory, clicked)'
                         <=> PageIsRight(task'[r], Heard', InHistory', clicked')
    BY DEF PageIsRight, WhenAsked, Ranks, Everybody, Loves
  <2> QED BY <1>1, <2>1, <2>2
<1> QED BY <1>2 DEF PageInv

(* The first read: the favourites are the history, or they are many.         *)
LEMMA PageReadIsRight ==
    ASSUME DiscoverAssumption, PageInv, NEW t \in Task, PageRead(t)
    PROVE  PageInv'
<1>1. PICK recent \in Recent, fav \in Favorites, disk \in Cached, some \in FeaturedArtists,
           styles \in FeaturedGenres :
        task' = [task EXCEPT ![t] =
              [kind |-> "page", pc |-> "forYou",
               page |-> [NoPage EXCEPT !.recent = recent, !.favorites = fav, !.cached = disk,
                                       !.artists = some, !.genres = styles],
               known |-> InHistory, strangers |-> {a \in Artist : learned[a] = <<>>}]]
  BY DEF PageRead
<1> DEFINE p == [NoPage EXCEPT !.recent = recent, !.favorites = fav, !.cached = disk,
                               !.artists = some, !.genres = styles]
           n == {a \in Artist : learned[a] = <<>>}
           j == [kind |-> "page", pc |-> "forYou", page |-> p, known |-> InHistory, strangers |-> n]
<1>2. /\ Types /\ Histories /\ clicked' = clicked
      /\ learned' = learned /\ plays' = plays
  BY DEF PageInv, Inv, PageRead
<1>3. fav \subseteq InHistory /\ (fav = InHistory \/ Cardinality(fav) = PageSize)
  BY Limited DEF Favorites
<1>4. DOMAIN p = DOMAIN NoPage /\ p.favorites = fav
  BY DEF NoPage
<1>5. Artist \ n = Heard /\ n \subseteq Artist
  BY DEF Heard
<1>6. Moves(t, j)
  BY <1>1 DEF Moves
<1> HIDE DEF p, n
<1>7. j.page = p /\ j.known = InHistory /\ j.strangers = n /\ j.pc = "forYou"
  OBVIOUS
<1> HIDE DEF j
<1>8. PageIsRight(j, Heard, InHistory, clicked)
  BY <1>3, <1>4, <1>5, <1>7 DEF PageIsRight, WhenAsked
<1>9. task'[t] = j /\ \A r \in Task : r # t => task'[r] = task[r]
  BY <1>2, <1>6, Moved
<1>10. Inv' /\ Histories' /\ Heard' = Heard /\ InHistory' = InHistory
  BY <1>2, PageReadKeeps DEF PageInv, Histories, Heard, InHistory
<1> QED BY <1>2, <1>8, <1>9, <1>10, PagesKept

(* Another section.                                                          *)
LEMMA SectionIsRight ==
    ASSUME DiscoverAssumption, PageInv, NEW t \in Task, NEW p, NEW next \in PagePcs,
           IsPage(task[t]), Section(t, p, next),
           PageIsRight(task'[t], Heard, InHistory, clicked)
    PROVE  PageInv'
<1>1. Types /\ Histories /\ UNCHANGED <<learned, plays, clicked>>
  BY DEF PageInv, Inv, Section
<1>2. Inv' /\ Histories' /\ Heard' = Heard /\ InHistory' = InHistory
  BY <1>1, SectionKeeps DEF PageInv, Histories, Heard, InHistory
<1>3. \A r \in Task : r # t => task'[r] = task[r]
  BY <1>1, SectionIsPage
<1> QED BY <1>1, <1>2, <1>3, PagesKept

(* What the other sections say of the first stays when a section is filled   *)
(* that they do not look at.                                                 *)
LEMMA OneField ==
    ASSUME NEW p, DOMAIN p = DOMAIN NoPage, NEW x,
           NEW key \in {"forYou", "unheard", "genre", "spectrum", "alike"}
    PROVE  LET q == [p EXCEPT ![key] = x]
           IN  /\ DOMAIN q = DOMAIN NoPage /\ q[key] = x /\ q.favorites = p.favorites
               /\ \A k \in {"forYou", "unheard", "genre"} : k # key => q[k] = p[k]
BY DEF NoPage

LEMMA ReadsAreRight ==
    ASSUME DiscoverAssumption, PageInv, NEW t \in Task, Reads(t)
    PROVE  PageInv'
<1>1. Types /\ Histories /\ task[t] # Idle /\ IsPage(task[t])
  BY ReadsAreSections DEF PageInv, Inv
<1> DEFINE j == task[t]
           p == task[t].page
<1>2. PageIsRight(j, Heard, InHistory, clicked) /\ DOMAIN p = DOMAIN NoPage
  BY <1>1 DEF PageInv, PageIsRight, WhenAsked
<1>3. ASSUME NEW key \in {"forYou", "unheard", "genre", "spectrum", "alike"}, NEW x,
             NEW next \in PagePcs, Section(t, [p EXCEPT ![key] = x], next)
      PROVE  /\ task'[t].pc = next /\ task'[t].known = j.known /\ task'[t].strangers = j.strangers
             /\ DOMAIN task'[t].page = DOMAIN NoPage /\ task'[t].page[key] = x
             /\ task'[t].page.favorites = p.favorites
             /\ \A k \in {"forYou", "unheard", "genre"} : k # key => task'[t].page[k] = p[k]
             /\ PageIsRight(task'[t], Heard, InHistory, clicked) => PageInv'
  <2> DEFINE q == [p EXCEPT ![key] = x]
  <2>1. /\ DOMAIN q = DOMAIN NoPage /\ q[key] = x /\ q.favorites = p.favorites
        /\ \A k \in {"forYou", "unheard", "genre"} : k # key => q[k] = p[k]
    BY <1>2, OneField
  <2> HIDE DEF q, p, j
  <2>2. Section(t, q, next)
    BY <1>3 DEF q
  <2>3. /\ task'[t].page = q /\ task'[t].pc = next
        /\ task'[t].known = j.known /\ task'[t].strangers = j.strangers
    BY <1>1, <2>2, SectionIsPage DEF j
  <2>4. PageIsRight(task'[t], Heard, InHistory, clicked) => PageInv'
    BY <1>1, <2>2, SectionIsRight
  <2> QED BY <2>1, <2>3, <2>4
<1>4. {"unheard", "genre", "spectrum", "alike", "send"} \subseteq PagePcs
  BY DEF PagePcs
<1>5. WhenAsked(j, Heard, InHistory)
  BY <1>2 DEF PageIsRight
<1> DEFINE k == task'[t]
<1>6. CASE ForYouRead(t)
  <2>1. PICK f \in ForYou : Section(t, [p EXCEPT !.forYou = f], "unheard")
    BY <1>6 DEF ForYouRead
  <2>2. /\ k.pc = "unheard" /\ k.known = j.known /\ k.strangers = j.strangers
        /\ DOMAIN k.page = DOMAIN NoPage /\ k.page.forYou = f /\ k.page.favorites = p.favorites
        /\ PageIsRight(k, Heard, InHistory, clicked) => PageInv'
    BY <1>3, <1>4, <2>1
  <2>3. ToSet(f) \subseteq Heard /\ (ToSet(f) = Heard \/ Len(f) = PageSize)
    BY <1>1, RankedAreHeard
  <2> HIDE DEF k
  <2>4. WhenAsked(k, Heard, InHistory) /\ Ranks(k, Heard)
    BY <1>5, <2>2, <2>3 DEF WhenAsked, Ranks
  <2> QED BY <2>2, <2>4 DEF PageIsRight
<1>7. CASE UnheardRead(t)
  <2>1. PICK u \in Unheard : Section(t, [p EXCEPT !.unheard = u], "genre")
    BY <1>7 DEF UnheardRead
  <2>2. /\ k.pc = "genre" /\ k.known = j.known /\ k.strangers = j.strangers
        /\ DOMAIN k.page = DOMAIN NoPage /\ k.page.unheard = u /\ k.page.favorites = p.favorites
        /\ k.page.forYou = p.forYou
        /\ PageIsRight(k, Heard, InHistory, clicked) => PageInv'
    BY <1>3, <1>4, <2>1
  <2>3. u \cap Heard = {} /\ (u = (Artist \ Heard) \ clicked \/ Cardinality(u) = PageSize)
    BY <1>1, UnheardAreUnmet
  <2>4. Ranks(j, Heard)
    BY <1>2, <1>7 DEF PageIsRight, UnheardRead, At
  <2> HIDE DEF k
  <2>5. WhenAsked(k, Heard, InHistory) /\ Ranks(k, Heard)
    BY <1>5, <2>2, <2>4 DEF WhenAsked, Ranks
  <2>6. Everybody(k, Heard, clicked)
    <3>1. ToSet(k.page.forYou) \cap k.page.unheard = {}
      BY <2>2, <2>3, <2>5 DEF Ranks
    <3>2. \/ Len(k.page.forYou) = PageSize \/ Cardinality(k.page.unheard) = PageSize
          \/ \A a \in Artist : \/ a \in ToSet(k.page.forYou) \/ a \in k.page.unheard
                               \/ a \in clicked \/ (a \in k.strangers /\ a \in Heard)
      BY <2>2, <2>3, <2>5 DEF Ranks
    <3> QED BY <3>1, <3>2 DEF Everybody
  <2> QED BY <2>2, <2>5, <2>6 DEF PageIsRight
<1>8. CASE TopGenreRead(t)
  <2>1. PICK rows \in TasteRows :
          LET g == IF rows = <<>> THEN None ELSE Head(rows)
          IN  Section(t, [p EXCEPT !.genre = g], "spectrum")
    BY <1>8 DEF TopGenreRead
  <2> DEFINE g == IF rows = <<>> THEN None ELSE Head(rows)
  <2>2. /\ g = None => \A v \in InHistory : GenresOf[ArtistOf[v]] = {}
        /\ g # None => \E v \in InHistory : g \in GenresOf[ArtistOf[v]]
    BY <1>1, TopGenre
  <2>3. Section(t, [p EXCEPT !.genre = g], "spectrum")
    BY <2>1
  <2> HIDE DEF g
  <2>4. /\ k.pc = "spectrum" /\ k.known = j.known /\ k.strangers = j.strangers
        /\ DOMAIN k.page = DOMAIN NoPage /\ k.page.genre = g /\ k.page.favorites = p.favorites
        /\ k.page.forYou = p.forYou /\ k.page.unheard = p.unheard
        /\ PageIsRight(k, Heard, InHistory, clicked) => PageInv'
    BY <1>3, <1>4, <2>3
  <2>5. Ranks(j, Heard) /\ Everybody(j, Heard, clicked)
    BY <1>2, <1>8 DEF PageIsRight, TopGenreRead, At
  <2> HIDE DEF k
  <2>6. WhenAsked(k, Heard, InHistory) /\ Ranks(k, Heard) /\ Everybody(k, Heard, clicked)
    BY <1>5, <2>4, <2>5 DEF WhenAsked, Ranks, Everybody
  <2>7. Loves(k, InHistory)
    BY <2>2, <2>4, <2>6 DEF Loves, WhenAsked
  <2> QED BY <2>4, <2>6, <2>7 DEF PageIsRight
<1>9. ASSUME NEW key \in {"spectrum", "alike"}, NEW x, NEW next \in {"alike", "send"},
             Section(t, [p EXCEPT ![key] = x], next), j.pc \in {"spectrum", "alike"}
      PROVE  PageInv'
  <2>1. /\ k.pc = next /\ k.known = j.known /\ k.strangers = j.strangers
        /\ DOMAIN k.page = DOMAIN NoPage /\ k.page.favorites = p.favorites
        /\ k.page.forYou = p.forYou /\ k.page.unheard = p.unheard /\ k.page.genre = p.genre
        /\ PageIsRight(k, Heard, InHistory, clicked) => PageInv'
    BY <1>3, <1>4, <1>9
  <2>2. Ranks(j, Heard) /\ Everybody(j, Heard, clicked) /\ Loves(j, InHistory)
    BY <1>2, <1>9 DEF PageIsRight
  <2> HIDE DEF k
  <2>3. /\ WhenAsked(k, Heard, InHistory) /\ Ranks(k, Heard)
        /\ Everybody(k, Heard, clicked) /\ Loves(k, InHistory)
    BY <1>5, <2>1, <2>2 DEF WhenAsked, Ranks, Everybody, Loves
  <2> QED BY <2>1, <2>3 DEF PageIsRight
<1>10. CASE SpectrumRead(t)
  <2>1. PICK rows \in TasteRows :
          Section(t, [p EXCEPT !.spectrum = BuildTasteSpectrum(rows)], "alike")
    BY <1>10 DEF SpectrumRead
  <2>2. j.pc = "spectrum"
    BY <1>10 DEF SpectrumRead, At
  <2> QED BY <1>9, <2>1, <2>2
<1>11. CASE GenreAffinity(t)
  <2>1. PICK some : Section(t, [p EXCEPT !.alike = some], "send")
    BY <1>11 DEF GenreAffinity
  <2>2. j.pc = "alike"
    BY <1>11 DEF GenreAffinity, At
  <2> QED BY <1>9, <2>1, <2>2
<1> QED BY <1>6, <1>7, <1>8, <1>10, <1>11 DEF Reads

LEMMA OthersAgree ==
    ASSUME DiscoverAssumption, PageInv, Inv', Histories', clicked \subseteq clicked',
           Heard \subseteq Heard', InHistory \subseteq InHistory',
           NEW t \in Task, NEW j, Moves(t, j), ~IsPage(j)
    PROVE  PageInv'
<1>1. task'[t] = j /\ \A r \in Task : r # t => task'[r] = task[r]
  BY Moved DEF PageInv, Inv
<1> QED BY <1>1, PagesKept

LEMMA NextPageInv ==
    ASSUME DiscoverAssumption, PageInv, [Next]_vars
    PROVE  PageInv'
<1>1. Inv /\ Types /\ Inv' /\ Histories
  BY NextInv DEF PageInv, Inv
<1>2. ASSUME NEW t \in Task, NEW a \in Artist, NEW e \in Events, RecordUpdate(t, a, e)
      PROVE  PageInv'
  <2> DEFINE j == [kind |-> "record", pc |-> "commit", a |-> a, e |-> e]
  <2>1. Moves(t, j) /\ ~IsPage(j)
    BY <1>2 DEF RecordUpdate, Moves, IsPage
  <2> HIDE DEF j
  <2>2. Histories' /\ clicked' = clicked /\ Heard \subseteq Heard' /\ InHistory' = InHistory
    <3>1. learned' = [learned EXCEPT ![a] = Append(@, e)] /\ Len(learned[a]) < MaxEvents
          /\ plays' = plays /\ clicked' = clicked
      BY <1>2 DEF RecordUpdate
    <3>2. /\ learned \in [Artist -> Seq(Events)] /\ \A b \in Artist : Len(learned[b]) <= MaxEvents
          /\ plays \in [Video -> Nat] /\ clicked \subseteq Artist
      BY <1>1 DEF Histories, Rewards
    <3>3. /\ Append(learned[a], e) \in Seq(Events)
          /\ Len(Append(learned[a], e)) = Len(learned[a]) + 1 /\ Len(learned[a]) \in Nat
      BY <3>2, AppendProperties, LenProperties
    <3>4. Len(Append(learned[a], e)) <= MaxEvents
      BY <3>1, <3>3 DEF DiscoverAssumption
    <3>5. /\ learned'[a] = Append(learned[a], e)
          /\ \A b \in Artist : b # a => learned'[b] = learned[b]
          /\ learned' \in [Artist -> Seq(Events)]
      BY <3>1, <3>2, <3>3
    <3>6. Append(learned[a], e) # <<>>
      <4>1. Len(Append(learned[a], e)) # 0 /\ Len(<<>>) = 0
        BY <3>3, EmptySeq
      <4> QED BY <4>1
    <3>7. Heard \subseteq Heard' /\ InHistory' = InHistory
      <4>1. \A b \in Artist : learned[b] # <<>> => learned'[b] # <<>>
        BY <3>5, <3>6
      <4>2. Heard \subseteq Heard'
        BY <4>1 DEF Heard
      <4>3. InHistory' = InHistory
        BY <3>1 DEF InHistory
      <4> QED BY <4>2, <4>3
    <3> QED BY <3>1, <3>2, <3>4, <3>5, <3>7 DEF Histories, Rewards
  <2> QED BY <1>1, <2>1, <2>2, OthersAgree
<1>3. ASSUME NEW t \in Task, NEW j, Moves(t, j), ~IsPage(j), UNCHANGED <<learned, clicked, plays>>
      PROVE  PageInv'
  <2>1. Histories' /\ clicked' = clicked /\ Heard' = Heard /\ InHistory' = InHistory
    BY <1>1, <1>3 DEF Histories, Heard, InHistory
  <2> QED BY <1>1, <1>3, <2>1, OthersAgree
<1>4. ASSUME NEW t \in Task, RecordCommit(t) PROVE PageInv'
  <2> DEFINE j == [task[t] EXCEPT !.pc = "apply"]
  <2>1. task[t] \in Records
    BY <1>1, <1>4, Whose DEF RecordCommit, At
  <2>2. ~IsPage(j)
    BY <2>1 DEF Records, IsPage
  <2>3. Moves(t, j)
    BY <1>4 DEF RecordCommit, Goto, Moves
  <2> HIDE DEF j
  <2> QED BY <1>3, <1>4, <2>2, <2>3 DEF RecordCommit
<1>5. ~IsPage(Idle)
  BY DEF Idle, IsPage
<1>6. ASSUME NEW t \in Task, RecordApply(t) \/ StatsFill(t) \/ PageSend(t) \/ SearchSend(t)
      PROVE  PageInv'
  <2>1. Moves(t, Idle) /\ UNCHANGED <<learned, clicked, plays>>
    BY <1>6 DEF RecordApply, StatsFill, PageSend, SearchSend, End, Moves
  <2> QED BY <1>3, <1>5, <2>1
<1>7. ASSUME NEW t \in Task, StatsSelect(t) PROVE PageInv'
  <2> DEFINE j == [kind |-> "stats", pc |-> "fetch", rows |-> learned]
  <2>1. Moves(t, j) /\ ~IsPage(j)
    BY <1>7 DEF StatsSelect, Moves, IsPage
  <2> HIDE DEF j
  <2> QED BY <1>3, <1>7, <2>1 DEF StatsSelect
<1>8. ASSUME NEW t \in Task, StatsFetch(t) PROVE PageInv'
  <2>1. task[t] \in Stats
    BY <1>1, <1>8, Whose DEF StatsFetch, At
  <2>2. PICK late \in SUBSET Artist :
          task' = [task EXCEPT ![t].pc = "fill",
                               ![t].rows = [a \in Artist |-> IF a \in late THEN learned[a]
                                                             ELSE @[a]]]
    BY <1>8 DEF StatsFetch
  <2>3. task'[t].kind = "stats" /\ \A r \in Task : r # t => task'[r] = task[r]
    <3>1. task = [r \in Task |-> task[r]] /\ task[t].kind = "stats"
          /\ DOMAIN task[t] = {"kind", "pc", "rows"}
      BY <1>1, <2>1 DEF Types, Stats
    <3> QED BY <2>2, <3>1
  <2>4. ~IsPage(task'[t])
    BY <2>3 DEF IsPage
  <2>5. Histories' /\ clicked' = clicked /\ Heard' = Heard /\ InHistory' = InHistory
    BY <1>1, <1>8 DEF StatsFetch, Histories, Heard, InHistory
  <2> QED BY <1>1, <2>3, <2>4, <2>5, PagesKept
<1>9. ASSUME NEW t \in Task, SearchRead(t) PROVE PageInv'
  <2>1. PICK tracks \in BestOf(Hits \cap InHistory), songs \in BestOf(Hits \cap Catalogue) :
          \E list \in Ranked(Merged(tracks, songs)) :
              task' = [task EXCEPT ![t] = [kind |-> "search", pc |-> "found", list |-> list,
                                           known |-> InHistory]]
    BY <1>9 DEF SearchRead
  <2>2. PICK list \in Ranked(Merged(tracks, songs)) :
          task' = [task EXCEPT ![t] = [kind |-> "search", pc |-> "found", list |-> list,
                                       known |-> InHistory]]
    BY <2>1
  <2> DEFINE j == [kind |-> "search", pc |-> "found", list |-> list, known |-> InHistory]
  <2>3. Moves(t, j)
    BY <2>2 DEF Moves
  <2>4. ~IsPage(j)
    <3>1. j.kind = "search"
      OBVIOUS
    <3> HIDE DEF j
    <3> QED BY <3>1 DEF IsPage
  <2> HIDE DEF j
  <2>5. UNCHANGED <<learned, clicked, plays>>
    BY <1>9 DEF SearchRead
  <2> QED BY <1>3, <2>3, <2>4, <2>5
<1>10. ASSUME NEW a \in Artist, Click(a) PROVE PageInv'
  <2>1. /\ Histories' /\ clicked \subseteq clicked' /\ task' = task
        /\ Heard' = Heard /\ InHistory' = InHistory
    BY <1>1, <1>10 DEF Click, Histories, Heard, InHistory
  <2> QED BY <1>1, <2>1, PagesKept
<1>11. ASSUME NEW v \in Video, Started(v) PROVE PageInv'
  <2>1. /\ Histories' /\ clicked' = clicked /\ task' = task /\ Heard' = Heard
        /\ InHistory \subseteq InHistory'
    BY <1>1, <1>11 DEF Started, Histories, Heard, InHistory
  <2> QED BY <1>1, <2>1, PagesKept
<1>12. CASE UNCHANGED vars
  <2>1. /\ Histories' /\ clicked' = clicked /\ task' = task
        /\ Heard' = Heard /\ InHistory' = InHistory
    BY <1>1, <1>12 DEF vars, Histories, Heard, InHistory
  <2> QED BY <1>1, <2>1, PagesKept
<1> QED BY <1>2, <1>4, <1>6, <1>7, <1>8, <1>9, <1>10, <1>11, <1>12, PageReadIsRight, ReadsAreRight
        DEF Next, Reads

(* The page Discover (services/discover_service.py): the artists heard, those *)
(* never met and those clicked are everybody but who was met while the page   *)
(* was read, nobody is both heard and never met, and the genre the listener   *)
(* is said to love is that of a song among the favourites or first played     *)
(* while the page was read, as long as no section is cut, although every      *)
(* section comes from a statement of its own and the tables change between    *)
(* any two of them.                                                           *)
THEOREM SectionsStayInAgreement == Spec => []SectionsAgree
<1>1. Init => PageInv
  <2> SUFFICES ASSUME Init PROVE PageInv
    OBVIOUS
  <2>1. Inv /\ \A t \in Task : task[t] = Idle
    BY DiscoverAssumption, InitInv DEF Init
  <2>2. Histories
    <3>1. learned = [a \in Artist |-> <<>>] /\ plays = [v \in Video |-> 0] /\ clicked = {}
      BY DEF Init, NoEvents
    <3>2. <<>> \in Seq(Events) /\ Len(<<>>) = 0
      BY EmptySeq
    <3> QED BY <3>1, <3>2, DiscoverAssumption DEF Histories, Rewards, DiscoverAssumption
  <2> QED BY <2>1, <2>2, NotIdle DEF PageInv
<1>2. PageInv /\ [Next]_vars => PageInv'
  BY DiscoverAssumption, NextPageInv
<1>3. PageInv => SectionsAgree
  <2> SUFFICES ASSUME PageInv, NEW t \in Sending PROVE
        LET p == task[t].page
            loved == UNION {GenresOf[ArtistOf[v]] : v \in p.favorites}
            found == UNION {GenresOf[ArtistOf[v]] : v \in InHistory \ task[t].known}
            met == {a \in task[t].strangers : learned[a] # <<>>}
        IN  /\ ToSet(p.forYou) \cap p.unheard = {}
            /\ \/ Len(p.forYou) = PageSize \/ Cardinality(p.unheard) = PageSize
               \/ Artist \subseteq ToSet(p.forYou) \cup p.unheard \cup clicked \cup met
            /\ p.genre = None => loved = {}
            /\ p.genre # None =>
                  p.genre \in loved \cup found \/ Cardinality(p.favorites) = PageSize
    BY DEF SectionsAgree
  <2>1. IsPage(task[t]) /\ task[t].pc = "send" /\ Types
    BY Whose DEF PageInv, Inv, At, Sending, PagePcs
  <2> DEFINE j == task[t]
             met == {a \in task[t].strangers : learned[a] # <<>>}
  <2>2. Everybody(j, Heard, clicked) /\ Loves(j, InHistory) /\ j.strangers \subseteq Artist
    BY <2>1 DEF PageInv, PageIsRight, WhenAsked, Sending
  <2> HIDE DEF j
  <2>3. \/ Len(j.page.forYou) = PageSize \/ Cardinality(j.page.unheard) = PageSize
        \/ Artist \subseteq ToSet(j.page.forYou) \cup j.page.unheard \cup clicked \cup met
    BY <2>2 DEF Everybody, Heard, j
  <2> QED BY <2>2, <2>3 DEF Everybody, Loves, j
<1> QED BY <1>1, <1>2, <1>3, PTL DEF Spec
=============================================================================
