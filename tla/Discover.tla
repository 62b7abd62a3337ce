------------------------------ MODULE Discover ------------------------------
(***************************************************************************)
(* What LunaWave learns of its listener and shows on the page Discover:    *)
(* the rewards of the artists (persistence/artist_repo.py) with their cache *)
(* in memory, from which the radio samples artists, and the sections and    *)
(* the search of persistence/discover_repo.py, services/discover_service.py *)
(* and services/discover_ranking.py.                                        *)
(*                                                                          *)
(* All statements go through one aiosqlite connection, in the order they    *)
(* were issued, and are answered in that order: as in Library a statement   *)
(* takes effect when it is issued, and its task goes on when its answer is  *)
(* the first in answers.  The rewards of an artist are kept as the list of  *)
(* what was heard to the end and what was skipped; RewardAlpha and          *)
(* RewardBeta are the numbers the table holds after that list.              *)
(***************************************************************************)
EXTENDS Integers, Sequences, FiniteSets, SequencesExt, FiniteSetsExt

CONSTANTS
    Artist, Genre, Video,
    ArtistOf,       \* the artist of a video that has a row in tracks
    GenresOf,       \* the genres of an artist
    Favourite,      \* the videos with tracks.is_favorite, which nothing in src/ sets
    Downloaded,     \* the videos with tracks.local_path
    Catalogue,      \* the videos with a row in songs
    Hits,           \* the videos one search finds in title or artist
    Phrase,         \* those of them that hold the words as they were typed
    Task,           \* bound: tasks that may be underway at one time
    None,           \* no cache, no genre
    PageSize,       \* artists or videos of a section: 15
    FeaturedSize,   \* featured artists, and genres: 30
    SearchLimit,    \* results of a search: 20
    SpectrumLimit,  \* slices of the taste spectrum: 6
    MaxEvents,      \* bound: songs of one artist heard or skipped
    MaxPlays        \* bound: the play count of one video

ASSUME DiscoverAssumption ==
    /\ ArtistOf \in [Video -> Artist] /\ GenresOf \in [Artist -> SUBSET Genre]
    /\ Favourite \subseteq Video /\ Catalogue \subseteq Video /\ Downloaded \subseteq Video
    /\ Hits \subseteq Video /\ Phrase \subseteq Hits /\ SearchLimit \in Nat
    /\ {PageSize, FeaturedSize} \subseteq Nat \ {0} /\ SpectrumLimit \in Nat \ {0, 1}
    /\ MaxEvents \in Nat /\ MaxPlays \in Nat /\ IsFiniteSet(Task) /\ IsFiniteSet(Video)
    /\ IsFiniteSet(Artist) /\ IsFiniteSet(Genre) /\ None \notin Genre

VARIABLES
    learned,   \* artists.reward_alpha and reward_beta, as the events behind them
    cache,     \* ArtistRepository._reward_cache, likewise, or None
    clicked,   \* artists with a click_count
    plays,     \* tracks.play_count
    unsaved,   \* artists an event of whom was written but not committed
    task,      \* what each task is doing
    answers    \* the tasks whose statements wait for their answer, oldest first

vars == <<learned, cache, clicked, plays, unsaved, task, answers>>

Events == {"done", "skip"}
Kinds == {"record", "stats", "page", "search"}
PagePcs == {"forYou", "unheard", "genre", "spectrum", "alike", "send"}
Pcs == {"commit", "apply", "fetch", "fill", "found"} \cup PagePcs
Idle == [kind |-> "idle"]
NoEvents == [a \in Artist |-> <<>>]
NoPage == [recent |-> {}, favorites |-> {}, cached |-> {}, artists |-> {}, genres |-> {},
           forYou |-> <<>>, unheard |-> {}, genre |-> None, alike |-> {}, spectrum |-> <<>>]

Init ==
    /\ learned = NoEvents /\ cache = None
    /\ clicked = {} /\ unsaved = {}
    /\ plays = [v \in Video |-> 0]
    /\ task = [t \in Task |-> Idle]
    /\ answers = <<>>

At(t, pc) == task[t] # Idle /\ task[t].pc = pc
Goto(t, pc) == task' = [task EXCEPT ![t].pc = pc]
End(t) == task' = [task EXCEPT ![t] = Idle]
Issue(t) == answers' = Append(answers, t)
Collect(t) == answers # <<>> /\ Head(answers) = t /\ answers' = Tail(answers)
CollectAndIssue(t) ==
    answers # <<>> /\ Head(answers) = t /\ answers' = Append(Tail(answers), t)

-----------------------------------------------------------------------------
(* The rewards.  One event decays both numbers of its artist by 2% and adds  *)
(* 1 to one of them; Scale, 50 to the power of MaxEvents, makes the fractions *)
(* whole.                                                                    *)
Scale == LET power[n \in 0 .. MaxEvents] == IF n = 0 THEN 1 ELSE 50 * power[n - 1]
         IN  power[MaxEvents]
Reward(s, e) ==
    LET r[i \in 0 .. Len(s)] ==
          IF i = 0 THEN Scale
          ELSE (r[i - 1] * 49) \div 50 + (IF s[i] = e THEN Scale ELSE 0)
    IN  r[Len(s)]
RewardAlpha(a) == Reward(learned[a], "done")
RewardBeta(a) == Reward(learned[a], "skip")

(* QueueController.advance_to_next makes the task: the song was heard to 90% *)
(* or was skipped.  record_completion or record_skip issues its UPDATE, which *)
(* may fail.                                                                 *)
RecordUpdate(t, a, e) ==
    /\ task[t] = Idle /\ Len(learned[a]) < MaxEvents
    /\ learned' = [learned EXCEPT ![a] = Append(@, e)]
    /\ task' = [task EXCEPT ![t] = [kind |-> "record", pc |-> "commit", a |-> a, e |-> e]]
    /\ Issue(t)
    /\ UNCHANGED <<cache, clicked, plays, unsaved>>

RecordCommit(t) ==
    /\ At(t, "commit")
    /\ CollectAndIssue(t)
    /\ Goto(t, "apply")
    /\ UNCHANGED <<learned, cache, clicked, plays, unsaved>>

(* The commit went through, and the cache, if there is one, learns the event *)
(* as well; or it raised, and the row waits for the commit of another task.  *)
RecordApplyAsEnd(t) ==    \* a mutant: the cache takes a skip for a completion
    /\ At(t, "apply")
    /\ Collect(t)
    /\ cache' = IF cache = None THEN None
                ELSE [cache EXCEPT ![task[t].a] = Append(@, "done")]
    /\ End(t)
    /\ UNCHANGED <<learned, clicked, plays, unsaved>>
RecordApply(t) ==
    /\ At(t, "apply")
    /\ Collect(t)
    /\ \/ /\ cache' = IF cache = None THEN None
                      ELSE [cache EXCEPT ![task[t].a] = Append(@, task[t].e)]
          /\ UNCHANGED unsaved
       \/ unsaved' = unsaved \cup {task[t].a} /\ UNCHANGED cache
    /\ End(t)
    /\ UNCHANGED <<learned, clicked, plays>>

(* ArtistRepository.get_reward_stats, called for a batch of the radio: only  *)
(* when there is no cache yet.  The rows are stepped through by fetchall, so *)
(* a row may be read before or after an UPDATE that came in between.         *)
StatsSelect(t) ==
    /\ task[t] = Idle /\ cache = None
    /\ task' = [task EXCEPT ![t] = [kind |-> "stats", pc |-> "fetch", rows |-> learned]]
    /\ Issue(t)
    /\ UNCHANGED <<learned, cache, clicked, plays, unsaved>>

StatsFetch(t) ==
    /\ At(t, "fetch")
    /\ CollectAndIssue(t)
    /\ \E late \in SUBSET Artist :
          task' = [task EXCEPT ![t].pc = "fill",
                               ![t].rows = [a \in Artist |-> IF a \in late THEN learned[a]
                                                             ELSE @[a]]]
    /\ UNCHANGED <<learned, cache, clicked, plays, unsaved>>

StatsFill(t) ==
    /\ At(t, "fill")
    /\ Collect(t)
    /\ cache' = task[t].rows
    /\ End(t)
    /\ UNCHANGED <<learned, clicked, plays, unsaved>>

-----------------------------------------------------------------------------
(* The sections of the page.                                                *)

(* DiscoverRepository.get_bandit_ranked_artists, best posterior mean first.  *)
LearnedFromEnds(a) == RewardAlpha(a) > Scale    \* a mutant: skips do not count
Learned(a) == RewardAlpha(a) > Scale \/ RewardBeta(a) > Scale
Mean(a) ==    \* alpha / (alpha + beta), in thousandths
    (1000 * RewardAlpha(a)) \div (RewardAlpha(a) + RewardBeta(a))
AnyOf(S, n) == IF Cardinality(S) <= n THEN {S} ELSE kSubset(n, S)    \* a LIMIT
FirstOf(s, n) == SubSeq(s, 1, IF Len(s) < n THEN Len(s) ELSE n)
ForYou ==
    {FirstOf(s, PageSize) : s \in {s \in SetToSeqs({a \in Artist : Learned(a)}) :
        \A i, j \in DOMAIN s : i < j => Mean(s[i]) >= Mean(s[j])}}

(* services/discover_ranking.compute_match_pct: a rounded percentage.  (A    *)
(* half is rounded up here, to the even neighbour in Python.)                *)
Pct(part, whole) == (200 * part + whole) \div (2 * whole)

(* DiscoverRepository.get_unheard_artists: any of these, at random.          *)
Unheard ==
    AnyOf({a \in Artist : RewardAlpha(a) = Scale /\ RewardBeta(a) = Scale /\ a \notin clicked},
          PageSize)

(* get_taste_spectrum: the points of a genre, one for every play of a song   *)
(* and three for a favourite, for the genres with any, highest first.        *)
Weight(v) == plays[v] + (IF v \in Favourite THEN 3 ELSE 0)
Score(g) ==
    Cardinality(UNION {{v} \X (1 .. Weight(v)) : v \in {w \in Video : g \in GenresOf[ArtistOf[w]]}})
TasteRows ==
    LET liked == {g \in Genre : Score(g) > 0}
    IN  {s \in SetToSeqs(liked) : \A i, j \in DOMAIN s : i < j => Score(s[i]) >= Score(s[j])}

(* services/discover_ranking.build_taste_spectrum: percentages, with what is *)
(* past the first SpectrumLimit - 1 genres in one slice.                     *)
Total(s) == FoldLeft(LAMBDA n, g : n + Score(g), 0, s)
BuildTasteSpectrum(s) ==
    LET top == FirstOf(s, SpectrumLimit - 1)
        rest == SubSeq(s, Len(top) + 1, Len(s))
        slices == [i \in DOMAIN top |-> Pct(Score(top[i]), Total(s))]
    IN  IF rest = <<>> THEN slices ELSE Append(slices, Pct(Total(rest), Total(s)))

(* The sections of songs: the rows played last, which are left open (a row   *)
(* never played comes last but is there), those on disk among them, and the  *)
(* favourites before what was played most.                                   *)
InHistory == {v \in Video : plays[v] > 0} \cup Favourite
Recent == AnyOf(Video, PageSize)
Cached == AnyOf(Downloaded, PageSize)
Before(v, w) ==
    \/ v \in Favourite /\ w \notin Favourite
    \/ (v \in Favourite <=> w \in Favourite) /\ plays[v] > plays[w]
Favorites ==
    {S \in AnyOf(InHistory, PageSize) : \A v \in S, w \in InHistory \ S : ~Before(w, v)}
FeaturedArtists == AnyOf(Artist, FeaturedSize)
FeaturedGenres == AnyOf(Genre, FeaturedSize)

(* ws_discovery "discover": the sections are statements of their own, issued *)
(* by one gather in this order, and whatever other tasks record may come     *)
(* between any two of them.  (Those of the first step have one: of the five  *)
(* only the favourites are about something that changes.  All are sorted, so *)
(* that a statement has read its rows once it is executed.)  What had been   *)
(* played and whom the listener had not met when the client asked is         *)
(* remembered for SectionsAgree.  (Bound: one client.)                       *)
Asked == \E t \in Task : task[t] # Idle /\ task[t].kind \in {"page", "search"}
PageRead(t) ==
    /\ task[t] = Idle /\ ~Asked
    /\ \E recent \in Recent, fav \in Favorites, disk \in Cached,
          some \in FeaturedArtists, styles \in FeaturedGenres :
          task' = [task EXCEPT ![t] =
              [kind |-> "page", pc |-> "forYou",
               page |-> [NoPage EXCEPT !.recent = recent, !.favorites = fav, !.cached = disk,
                                       !.artists = some, !.genres = styles],
               known |-> InHistory, strangers |-> {a \in Artist : learned[a] = <<>>}]]
    /\ Issue(t)
    /\ UNCHANGED <<learned, cache, clicked, plays, unsaved>>

Section(t, page, next) ==    \* one more section has been read
    /\ CollectAndIssue(t)
    /\ task' = [task EXCEPT ![t].pc = next, ![t].page = page]
    /\ UNCHANGED <<learned, cache, clicked, plays, unsaved>>

ForYouRead(t) ==
    /\ At(t, "forYou")
    /\ \E f \in ForYou : Section(t, [task[t].page EXCEPT !.forYou = f], "unheard")

UnheardRead(t) ==
    /\ At(t, "unheard")
    /\ \E u \in Unheard : Section(t, [task[t].page EXCEPT !.unheard = u], "genre")

TopGenreRead(t) ==
    /\ At(t, "genre")
    /\ \E rows \in TasteRows :
          LET g == IF rows = <<>> THEN None ELSE Head(rows)
          IN  Section(t, [task[t].page EXCEPT !.genre = g], "spectrum")

SpectrumRead(t) ==
    /\ At(t, "spectrum")
    /\ \E rows \in TasteRows :
          Section(t, [task[t].page EXCEPT !.spectrum = BuildTasteSpectrum(rows)], "alike")

(* The artists alike are asked for once the first genre is known.            *)
GenreAffinity(t) ==
    /\ At(t, "alike")
    /\ \E some \in AnyOf({a \in Artist : task[t].page.genre \in GenresOf[a]}, PageSize) :
          Section(t, [task[t].page EXCEPT !.alike = some], "send")

PageSend(t) ==
    /\ At(t, "send")
    /\ Collect(t)
    /\ End(t)
    /\ UNCHANGED <<learned, cache, clicked, plays, unsaved>>

-----------------------------------------------------------------------------
(* DiscoverRepository.search_tracks: the best of the history and the best of *)
(* the catalogue, read in one turn.  A video of both is shown as the history *)
(* has it.  Those with the whole phrase come first, then by rank, which is   *)
(* left open.                                                                *)
BestOf(S) == AnyOf(S, SearchLimit)
MergedLastWins(tracks, songs) ==    \* a mutant: the catalogue overwrites
    [v : tracks \ songs, own : {TRUE}] \cup [v : songs, own : {FALSE}]
Merged(tracks, songs) ==
    [v : tracks, own : {TRUE}] \cup [v : songs \ tracks, own : {FALSE}]
Ranked(rows) ==
    {FirstOf(s, SearchLimit) : s \in {s \in SetToSeqs(rows) :
        \A i, j \in DOMAIN s : i < j /\ s[j].v \in Phrase => s[i].v \in Phrase}}

SearchRead(t) ==
    /\ task[t] = Idle /\ ~Asked
    /\ \E tracks \in BestOf(Hits \cap InHistory), songs \in BestOf(Hits \cap Catalogue) :
          \E list \in Ranked(Merged(tracks, songs)) :
              task' = [task EXCEPT ![t] = [kind |-> "search", pc |-> "found", list |-> list,
                                           known |-> InHistory]]
    /\ Issue(t)
    /\ UNCHANGED <<learned, cache, clicked, plays, unsaved>>

SearchSend(t) ==
    /\ At(t, "found")
    /\ Collect(t)
    /\ End(t)
    /\ UNCHANGED <<learned, cache, clicked, plays, unsaved>>

-----------------------------------------------------------------------------
(* What the listener does: ws_queue "enqueue_artist_songs" counts a click,   *)
(* and a song that starts counts a play.                                     *)
Click(a) ==
    /\ clicked' = clicked \cup {a}
    /\ UNCHANGED <<learned, cache, plays, unsaved, task, answers>>

Started(v) ==
    /\ plays[v] < MaxPlays
    /\ plays' = [plays EXCEPT ![v] = @ + 1]
    /\ UNCHANGED <<learned, cache, clicked, unsaved, task, answers>>

Next ==
    \/ \E t \in Task, a \in Artist, e \in Events : RecordUpdate(t, a, e)
    \/ \E t \in Task : \/ RecordCommit(t) \/ RecordApply(t)
                       \/ StatsSelect(t) \/ StatsFetch(t) \/ StatsFill(t)
                       \/ PageRead(t) \/ ForYouRead(t) \/ UnheardRead(t)
                       \/ TopGenreRead(t) \/ SpectrumRead(t) \/ GenreAffinity(t)
                       \/ PageSend(t)
                       \/ SearchRead(t) \/ SearchSend(t)
    \/ \E a \in Artist : Click(a)
    \/ \E v \in Video : Started(v)

Spec == Init /\ [][Next]_vars

-----------------------------------------------------------------------------
(* The tasks with a page on its way to a client.                             *)
Sending == {t \in Task : At(t, "send")}

(* Types: what the variables hold, and one statement in flight for each task *)
(* that is underway.                                                         *)
TypeOK ==
    /\ learned \in [Artist -> Seq(Events)]
    /\ cache = None \/ cache \in [Artist -> Seq(Events)]
    /\ clicked \subseteq Artist /\ unsaved \subseteq Artist
    /\ plays \in [Video -> 0 .. MaxPlays]
    /\ \A t \in Task : task[t] = Idle \/ (task[t].kind \in Kinds /\ task[t].pc \in Pcs)
    /\ ToSet(answers) = {t \in Task : task[t] # Idle} /\ IsInjective(answers)
    /\ \A t \in Sending :
          LET p == task[t].page
          IN  /\ p.recent \cup p.favorites \cup p.cached \subseteq Video
              /\ p.artists \subseteq Artist /\ p.genres \subseteq Genre
              /\ p.forYou \in Seq(Artist) /\ p.unheard \subseteq Artist
              /\ p.genre \in Genre \cup {None} /\ p.alike \subseteq Artist
              /\ p.spectrum \in Seq(0 .. 100)

(* The cache in memory never misses an event that the table has: whenever    *)
(* its rows were read, once nothing of an artist is under way and no commit  *)
(* failed, it holds as many ends and skips of that artist.  (It may hold one *)
(* too many: rows read after an UPDATE are changed again by its task.)       *)
Count(s, e) == Cardinality({i \in DOMAIN s : s[i] = e})
Settled(a) ==
    /\ a \notin unsaved
    /\ \A t \in Task : task[t] # Idle => task[t].kind # "record" \/ task[t].a # a
CacheKeepsUp ==
    cache # None => \A a \in Artist : Settled(a) =>
        \A e \in Events : Count(cache[a], e) >= Count(learned[a], e)

(* A page has a place for every artist: one the listener had heard or skipped *)
(* is ranked under "for you", one never met is under "unheard", none is in    *)
(* both although the rewards change between the two statements, and only a    *)
(* full section leaves artists out, or one of whom the very first event was   *)
(* recorded while the page was read.  And its genre is that of a song among   *)
(* the favourites, or of one first played after the client asked; with        *)
(* favourites that have genres there is such a genre (get_favorites and       *)
(* get_top_genre are two statements as well).                                 *)
SectionsAgree ==
    \A t \in Sending :
        LET p == task[t].page
            loved == UNION {GenresOf[ArtistOf[v]] : v \in p.favorites}
            found == UNION {GenresOf[ArtistOf[v]] : v \in InHistory \ task[t].known}
            met == {a \in task[t].strangers : learned[a] # <<>>}
        IN  /\ ToSet(p.forYou) \cap p.unheard = {}
            /\ \/ Len(p.forYou) = PageSize \/ Cardinality(p.unheard) = PageSize
               \/ Artist \subseteq ToSet(p.forYou) \cup p.unheard \cup clicked \cup met
            /\ p.genre = None => loved = {}
            /\ p.genre # None =>
                  p.genre \in loved \cup found \/ Cardinality(p.favorites) = PageSize

(* A search names no video twice, and as long as nothing is cut off it names *)
(* every hit, with what the history knows of it (favourite, on disk) rather  *)
(* than the bare row of the catalogue.                                       *)
SearchKnowsTheHistory ==
    \A t \in Task : At(t, "found") =>
        LET list == task[t].list
            shown == {list[i].v : i \in DOMAIN list}
        IN  /\ Cardinality(shown) = Len(list)
            /\ Len(list) < SearchLimit =>
                  /\ shown = Hits \cap (task[t].known \cup Catalogue)
                  /\ \A i \in DOMAIN list : list[i].own <=> list[i].v \in task[t].known
=============================================================================
