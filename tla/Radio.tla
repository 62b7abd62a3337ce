-------------------------------- MODULE Radio -------------------------------
(***************************************************************************)
(* How the radio of LunaWave finds its songs: the batches of engine/radio/  *)
(* artist_selector.py (a random query of persistence/library_repo.py, the   *)
(* filter, the interleaver) and the tasks of engine.py and prefetcher.py    *)
(* that gather them: the start of a cycle, its backfill, the standby list   *)
(* built ahead, and the fetch of the button that shuffles.  Playback        *)
(* models how a play or a command runs, with the batches left open; here a  *)
(* play is the one step in which the song becomes the current one.          *)
(*                                                                          *)
(* A task is cut at the awaits where others run.  What _standby_lock guards *)
(* never awaits, so nobody ever waits for that lock and it is not a         *)
(* variable; _fetch_lock is held across a gather and is one.  In Python     *)
(* 3.12, which CI runs, wait_for returns to its caller in the turn in which *)
(* gather_batch ends, so a batch is filtered and used in one step.          *)
(***************************************************************************)
EXTENDS Naturals, Sequences, FiniteSets, SequencesExt

CONSTANTS
    Song,          \* the rows of the table songs
    ArtistOf,      \* the artist of a song
    TitleOf,       \* its normalised title, or NoTitle when only noise is left
    NoTitle,
    TooLong,       \* songs longer than MAX_TRACK_DURATION
    Pick,          \* bound: songs the listener asks for by name
    Task,          \* bound: tasks that may be underway at one time
    None,          \* no song, no task
    MaxPerArtist,  \* TRACKS_PER_ARTIST_TARGET and TrackFilter.max_per_artist: 3
    ArtistsQuick,  \* artists of a quick fetch: 2
    ArtistsBatch,  \* artists of a full batch: 4
    Thin,          \* a radio queue this short asks for a standby: 5
    HistoryCheck,  \* played songs a batch must not repeat: 50, all state keeps
    Excluded,      \* played songs the query of a batch leaves out: 20
    RadioCap,      \* longest radio queue a backfill leaves: 30
    MaxCmds        \* bound: commands of the listener and ends of songs

ASSUME RadioAssumption ==
    /\ IsFiniteSet(Song) /\ TooLong \subseteq Song /\ Pick \subseteq Song
    /\ None \notin Song /\ None \notin Task
    /\ MaxPerArtist \in Nat \ {0} /\ HistoryCheck \in Nat \ {0} /\ Excluded \in Nat
    /\ RadioCap \in Nat \ {0} /\ MaxCmds \in Nat

VARIABLES
    radioOn,    \* state.playback_mode is RADIO
    queue,      \* state.radio_queue
    current,    \* state.current_track
    history,    \* state.history, newest last
    standby,    \* RadioPrefetcher._standby
    fetchLock,  \* the task that holds _fetch_lock, or None
    task,       \* what each task is doing
    cmds        \* counter of the bound MaxCmds

vars == <<radioOn, queue, current, history, standby, fetchLock, task, cmds>>

Pcs == {"off", "start", "quick", "backfill", "fill", "build", "wait", "gather",
        "random", "shuffle", "play", "loading"}
Then == {"backfill", "build", "off"}

Off == [pc |-> "off", own |-> TRUE, seen |-> {}, song |-> None, then |-> "off"]

Init ==
    /\ radioOn = FALSE
    /\ queue = <<>> /\ standby = <<>> /\ history = <<>>
    /\ current = None /\ fetchLock = None
    /\ task = [t \in Task |-> Off]
    /\ cmds = 0

At(t, pc) == task[t].pc = pc
Goto(t, pc) == task' = [task EXCEPT ![t].pc = pc]
End(t) == task' = [task EXCEPT ![t] = Off]

-----------------------------------------------------------------------------
(* What a batch may be.                                                     *)

(* How many songs of an artist a list has.                                   *)
CountBy(a, s) == Cardinality({i \in DOMAIN s : ArtistOf[s[i]] = a})
Titles(S) == {TitleOf[x] : x \in S} \ {NoTitle}
Played == ToSet(history) \cup ({current} \ {None})

(* ArtistSelector.build_exclusion_set, when the gather begins: of the        *)
(* history only the newest songs.                                            *)
Newest == {history[i] : i \in {j \in DOMAIN history : j + Excluded > Len(history)}}
ExclusionSet == ToSet(queue) \cup Newest \cup ({current} \ {None})

(* LibraryRepository.get_random_songs with a limit, for the chosen artists:  *)
(* any songs (not excluded), no more than MaxPerArtist of one artist.  The     *)
(* sampling of the artists leaves open which ones, but for an artist that    *)
(* was asked for.                                                            *)
OfArtist(x, S) == Cardinality({y \in S : ArtistOf[y] = ArtistOf[x]})
RandomSongs(artists, S) ==
    /\ Cardinality({ArtistOf[x] : x \in S}) <= artists
    /\ \A x \in S : OfArtist(x, S) <= MaxPerArtist

(* TrackFilter.filter_tracks, with what the state holds when it runs: no     *)
(* song heard, current or queued, none under a title of those, none too      *)
(* long, no title twice, and with the queue no more than MaxPerArtist of     *)
(* one artist.                                                               *)
FilterTracksById(S) ==    \* a mutant: titles are not compared
    /\ S \cap (ToSet(queue) \cup Played \cup TooLong) = {}
    /\ \A x \in S : CountBy(ArtistOf[x], queue) + OfArtist(x, S) <= MaxPerArtist
FilterTracks(S) ==
    LET known == ToSet(queue) \cup Played
    IN  /\ S \cap (known \cup TooLong) = {}
        /\ Titles(S) \cap Titles(known) = {}
        /\ \A x, y \in S : x # y /\ TitleOf[x] = TitleOf[y] => TitleOf[x] = NoTitle
        /\ \A x \in S : CountBy(ArtistOf[x], queue) + OfArtist(x, S) <= MaxPerArtist

(* interleave_by_artist: round k takes the k-th song of every artist that    *)
(* has one, in any order, but a round with a choice does not begin with the  *)
(* artist that ended the round before: those two change places.              *)
RoundOf(s, i) == Cardinality({j \in 1 .. i : ArtistOf[s[j]] = ArtistOf[s[i]]})
Interleaved(s) ==
    \A i \in 2 .. Len(s) :
        /\ RoundOf(s, i - 1) <= RoundOf(s, i)
        /\ ArtistOf[s[i - 1]] = ArtistOf[s[i]] =>
              \A j \in DOMAIN s : RoundOf(s, j) = RoundOf(s, i) => ArtistOf[s[j]] = ArtistOf[s[i]]
Lists == {s \in UNION {SetToSeqs(S) : S \in SUBSET Song} : Interleaved(s)}

(* ArtistSelector.gather_batch, once its query is answered.  It returns      *)
(* nothing when nothing is left, the query fails or the time is up.          *)
BatchesAsFiltered(artists, seen) ==    \* a mutant: no interleaving
    UNION {SetToSeqs(S) : S \in {R \in SUBSET (Song \ seen) : RandomSongs(artists, R)
                                                             /\ FilterTracks(R)}}
Batches(artists, seen) ==
    LET left == {S \in SUBSET (Song \ seen) : RandomSongs(artists, S) /\ FilterTracks(S)}
    IN  {b \in Lists : ToSet(b) \in left}

-----------------------------------------------------------------------------
(* The tasks.                                                               *)

Spawn(t, pc, own) == task' = [task EXCEPT ![t] = [Off EXCEPT !.pc = pc, !.own = own]]
Gather(t, pc) == task' = [task EXCEPT ![t].pc = pc, ![t].seen = ExclusionSet]

(* A cycle puts the rest of its batch into the queue and plays the first.    *)
PlayFirst(t, b, then) ==
    /\ queue' = Tail(b)
    /\ task' = [task EXCEPT ![t].pc = "play", ![t].seen = {}, ![t].song = Head(b),
                            ![t].then = then]

(* RadioMode._start: the standby list when there is one, or a quick fetch.   *)
Start(t) ==
    /\ At(t, "start")
    /\ \/ standby # <<>> /\ standby' = <<>> /\ PlayFirst(t, standby, "build")
       \/ standby = <<>> /\ Gather(t, "quick") /\ UNCHANGED <<queue, standby>>
    /\ UNCHANGED <<radioOn, current, history, fetchLock, cmds>>

QuickDone(t) ==
    /\ At(t, "quick")
    /\ \E b \in Batches(ArtistsQuick, task[t].seen) :
          \/ b = <<>> /\ End(t) /\ UNCHANGED queue
          \/ b # <<>> /\ PlayFirst(t, b, "backfill")
    /\ UNCHANGED <<radioOn, current, history, standby, fetchLock, cmds>>

(* PlayOps.play_track once _play_lock is free, and its end: then the cycle   *)
(* starts its backfill or the next standby.                                  *)
NowPlaying(x) ==
    /\ history' = IF current = None THEN history
                  ELSE LET h == Append(history, current)
                       IN  IF Len(h) > HistoryCheck THEN Tail(h) ELSE h
    /\ current' = x

Play(t) ==
    /\ At(t, "play")
    /\ NowPlaying(task[t].song)
    /\ task' = [task EXCEPT ![t].pc = "loading", ![t].song = None]
    /\ UNCHANGED <<radioOn, queue, standby, fetchLock, cmds>>

PlayDone(t) ==
    /\ At(t, "loading")
    /\ task' = [task EXCEPT ![t] = [Off EXCEPT !.pc = task[t].then]]
    /\ UNCHANGED <<radioOn, queue, current, history, standby, fetchLock, cmds>>

(* RadioMode._backfill_and_standby, through fetch_batch_with_lock: no fetch  *)
(* while another task gathers under _fetch_lock.                             *)
Backfill(t) ==
    /\ At(t, "backfill")
    /\ \/ fetchLock = None /\ fetchLock' = t /\ Gather(t, "fill")
       \/ fetchLock # None /\ Goto(t, "build") /\ UNCHANGED fetchLock
    /\ UNCHANGED <<radioOn, queue, current, history, standby, cmds>>

Fill(t) ==
    /\ At(t, "fill")
    /\ \E b \in Batches(ArtistsBatch - ArtistsQuick, task[t].seen) :
          queue' = SubSeq(queue \o b, 1,
                          IF b # <<>> /\ Len(queue \o b) > RadioCap THEN RadioCap
                          ELSE Len(queue \o b))
    /\ fetchLock' = None
    /\ task' = [task EXCEPT ![t] = [Off EXCEPT !.pc = "build"]]
    /\ UNCHANGED <<radioOn, current, history, standby, cmds>>

(* RadioPrefetcher.build_standby (and ensure_standby, whose one check is its *)
(* first): nothing to do when a standby is there, before the lock and again  *)
(* under it.                                                                 *)
Build(t) ==
    /\ At(t, "build")
    /\ IF standby # <<>> THEN End(t) ELSE Goto(t, "wait")
    /\ UNCHANGED <<radioOn, queue, current, history, standby, fetchLock, cmds>>

BuildLocked(t) ==
    /\ At(t, "wait") /\ fetchLock = None
    /\ IF standby # <<>> THEN End(t) /\ UNCHANGED fetchLock
       ELSE fetchLock' = t /\ Gather(t, "gather")
    /\ UNCHANGED <<radioOn, queue, current, history, standby, cmds>>

BuildDone(t) ==
    /\ At(t, "gather")
    /\ \E b \in Batches(ArtistsBatch, task[t].seen) :
          standby' = IF b = <<>> THEN standby ELSE b
    /\ fetchLock' = None
    /\ End(t)
    /\ UNCHANGED <<radioOn, queue, current, history, cmds>>

(* RadioMode._fetch_and_play_initial: the standby goes, and a full batch is  *)
(* gathered without the lock.                                                *)
Random(t) ==
    /\ At(t, "random")
    /\ standby' = <<>>
    /\ Gather(t, "shuffle")
    /\ UNCHANGED <<radioOn, queue, current, history, fetchLock, cmds>>

ShuffleDone(t) ==
    /\ At(t, "shuffle")
    /\ \E b \in Batches(ArtistsBatch, task[t].seen) :
          \/ b = <<>> /\ End(t) /\ UNCHANGED queue
          \/ b # <<>> /\ PlayFirst(t, b, "build")
    /\ UNCHANGED <<radioOn, current, history, standby, fetchLock, cmds>>

-----------------------------------------------------------------------------
(* The commands, under _lock until the play they make is over.              *)

Commanded == cmds < MaxCmds /\ cmds' = cmds + 1
Unlocked == \A t \in Task : At(t, "play") \/ At(t, "loading") => task[t].then # "off"

(* RadioMode.on_deactivated: the queue goes, and every tracked task is       *)
(* cancelled; who held _fetch_lock lets it go.  The standby stays.  The task *)
(* of the shuffle button is not tracked.                                     *)
Tracked(t) == task[t].own
OnDeactivated ==
    /\ queue' = <<>>
    /\ task' = [t \in Task |-> IF Tracked(t) THEN Off ELSE task[t]]
    /\ fetchLock' = IF fetchLock # None /\ Tracked(fetchLock) THEN None ELSE fetchLock

(* SettingsController.on_set_mode to RADIO: on_activated.                   *)
OnActivated(t) ==
    /\ Commanded /\ Unlocked /\ ~radioOn /\ At(t, "off")
    /\ radioOn' = TRUE
    /\ queue' = <<>>
    /\ Spawn(t, "start", TRUE)
    /\ UNCHANGED <<current, history, standby, fetchLock>>

(* ... and back to QUEUE.                                                   *)
SetModeQueue ==
    /\ Commanded /\ Unlocked /\ radioOn
    /\ radioOn' = FALSE
    /\ OnDeactivated
    /\ current' = None
    /\ UNCHANGED <<history, standby>>

(* PlaybackController._on_cmd_play_track: leaves the radio and plays.       *)
PlayTrack(x) ==
    /\ Commanded /\ Unlocked
    /\ radioOn' = FALSE
    /\ IF radioOn THEN OnDeactivated ELSE UNCHANGED <<queue, task, fetchLock>>
    /\ NowPlaying(x)
    /\ UNCHANGED standby

(* RadioMode.next, for the listener or at the end of a song.                *)
NextTrack(t) ==
    /\ Commanded /\ Unlocked /\ radioOn /\ At(t, "off")
    /\ \/ /\ queue # <<>>
          /\ queue' = Tail(queue)
          /\ \E u \in Task \ {t} :
                LET playing == [Off EXCEPT !.pc = "play", !.own = FALSE,
                                           !.song = Head(queue)]
                IN  IF Len(queue') <= Thin
                    THEN /\ At(u, "off")
                         /\ task' = [task EXCEPT ![t] = playing,
                                                 ![u] = [Off EXCEPT !.pc = "build"]]
                    ELSE task' = [task EXCEPT ![t] = playing]
       \/ /\ queue = <<>>
          /\ Spawn(t, "start", TRUE)
          /\ UNCHANGED queue
    /\ UNCHANGED <<radioOn, current, history, standby, fetchLock>>

(* PlaybackController._on_prev: the song leaves the history, and the one     *)
(* that played is forgotten.                                                 *)
Prev ==
    /\ Commanded /\ Unlocked /\ history # <<>>
    /\ current' = Last(history)
    /\ history' = Front(history)
    /\ UNCHANGED <<radioOn, queue, standby, fetchLock, task>>

(* ModeOps.randomize_radio, and the task SettingsController makes after it. *)
Randomize(t) ==
    /\ Commanded /\ Unlocked /\ radioOn /\ At(t, "off")
    /\ queue' = <<>> /\ current' = None
    /\ Spawn(t, "random", FALSE)
    /\ UNCHANGED <<radioOn, history, standby, fetchLock>>

(* PlaybackController._on_stop, which takes no lock.                         *)
Stop ==
    /\ Commanded
    /\ queue' = <<>> /\ current' = None
    /\ UNCHANGED <<radioOn, history, standby, fetchLock, task>>

-----------------------------------------------------------------------------
TaskStep(t) ==
    \/ Start(t) \/ QuickDone(t) \/ Play(t) \/ PlayDone(t) \/ Backfill(t) \/ Fill(t)
    \/ Build(t) \/ BuildLocked(t) \/ BuildDone(t) \/ Random(t) \/ ShuffleDone(t)

Command ==
    \/ \E t \in Task : OnActivated(t) \/ NextTrack(t) \/ Randomize(t)
    \/ \E x \in Pick : PlayTrack(x)
    \/ SetModeQueue \/ Prev \/ Stop

Next == Command \/ \E t \in Task : TaskStep(t)

Spec == Init /\ [][Next]_vars

-----------------------------------------------------------------------------
(* Types: what the variables hold, and only a task that gathers under        *)
(* _fetch_lock holds it.                                                     *)
TypeOK ==
    /\ radioOn \in BOOLEAN /\ cmds \in 0 .. MaxCmds
    /\ queue \in Seq(Song) /\ standby \in Seq(Song) /\ history \in Seq(Song)
    /\ current \in Song \cup {None} /\ fetchLock \in Task \cup {None}
    /\ task \in [Task -> [pc : Pcs, own : BOOLEAN, seen : SUBSET Song,
                          song : Song \cup {None}, then : Then]]
    /\ \A t \in Task : At(t, "fill") \/ At(t, "gather") <=> fetchLock = t

(* Whatever starts, backfills, shuffles and cancellations run into each      *)
(* other, the radio queue names no song twice, no title twice, and no more   *)
(* than MaxPerArtist songs of one artist.                                    *)
QueueIsVaried ==
    \A i, j \in DOMAIN queue : i # j =>
        /\ TitleOf[queue[i]] = TitleOf[queue[j]] =>
              TitleOf[queue[i]] = NoTitle /\ queue[i] # queue[j]
        /\ CountBy(ArtistOf[queue[i]], queue) <= MaxPerArtist

(* In a batch two songs of one artist only follow each other where no other  *)
(* artist has a song left: the promise of interleave_by_artist that holds.   *)
AdjacentOnlyAtTheEnd ==
    \A i \in 2 .. Len(standby) :
        ArtistOf[standby[i]] = ArtistOf[standby[i - 1]] =>
            \A j \in i .. Len(standby) : ArtistOf[standby[j]] = ArtistOf[standby[i]]

=============================================================================
