----------------------------- MODULE TrackProofs -----------------------------
(***************************************************************************)
(* Proofs about Track for any tracks, slots, loudness and peaks: the gain  *)
(* that is heard is the one of the track that plays, a fade or a timer can *)
(* always be cancelled, and a late text never shows under another track.   *)
(***************************************************************************)
EXTENDS Track, TLAPS

Rows == {"none", "lufs", "full"}
Gains == [db : Int, of : Track \cup {None}, from : Rows]
TaskKinds == {"none", "in", "out", "timer"}
PlayPcs == {"none", "resolve", "row", "settle", "resume", "ends"}

(* What is known of the player and of mpv.                                  *)
PlayerTypes ==
    /\ focus \in Focuses /\ cur \in Track \cup {None}
    /\ status \in {"IDLE", "LOADING", "PLAYING", "PAUSED", "ERROR"}
    /\ play \in [pc : PlayPcs, track : Track \cup {None}, paused : BOOLEAN, gain : Gains]
    /\ play.pc # "none" => play.track \in Track
SoundTypes ==
    /\ setting \in [volume : 0 .. MaxVolume, output : {"DEVICE", "BROWSER"}, crossfade : BOOLEAN,
                    normal : BOOLEAN, sponsorblock : BOOLEAN]
    /\ gain \in Gains /\ rows \in [Track -> Rows]
    /\ mpv \in [volume : Int, af : Int, pause : BOOLEAN]

(* While play_track runs, the current track is its own or none, and it is   *)
(* neither playing nor paused before the end.                               *)
Loading == {"resolve", "row", "settle", "resume"}
OneTrack ==
    /\ play.pc # "none" => cur \in {play.track, None}
    /\ play.pc \in Loading => status \notin {"PLAYING", "PAUSED"}

(* A gain is what compute_gain_db says of the row it was made from.         *)
Computed(g) == g.of # None => g.db = ComputeGain(g.from, g.of)
Heard == gain.of = cur /\ mpv.af = AfFilter(gain.db)
Near == play.pc = "resume" \/ (status \in {"PLAYING", "PAUSED"} /\ restore.pc \in {"none", "resume"})
GainIsRight ==
    /\ Computed(gain)
    /\ play.pc = "settle" => (play.gain.of = play.track /\ Computed(play.gain))
    /\ (cur # None /\ ~crossed /\ Near) => Heard

(* A restore is of the current track or of none, unless it was crossed.     *)
RestoreTypes ==
    /\ restore \in [pc : {"none", "resolve", "row", "settle", "resume"}, track : Track \cup {None}, gain : Gains]
    /\ crossed \in BOOLEAN
    /\ restore.pc # "none" => restore.track \in Track
RestoreIsRight ==
    /\ RestoreTypes
    /\ (restore.pc # "none" /\ ~crossed) => cur \in {restore.track, None}
    /\ restore.pc = "settle" => (restore.gain.of = restore.track /\ Computed(restore.gain))

(* A handle names the only task of its kind, and a fade-out that runs was   *)
(* triggered by the track that is still current.                            *)
FadeTypes ==
    /\ tasks \in [Slot -> [kind : TaskKinds, step : Int, from : Int, of : Track \cup {None}]]
    /\ handle \in [{"in", "out", "timer"} -> Slot \cup {None}]
    /\ triggered \in BOOLEAN
Held(s) ==
    LET k == tasks[s].kind IN
    /\ k # "none" => handle[k] = s
    /\ k = "out" => (cur \in {tasks[s].of, None} /\ triggered)
Fades == FadeTypes /\ \A s \in Slot : Held(s)

(* One fetch of each generation, none newer than the last; while a track is *)
(* on its way to be heard, or is heard, the last one is of that track.      *)
TextTypes ==
    /\ DOMAIN lyrics = {"of", "times", "index", "offset", "loading", "gen"}
    /\ lyrics.of \in Track \cup {None} /\ lyrics.loading \in BOOLEAN /\ lyrics.gen \in Nat
    /\ fetches \subseteq [gen : Nat, of : Track, pc : {"get", "search", "others", "finally"}]
Generations ==
    /\ \A f \in fetches : f.gen <= lyrics.gen
    /\ \A f, g \in fetches : f.gen = g.gen => f = g
    /\ lyrics.loading <=> \E f \in fetches : CurrentFetch(f)
    /\ focus # "text" => (fetches = {} /\ lyrics.of = None)
Ready == {"row", "settle", "resume"}
Follows ==
    /\ lyrics.of \in {cur, None}
    /\ \A f \in fetches : CurrentFetch(f) => f.of = cur
TextIsRight ==
    /\ TextTypes /\ Generations
    /\ (~crossed /\ cur # None /\ (play.pc \in Ready \/ status \in {"PLAYING", "PAUSED"})) => Follows

Sounds == PlayerTypes /\ SoundTypes /\ OneTrack /\ GainIsRight
Inv == Sounds /\ Fades /\ TextIsRight /\ RestoreIsRight

-----------------------------------------------------------------------------
(* Fades and timers                                                          *)

(* Nothing about the tasks changes; the track may stop, or a fade begin.     *)
LEMMA FadesFrame ==
    ASSUME Fades, UNCHANGED <<tasks, handle>>, cur' \in {cur, None},
           triggered' \in BOOLEAN, triggered => triggered'
    PROVE  Fades'
BY DEF Fades, FadeTypes, Held

(* A task goes on or ends: its kind and its track stay, or it is idle.       *)
LEMMA TaskGoesOn ==
    ASSUME TrackAssumption, Fades, NEW s \in Slot, NEW e, tasks' = [tasks EXCEPT ![s] = e],
           e \in [kind : TaskKinds, step : Int, from : Int, of : Track \cup {None}],
           e.kind = "none" \/ (e.kind = tasks[s].kind /\ e.of = tasks[s].of),
           UNCHANGED <<handle, triggered>>, cur' \in {cur, None}
    PROVE  Fades'
<1>1. FadeTypes'
  BY DEF Fades, FadeTypes
<1>2. ASSUME NEW r \in Slot PROVE Held(r)'
  <2>1. CASE r = s
    BY <2>1 DEF Fades, FadeTypes, Held
  <2>2. CASE r # s
    BY <2>2 DEF Fades, FadeTypes, Held
  <2> QED BY <2>1, <2>2
<1> QED BY <1>1, <1>2 DEF Fades

LEMMA IdleType ==
    Idle \in [kind : TaskKinds, step : Int, from : Int, of : Track \cup {None}] /\ Idle.kind = "none"
<1>1. "none" \in TaskKinds /\ 0 \in Int /\ None \in Track \cup {None}
  BY DEF TaskKinds
<1> QED BY <1>1 DEF Idle

(* Cancelling some kinds leaves the tasks of the others, and since a task is *)
(* named by the handle of its kind, none of those kinds.                     *)
LEMMA CancelLeaves ==
    ASSUME TrackAssumption, Fades, NEW ks \in SUBSET {"in", "out", "timer"}
    PROVE  /\ Cancelled(ks) \in [Slot -> [kind : TaskKinds, step : Int, from : Int, of : Track \cup {None}]]
           /\ \A s \in Slot : Cancelled(ks)[s] = Idle
                              \/ (Cancelled(ks)[s] = tasks[s] /\ tasks[s].kind \notin ks)
<1>1. ASSUME NEW s \in Slot
      PROVE  /\ Cancelled(ks)[s] = Idle \/ (Cancelled(ks)[s] = tasks[s] /\ tasks[s].kind \notin ks)
             /\ Cancelled(ks)[s] \in [kind : TaskKinds, step : Int, from : Int, of : Track \cup {None}]
  <2>1. Held(s) /\ s # None /\ tasks[s] \in [kind : TaskKinds, step : Int, from : Int, of : Track \cup {None}]
    BY DEF Fades, FadeTypes, TrackAssumption
  <2>2. CASE \E k \in ks : Live(k) /\ handle[k] = s
    BY <2>2, IdleType DEF Cancelled
  <2>3. CASE ~ \E k \in ks : Live(k) /\ handle[k] = s
    <3>1. Cancelled(ks)[s] = tasks[s]
      BY <2>3 DEF Cancelled
    <3>2. tasks[s].kind \notin ks
      BY <2>1, <2>3 DEF Held, Live
    <3> QED BY <2>1, <3>1, <3>2
  <2> QED BY <2>2, <2>3
<1>2. Cancelled(ks) = [s \in Slot |-> Cancelled(ks)[s]]
  BY DEF Cancelled
<1> HIDE DEF Cancelled
<1> QED BY <1>1, <1>2

LEMMA CancelKeeps ==
    ASSUME TrackAssumption, Fades, NEW ks \in SUBSET {"in", "out", "timer"},
           tasks' = Cancelled(ks), UNCHANGED <<handle, triggered>>, cur' = cur
    PROVE  Fades'
<1>1. FadeTypes'
  BY CancelLeaves DEF Fades, FadeTypes
<1>2. ASSUME NEW s \in Slot PROVE Held(s)'
  <2>1. tasks'[s] = Idle \/ tasks'[s] = tasks[s]
    BY CancelLeaves
  <2>2. Held(s)
    BY DEF Fades
  <2> QED BY <2>1, <2>2, IdleType DEF Held
<1> QED BY <1>1, <1>2 DEF Fades

(* A new task, once none of its kind is left.                                *)
LEMMA StartKeeps ==
    ASSUME TrackAssumption, Fades, SoundTypes, PlayerTypes, NEW k \in {"in", "out", "timer"},
           NEW step \in Int, NEW ts, Starts(k, step, ts), cur' = cur,
           ts \in [Slot -> [kind : TaskKinds, step : Int, from : Int, of : Track \cup {None}]],
           \A s \in Slot : ts[s] = Idle \/ (ts[s] = tasks[s] /\ tasks[s].kind # k),
           triggered' \in BOOLEAN, triggered => triggered', k = "out" => triggered'
    PROVE  Fades'
<1> DEFINE e == [kind |-> k, step |-> step, from |-> setting.volume, of |-> cur]
<1>1. PICK s \in Slot : /\ ts[s] = Idle /\ tasks' = [ts EXCEPT ![s] = e]
                        /\ handle' = [handle EXCEPT ![k] = s]
  BY DEF Starts
<1>2. e \in [kind : TaskKinds, step : Int, from : Int, of : Track \cup {None}]
  <2>1. setting.volume \in Int /\ cur \in Track \cup {None} /\ k \in TaskKinds
    BY DEF SoundTypes, PlayerTypes, TrackAssumption, TaskKinds
  <2> QED BY <2>1
<1>3. e.kind = k /\ e.of = cur
  OBVIOUS
<1> HIDE DEF e
<1>4. FadeTypes'
  <2>1. tasks' \in [Slot -> [kind : TaskKinds, step : Int, from : Int, of : Track \cup {None}]]
    BY <1>1, <1>2
  <2>2. handle' \in [{"in", "out", "timer"} -> Slot \cup {None}]
    BY <1>1 DEF Fades, FadeTypes
  <2> QED BY <2>1, <2>2 DEF FadeTypes
<1>5. ASSUME NEW r \in Slot PROVE Held(r)'
  <2>1. CASE r = s
    <3>1. tasks'[r] = e /\ handle'[k] = s
      BY <1>1, <2>1 DEF Fades, FadeTypes
    <3> QED BY <1>3, <2>1, <3>1 DEF Held
  <2>2. CASE r # s
    <3>1. tasks'[r] = ts[r] /\ (tasks'[r] = Idle \/ (tasks'[r] = tasks[r] /\ tasks[r].kind # k))
      BY <1>1, <2>2
    <3>2. Held(r) /\ tasks[r].kind \in TaskKinds
      BY DEF Fades, FadeTypes
    <3>3. CASE tasks'[r] = Idle
      BY <3>3, IdleType DEF Held
    <3>4. CASE tasks'[r] = tasks[r] /\ tasks[r].kind # k
      <4>1. CASE tasks[r].kind = "none"
        BY <4>1, <3>4 DEF Held
      <4>2. CASE tasks[r].kind \in {"in", "out", "timer"}
        <5>1. handle'[tasks[r].kind] = handle[tasks[r].kind]
          BY <1>1, <3>4, <4>2 DEF Fades, FadeTypes
        <5> QED BY <3>2, <3>4, <4>2, <5>1 DEF Held
      <4> QED BY <3>2, <4>1, <4>2 DEF TaskKinds
    <3> QED BY <3>1, <3>3, <3>4
  <2> QED BY <2>1, <2>2
<1> QED BY <1>4, <1>5 DEF Fades

(* A step of a fade is one of a task that goes on or ends.                   *)
LEMMA FadeKeeps ==
    ASSUME TrackAssumption, Fades, Fade
    PROVE  Fades'
<1>1. UNCHANGED <<handle, triggered>> /\ cur' = cur
  BY DEF Fade, player
<1>2. ASSUME NEW s \in Slot, FadeIn(s) \/ FadeOut(s) PROVE Fades'
  <2> DEFINE up == [tasks[s] EXCEPT !.step = @ + 1]
             down == [tasks[s] EXCEPT !.step = @ - 1]
  <2>1. tasks[s] \in [kind : TaskKinds, step : Int, from : Int, of : Track \cup {None}]
    BY DEF Fades, FadeTypes
  <2>2. /\ up \in [kind : TaskKinds, step : Int, from : Int, of : Track \cup {None}]
        /\ down \in [kind : TaskKinds, step : Int, from : Int, of : Track \cup {None}]
        /\ up.kind = tasks[s].kind /\ up.of = tasks[s].of
        /\ down.kind = tasks[s].kind /\ down.of = tasks[s].of
    BY <2>1
  <2>3. \E e \in {Idle, up, down} : tasks' = [tasks EXCEPT ![s] = e]
    BY <1>2, <2>1 DEF FadeIn, FadeOut, Fades, FadeTypes
  <2> HIDE DEF up, down
  <2> QED BY <1>1, <2>2, <2>3, TaskGoesOn, IdleType
<1> QED BY <1>2 DEF Fade

LEMMA TimerKeeps ==
    ASSUME TrackAssumption, Fades, TimerRings
    PROVE  Fades'
<1>1. UNCHANGED <<handle, triggered>> /\ cur' \in {cur, None}
  BY DEF TimerRings, player, Stop
<1>2. PICK s \in Slot : tasks' = [tasks EXCEPT ![s].step = 1] \/ tasks' = [tasks EXCEPT ![s] = Idle]
  BY DEF TimerRings
<1> DEFINE e == [tasks[s] EXCEPT !.step = 1]
<1>3. e \in [kind : TaskKinds, step : Int, from : Int, of : Track \cup {None}]
      /\ e.kind = tasks[s].kind /\ e.of = tasks[s].of
  BY DEF Fades, FadeTypes
<1>4. tasks' = [tasks EXCEPT ![s] = e] \/ tasks' = [tasks EXCEPT ![s] = Idle]
  BY <1>2
<1> HIDE DEF e
<1> QED BY <1>1, <1>3, <1>4, TaskGoesOn, IdleType

(* A new track cancels the fade-out of the last one, and nothing else.       *)
LEMMA BeginKeepsFades ==
    ASSUME TrackAssumption, Fades, NEW t \in Track, NEW paused, Begin(t, paused)
    PROVE  Fades'
<1>1. triggered' = FALSE /\ tasks' = Cancelled({"out"}) /\ handle' = handle
  BY DEF Begin
<1>2. {"out"} \in SUBSET {"in", "out", "timer"}
  OBVIOUS
<1>3. FadeTypes'
  BY <1>1, <1>2, CancelLeaves DEF Fades, FadeTypes
<1>4. ASSUME NEW s \in Slot PROVE Held(s)'
  <2>1. tasks'[s] = Idle \/ (tasks'[s] = tasks[s] /\ tasks[s].kind \notin {"out"})
    BY <1>1, <1>2, CancelLeaves
  <2>2. Held(s)
    BY DEF Fades
  <2> QED BY <1>1, <2>1, <2>2, IdleType DEF Held
<1> QED BY <1>3, <1>4 DEF Fades

LEMMA PlayKeepsFades ==
    ASSUME TrackAssumption, Fades, SoundTypes, PlayerTypes, Play
    PROVE  Fades'
<1>1. ASSUME NEW t \in Track, Begin(t, FALSE) \/ Resume(t) PROVE Fades'
  BY <1>1, BeginKeepsFades DEF Resume
<1>2. CASE Fails \/ Resolved \/ RowRead \/ Final \/ PlayEnds
  BY <1>2, FadesFrame DEF Fails, Resolved, RowRead, Final, PlayEnds, timers, player, Fades, FadeTypes
<1>3. CASE Settle
  <2>1. UNCHANGED <<cur, triggered>>
    BY <1>3 DEF Settle
  <2>2. (UNCHANGED <<tasks, handle>>) \/ Starts("in", 0, Cancelled({"in"}))
    BY <1>3 DEF Settle
  <2>3. {"in"} \in SUBSET {"in", "out", "timer"} /\ 0 \in Int /\ triggered \in BOOLEAN
    BY DEF Fades, FadeTypes
  <2>4. CASE UNCHANGED <<tasks, handle>>
    BY <2>1, <2>3, <2>4, FadesFrame
  <2>5. CASE Starts("in", 0, Cancelled({"in"}))
    <3>1. \A s \in Slot : Cancelled({"in"})[s] = Idle
                          \/ (Cancelled({"in"})[s] = tasks[s] /\ tasks[s].kind # "in")
      BY <2>3, CancelLeaves
    <3>2. Cancelled({"in"}) \in [Slot -> [kind : TaskKinds, step : Int, from : Int, of : Track \cup {None}]]
      BY <2>3, CancelLeaves
    <3>3. "in" \in {"in", "out", "timer"} /\ triggered' \in BOOLEAN /\ (triggered => triggered')
          /\ cur' = cur /\ ("in" = "out" => triggered')
      BY <2>1, <2>3
    <3> QED BY <2>3, <2>5, <3>1, <3>2, <3>3, StartKeeps
  <2> QED BY <2>2, <2>4, <2>5
<1> QED BY <1>1, <1>2, <1>3 DEF Play

LEMMA SetTimerKeeps ==
    ASSUME TrackAssumption, Fades, SoundTypes, PlayerTypes, NEW minutes \in {0, 1}, SetTimer(minutes)
    PROVE  Fades'
<1>1. UNCHANGED <<cur, triggered>> /\ triggered \in BOOLEAN
  BY DEF SetTimer, player, Fades, FadeTypes
<1>2. {"timer"} \in SUBSET {"in", "out", "timer"} /\ 0 \in Int
  OBVIOUS
<1>3. \A s \in Slot : Cancelled({"timer"})[s] = Idle
                      \/ (Cancelled({"timer"})[s] = tasks[s] /\ tasks[s].kind # "timer")
  BY <1>2, CancelLeaves
<1>4. CASE minutes = 0
  <2>1. tasks' = Cancelled({"timer"}) /\ handle' = [handle EXCEPT !["timer"] = None]
    BY <1>4 DEF SetTimer
  <2>2. FadeTypes'
    BY <1>1, <1>2, <2>1, CancelLeaves DEF Fades, FadeTypes
  <2>3. ASSUME NEW s \in Slot PROVE Held(s)'
    <3>1. CASE tasks'[s] = Idle
      BY <3>1, IdleType DEF Held
    <3>2. CASE tasks'[s] = tasks[s] /\ tasks[s].kind # "timer"
      <4>1. tasks[s].kind # "none" => handle'[tasks[s].kind] = handle[tasks[s].kind]
        BY <2>1, <3>2 DEF Fades, FadeTypes, TaskKinds
      <4> QED BY <1>1, <3>2, <4>1 DEF Held, Fades
    <3> QED BY <1>3, <2>1, <3>1, <3>2
  <2> QED BY <2>2, <2>3 DEF Fades
<1>5. CASE minutes # 0
  <2>1. Starts("timer", 0, Cancelled({"timer"}))
    BY <1>5 DEF SetTimer
  <2>2. Cancelled({"timer"}) \in [Slot -> [kind : TaskKinds, step : Int, from : Int, of : Track \cup {None}]]
    BY <1>2, CancelLeaves
  <2>3. "timer" \in {"in", "out", "timer"} /\ triggered' \in BOOLEAN /\ (triggered => triggered')
        /\ cur' = cur /\ ("timer" = "out" => triggered')
    BY <1>1
  <2> QED BY <1>2, <1>3, <2>1, <2>2, <2>3, StartKeeps
<1> QED BY <1>4, <1>5

LEMMA CommandKeepsFades ==
    ASSUME TrackAssumption, Fades, SoundTypes, PlayerTypes, Command
    PROVE  Fades'
<1> USE FadesFrame
<1>0. triggered \in BOOLEAN
  BY DEF Fades, FadeTypes
<1>1. ASSUME NEW v, SetVolume(v) PROVE Fades'
  BY <1>0, <1>1 DEF SetVolume, player
<1>2. ASSUME NEW o, SetOutput(o) PROVE Fades'
  BY <1>0, <1>2 DEF SetOutput, player, timers
<1>3. ASSUME NEW b, SetCrossfade(b) \/ SetNormal(b) \/ SetSponsorblock(b) PROVE Fades'
  BY <1>0, <1>3 DEF SetCrossfade, SetNormal, SetSponsorblock, player, timers
<1>4. ASSUME NEW o, LyricsOffset(o) \/ Seek(o) PROVE Fades'
  BY <1>0, <1>4 DEF LyricsOffset, Seek, player, timers
<1>5. CASE TogglePause \/ (Stop /\ UNCHANGED timers)
  BY <1>0, <1>5 DEF TogglePause, Stop, timers
<1>6. ASSUME NEW minutes \in {0, 1}, SetTimer(minutes) PROVE Fades'
  BY <1>6, SetTimerKeeps
<1> QED BY <1>1, <1>2, <1>3, <1>4, <1>5, <1>6 DEF Command

LEMMA ReportKeepsFades ==
    ASSUME TrackAssumption, Fades, SoundTypes, PlayerTypes, NEW p, Report(p)
    PROVE  Fades'
<1>1. cur' = cur /\ triggered \in BOOLEAN
  BY DEF Report, player, Fades, FadeTypes
<1>2. CASE ~NearEnd(p)
  BY <1>1, <1>2, FadesFrame DEF Report
<1>3. CASE NearEnd(p)
  <2>1. triggered' = TRUE /\ Starts("out", FadeSteps, tasks) /\ ~triggered
    BY <1>3 DEF Report, NearEnd
  <2>2. \A s \in Slot : tasks[s] = tasks[s] /\ tasks[s].kind # "out"
    BY <2>1 DEF Fades, Held
  <2>3. FadeSteps \in Int /\ tasks \in [Slot -> [kind : TaskKinds, step : Int, from : Int, of : Track \cup {None}]]
    BY DEF TrackAssumption, Fades, FadeTypes
  <2> QED BY <1>1, <2>1, <2>2, <2>3, StartKeeps
<1> QED BY <1>2, <1>3

LEMMA FadesStep ==
    ASSUME TrackAssumption, Fades, SoundTypes, PlayerTypes, [Next]_vars
    PROVE  Fades'
<1>0. triggered \in BOOLEAN
  BY DEF Fades, FadeTypes
<1>1. CASE Play
  BY <1>1, PlayKeepsFades
<1>2. CASE Command
  BY <1>2, CommandKeepsFades
<1>3. CASE HandleToken
  BY <1>0, <1>3, FadesFrame DEF HandleToken, TogglePause, player, timers
<1>4. CASE Fade
  BY <1>4, FadeKeeps
<1>5. CASE TimerRings
  BY <1>5, TimerKeeps
<1>6. CASE CancelFades
  <2>1. {"in", "out"} \in SUBSET {"in", "out", "timer"}
    OBVIOUS
  <2> QED BY <1>6, <2>1, CancelKeeps DEF CancelFades, player
<1>7. CASE Fetching \/ SegmentsArrive \/ RenderEnds
  BY <1>0, <1>7, FadesFrame DEF Fetching, SegmentsArrive, RenderEnds, player, timers
<1>8. CASE ReaderStep \/ Press \/ Cleanup \/ JobEnds
  BY <1>0, <1>8, FadesFrame DEF ReaderStep, Press, Cleanup, JobEnds, player, timers
<1>9. CASE Answered \/ Changed
  BY <1>0, <1>9, FadesFrame DEF Answered, Changed, PauseChanged, timers
<1>10. ASSUME NEW p, Report(p) PROVE Fades'
  BY <1>10, ReportKeepsFades
<1>11. CASE Reconnected \/ Restored
  BY <1>0, <1>11, FadesFrame DEF Reconnected, Restored, player, timers
<1>12. CASE UNCHANGED vars
  BY <1>0, <1>12, FadesFrame DEF vars, player, timers
<1> QED BY <1>1, <1>2, <1>3, <1>4, <1>5, <1>6, <1>7, <1>8, <1>9, <1>10, <1>11, <1>12 DEF Next

-----------------------------------------------------------------------------
(* Lyrics                                                                    *)

Heeded == cur # None /\ (play.pc \in Ready \/ status \in {"PLAYING", "PAUSED"})

(* No fetch begins or goes on: the lines on display may go, and a track that *)
(* is heeded already was.                                                    *)
LEMMA TextFrame ==
    ASSUME TextIsRight, UNCHANGED <<focus, fetches>>,
           DOMAIN lyrics' = DOMAIN lyrics, lyrics'.of \in {lyrics.of, None},
           lyrics'.loading = lyrics.loading, lyrics'.gen = lyrics.gen,
           Heeded' => (Heeded /\ cur' = cur /\ (crossed => crossed'))
    PROVE  TextIsRight'
<1>1. TextTypes'
  BY DEF TextIsRight, TextTypes
<1>2. Generations'
  BY DEF TextIsRight, Generations, CurrentFetch
<1>3. ASSUME ~crossed', Heeded' PROVE Follows'
  <2>1. Follows /\ cur' = cur /\ lyrics'.gen = lyrics.gen
    BY <1>3 DEF TextIsRight, Heeded
  <2> QED BY <2>1 DEF Follows, CurrentFetch
<1> QED BY <1>1, <1>2, <1>3 DEF TextIsRight, Heeded

(* Nothing of the text changes.                                              *)
LEMMA TextSame ==
    ASSUME TextIsRight, UNCHANGED <<focus, lyrics, fetches, crossed>>,
           Heeded' => (Heeded /\ cur' = cur)
    PROVE  TextIsRight'
BY TextFrame DEF TextIsRight, TextTypes

(* A new fetch is the latest, and every other is an earlier one.             *)
LEMMA FetchKeeps ==
    ASSUME TextIsRight, focus = "text", focus' = focus, NEW t \in Track, Fetch(t),
           (~crossed' /\ Heeded') => cur' = t
    PROVE  TextIsRight'
<1> DEFINE g == lyrics.gen + 1
           new == [gen |-> g, of |-> t, pc |-> "get"]
<1>1. /\ lyrics.gen \in Nat /\ fetches' = fetches \cup {new} /\ g \in Nat
      /\ new \in [gen : Nat, of : Track, pc : {"get", "search", "others", "finally"}]
      /\ new.gen = g /\ new.of = t
  BY DEF TextIsRight, TextTypes, Fetch
<1>2. /\ DOMAIN lyrics' = {"of", "times", "index", "offset", "loading", "gen"}
      /\ lyrics'.of = None /\ lyrics'.loading = TRUE /\ lyrics'.gen = g
  BY DEF Fetch
<1>3. \A f \in fetches : f.gen \in Nat /\ f.gen < g
  BY <1>1 DEF TextIsRight, TextTypes, Generations
<1> HIDE DEF g, new
<1>4. TextTypes'
  BY <1>1, <1>2 DEF TextIsRight, TextTypes
<1>5. Generations'
  <2>1. \A f \in fetches' : f.gen <= lyrics'.gen
    BY <1>1, <1>2, <1>3
  <2>2. \A f, h \in fetches' : f.gen = h.gen => f = h
    <3>1. \A f, h \in fetches : f.gen = h.gen => f = h
      BY DEF TextIsRight, Generations
    <3>2. \A f \in fetches : f.gen # new.gen
      BY <1>1, <1>3
    <3> QED BY <1>1, <3>1, <3>2
  <2> QED BY <1>1, <1>2, <2>1, <2>2 DEF Generations, CurrentFetch
<1>6. \A f \in fetches' : CurrentFetch(f)' => f.of = t
  BY <1>1, <1>2, <1>3 DEF CurrentFetch
<1> QED BY <1>2, <1>4, <1>5, <1>6 DEF TextIsRight, Heeded, Follows

LEMMA FetchingKeeps ==
    ASSUME TextIsRight, Fetching
    PROVE  TextIsRight'
<1>1. UNCHANGED <<focus, cur, status, play, crossed>>
  BY DEF Fetching, player, losses
<1>2. PICK f \in fetches : FetchStep(f) \/ FetchEnds(f)
  BY DEF Fetching
<1>3. /\ f \in [gen : Nat, of : Track, pc : {"get", "search", "others", "finally"}]
      /\ focus = "text"
  BY <1>2 DEF TextIsRight, TextTypes, Generations
<1>4. CASE FetchStep(f)
  <2>1. PICK pc \in {"search", "others", "finally"} : fetches' = (fetches \ {f}) \cup {[f EXCEPT !.pc = pc]}
    BY <1>4 DEF FetchStep
  <2> DEFINE h == [f EXCEPT !.pc = pc]
  <2>2. /\ h \in [gen : Nat, of : Track, pc : {"get", "search", "others", "finally"}]
        /\ h.gen = f.gen /\ h.of = f.of
    BY <1>3
  <2>3. /\ DOMAIN lyrics' = DOMAIN lyrics /\ lyrics'.loading = lyrics.loading /\ lyrics'.gen = lyrics.gen
        /\ lyrics'.of = lyrics.of \/ (CurrentFetch(f) /\ lyrics'.of = f.of)
    BY <1>4 DEF FetchStep, Shown, TextIsRight, TextTypes
  <2>4. fetches' = (fetches \ {f}) \cup {h}
    BY <2>1
  <2> HIDE DEF h
  <2>5. TextTypes'
    BY <1>1, <1>3, <2>2, <2>3, <2>4 DEF TextIsRight, TextTypes
  <2>6. Generations'
    <3>1. \A e \in fetches' : e.gen <= lyrics'.gen
      BY <1>2, <2>2, <2>3, <2>4 DEF TextIsRight, Generations
    <3>2. \A e, d \in fetches' : e.gen = d.gen => e = d
      BY <1>2, <2>2, <2>4 DEF TextIsRight, Generations
    <3>3. (\E e \in fetches : e.gen = lyrics.gen) <=> (\E e \in fetches' : e.gen = lyrics'.gen)
      BY <1>2, <2>2, <2>3, <2>4
    <3> QED BY <1>1, <1>3, <2>3, <3>1, <3>2, <3>3 DEF TextIsRight, Generations, CurrentFetch
  <2>7. Follows => Follows'
    BY <1>1, <1>2, <2>2, <2>3, <2>4 DEF Follows, CurrentFetch
  <2> QED BY <1>1, <2>5, <2>6, <2>7 DEF TextIsRight
<1>5. CASE FetchEnds(f)
  <2>1. fetches' = fetches \ {f}
    BY <1>5 DEF FetchEnds
  <2>2. /\ DOMAIN lyrics' = DOMAIN lyrics /\ lyrics'.gen = lyrics.gen /\ lyrics'.of = lyrics.of
        /\ lyrics'.loading = IF CurrentFetch(f) THEN FALSE ELSE lyrics.loading
    BY <1>5 DEF FetchEnds, TextIsRight, TextTypes
  <2>3. TextTypes'
    BY <1>1, <2>1, <2>2 DEF TextIsRight, TextTypes
  <2>4. Generations'
    <3>1. \A e \in fetches' : e.gen <= lyrics'.gen
      BY <2>1, <2>2 DEF TextIsRight, Generations
    <3>2. \A e, d \in fetches' : e.gen = d.gen => e = d
      BY <2>1 DEF TextIsRight, Generations
    <3>3. lyrics'.loading <=> \E e \in fetches' : e.gen = lyrics'.gen
      BY <1>2, <2>1, <2>2 DEF TextIsRight, Generations, CurrentFetch
    <3> QED BY <1>1, <1>3, <2>2, <3>1, <3>2, <3>3 DEF Generations, CurrentFetch
  <2>5. Follows => Follows'
    BY <1>1, <2>1, <2>2 DEF Follows, CurrentFetch
  <2> QED BY <1>1, <2>3, <2>4, <2>5 DEF TextIsRight
<1> QED BY <1>2, <1>4, <1>5

(* A behaviour that does not look at the lyrics has no fetch.                *)
LEMMA TextSilent ==
    ASSUME TextIsRight, focus # "text", UNCHANGED <<focus, lyrics, fetches, crossed>>
    PROVE  TextIsRight'
BY DEF TextIsRight, TextTypes, Generations, Follows, CurrentFetch

(* What stop does to the text: the lines go, the fetch stays.                *)
LEMMA TextStops ==
    ASSUME TextIsRight, UNCHANGED <<focus, fetches, crossed>>, Stop
    PROVE  TextIsRight'
<1>1. /\ DOMAIN lyrics' = DOMAIN lyrics /\ lyrics'.of = None
      /\ lyrics'.loading = lyrics.loading /\ lyrics'.gen = lyrics.gen
  BY DEF Stop, TextIsRight, TextTypes
<1>2. ~Heeded'
  BY DEF Stop, Heeded
<1> QED BY <1>1, <1>2, TextFrame

LEMMA PlayKeepsText ==
    ASSUME TrackAssumption, TextIsRight, PlayerTypes, OneTrack, Play
    PROVE  TextIsRight'
<1>1. ASSUME NEW t \in Track, NEW paused, Begin(t, paused) PROVE TextIsRight'
  <2>1. UNCHANGED <<focus, fetches>>
    BY <1>1 DEF Begin
  <2>2. /\ DOMAIN lyrics' = DOMAIN lyrics /\ lyrics'.of = None
        /\ lyrics'.loading = lyrics.loading /\ lyrics'.gen = lyrics.gen
    BY <1>1 DEF Begin, TextIsRight, TextTypes
  <2>3. ~Heeded'
    BY <1>1 DEF Begin, Heeded, Ready, NoPlay
  <2> QED BY <2>1, <2>2, <2>3, TextFrame
<1>2. CASE Fails \/ RowRead \/ Settle \/ Final \/ PlayEnds
  <2>1. UNCHANGED <<focus, lyrics, fetches, crossed>>
    BY <1>2 DEF Fails, RowRead, Settle, Final, PlayEnds, text, losses
  <2>2. CASE Fails \/ PlayEnds
    <3>1. cur' = cur /\ (Heeded' => Heeded)
      BY <2>2 DEF Fails, PlayEnds, At, Heeded, Ready, NoPlay, PlayerTypes
    <3> QED BY <2>1, <3>1, TextSame
  <2>3. CASE RowRead \/ Settle \/ Final
    <3>1. cur' = cur /\ play.pc \in Ready
      BY <2>3 DEF RowRead, Settle, Final, At, Ready
    <3> QED BY <2>1, <3>1, TextSame DEF Heeded
  <2> QED BY <1>2, <2>2, <2>3
<1>3. CASE Resolved
  <2>1. UNCHANGED <<focus, cur, crossed>> /\ play.pc # "none"
    BY <1>3 DEF Resolved, losses, At
  <2>2. CASE focus = "text"
    <3>1. Fetch(play.track) /\ play.track \in Track
      BY <1>3, <2>1, <2>2 DEF Resolved, Looks, PlayerTypes
    <3>2. Heeded' => cur' = play.track
      BY <2>1 DEF Heeded, OneTrack
    <3> QED BY <2>1, <2>2, <3>1, <3>2, FetchKeeps
  <2>3. CASE focus # "text"
    <3>1. UNCHANGED <<lyrics, fetches>>
      BY <1>3, <2>3 DEF Resolved, Looks, text
    <3> QED BY <2>1, <2>3, <3>1, TextSilent
  <2> QED BY <2>2, <2>3
<1> QED BY <1>1, <1>2, <1>3 DEF Play, Resume

LEMMA ToggleKeepsText ==
    ASSUME TextIsRight, UNCHANGED <<focus, fetches, crossed>>, TogglePause
    PROVE  TextIsRight'
<1>1. UNCHANGED <<cur, lyrics>> /\ status \in {"PLAYING", "PAUSED"}
  BY DEF TogglePause
<1>2. Heeded' => (Heeded /\ cur' = cur)
  BY <1>1 DEF Heeded
<1> QED BY <1>1, <1>2, TextSame

LEMMA CommandKeepsText ==
    ASSUME TextIsRight, Command
    PROVE  TextIsRight'
<1>0. UNCHANGED <<focus, fetches, crossed>>
  BY DEF Command, losses
<1>1. CASE UNCHANGED <<cur, status, play, lyrics>>
  <2>1. Heeded' => (Heeded /\ cur' = cur)
    BY <1>1 DEF Heeded
  <2> QED BY <1>0, <1>1, <2>1, TextSame
<1>2. ASSUME NEW v, SetVolume(v) \/ SetOutput(v) \/ SetCrossfade(v) \/ SetNormal(v) PROVE TextIsRight'
  BY <1>1, <1>2 DEF SetVolume, SetOutput, SetCrossfade, SetNormal, player
<1>3. ASSUME NEW v, SetSponsorblock(v) \/ Seek(v) \/ SetTimer(v) PROVE TextIsRight'
  BY <1>1, <1>3 DEF SetSponsorblock, Seek, SetTimer, player
<1>4. ASSUME NEW o, LyricsOffset(o) PROVE TextIsRight'
  <2>1. /\ DOMAIN lyrics' = DOMAIN lyrics /\ lyrics'.of = lyrics.of
        /\ lyrics'.loading = lyrics.loading /\ lyrics'.gen = lyrics.gen
    BY <1>4 DEF LyricsOffset, TextIsRight, TextTypes
  <2>2. Heeded' => (Heeded /\ cur' = cur)
    BY <1>4 DEF LyricsOffset, player, Heeded
  <2> QED BY <1>0, <2>1, <2>2, TextFrame
<1>5. CASE TogglePause
  BY <1>0, <1>5, ToggleKeepsText
<1>6. CASE Stop
  BY <1>0, <1>6, TextStops
<1> QED BY <1>2, <1>3, <1>4, <1>5, <1>6 DEF Command

LEMMA ReportKeepsText ==
    ASSUME TextIsRight, NEW p, Report(p)
    PROVE  TextIsRight'
<1>1. UNCHANGED <<focus, fetches, crossed, cur, status, play>>
  BY DEF Report, player, losses
<1>2. /\ DOMAIN lyrics' = DOMAIN lyrics /\ lyrics'.of = lyrics.of
      /\ lyrics'.loading = lyrics.loading /\ lyrics'.gen = lyrics.gen
  BY DEF Report, TextIsRight, TextTypes
<1>3. Heeded' => (Heeded /\ cur' = cur)
  BY <1>1 DEF Heeded
<1> QED BY <1>1, <1>2, <1>3, TextFrame

(* A restore fetches the text of its track, which is the current one unless *)
(* another play crossed it.                                                  *)
LEMMA LossKeepsText ==
    ASSUME TrackAssumption, TextIsRight, RestoreIsRight, Reconnected \/ Restored
    PROVE  TextIsRight'
<1>1. CASE Reconnected
  <2>1. UNCHANGED <<focus, cur, status, play, lyrics, fetches>> /\ (crossed => crossed')
    BY <1>1 DEF Reconnected, player, text
  <2>2. Heeded' => (Heeded /\ cur' = cur /\ (crossed => crossed'))
    BY <2>1 DEF Heeded
  <2>3. lyrics'.of \in {lyrics.of, None}
    BY <2>1
  <2> QED BY <2>1, <2>2, <2>3, TextFrame
<1>2. CASE Restored
  <2>1. UNCHANGED <<focus, cur, play, crossed>>
    BY <1>2 DEF Restored
  <2>2. CASE RestoreResolved
    <3>1. restore.pc = "resolve" /\ status' = status
      BY <2>2 DEF RestoreResolved, Restoring
    <3>2. restore.track \in Track
      BY <3>1 DEF RestoreIsRight, RestoreTypes
    <3>3. CASE focus = "text"
      <4>1. Fetch(restore.track)
        BY <2>2, <3>3 DEF RestoreResolved, Looks
      <4>2. (~crossed' /\ Heeded') => cur' = restore.track
        BY <2>1, <3>1 DEF RestoreIsRight, Heeded
      <4> QED BY <2>1, <3>2, <3>3, <4>1, <4>2, FetchKeeps
    <3>4. CASE focus # "text"
      <4>1. UNCHANGED <<lyrics, fetches>>
        BY <2>2, <3>4 DEF RestoreResolved, Looks, text
      <4> QED BY <2>1, <3>4, <4>1, TextSilent
    <3> QED BY <3>3, <3>4
  <2>3. CASE RestoreRowRead \/ RestoreSettles \/ RestoreEnds \/ RestoreFails
    <3>1. UNCHANGED <<lyrics, fetches>> /\ (status' = status \/ status' = "ERROR")
      BY <2>3 DEF RestoreRowRead, RestoreSettles, RestoreEnds, RestoreFails, text
    <3>2. Heeded' => (Heeded /\ cur' = cur)
      BY <2>1, <3>1 DEF Heeded
    <3> QED BY <2>1, <3>1, <3>2, TextSame
  <2> QED BY <1>2, <2>2, <2>3 DEF Restored
<1> QED BY <1>1, <1>2

LEMMA TextStep ==
    ASSUME TrackAssumption, TextIsRight, RestoreIsRight, PlayerTypes, OneTrack, [Next]_vars
    PROVE  TextIsRight'
<1>1. CASE UNCHANGED <<focus, lyrics, fetches, crossed, cur, status, play>>
  <2>1. Heeded' => (Heeded /\ cur' = cur)
    BY <1>1 DEF Heeded
  <2> QED BY <1>1, <2>1, TextSame
<1>2. CASE Play
  BY <1>2, PlayKeepsText
<1>3. CASE Command
  BY <1>3, CommandKeepsText
<1>4. CASE HandleToken
  <2>1. UNCHANGED <<focus, fetches, crossed>>
    BY <1>4 DEF HandleToken, losses
  <2>2. TogglePause \/ UNCHANGED <<player, lyrics>>
    BY <1>4 DEF HandleToken
  <2> QED BY <1>1, <2>1, <2>2, ToggleKeepsText DEF player
<1>5. CASE TimerRings
  <2>1. UNCHANGED <<focus, fetches, crossed>>
    BY <1>5 DEF TimerRings, losses
  <2>2. Stop \/ UNCHANGED <<player, lyrics>>
    BY <1>5 DEF TimerRings
  <2> QED BY <1>1, <2>1, <2>2, TextStops DEF player
<1>6. CASE Fetching
  BY <1>6, FetchingKeeps
<1>7. CASE Answered \/ Changed
  <2>1. UNCHANGED <<focus, lyrics, fetches, crossed, cur, play>>
    BY <1>7 DEF Answered, Changed, PauseChanged, text, losses
  <2>2. status' = status \/ status \in {"PLAYING", "PAUSED"}
    BY <1>7 DEF Answered, Changed, PauseChanged
  <2>3. Heeded' => (Heeded /\ cur' = cur)
    BY <2>1, <2>2 DEF Heeded
  <2> QED BY <2>1, <2>3, TextSame
<1>8. ASSUME NEW p, Report(p) PROVE TextIsRight'
  BY <1>8, ReportKeepsText
<1>9. CASE Reconnected \/ Restored
  BY <1>9, LossKeepsText
<1>10. CASE Fade \/ CancelFades \/ SegmentsArrive \/ RenderEnds
  BY <1>1, <1>10 DEF Fade, CancelFades, SegmentsArrive, RenderEnds, player, text, losses
<1>11. CASE ReaderStep \/ Press \/ Cleanup \/ JobEnds
  BY <1>1, <1>11 DEF ReaderStep, Press, Cleanup, JobEnds, player, text, losses
<1>12. CASE UNCHANGED vars
  BY <1>1, <1>12 DEF vars, player, text, losses
<1> QED BY <1>2, <1>3, <1>4, <1>5, <1>6, <1>7, <1>8, <1>9, <1>10, <1>11, <1>12 DEF Next

-----------------------------------------------------------------------------
(* Gain                                                                      *)

Settings == [volume : 0 .. MaxVolume, output : {"DEVICE", "BROWSER"}, crossfade : BOOLEAN,
             normal : BOOLEAN, sponsorblock : BOOLEAN]
Mpvs == [volume : Int, af : Int, pause : BOOLEAN]
Statuses == {"IDLE", "LOADING", "PLAYING", "PAUSED", "ERROR"}

(* compute_gain_db is a whole number of dB, and zero without a row.          *)
LEMMA GainType ==
    ASSUME TrackAssumption, NEW row \in Rows, NEW t \in Track
    PROVE  ComputeGain(row, t) \in Int
<1>1. Lufs[t] \in Int /\ Peak[t] \in Int
  BY DEF TrackAssumption
<1> QED BY <1>1 DEF ComputeGain, Rows, Larger, Smaller, MaxCut, MaxBoost, Target, Headroom

LEMMA RowGainRight ==
    ASSUME TrackAssumption, rows \in [Track -> Rows], NEW t \in Track
    PROVE  RowGain(t) \in Gains /\ RowGain(t).of = t /\ Computed(RowGain(t))
<1>1. rows[t] \in Rows /\ ComputeGain(rows[t], t) \in Int
  BY GainType
<1>2. RowGain(t) = [db |-> ComputeGain(rows[t], t), of |-> t, from |-> rows[t]]
  BY DEF RowGain
<1> HIDE DEF ComputeGain
<1> QED BY <1>1, <1>2 DEF Gains, Computed

(* No track begins or settles: the chain of filters stays, and nothing is    *)
(* heard that was not.                                                       *)
LEMMA SoundsBase ==
    ASSUME Sounds, UNCHANGED <<focus, play, gain>>, cur' \in {cur, None},
           crossed => crossed', Near' => Near,
           rows' \in [Track -> Rows], setting' \in Settings, setting'.normal = setting.normal,
           mpv' \in Mpvs, mpv'.af = mpv.af, status' \in Statuses,
           status' \in {"PLAYING", "PAUSED"} => status \in {"PLAYING", "PAUSED"}
    PROVE  Sounds'
<1>1. PlayerTypes'
  BY DEF Sounds, PlayerTypes, Statuses
<1>2. SoundTypes'
  BY DEF Sounds, SoundTypes, Settings, Mpvs
<1>3. OneTrack'
  BY DEF Sounds, OneTrack
<1>4. GainIsRight'
  BY DEF Sounds, GainIsRight, Computed, Heard, AfFilter
<1> QED BY <1>1, <1>2, <1>3, <1>4 DEF Sounds

(* Nothing is heard that was not, while no restore takes a step either.      *)
LEMMA SoundsFrame ==
    ASSUME Sounds, UNCHANGED <<focus, play, gain, restore, crossed>>, cur' \in {cur, None},
           rows' \in [Track -> Rows], setting' \in Settings, setting'.normal = setting.normal,
           mpv' \in Mpvs, mpv'.af = mpv.af, status' \in Statuses,
           status' \in {"PLAYING", "PAUSED"} => status \in {"PLAYING", "PAUSED"}
    PROVE  Sounds'
<1>1. Near' => Near
  BY DEF Near
<1> QED BY <1>1, SoundsBase

LEMMA SoundsSame ==
    ASSUME Sounds, UNCHANGED <<focus, cur, status, play, setting, gain, mpv, rows, restore, crossed>>
    PROVE  Sounds'
BY SoundsFrame DEF Sounds, SoundTypes, PlayerTypes, Settings, Mpvs, Statuses

LEMMA PauseType ==
    ASSUME SoundTypes, NEW b \in BOOLEAN, SetPause(b)
    PROVE  mpv' \in Mpvs /\ mpv'.af = mpv.af
BY DEF SoundTypes, SetPause, Mpvs

LEMMA FadeKeepsSounds ==
    ASSUME TrackAssumption, Sounds, FadeTypes, Fade
    PROVE  Sounds'
<1>1. UNCHANGED <<focus, play, gain, cur, status, rows, setting, restore, crossed>>
  BY DEF Fade, player, loudness, losses
<1>2. ASSUME NEW s \in Slot, FadeIn(s) \/ FadeOut(s) PROVE mpv' \in Mpvs /\ mpv'.af = mpv.af
  <2>1. /\ setting.volume \in Int /\ tasks[s].step \in Int /\ tasks[s].from \in Int
        /\ FadeSteps \in Nat \ {0}
    BY DEF Sounds, SoundTypes, FadeTypes, TrackAssumption
  <2> DEFINE up == (setting.volume * tasks[s].step) \div FadeSteps
             down == (tasks[s].from * tasks[s].step) \div FadeSteps
  <2>2. up \in Int /\ down \in Int /\ 0 \in Int
    BY <2>1
  <2>3. \E v \in {setting.volume, up, down, 0} : mpv' = [mpv EXCEPT !.volume = v]
    BY <1>2 DEF FadeIn, FadeOut
  <2> HIDE DEF up, down
  <2> QED BY <2>1, <2>2, <2>3 DEF Sounds, SoundTypes, Mpvs
<1>3. mpv' \in Mpvs /\ mpv'.af = mpv.af
  BY <1>2 DEF Fade
<1> QED BY <1>1, <1>3, SoundsFrame DEF Sounds, SoundTypes, PlayerTypes, Settings, Statuses

LEMMA ToggleKeepsSounds ==
    ASSUME Sounds, UNCHANGED <<focus, rows, restore, crossed>>, TogglePause
    PROVE  Sounds'
<1>1. /\ UNCHANGED <<play, gain, cur, setting>> /\ SetPause(~mpv.pause)
      /\ status \in {"PLAYING", "PAUSED"} /\ status' \in {"PLAYING", "PAUSED"}
  BY DEF TogglePause
<1>2. (~mpv.pause) \in BOOLEAN
  OBVIOUS
<1>3. mpv' \in Mpvs /\ mpv'.af = mpv.af
  BY <1>1, <1>2, PauseType DEF Sounds
<1> QED BY <1>1, <1>3, SoundsFrame DEF Sounds, SoundTypes, Settings, Statuses

LEMMA StopKeepsSounds ==
    ASSUME Sounds, UNCHANGED <<focus, rows, restore, crossed>>, Stop
    PROVE  Sounds'
<1>1. UNCHANGED <<play, gain, setting>> /\ SetPause(TRUE) /\ status' = "IDLE" /\ cur' = None
  BY DEF Stop
<1>2. TRUE \in BOOLEAN
  OBVIOUS
<1>3. mpv' \in Mpvs /\ mpv'.af = mpv.af
  BY <1>1, <1>2, PauseType DEF Sounds
<1> QED BY <1>1, <1>3, SoundsFrame DEF Sounds, SoundTypes, Settings, Statuses

(* Normalization is toggled with the gain of the track, not with another.    *)
LEMMA NormalKeepsSounds ==
    ASSUME Sounds, UNCHANGED <<focus, rows, restore, crossed>>, NEW b \in BOOLEAN, SetNormal(b)
    PROVE  Sounds'
<1>1. /\ UNCHANGED <<focus, cur, status, play, gain>> /\ setting' = [setting EXCEPT !.normal = b]
      /\ mpv' = IF cur = None THEN mpv ELSE [mpv EXCEPT !.af = IF b THEN gain.db ELSE 0]
  BY DEF SetNormal, player
<1>2. setting' \in Settings /\ setting'.normal = b
  BY <1>1 DEF Sounds, SoundTypes, Settings
<1> DEFINE db == IF b THEN gain.db ELSE 0
<1>3. db \in Int
  BY DEF Sounds, SoundTypes, Gains
<1>4. mpv' = IF cur = None THEN mpv ELSE [mpv EXCEPT !.af = db]
  BY <1>1
<1>5. db = AfFilter(gain.db)'
  BY <1>1, <1>2 DEF AfFilter
<1> HIDE DEF db
<1>6. mpv' \in Mpvs /\ (cur # None => mpv'.af = db)
  BY <1>3, <1>4 DEF Sounds, SoundTypes, Mpvs
<1>7. PlayerTypes' /\ OneTrack'
  BY <1>1 DEF Sounds, PlayerTypes, OneTrack
<1>8. SoundTypes'
  BY <1>1, <1>2, <1>6 DEF Sounds, SoundTypes, Settings, Mpvs
<1>9. GainIsRight'
  BY <1>1, <1>5, <1>6 DEF Sounds, GainIsRight, Computed, Heard, Near
<1> QED BY <1>7, <1>8, <1>9 DEF Sounds

LEMMA CommandKeepsSounds ==
    ASSUME TrackAssumption, Sounds, Command
    PROVE  Sounds'
<1>0. UNCHANGED <<focus, rows, restore, crossed>>
  BY DEF Command, loudness, losses
<1>1. ASSUME UNCHANGED <<cur, status, play, gain>>, setting' \in Settings,
             setting'.normal = setting.normal, mpv' \in Mpvs, mpv'.af = mpv.af
      PROVE  Sounds'
  BY <1>0, <1>1, SoundsFrame DEF Sounds, SoundTypes, PlayerTypes, Statuses
<1>2. setting \in Settings /\ mpv \in Mpvs /\ 0 \in Int /\ setting.volume \in Int
  BY DEF Sounds, SoundTypes, Settings, Mpvs, TrackAssumption
<1>3. ASSUME NEW v \in 0 .. MaxVolume, SetVolume(v) PROVE Sounds'
  <2> DEFINE w == IF setting.output = "BROWSER" THEN 0 ELSE v
  <2>1. w \in Int
    BY DEF TrackAssumption
  <2>2. mpv' = [mpv EXCEPT !.volume = w]
    BY <1>3 DEF SetVolume
  <2> HIDE DEF w
  <2>3. mpv' \in Mpvs /\ mpv'.af = mpv.af
    BY <1>2, <2>1, <2>2 DEF Mpvs
  <2>4. setting' \in Settings /\ setting'.normal = setting.normal
    BY <1>2, <1>3 DEF SetVolume, Settings
  <2> QED BY <1>1, <1>3, <2>3, <2>4 DEF SetVolume, player
<1>4. ASSUME NEW o \in {"DEVICE", "BROWSER"}, SetOutput(o) PROVE Sounds'
  <2> DEFINE w == IF o = "BROWSER" THEN 0 ELSE setting.volume
  <2>1. w \in Int
    BY <1>2
  <2>2. mpv' = [mpv EXCEPT !.volume = w]
    BY <1>4 DEF SetOutput
  <2> HIDE DEF w
  <2>3. mpv' \in Mpvs /\ mpv'.af = mpv.af
    BY <1>2, <2>1, <2>2 DEF Mpvs
  <2>4. setting' \in Settings /\ setting'.normal = setting.normal
    BY <1>2, <1>4 DEF SetOutput, Settings
  <2> QED BY <1>1, <1>4, <2>3, <2>4 DEF SetOutput, player
<1>5. ASSUME NEW b \in BOOLEAN, SetCrossfade(b) \/ SetSponsorblock(b) PROVE Sounds'
  <2>1. setting' \in Settings /\ setting'.normal = setting.normal
    BY <1>2, <1>5 DEF SetCrossfade, SetSponsorblock, Settings
  <2> QED BY <1>1, <1>2, <1>5, <2>1 DEF SetCrossfade, SetSponsorblock, player
<1>6. ASSUME NEW b \in BOOLEAN, SetNormal(b) PROVE Sounds'
  BY <1>0, <1>6, NormalKeepsSounds
<1>7. ASSUME NEW o, LyricsOffset(o) \/ Seek(o) \/ SetTimer(o) PROVE Sounds'
  BY <1>1, <1>2, <1>7 DEF LyricsOffset, Seek, SetTimer, player, sound
<1>8. CASE TogglePause
  BY <1>0, <1>8, ToggleKeepsSounds
<1>9. CASE Stop
  BY <1>0, <1>9, StopKeepsSounds
<1>10. ASSUME NEW b \in BOOLEAN, SetCrossfade(b) \/ SetNormal(b) \/ SetSponsorblock(b) PROVE Sounds'
  BY <1>5, <1>6, <1>10
<1> QED BY <1>3, <1>4, <1>7, <1>8, <1>9, <1>10 DEF Command

(* A step of play_track that neither reads the row nor settles: what is then *)
(* heard already was, or was about to be.                                    *)
LEMMA PlayGoesOn ==
    ASSUME Sounds, UNCHANGED <<focus, cur, gain, setting, rows, restore, crossed>>,
           mpv' \in Mpvs, mpv'.af = mpv.af, status' \in Statuses, NEW next \in PlayPcs, play' = [play EXCEPT !.pc = next],
           play.pc # "none", next \notin {"none", "settle", "resume"},
           next \in Loading => status' \notin {"PLAYING", "PAUSED"},
           status' \in {"PLAYING", "PAUSED"} => (status \in {"PLAYING", "PAUSED"} \/ play.pc = "resume")
    PROVE  Sounds'
<1>1. /\ play' \in [pc : PlayPcs, track : Track \cup {None}, paused : BOOLEAN, gain : Gains]
      /\ play'.pc = next /\ play'.track = play.track /\ play.track \in Track
  BY DEF Sounds, PlayerTypes
<1>2. PlayerTypes'
  BY <1>1 DEF Sounds, PlayerTypes, Statuses
<1>3. SoundTypes'
  BY DEF Sounds, SoundTypes, Mpvs
<1>4. OneTrack'
  BY <1>1 DEF Sounds, OneTrack
<1>5. GainIsRight'
  BY <1>1 DEF Sounds, GainIsRight, Computed, Heard, AfFilter, Near
<1> QED BY <1>2, <1>3, <1>4, <1>5 DEF Sounds

LEMMA BeginKeepsSounds ==
    ASSUME TrackAssumption, Sounds, NEW t \in Track, NEW paused \in BOOLEAN, Begin(t, paused)
    PROVE  Sounds'
<1>1. /\ play' = [pc |-> "resolve", track |-> t, paused |-> paused, gain |-> NoGain]
      /\ cur' = t /\ status' = "LOADING" /\ UNCHANGED <<focus, gain, setting, mpv, rows>>
  BY DEF Begin, NoPlay, sound, loudness
<1>2. NoGain \in Gains
  BY DEF NoGain, Gains, Rows
<1>3. PlayerTypes'
  BY <1>1, <1>2 DEF Sounds, PlayerTypes, PlayPcs
<1>4. SoundTypes'
  BY <1>1 DEF Sounds, SoundTypes
<1>5. OneTrack'
  BY <1>1 DEF OneTrack
<1>6. GainIsRight'
  BY <1>1 DEF Sounds, GainIsRight, Computed, Near
<1> QED BY <1>3, <1>4, <1>5, <1>6 DEF Sounds

LEMMA RowReadKeepsSounds ==
    ASSUME TrackAssumption, Sounds, RowRead
    PROVE  Sounds'
<1> DEFINE g == RowGain(play.track)
<1>1. play.pc = "row" /\ UNCHANGED <<focus, cur, status, gain, setting, mpv, rows, restore, crossed>>
  BY DEF RowRead, sound, losses
<1>2. play.track \in Track /\ rows \in [Track -> Rows]
  BY <1>1 DEF Sounds, PlayerTypes, SoundTypes
<1>4. g \in Gains /\ g.of = play.track /\ Computed(g)
  BY <1>2, RowGainRight
<1>5. play' = [play EXCEPT !.pc = "settle", !.gain = g]
  BY DEF RowRead
<1> HIDE DEF g
<1>7. /\ play' \in [pc : PlayPcs, track : Track \cup {None}, paused : BOOLEAN, gain : Gains]
      /\ play'.pc = "settle" /\ play'.track = play.track /\ play'.gain = g
  BY <1>4, <1>5 DEF Sounds, PlayerTypes, PlayPcs
<1>8. PlayerTypes'
  BY <1>1, <1>2, <1>7 DEF Sounds, PlayerTypes
<1>9. SoundTypes'
  BY <1>1 DEF Sounds, SoundTypes
<1>10. OneTrack'
  BY <1>1, <1>7 DEF Sounds, OneTrack, Loading
<1>11. GainIsRight'
  <2>1. Computed(gain)'
    BY <1>1 DEF Sounds, GainIsRight, Computed
  <2>2. Computed(play.gain)' /\ play'.gain.of = play'.track
    BY <1>4, <1>7 DEF Computed
  <2>3. (Near' /\ ~crossed' /\ cur' # None) => Heard'
    BY <1>1, <1>7 DEF Sounds, GainIsRight, Heard, AfFilter, Near
  <2> QED BY <1>7, <2>1, <2>2, <2>3 DEF GainIsRight
<1> QED BY <1>8, <1>9, <1>10, <1>11 DEF Sounds

(* The gain that was made for the track is put where it is heard.            *)
LEMMA SettleKeepsSounds ==
    ASSUME TrackAssumption, Sounds, Settle
    PROVE  Sounds'
<1> DEFINE af == AfFilter(play.gain.db)
           level == IF setting.output = "BROWSER" THEN 0
                    ELSE IF setting.crossfade THEN mpv.volume ELSE setting.volume
<1>1. /\ play.pc = "settle" /\ play' = [play EXCEPT !.pc = "resume"] /\ gain' = play.gain
      /\ UNCHANGED <<focus, cur, status, setting, rows>>
  BY DEF Settle, At, loudness
<1>2. mpv' = [mpv EXCEPT !.af = af, !.volume = level]
  BY DEF Settle
<1>3. /\ play \in [pc : PlayPcs, track : Track \cup {None}, paused : BOOLEAN, gain : Gains]
      /\ play.track \in Track /\ play.gain.of = play.track /\ Computed(play.gain)
      /\ status \notin {"PLAYING", "PAUSED"} /\ cur \in {play.track, None}
  BY <1>1 DEF Sounds, PlayerTypes, GainIsRight, OneTrack, Loading
<1>4. play.gain \in Gains /\ play.gain.db \in Int
  BY <1>3 DEF Gains
<1>5. af \in Int
  BY <1>4 DEF AfFilter
<1>6. level \in Int
  BY DEF Sounds, SoundTypes, TrackAssumption
<1>7. af = AfFilter(gain.db)'
  BY <1>1 DEF AfFilter
<1> HIDE DEF af, level
<1>8. mpv' \in Mpvs /\ mpv'.af = af
  BY <1>2, <1>5, <1>6 DEF Sounds, SoundTypes, Mpvs
<1>9. /\ play' \in [pc : PlayPcs, track : Track \cup {None}, paused : BOOLEAN, gain : Gains]
      /\ play'.pc = "resume" /\ play'.track = play.track
  BY <1>1, <1>3 DEF PlayPcs
<1>10. PlayerTypes'
  BY <1>1, <1>3, <1>9 DEF Sounds, PlayerTypes
<1>11. SoundTypes'
  BY <1>1, <1>4, <1>8 DEF Sounds, SoundTypes, Mpvs
<1>12. OneTrack'
  BY <1>1, <1>3, <1>9 DEF OneTrack
<1>13. GainIsRight'
  BY <1>1, <1>3, <1>7, <1>8, <1>9 DEF GainIsRight, Computed, Heard
<1> QED BY <1>10, <1>11, <1>12, <1>13 DEF Sounds

LEMMA PlayKeepsSounds ==
    ASSUME TrackAssumption, Sounds, Play
    PROVE  Sounds'
<1>0. /\ mpv \in Mpvs /\ status \in Statuses
      /\ play \in [pc : PlayPcs, track : Track \cup {None}, paused : BOOLEAN, gain : Gains]
  BY DEF Sounds, SoundTypes, PlayerTypes, Mpvs, Statuses
<1>1. ASSUME NEW t \in Track, Begin(t, FALSE) \/ Resume(t) PROVE Sounds'
  <2>1. FALSE \in BOOLEAN /\ TRUE \in BOOLEAN
    OBVIOUS
  <2> QED BY <1>1, <2>1, BeginKeepsSounds DEF Resume
<1>2. CASE Fails
  <2>1. /\ UNCHANGED <<focus, cur, gain, setting, rows, mpv, restore, crossed>> /\ status' = "ERROR"
        /\ play.pc = "resolve" /\ play' = [play EXCEPT !.pc = "ends"]
    BY <1>2 DEF Fails, At, sound, loudness, losses
  <2>2. "ends" \in PlayPcs /\ "ends" \notin Loading /\ status' \in Statuses
    BY <2>1 DEF PlayPcs, Loading, Statuses
  <2> QED BY <1>0, <2>1, <2>2, PlayGoesOn
<1>3. CASE Resolved
  <2>1. /\ UNCHANGED <<focus, cur, status, gain, setting, rows, mpv, restore, crossed>>
        /\ play.pc = "resolve" /\ play' = [play EXCEPT !.pc = "row"]
    BY <1>3 DEF Resolved, At, sound, loudness, losses
  <2>2. "row" \in PlayPcs /\ status' \notin {"PLAYING", "PAUSED"} /\ status' \in Statuses
    BY <1>0, <2>1 DEF PlayPcs, Loading, Sounds, OneTrack
  <2> QED BY <1>0, <2>1, <2>2, PlayGoesOn
<1>4. CASE RowRead
  BY <1>4, RowReadKeepsSounds
<1>5. CASE Settle
  BY <1>5, SettleKeepsSounds
<1>6. CASE Final
  <2>1. /\ UNCHANGED <<focus, cur, gain, setting, rows, restore, crossed>> /\ SetPause(play.paused)
        /\ play.pc = "resume" /\ play' = [play EXCEPT !.pc = "ends"]
        /\ status' \in {"PLAYING", "PAUSED"}
    BY <1>6 DEF Final, At, loudness, losses
  <2>2. "ends" \in PlayPcs /\ "ends" \notin Loading /\ status' \in Statuses
    BY <2>1 DEF PlayPcs, Loading, Statuses
  <2>3. mpv' \in Mpvs /\ mpv'.af = mpv.af
    BY <1>0, <2>1, PauseType DEF Sounds
  <2> QED BY <2>1, <2>2, <2>3, PlayGoesOn
<1>7. CASE PlayEnds
  <2>1. /\ UNCHANGED <<focus, cur, status, gain, setting, rows, mpv, restore, crossed>>
        /\ play' = [pc |-> "none", track |-> None, paused |-> FALSE, gain |-> NoGain]
    BY <1>7 DEF PlayEnds, sound, loudness, NoPlay, losses
  <2>2. NoGain \in Gains
    BY DEF NoGain, Gains, Rows
  <2>3. PlayerTypes'
    BY <2>1, <2>2 DEF Sounds, PlayerTypes, PlayPcs
  <2>4. SoundTypes'
    BY <2>1 DEF Sounds, SoundTypes
  <2>5. OneTrack'
    BY <2>1 DEF OneTrack, Loading
  <2>6. GainIsRight'
    BY <2>1 DEF Sounds, GainIsRight, Computed, Heard, AfFilter, Near
  <2> QED BY <2>3, <2>4, <2>5, <2>6 DEF Sounds
<1> QED BY <1>1, <1>2, <1>3, <1>4, <1>5, <1>6, <1>7 DEF Play

LEMMA SettlingKeepsSounds ==
    ASSUME TrackAssumption, Sounds, RestoreIsRight, RestoreSettles, UNCHANGED <<focus, cur, play, crossed>>
    PROVE  Sounds'
<1> DEFINE af == AfFilter(restore.gain.db)
           level == IF setting.output = "BROWSER" THEN 0 ELSE setting.volume
<1>1. /\ restore.pc = "settle" /\ gain' = restore.gain /\ UNCHANGED <<status, setting, rows>>
      /\ mpv' = [mpv EXCEPT !.af = af, !.volume = level]
  BY DEF RestoreSettles, Restoring, loudness
<1>2. /\ restore.gain \in Gains /\ restore.gain.db \in Int /\ Computed(restore.gain)
      /\ restore.gain.of = restore.track /\ (crossed \/ cur \in {restore.track, None})
  BY <1>1 DEF RestoreIsRight, RestoreTypes, Gains
<1>3. af \in Int
  BY <1>2 DEF AfFilter
<1>4. level \in Int
  BY DEF Sounds, SoundTypes, TrackAssumption
<1>5. af = AfFilter(gain.db)'
  BY <1>1 DEF AfFilter
<1> HIDE DEF af, level
<1>6. mpv' \in Mpvs /\ mpv'.af = af
  BY <1>1, <1>3, <1>4 DEF Sounds, SoundTypes, Mpvs
<1>7. PlayerTypes' /\ OneTrack'
  BY <1>1 DEF Sounds, PlayerTypes, OneTrack
<1>8. SoundTypes'
  BY <1>1, <1>2, <1>6 DEF Sounds, SoundTypes, Mpvs
<1>9. GainIsRight'
  BY <1>1, <1>2, <1>5, <1>6 DEF Sounds, GainIsRight, Computed, Heard
<1> QED BY <1>7, <1>8, <1>9 DEF Sounds

(* A loss is remembered where a track is then heard without its gain; what a *)
(* restore settles is of its track, hence of the current one.                *)
LEMMA LossKeepsSounds ==
    ASSUME TrackAssumption, Sounds, RestoreIsRight, Reconnected \/ Restored
    PROVE  Sounds'
<1>0. /\ mpv \in Mpvs /\ setting \in Settings /\ rows \in [Track -> Rows] /\ status \in Statuses
      /\ restore.pc \in {"none", "resolve", "row", "settle", "resume"}
      /\ restore \in [pc : {"none", "resolve", "row", "settle", "resume"}, track : Track \cup {None}, gain : Gains]
  BY DEF Sounds, SoundTypes, PlayerTypes, Mpvs, Settings, Statuses, RestoreIsRight, RestoreTypes
<1>1. CASE Reconnected
  <2>1. UNCHANGED <<focus, cur, status, play, setting, gain, rows>> /\ restore.pc = "none"
    BY <1>1 DEF Reconnected, player, loudness
  <2>2. mpv' \in Mpvs
    <3>1. MaxVolume \in Int /\ 0 \in Int
      BY DEF TrackAssumption
    <3>2. FreshMpv \in Mpvs
      BY <3>1 DEF FreshMpv, Mpvs
    <3>3. mpv' = mpv \/ mpv' = FreshMpv
      BY <1>1 DEF Reconnected
    <3> QED BY <1>0, <3>2, <3>3
  <2>3. PlayerTypes' /\ OneTrack'
    BY <2>1 DEF Sounds, PlayerTypes, OneTrack
  <2>4. SoundTypes'
    BY <2>1, <2>2 DEF Sounds, SoundTypes, Mpvs
  <2>5. ~(cur' # None /\ ~crossed' /\ Near')
    <3>1. CASE status \in {"PLAYING", "PAUSED"} /\ cur # None
      <4>1. restore'.pc = "resolve"
        BY <1>1, <3>1 DEF Reconnected, NoRestore
      <4>2. play.pc # "resume"
        BY <3>1 DEF Sounds, OneTrack, Loading
      <4> QED BY <2>1, <4>1, <4>2 DEF Near
    <3>2. CASE ~(status \in {"PLAYING", "PAUSED"} /\ cur # None)
      <4>1. crossed' = (crossed \/ play.pc \in {"settle", "resume"})
        BY <1>1, <3>2 DEF Reconnected
      <4> QED BY <2>1, <3>2, <4>1 DEF Near
    <3> QED BY <3>1, <3>2
  <2>6. GainIsRight'
    BY <2>1, <2>5 DEF Sounds, GainIsRight, Computed
  <2> QED BY <2>3, <2>4, <2>6 DEF Sounds
<1>2. CASE Restored
  <2>1. UNCHANGED <<focus, cur, play, crossed>>
    BY <1>2 DEF Restored
  <2>2. CASE RestoreResolved \/ RestoreRowRead
    <3>1. UNCHANGED <<status, setting, gain, mpv, rows>>
      BY <2>2 DEF RestoreResolved, RestoreRowRead, sound, loudness
    <3>2. restore'.pc \in {"row", "settle"}
      BY <1>0, <2>2 DEF RestoreResolved, RestoreRowRead, Restoring
    <3>3. Near' => Near
      BY <2>1, <3>2 DEF Near
    <3> QED BY <1>0, <2>1, <3>1, <3>3, SoundsBase
  <2>3. CASE RestoreSettles
    BY <2>1, <2>3, SettlingKeepsSounds
  <2>4. CASE RestoreEnds
    <3>1. UNCHANGED <<status, setting, gain, rows>> /\ restore.pc = "resume"
      BY <2>4 DEF RestoreEnds, loudness
    <3>2. mpv' \in Mpvs /\ mpv'.af = mpv.af
      BY <1>0, <2>4 DEF RestoreEnds, Mpvs
    <3>3. Near' => Near
      BY <2>1, <3>1 DEF Near
    <3> QED BY <1>0, <2>1, <3>1, <3>2, <3>3, SoundsBase
  <2>5. CASE RestoreFails
    <3>1. UNCHANGED <<setting, gain, mpv, rows>> /\ status' = "ERROR"
      BY <2>5 DEF RestoreFails, sound, loudness
    <3>2. Near' => Near
      BY <2>1, <3>1 DEF Near
    <3> QED BY <1>0, <2>1, <3>1, <3>2, SoundsBase DEF Statuses
  <2> QED BY <1>2, <2>2, <2>3, <2>4, <2>5 DEF Restored
<1> QED BY <1>1, <1>2

LEMMA SoundsStep ==
    ASSUME TrackAssumption, Sounds, FadeTypes, RestoreIsRight, [Next]_vars
    PROVE  Sounds'
<1>0. /\ mpv \in Mpvs /\ setting \in Settings /\ rows \in [Track -> Rows] /\ status \in Statuses
  BY DEF Sounds, SoundTypes, PlayerTypes, Mpvs, Settings, Statuses
<1>1. CASE Play
  BY <1>1, PlayKeepsSounds
<1>2. CASE Command
  BY <1>2, CommandKeepsSounds
<1>3. CASE HandleToken
  <2>1. UNCHANGED <<focus, rows, restore, crossed>> /\ (TogglePause \/ UNCHANGED <<player, sound>>)
    BY <1>3 DEF HandleToken, loudness, losses
  <2> QED BY <2>1, ToggleKeepsSounds, SoundsSame DEF player, sound
<1>4. CASE TimerRings
  <2>1. UNCHANGED <<focus, rows, restore, crossed>> /\ (Stop \/ UNCHANGED <<player, sound>>)
    BY <1>4 DEF TimerRings, loudness, losses
  <2> QED BY <2>1, StopKeepsSounds, SoundsSame DEF player, sound
<1>5. CASE Fade
  BY <1>5, FadeKeepsSounds
<1>6. CASE CancelFades \/ Fetching \/ SegmentsArrive \/ RenderEnds
  BY <1>6, SoundsSame DEF CancelFades, Fetching, SegmentsArrive, RenderEnds, player, sound, loudness, losses
<1>7. CASE ReaderStep \/ Press \/ Cleanup
  BY <1>7, SoundsSame DEF ReaderStep, Press, Cleanup, player, sound, loudness, losses
<1>8. CASE JobEnds
  <2>1. UNCHANGED <<focus, cur, status, play, setting, gain, mpv, restore, crossed>>
    BY <1>8 DEF JobEnds, player, sound, losses
  <2>2. rows' \in [Track -> Rows]
    BY <1>0, <1>8 DEF JobEnds, BatteryRead, Measured, Rows
  <2> QED BY <1>0, <2>1, <2>2, SoundsFrame
<1>9. CASE Answered \/ Changed
  <2>1. UNCHANGED <<focus, cur, play, setting, gain, mpv, rows, restore, crossed>>
    BY <1>9 DEF Answered, Changed, PauseChanged, sound, loudness, losses
  <2>2. status' = status \/ (status' \in {"PLAYING", "PAUSED"} /\ status \in {"PLAYING", "PAUSED"})
    BY <1>9 DEF Answered, Changed, PauseChanged
  <2> QED BY <1>0, <2>1, <2>2, SoundsFrame DEF Statuses
<1>10. ASSUME NEW p, Report(p) PROVE Sounds'
  BY <1>10, SoundsSame DEF Report, player, sound, loudness, losses
<1>11. CASE Reconnected \/ Restored
  BY <1>11, LossKeepsSounds
<1>12. CASE UNCHANGED vars
  BY <1>12, SoundsSame DEF vars, player, sound, loudness, losses
<1> QED BY <1>1, <1>2, <1>3, <1>4, <1>5, <1>6, <1>7, <1>8, <1>9, <1>10, <1>11, <1>12 DEF Next

-----------------------------------------------------------------------------
(* Restores                                                                  *)

LEMMA RestoreFrame ==
    ASSUME RestoreIsRight, UNCHANGED <<restore, crossed>>, cur' \in {cur, None}
    PROVE  RestoreIsRight'
BY DEF RestoreIsRight, RestoreTypes, Computed

LEMMA LossKeepsRestore ==
    ASSUME TrackAssumption, Sounds, RestoreIsRight, Reconnected \/ Restored
    PROVE  RestoreIsRight'
<1> DEFINE Pcs == {"none", "resolve", "row", "settle", "resume"}
<1>0. /\ restore \in [pc : Pcs, track : Track \cup {None}, gain : Gains]
      /\ NoRestore \in [pc : Pcs, track : Track \cup {None}, gain : Gains] /\ NoRestore.pc = "none"
  BY DEF RestoreIsRight, RestoreTypes, NoRestore, NoGain, Gains, Rows
<1>1. CASE Reconnected
  <2>1. crossed' \in BOOLEAN /\ cur' = cur /\ cur \in Track \cup {None} /\ restore.pc = "none"
    BY <1>1 DEF Reconnected, player, Sounds, PlayerTypes, RestoreIsRight, RestoreTypes
  <2>2. CASE UNCHANGED restore
    BY <2>1, <2>2 DEF RestoreIsRight, RestoreTypes, Computed
  <2>3. CASE cur # None /\ restore' = [NoRestore EXCEPT !.pc = "resolve", !.track = cur]
    <3>1. /\ restore' \in [pc : Pcs, track : Track \cup {None}, gain : Gains]
          /\ restore'.pc = "resolve" /\ restore'.track = cur /\ cur \in Track
      BY <1>0, <2>1, <2>3
    <3> QED BY <2>1, <3>1 DEF RestoreIsRight, RestoreTypes
  <2> QED BY <1>1, <2>2, <2>3 DEF Reconnected
<1>2. CASE Restored
  <2>1. UNCHANGED <<cur, crossed>> /\ crossed \in BOOLEAN
    BY <1>2 DEF Restored, RestoreIsRight, RestoreTypes
  <2>2. CASE RestoreResolved \/ RestoreSettles
    <3>1. /\ restore.pc # "none"
          /\ restore' = [restore EXCEPT !.pc = "row"] \/ restore' = [restore EXCEPT !.pc = "resume"]
      BY <2>2 DEF RestoreResolved, RestoreSettles, Restoring
    <3>2. /\ restore' \in [pc : Pcs, track : Track \cup {None}, gain : Gains]
          /\ restore'.pc \in {"row", "resume"} /\ restore'.track = restore.track
      BY <1>0, <3>1
    <3> QED BY <2>1, <3>1, <3>2 DEF RestoreIsRight, RestoreTypes
  <2>3. CASE RestoreRowRead
    <3> DEFINE g == RowGain(restore.track)
    <3>1. restore.pc = "row" /\ restore' = [restore EXCEPT !.pc = "settle", !.gain = g]
      BY <2>3 DEF RestoreRowRead
    <3>2. restore.track \in Track /\ rows \in [Track -> Rows]
      BY <3>1 DEF RestoreIsRight, RestoreTypes, Sounds, SoundTypes
    <3>3. g \in Gains /\ g.of = restore.track /\ Computed(g)
      BY <3>2, RowGainRight
    <3> HIDE DEF g
    <3>4. /\ restore' \in [pc : Pcs, track : Track \cup {None}, gain : Gains]
          /\ restore'.pc = "settle" /\ restore'.track = restore.track /\ restore'.gain = g
      BY <1>0, <3>1, <3>3
    <3>5. Computed(restore.gain)'
      BY <3>3, <3>4 DEF Computed
    <3> QED BY <2>1, <3>1, <3>2, <3>3, <3>4, <3>5 DEF RestoreIsRight, RestoreTypes
  <2>4. CASE RestoreEnds \/ RestoreFails
    <3>1. restore' = NoRestore
      BY <2>4 DEF RestoreEnds, RestoreFails
    <3> QED BY <1>0, <2>1, <3>1 DEF RestoreIsRight, RestoreTypes
  <2> QED BY <1>2, <2>2, <2>3, <2>4 DEF Restored
<1> QED BY <1>1, <1>2

LEMMA RestoreStep ==
    ASSUME TrackAssumption, Sounds, RestoreIsRight, [Next]_vars
    PROVE  RestoreIsRight'
<1>1. ASSUME NEW t \in Track, Begin(t, FALSE) \/ Resume(t) PROVE RestoreIsRight'
  <2>1. UNCHANGED restore /\ cur' = t /\ crossed' = (restore.pc # "none" /\ restore.track # t)
    BY <1>1 DEF Begin, Resume
  <2> QED BY <2>1 DEF RestoreIsRight, RestoreTypes, Computed
<1>2. CASE Fails \/ Resolved \/ RowRead \/ Settle \/ Final \/ PlayEnds
  BY <1>2, RestoreFrame DEF Fails, Resolved, RowRead, Settle, Final, PlayEnds, losses
<1>3. CASE Play
  BY <1>1, <1>2, <1>3 DEF Play
<1>4. CASE Command
  <2>1. cur' \in {cur, None}
    BY <1>4 DEF Command, SetVolume, SetOutput, SetCrossfade, SetNormal, SetSponsorblock, LyricsOffset,
                Seek, TogglePause, Stop, SetTimer, player
  <2> QED BY <1>4, <2>1, RestoreFrame DEF Command, losses
<1>5. CASE HandleToken \/ TimerRings
  <2>1. cur' \in {cur, None}
    BY <1>5 DEF HandleToken, TimerRings, TogglePause, Stop, player
  <2> QED BY <1>5, <2>1, RestoreFrame DEF HandleToken, TimerRings, losses
<1>6. CASE Fade \/ CancelFades \/ Fetching \/ SegmentsArrive \/ RenderEnds
  BY <1>6, RestoreFrame DEF Fade, CancelFades, Fetching, SegmentsArrive, RenderEnds, player, losses
<1>7. CASE ReaderStep \/ Press \/ Cleanup \/ JobEnds
  BY <1>7, RestoreFrame DEF ReaderStep, Press, Cleanup, JobEnds, player, losses
<1>8. CASE Answered \/ Changed
  BY <1>8, RestoreFrame DEF Answered, Changed, PauseChanged, losses
<1>9. ASSUME NEW p, Report(p) PROVE RestoreIsRight'
  BY <1>9, RestoreFrame DEF Report, player, losses
<1>10. CASE Reconnected \/ Restored
  BY <1>10, LossKeepsRestore
<1>11. CASE UNCHANGED vars
  BY <1>11, RestoreFrame DEF vars, player, losses
<1> QED BY <1>3, <1>4, <1>5, <1>6, <1>7, <1>8, <1>9, <1>10, <1>11 DEF Next

-----------------------------------------------------------------------------
(* The theorems                                                              *)

LEMMA InvInit ==
    ASSUME TrackAssumption, Init
    PROVE  Inv
<1>1. setting \in Settings /\ mpv = [volume |-> MaxVolume, af |-> 0, pause |-> FALSE]
  <2>1. MaxVolume \in 0 .. MaxVolume
    BY DEF TrackAssumption
  <2> QED BY <2>1 DEF Init, Settings, FreshMpv
<1>2. PlayerTypes
  BY DEF Init, PlayerTypes, NoPlay, NoGain, Gains, Rows, PlayPcs
<1>3. SoundTypes
  <2>1. rows \in [Track -> Rows]
    BY DEF Init, Rows
  <2>2. MaxVolume \in Int /\ NoGain \in Gains
    BY DEF TrackAssumption, NoGain, Gains, Rows
  <2>3. mpv \in Mpvs
    BY <1>1, <2>2 DEF Mpvs
  <2> QED BY <1>1, <2>1, <2>2, <2>3 DEF Init, SoundTypes, Settings, Mpvs
<1>4. OneTrack /\ GainIsRight
  BY DEF Init, OneTrack, GainIsRight, Computed, NoPlay, NoGain, Loading, Near
<1>5. Fades
  <2>1. FadeTypes
    BY IdleType DEF Init, FadeTypes
  <2>2. ASSUME NEW s \in Slot PROVE Held(s)
    BY IdleType DEF Init, Held
  <2> QED BY <2>1, <2>2 DEF Fades
<1>6. TextIsRight
  BY DEF Init, TextIsRight, TextTypes, Generations, CurrentFetch
<1>7. RestoreIsRight
  <2>1. restore = NoRestore /\ crossed = FALSE
    BY DEF Init
  <2>2. NoGain \in Gains
    BY DEF NoGain, Gains, Rows
  <2> QED BY <2>1, <2>2 DEF RestoreIsRight, RestoreTypes, NoRestore
<1> QED BY <1>2, <1>3, <1>4, <1>5, <1>6, <1>7 DEF Inv, Sounds

LEMMA InvNext ==
    ASSUME TrackAssumption, Inv, [Next]_vars
    PROVE  Inv'
<1>1. Sounds'
  BY SoundsStep DEF Inv, Fades
<1>2. Fades'
  BY FadesStep DEF Inv, Sounds
<1>3. TextIsRight'
  BY TextStep DEF Inv, Sounds
<1>4. RestoreIsRight'
  BY RestoreStep DEF Inv
<1> QED BY <1>1, <1>2, <1>3, <1>4 DEF Inv

(* What is right of the gain, the fades and the text stays so, whatever the  *)
(* order in which tasks, commands, reports and losses of mpv come.           *)
THEOREM TrackInvariant == Spec => []Inv
<1>1. Init => Inv
  BY InvInit, TrackAssumption
<1>2. Inv /\ [Next]_vars => Inv'
  BY InvNext, TrackAssumption
<1> QED BY <1>1, <1>2, PTL DEF Spec

(* Whatever is toggled and whenever, mpv applies the gain of the track that  *)
(* plays, and applies it exactly when normalization is on                    *)
(* (mode_ops.toggle_loudness_normalization, _apply_loudness_and_routing).    *)
THEOREM MpvAppliesTheGain == Spec => []GainAgrees
<1>1. Inv => GainAgrees
  BY DEF Inv, Sounds, GainIsRight, Heard, GainAgrees, Sounding, Intact, Near
<1> QED BY <1>1, TrackInvariant, PTL

(* For any loudness and any peaks: a track with a known peak never exceeds   *)
(* the headroom (gain_calculator.compute_gain_db caps the boost last).       *)
THEOREM HeadroomIsKept == Spec => []NeverClips
<1>1. Inv => NeverClips
  <2> SUFFICES ASSUME Inv, Sounding, Intact, setting.normal, gain.from = "full"
               PROVE  mpv.af + Peak[cur] <= Headroom
    BY DEF NeverClips
  <2>1. gain.of = cur /\ mpv.af = gain.db /\ gain.db = ComputeGain("full", cur) /\ cur \in Track
    BY DEF Inv, Sounds, PlayerTypes, GainIsRight, Computed, Heard, AfFilter, Sounding, Intact, Near, TrackAssumption
  <2>2. Lufs[cur] \in Int /\ Peak[cur] \in Int
    BY <2>1, TrackAssumption DEF TrackAssumption
  <2> DEFINE static == Larger(-MaxCut, Smaller(MaxBoost, Target - Lufs[cur]))
  <2>3. static \in Int
    BY <2>2 DEF Larger, Smaller, MaxCut, MaxBoost, Target
  <2>4. mpv.af = Smaller(static, Headroom - Peak[cur])
    BY <2>1 DEF ComputeGain
  <2> HIDE DEF static
  <2> QED BY <2>2, <2>3, <2>4 DEF Smaller, Headroom
<1> QED BY <1>1, TrackInvariant, PTL

(* Every fade and timer that runs can be cancelled by the handle of its      *)
(* kind, and no fade-out goes on into the next track, for any number of      *)
(* tasks that are alive at a time (controller, crossfade, sleep_timer).      *)
THEOREM EveryTaskIsHeld == Spec => []TasksAreHeld
<1>1. Inv => TasksAreHeld
  BY DEF Inv, Fades, Held, TasksAreHeld
<1> QED BY <1>1, TrackInvariant, PTL

(* However many fetches run and in whatever order they end, the lines shown  *)
(* are of the track that plays, and the spinner is the latest fetch's        *)
(* (lyrics_fetcher.fetch, its generation).                                   *)
THEOREM LyricsAreOfTheTrack == Spec => []LyricsFollow
<1>1. Inv => LyricsFollow
  BY DEF Inv, TextIsRight, Generations, Follows, LyricsFollow, Sounding
<1> QED BY <1>1, TrackInvariant, PTL
=============================================================================
