------------------------------- MODULE Track -------------------------------
(***************************************************************************)
(* What accompanies a track that plays: its loudness and the gain mpv is    *)
(* given, volume and crossfades, the sleep timer, the lyrics, the sponsored *)
(* segments and the notification of Termux.                                 *)
(*                                                                          *)
(* Everything but ffmpeg and the thread that reads the notification's FIFO  *)
(* runs on one event loop.  An action is one turn of a task, from one await *)
(* that really waits to the next; a command to mpv is written in the turn   *)
(* that gives it.  Which track plays next, and stop and end events of mpv,  *)
(* are Playback's; the connection to mpv is MpvLink's.                      *)
(***************************************************************************)
EXTENDS Integers, Sequences, FiniteSets, SequencesExt

CONSTANTS
    Track, None,
    Slot,           \* bound: fades and timers alive at a time
    Lufs, Peak,     \* what ffmpeg measures of each track, in dB
    MaxVolume,      \* volume_service.MAX_VOLUME: 100
    FadeSteps,      \* steps of a crossfade: 25
    MaxPosition,    \* bound: positions in a track
    MaxPlays,       \* bound: tracks begun
    MaxEvents,      \* bound: commands of users, reports and losses of mpv
    Focuses         \* bound: which companions a behaviour looks at

ASSUME TrackAssumption ==
    /\ None \notin Track \cup Slot /\ IsFiniteSet(Slot)
    /\ Lufs \in [Track -> Int] /\ Peak \in [Track -> Int]
    /\ {MaxVolume, FadeSteps} \subseteq Nat \ {0} /\ {MaxPosition, MaxPlays, MaxEvents} \subseteq Nat
    /\ Focuses \subseteq {"gain", "fade", "text", "sponsor", "tray"}

VARIABLES
    focus,      \* which companions this behaviour looks at
    cur,        \* AppState.current_track
    status,     \* AppState.status
    loading,    \* PlaybackController._loading
    play,       \* the play_track that holds _play_lock
    setting,    \* volume, audio_output, crossfade_enabled, loudness_normalization_enabled, sponsorblock_active
    gain,       \* AppState.current_track_gain_db, with the row it comes from
    mpv,        \* volume, af and pause of the mpv process
    tasks,      \* the live fades and sleep timers
    handle,     \* _fade_task, _fade_out_task and _timer_task
    triggered,  \* _crossfade_out_triggered
    cancelling, \* a task of _on_volume_changed has not run yet
    rows,       \* the loudness columns of table tracks
    executor,   \* LoudnessService._executor: jobs in the order of submission
    lyrics,     \* LyricsFetcher and the lyrics of AppState
    fetches,    \* running LyricsFetcher.fetch
    segments,   \* SponsorBlockHandler.segments, by the track they are of
    skipped,    \* SponsorBlockHandler._skipped_segments holds the segment
    asking,     \* the tracks of running fetch_segments
    position,   \* AppState.position
    answers,    \* toggle_pause waiting for the position, by the pause they announce
    changes,    \* changes of mpv's pause the observer has not read
    tray,       \* TermuxNowPlaying
    renders,    \* termux-notification processes that have not ended
    restore,    \* the running _on_mpv_reconnected
    crossed,    \* history: the last play_track and a loss of mpv crossed each other
    plays, events   \* counters of the bounds

player == <<cur, status, loading, play>>
sound == <<setting, gain, mpv>>
timers == <<tasks, handle, triggered, cancelling>>
loudness == <<rows, executor>>
text == <<lyrics, fetches>>
sponsor == <<segments, skipped, asking>>
pauses == <<answers, changes>>
notice == <<tray, renders>>
losses == <<restore, crossed>>
vars == <<focus, player, sound, timers, loudness, text, sponsor, position, pauses, notice,
          losses, plays, events>>

(* TermuxNowPlaying after start: the FIFO made, its reader thread running.   *)
NewTray == [track |-> None, paused |-> FALSE, shown |-> None, reader |-> "check",
            stop |-> FALSE, fifo |-> TRUE, pressed |-> 0]
Idle == [kind |-> "none", step |-> 0, from |-> 0, of |-> None]
NoGain == [db |-> 0, of |-> None, from |-> "none"]
NoPlay == [pc |-> "none", track |-> None, paused |-> FALSE, gain |-> NoGain]
NoRestore == [pc |-> "none", track |-> None, gain |-> NoGain]
FreshMpv == [volume |-> MaxVolume, af |-> 0, pause |-> FALSE]
Audible == {"PLAYING", "LOADING"}

Init ==
    /\ focus \in Focuses
    /\ cur = None /\ status = "IDLE" /\ loading = FALSE /\ play = NoPlay
    /\ \E crossfade, normal \in BOOLEAN :
        /\ (crossfade => focus = "fade") /\ (normal => focus = "gain")
        /\ setting = [volume |-> MaxVolume, output |-> "DEVICE", crossfade |-> crossfade,
                      normal |-> normal, sponsorblock |-> TRUE]
    /\ gain = NoGain
    /\ mpv = FreshMpv
    /\ tasks = [s \in Slot |-> Idle] /\ handle = [k \in {"in", "out", "timer"} |-> None]
    /\ triggered = FALSE /\ cancelling = FALSE
    /\ rows \in [Track -> IF focus = "gain" THEN {"none", "lufs", "full"} ELSE {"none"}]
    /\ executor = <<>>
    /\ lyrics = [of |-> None, times |-> <<>>, index |-> 0, offset |-> 0, loading |-> FALSE, gen |-> 0]
    /\ fetches = {}
    /\ segments = None /\ skipped = FALSE /\ asking = {}
    /\ position = 0
    /\ answers = <<>> /\ changes = <<>>
    /\ tray = NewTray /\ renders = {}
    /\ restore = NoRestore /\ crossed = FALSE
    /\ plays = 0 /\ events = 0

Looks(at) == focus \in at
Counts == events < MaxEvents /\ events' = events + 1
Smaller(a, b) == IF a < b THEN a ELSE b
Larger(a, b) == IF a > b THEN a ELSE b

-----------------------------------------------------------------------------
(* Fades and timers as asyncio tasks.  A cancelled one stops at its sleep.   *)

Live(k) == handle[k] # None /\ tasks[handle[k]].kind = k
Cancelled(ks) == [s \in Slot |-> IF \E k \in ks : Live(k) /\ handle[k] = s THEN Idle ELSE tasks[s]]
(* The tasks ts and one more, which its handle names.                        *)
Starts(k, step, ts) ==
    \E s \in Slot :
        /\ ts[s] = Idle
        /\ tasks' = [ts EXCEPT ![s] = [kind |-> k, step |-> step, from |-> setting.volume, of |-> cur]]
        /\ handle' = [handle EXCEPT ![k] = s]

(* A step of apply_crossfade_in: silence first, then up with state.volume.   *)
FadeIn(s) ==
    /\ tasks[s].kind = "in"
    /\ LET i == tasks[s].step IN
        IF i > 0 /\ status \notin Audible
        THEN mpv' = [mpv EXCEPT !.volume = setting.volume] /\ tasks' = [tasks EXCEPT ![s] = Idle]
        ELSE /\ mpv' = [mpv EXCEPT !.volume = (setting.volume * i) \div FadeSteps]
             /\ tasks' = [tasks EXCEPT ![s] = IF i = FadeSteps THEN Idle ELSE [@ EXCEPT !.step = i + 1]]

(* A step of apply_crossfade_out, down from the volume it started with.      *)
FadeOut(s) ==
    /\ tasks[s].kind = "out"
    /\ LET i == tasks[s].step IN
        /\ mpv' = [mpv EXCEPT !.volume =
                     IF status \notin Audible THEN setting.volume
                     ELSE IF i = 1 THEN 0 ELSE (tasks[s].from * i) \div FadeSteps]
        /\ tasks' = [tasks EXCEPT ![s] = IF i = 1 \/ status \notin Audible THEN Idle
                                         ELSE [@ EXCEPT !.step = i - 1]]

Fade ==
    /\ \E s \in Slot : FadeIn(s) \/ FadeOut(s)
    /\ UNCHANGED <<focus, player, setting, gain, handle, triggered, cancelling, loudness, text, sponsor,
                   position, pauses, notice, losses, plays, events>>

-----------------------------------------------------------------------------
(* Lyrics                                                                    *)

(* The start of fetch, in the turn after load_track made its task.           *)
Fetch(t) ==
    /\ lyrics' = [of |-> None, times |-> <<>>, index |-> 0, offset |-> 0, loading |-> TRUE,
                  gen |-> lyrics.gen + 1]
    /\ fetches' = fetches \cup {[gen |-> lyrics.gen + 1, of |-> t, pc |-> "get"]}
AnyFetch(f) == TRUE
CurrentFetch(f) == f.gen = lyrics.gen

(* A text is a sequence of lines, a line the tags it starts with.            *)
Synced == <<<<1>>, <<0, 2>>>>
Plain == <<<<>>, <<>>>>
ParseLrc(lrc) ==
    SortSeq(FlattenSeq([i \in DOMAIN lrc |-> IF lrc[i] = <<>> THEN <<0>> ELSE lrc[i]]), <)
Shown(f, lrc) == [lyrics EXCEPT !.of = f.of, !.times = ParseLrc(lrc)]

(* lrclib's get, its search, then the other services: each finds a text,     *)
(* finds none, or fails.  A text of an earlier track is dropped.             *)
FetchStep(f) ==
    LET Becomes(pc) == fetches' = (fetches \ {f}) \cup {[f EXCEPT !.pc = pc]} IN
    /\ f.pc # "finally"
    /\ \/ \E lrc \in {Synced, Plain} :
            /\ lyrics' = IF CurrentFetch(f) THEN Shown(f, lrc) ELSE lyrics
            /\ Becomes("finally")
       \/ f.pc = "get" /\ Becomes("search") /\ UNCHANGED lyrics
       \/ f.pc = "search" /\ Becomes("others") /\ UNCHANGED lyrics
       \/ Becomes("finally") /\ UNCHANGED lyrics
FetchEnds(f) ==
    /\ f.pc = "finally"
    /\ lyrics' = IF CurrentFetch(f) THEN [lyrics EXCEPT !.loading = FALSE] ELSE lyrics
    /\ fetches' = fetches \ {f}
Fetching ==
    /\ \E f \in fetches : FetchStep(f) \/ FetchEnds(f)
    /\ UNCHANGED <<focus, player, sound, timers, loudness, sponsor, position, pauses, notice,
                   losses, plays, events>>

(* LyricsSync.on_progress: bisect_right on the sorted times.                 *)
IndexAt(p) ==
    IF lyrics.times = <<>> THEN lyrics.index
    ELSE Larger(0, Cardinality({i \in DOMAIN lyrics.times : lyrics.times[i] <= p + lyrics.offset}) - 1)

-----------------------------------------------------------------------------
(* Sponsored segments.  Each track has one, at position Sponsored.           *)

Sponsored == 1
(* init_services makes the handler and starts none but the notification: so  *)
(* nothing subscribes _on_progress.                                          *)
Subscribed == FALSE
AskSegments(t) == segments' = None /\ skipped' = FALSE /\ asking' = asking \cup {t}
SegmentsArrive ==
    /\ \E t \in asking :
        /\ asking' = asking \ {t}
        /\ segments' \in {segments, t}
    /\ UNCHANGED <<focus, player, sound, timers, loudness, text, skipped, position, pauses, notice,
                   losses, plays, events>>
Skips(p) ==
    Subscribed /\ setting.sponsorblock /\ segments # None /\ ~skipped /\ p = Sponsored

-----------------------------------------------------------------------------
(* The notification                                                          *)

Render(n) ==
    renders' = IF n.track = None THEN renders
               ELSE renders \cup {[track |-> n.track, paused |-> n.paused]}
TrayStarted(t) ==
    IF Looks({"tray"})
    THEN tray' = [tray EXCEPT !.track = t, !.paused = FALSE] /\ Render(tray')
    ELSE UNCHANGED notice
TrayPaused(b) ==
    IF Looks({"tray"})
    THEN tray' = [tray EXCEPT !.paused = b] /\ Render(tray')
    ELSE UNCHANGED notice
(* The processes end in any order; the last to end is what is shown.         *)
RenderEnds ==
    /\ \E r \in renders : renders' = renders \ {r} /\ tray' = [tray EXCEPT !.shown = r]
    /\ UNCHANGED <<focus, player, sound, timers, loudness, text, sponsor, position, pauses, losses,
                   plays, events>>

(* _blocking_read_loop: opening the FIFO blocks until a button's script, or  *)
(* cleanup, opens it too.                                                    *)
Reader(from, to) == tray.reader = from /\ tray' = [tray EXCEPT !.reader = to]
ReaderStep ==
    /\ \/ Reader("check", IF tray.stop THEN "ended" ELSE "open")
       \/ Reader("open", IF tray.fifo THEN "blocked" ELSE "retry")
       \/ Reader("retry", "check")
    /\ Looks({"tray"})
    /\ UNCHANGED <<focus, player, sound, timers, loudness, text, sponsor, position, pauses, renders,
                   losses, plays, events>>
Press ==
    /\ Looks({"tray"}) /\ Counts /\ tray.reader = "blocked" /\ tray.fifo /\ tray.pressed = 0
    /\ tray' = [tray EXCEPT !.reader = "check", !.pressed = 1]
    /\ UNCHANGED <<focus, player, sound, timers, loudness, text, sponsor, position, pauses, renders,
                   losses, plays>>
Cleanup ==
    /\ Looks({"tray"})
    /\ \/ /\ ~tray.stop
          /\ tray' = [tray EXCEPT !.stop = TRUE, !.reader = IF @ = "blocked" THEN "check" ELSE @]
       \/ /\ tray.stop /\ tray.fifo
          /\ tray' = [tray EXCEPT !.fifo = FALSE, !.shown = None]
    /\ UNCHANGED <<focus, player, sound, timers, loudness, text, sponsor, position, pauses, renders,
                   losses, plays, events>>

-----------------------------------------------------------------------------
(* Loudness                                                                  *)

Target == -14
MaxBoost == 8
MaxCut == 12
Headroom == -1
ComputeGainStatic(row, t) == IF row = "none" THEN 0 ELSE Larger(-MaxCut, Smaller(MaxBoost, Target - Lufs[t]))
ComputeGain(row, t) ==
    LET static == Larger(-MaxCut, Smaller(MaxBoost, Target - Lufs[t])) IN
    CASE row = "none" -> 0
      [] row = "lufs" -> static
      [] row = "full" -> Smaller(static, Headroom - Peak[t])
AfFilter(db) == IF setting.normal THEN db ELSE 0

(* analyze_and_store: a track whose row is not complete is queued, first to  *)
(* look at the battery, then to be measured.                                 *)
Analyze(t) ==
    executor' = IF setting.normal /\ rows[t] # "full"
                THEN Append(executor, [of |-> t, pc |-> "charging"]) ELSE executor
(* The executor's only thread has looked at the battery: on power, or unable *)
(* to tell, the task goes on and submits ffmpeg's job.                       *)
BatteryRead(job) ==
    /\ job.pc = "charging" /\ UNCHANGED rows
    /\ executor' \in {Tail(executor), Append(Tail(executor), [job EXCEPT !.pc = "measure"])}
(* ffmpeg measured, or timed out, did not start or printed no JSON.          *)
Measured(job) ==
    /\ job.pc = "measure" /\ executor' = Tail(executor)
    /\ rows' \in {rows, [rows EXCEPT ![job.of] = "full"]}
JobEnds ==
    /\ executor # <<>>
    /\ BatteryRead(Head(executor)) \/ Measured(Head(executor))
    /\ UNCHANGED <<focus, player, sound, timers, text, sponsor, position, pauses, notice, losses,
                   plays, events>>

-----------------------------------------------------------------------------
(* play_track, under _play_lock.  Who asks for it is Playback's; at the      *)
(* start of the server _resume_last_track asks for a paused one.             *)

Begin(t, paused) ==
    /\ play.pc = "none" /\ plays < MaxPlays /\ plays' = plays + 1
    /\ cur' = t /\ status' = "LOADING" /\ loading' = TRUE
    /\ play' = [NoPlay EXCEPT !.pc = "resolve", !.track = t, !.paused = paused]
    /\ position' = 0
    /\ lyrics' = [lyrics EXCEPT !.of = None, !.times = <<>>, !.index = 0]
    /\ triggered' = FALSE /\ tasks' = Cancelled({"out"})
    /\ crossed' = (restore.pc # "none" /\ restore.track # t)
    /\ UNCHANGED <<focus, sound, handle, cancelling, loudness, fetches, sponsor, pauses, notice,
                   restore, events>>
Resume(t) == plays = 0 /\ Looks({"tray", "text"}) /\ Begin(t, TRUE)

At(pc, next) == play.pc = pc /\ play' = [play EXCEPT !.pc = next]
Fails ==
    /\ At("resolve", "ends") /\ status' = "ERROR" /\ loading' = FALSE
    /\ UNCHANGED <<focus, cur, sound, timers, loudness, text, sponsor, position, pauses, notice,
                   losses, plays, events>>
(* load_track has the URI: its tasks run while it waits for the row.         *)
Resolved ==
    /\ At("resolve", "row")
    /\ IF Looks({"text"}) THEN Fetch(play.track) ELSE UNCHANGED text
    /\ IF Looks({"sponsor"}) THEN AskSegments(play.track) ELSE UNCHANGED sponsor
    /\ UNCHANGED <<focus, cur, status, loading, sound, timers, loudness, position, pauses, notice,
                   losses, plays, events>>
RowGain(t) == [db |-> ComputeGain(rows[t], t), of |-> t, from |-> rows[t]]
RowRead ==
    /\ play.pc = "row" /\ play' = [play EXCEPT !.pc = "settle", !.gain = RowGain(play.track)]
    /\ Analyze(play.track)
    /\ UNCHANGED <<focus, cur, status, loading, sound, timers, rows, text, sponsor, position, pauses,
                   notice, losses, plays, events>>
(* 0.15 s after loadfile: _apply_loudness_and_routing.                       *)
Settle ==
    /\ At("settle", "resume")
    /\ gain' = play.gain
    /\ LET silent == setting.output = "BROWSER"
           level == IF silent THEN 0 ELSE IF setting.crossfade THEN mpv.volume ELSE setting.volume IN
        /\ mpv' = [mpv EXCEPT !.af = AfFilter(play.gain.db), !.volume = level]
        /\ IF setting.crossfade /\ ~silent THEN Starts("in", 0, Cancelled({"in"}))
           ELSE UNCHANGED <<tasks, handle>>
    /\ UNCHANGED <<focus, cur, status, loading, setting, triggered, cancelling, loudness, text, sponsor,
                   position, pauses, notice, losses, plays, events>>
(* A change of mpv's pause is reported by mpv; setting it anew is not.       *)
SetPause(b) ==
    /\ mpv' = [mpv EXCEPT !.pause = b]
    /\ changes' = IF Looks({"tray", "fade"}) /\ mpv.pause # b THEN Append(changes, b) ELSE changes
Final ==
    /\ At("resume", "ends")
    /\ SetPause(play.paused)
    /\ status' = (IF play.paused THEN "PAUSED" ELSE "PLAYING") /\ loading' = FALSE
    /\ TrayStarted(play.track)
    /\ UNCHANGED <<focus, cur, setting, gain, timers, loudness, text, sponsor, position, answers, losses,
                   plays, events>>
(* The lock is released once every handler of the event has returned.        *)
PlayEnds ==
    /\ play.pc = "ends" /\ play' = NoPlay
    /\ UNCHANGED <<focus, cur, status, loading, sound, timers, loudness, text, sponsor, position, pauses,
                   notice, losses, plays, events>>
Play ==
    \/ \E t \in Track : Begin(t, FALSE) \/ Resume(t)
    \/ Fails \/ Resolved \/ RowRead \/ Settle \/ Final \/ PlayEnds

-----------------------------------------------------------------------------
(* Commands                                                                  *)

SetVolume(v) ==
    /\ Looks({"fade"}) /\ v # setting.volume
    /\ mpv' = [mpv EXCEPT !.volume = IF setting.output = "BROWSER" THEN 0 ELSE v]
    /\ setting' = [setting EXCEPT !.volume = v]
    /\ cancelling' = TRUE
    /\ UNCHANGED <<player, gain, tasks, handle, triggered, position, pauses, lyrics>>
SetOutput(o) ==
    /\ Looks({"fade"}) /\ o # setting.output
    /\ setting' = [setting EXCEPT !.output = o]
    /\ mpv' = [mpv EXCEPT !.volume = IF o = "BROWSER" THEN 0 ELSE setting.volume]
    /\ UNCHANGED <<player, gain, timers, position, pauses, lyrics>>
SetCrossfade(b) ==
    /\ Looks({"fade"}) /\ b # setting.crossfade
    /\ setting' = [setting EXCEPT !.crossfade = b]
    /\ UNCHANGED <<player, gain, mpv, timers, position, pauses, lyrics>>
SetNormalOnly(b) ==
    /\ Looks({"gain"}) /\ b # setting.normal
    /\ setting' = [setting EXCEPT !.normal = b]
    /\ UNCHANGED <<player, gain, mpv, timers, position, pauses, lyrics>>
SetNormal(b) ==
    /\ Looks({"gain"}) /\ b # setting.normal
    /\ setting' = [setting EXCEPT !.normal = b]
    /\ mpv' = IF cur = None THEN mpv ELSE [mpv EXCEPT !.af = IF b THEN gain.db ELSE 0]
    /\ UNCHANGED <<player, gain, timers, position, pauses, lyrics>>
SetSponsorblock(b) ==
    /\ Looks({"sponsor"}) /\ b # setting.sponsorblock
    /\ setting' = [setting EXCEPT !.sponsorblock = b]
    /\ UNCHANGED <<player, gain, mpv, timers, position, pauses, lyrics>>
LyricsOffset(o) ==
    /\ Looks({"text"}) /\ o # lyrics.offset
    /\ lyrics' = [lyrics EXCEPT !.offset = o]
    /\ UNCHANGED <<player, sound, timers, position, pauses>>
Seek(p) ==
    /\ Looks({"sponsor"}) /\ p # position /\ status \in {"PLAYING", "PAUSED"}
    /\ position' = p
    /\ UNCHANGED <<player, sound, timers, pauses, lyrics>>
TogglePause ==
    /\ Looks({"tray", "fade"}) /\ status \in {"PLAYING", "PAUSED"}
    /\ status' = IF status = "PLAYING" THEN "PAUSED" ELSE "PLAYING"
    /\ SetPause(~mpv.pause)
    /\ answers' = Append(answers, status' = "PAUSED")
    /\ UNCHANGED <<cur, loading, play, setting, gain, timers, position, lyrics>>
Stop ==
    /\ SetPause(TRUE)
    /\ cur' = None /\ status' = "IDLE" /\ position' = 0
    /\ lyrics' = [lyrics EXCEPT !.of = None, !.times = <<>>, !.index = 0]
    /\ UNCHANGED <<loading, play, setting, gain, answers>>
SetTimerOnTop(minutes) ==
    /\ Looks({"fade"})
    /\ IF minutes = 0
       THEN tasks' = Cancelled({"timer"}) /\ handle' = [handle EXCEPT !["timer"] = None]
       ELSE Starts("timer", 0, tasks)
    /\ UNCHANGED <<player, sound, triggered, cancelling, position, pauses, lyrics>>
SetTimer(minutes) ==
    /\ Looks({"fade"})
    /\ IF minutes = 0
       THEN tasks' = Cancelled({"timer"}) /\ handle' = [handle EXCEPT !["timer"] = None]
       ELSE Starts("timer", 0, Cancelled({"timer"}))
    /\ UNCHANGED <<player, sound, triggered, cancelling, position, pauses, lyrics>>

Command ==
    /\ Counts
    /\ \/ \E v \in 0..MaxVolume : SetVolume(v)
       \/ \E o \in {"DEVICE", "BROWSER"} : SetOutput(o)
       \/ \E b \in BOOLEAN : SetCrossfade(b) \/ SetNormal(b) \/ SetSponsorblock(b)
       \/ \E o \in {0, 1} : LyricsOffset(o)
       \/ \E p \in 0..MaxPosition : Seek(p)
       \/ TogglePause
       \/ Stop /\ UNCHANGED timers
       \/ \E minutes \in {0, 1} : SetTimer(minutes)
    /\ UNCHANGED <<focus, loudness, fetches, sponsor, notice, losses, plays>>

(* The button of the notification, from the thread to the loop.              *)
HandleToken ==
    /\ tray.pressed = 1 /\ tray' = [tray EXCEPT !.pressed = 0]
    /\ TogglePause \/ (status \notin {"PLAYING", "PAUSED"} /\ UNCHANGED <<player, sound, timers, position, pauses, lyrics>>)
    /\ UNCHANGED <<focus, loudness, fetches, sponsor, renders, losses, plays, events>>

(* _wait_and_stop: the time is up and a log line published; then CMD_STOP.   *)
TimerRings ==
    /\ \E s \in Slot :
        /\ tasks[s].kind = "timer"
        /\ \/ /\ tasks[s].step = 0 /\ tasks' = [tasks EXCEPT ![s].step = 1]
              /\ UNCHANGED <<player, sound, position, pauses, lyrics>>
           \/ tasks[s].step = 1 /\ tasks' = [tasks EXCEPT ![s] = Idle] /\ Stop
    /\ UNCHANGED <<focus, handle, triggered, cancelling, loudness, fetches, sponsor, notice,
                   losses, plays, events>>
(* _on_volume_changed runs in a task of its own.                             *)
CancelFades ==
    /\ cancelling /\ cancelling' = FALSE /\ tasks' = Cancelled({"in", "out"})
    /\ UNCHANGED <<focus, player, sound, handle, triggered, loudness, text, sponsor, position, pauses,
                   notice, losses, plays, events>>

-----------------------------------------------------------------------------
(* What mpv reports                                                          *)

PauseChanged(b) ==
    /\ status' = CASE loading -> status
                   [] ~loading /\ b /\ status = "PLAYING" -> "PAUSED"
                   [] ~loading /\ ~b /\ status = "PAUSED" -> "PLAYING"
                   [] OTHER -> status
    /\ TrayPaused(b)
    /\ UNCHANGED <<focus, cur, loading, play, sound, timers, loudness, text, sponsor, position, losses,
                   plays, events>>
(* _on_cmd_toggle_pause has mpv's position, or has waited for it in vain.    *)
Answered == answers # <<>> /\ answers' = Tail(answers) /\ PauseChanged(Head(answers)) /\ UNCHANGED changes
Changed == changes # <<>> /\ changes' = Tail(changes) /\ PauseChanged(Head(changes)) /\ UNCHANGED answers

(* The last position of a track is within its last five seconds.             *)
NearEnd(p) ==
    /\ setting.crossfade /\ setting.output # "BROWSER" /\ status = "PLAYING"
    /\ p = MaxPosition /\ ~triggered
Report(p) ==
    /\ Looks({"fade", "text", "sponsor"}) /\ Counts /\ plays > 0 /\ ~mpv.pause
    /\ position' = p
    /\ IF NearEnd(p)
       THEN triggered' = TRUE /\ Starts("out", FadeSteps, tasks)
       ELSE UNCHANGED <<triggered, tasks, handle>>
    /\ lyrics' = [lyrics EXCEPT !.index = IndexAt(p)]
    /\ skipped' = (skipped \/ Skips(p))
    /\ UNCHANGED <<focus, player, sound, cancelling, loudness, fetches, segments, asking, pauses,
                   notice, losses, plays>>

(* The connection is lost and said to be back, with a fresh mpv or without   *)
(* one (MpvLink).  The track that plays or is paused is loaded again, beside *)
(* whatever else goes on: _on_mpv_reconnected takes no lock.                 *)
Reconnected ==
    /\ Looks({"gain", "text"}) /\ Counts /\ restore.pc = "none"
    /\ mpv' \in {mpv, FreshMpv}
    /\ IF status \in {"PLAYING", "PAUSED"} /\ cur # None
       THEN restore' = [NoRestore EXCEPT !.pc = "resolve", !.track = cur] /\ UNCHANGED crossed
       ELSE crossed' = (crossed \/ play.pc \in {"settle", "resume"}) /\ UNCHANGED restore
    /\ UNCHANGED <<focus, player, setting, gain, timers, loudness, text, sponsor, position, pauses,
                   notice, plays>>
Restoring(pc, next) == restore.pc = pc /\ restore' = [restore EXCEPT !.pc = next]
RestoreResolved ==
    /\ Restoring("resolve", "row")
    /\ IF Looks({"text"}) THEN Fetch(restore.track) ELSE UNCHANGED text
    /\ UNCHANGED <<status, sound, loudness>>
RestoreRowRead ==
    /\ restore.pc = "row" /\ restore' = [restore EXCEPT !.pc = "settle", !.gain = RowGain(restore.track)]
    /\ Analyze(restore.track)
    /\ UNCHANGED <<status, sound, rows, text>>
RestoreSettles ==
    /\ Restoring("settle", "resume")
    /\ gain' = restore.gain
    /\ mpv' = [mpv EXCEPT !.af = AfFilter(restore.gain.db),
                          !.volume = IF setting.output = "BROWSER" THEN 0 ELSE setting.volume]
    /\ UNCHANGED <<status, setting, loudness, text>>
RestoreEnds ==
    /\ restore.pc = "resume" /\ restore' = NoRestore
    /\ mpv' = [mpv EXCEPT !.pause = (status = "PAUSED")]
    /\ UNCHANGED <<status, setting, gain, loudness, text>>
RestoreFails ==
    /\ restore.pc # "none" /\ restore' = NoRestore /\ status' = "ERROR"
    /\ UNCHANGED <<sound, loudness, text>>
Restored ==
    /\ RestoreResolved \/ RestoreRowRead \/ RestoreSettles \/ RestoreEnds \/ RestoreFails
    /\ UNCHANGED <<focus, cur, loading, play, timers, sponsor, position, pauses, notice, crossed,
                   plays, events>>

Next ==
    \/ Play \/ Command \/ HandleToken \/ Fade \/ TimerRings \/ CancelFades
    \/ Fetching \/ SegmentsArrive \/ RenderEnds \/ ReaderStep \/ Press \/ Cleanup \/ JobEnds
    \/ Answered \/ Changed \/ (\E p \in 0..MaxPosition : Report(p)) \/ Reconnected \/ Restored
Spec == Init /\ [][Next]_vars

-----------------------------------------------------------------------------
TypeOK ==
    /\ focus \in Focuses /\ cur \in Track \cup {None}
    /\ status \in {"IDLE", "LOADING", "PLAYING", "PAUSED", "ERROR"} /\ loading \in BOOLEAN
    /\ play.pc \in {"none", "resolve", "row", "settle", "resume", "ends"}
    /\ play.track \in Track \cup {None} /\ play.paused \in BOOLEAN
    /\ setting \in [volume : 0..MaxVolume, output : {"DEVICE", "BROWSER"}, crossfade : BOOLEAN,
                    normal : BOOLEAN, sponsorblock : BOOLEAN]
    /\ mpv.volume \in 0..MaxVolume /\ mpv.af \in -MaxCut..MaxBoost /\ mpv.pause \in BOOLEAN
    /\ tasks \in [Slot -> [kind : {"none", "in", "out", "timer"}, step : 0..FadeSteps,
                           from : 0..MaxVolume, of : Track \cup {None}]]
    /\ handle \in [{"in", "out", "timer"} -> Slot \cup {None}]
    /\ {triggered, cancelling, skipped, crossed} \subseteq BOOLEAN
    /\ rows \in [Track -> {"none", "lufs", "full"}]
    /\ \A i \in DOMAIN executor : executor[i] \in [of : Track, pc : {"charging", "measure"}]
    /\ lyrics.index \in 0..Larger(0, Len(lyrics.times) - 1) /\ lyrics.offset \in {0, 1}
    /\ \A i, j \in DOMAIN lyrics.times : i < j => lyrics.times[i] <= lyrics.times[j]
    /\ restore.pc \in {"none", "resolve", "row", "settle", "resume"}
    /\ {segments, restore.track} \cup asking \subseteq Track \cup {None}
    /\ position \in 0..MaxPosition
    /\ tray.reader \in {"check", "open", "blocked", "retry", "ended"} /\ tray.pressed \in {0, 1}
    /\ plays \in 0..MaxPlays /\ events \in 0..MaxEvents

Sounding == status \in {"PLAYING", "PAUSED"} /\ cur # None
(* mpv has what plays: it is not being restored, and its last loss did not   *)
(* cross a play_track, neither one that had loaded its track into the lost   *)
(* mpv nor one begun beside the restore of another track.                    *)
Intact == restore.pc = "none" /\ ~crossed
(* While a track plays or is paused, the gain of AppState is that track's    *)
(* and mpv applies it exactly when normalization is on, whatever was toggled *)
(* while the track was loaded and whenever mpv was lost before               *)
(* (mode_ops.toggle_loudness_normalization, _on_mpv_reconnected).            *)
GainAgrees ==
    Sounding /\ Intact => gain.of = cur /\ mpv.af = AfFilter(gain.db)

(* A track whose peak was known when it was loaded is never raised beyond    *)
(* the headroom of 1 dB below full scale (gain_calculator.compute_gain_db).  *)
NeverClips ==
    Sounding /\ Intact /\ setting.normal /\ gain.from = "full" => mpv.af + Peak[cur] <= Headroom

(* No fade or timer runs that its handle does not name, so that the next     *)
(* track, a volume command or a new timer can cancel it; and no fade-out     *)
(* runs into another track (controller, crossfade, sleep_timer).             *)
TasksAreHeld ==
    \A s \in Slot :
        LET k == tasks[s].kind IN
        k # "none" => handle[k] = s /\ (k = "out" => cur \in {tasks[s].of, None})

(* Lyrics on display while a track plays are that track's, and the spinner   *)
(* turns exactly while the latest fetch runs, however slow the earlier ones  *)
(* are (lyrics_fetcher's generations); only the restore of another track may *)
(* mix them up.                                                              *)
LyricsFollow ==
    /\ Sounding /\ ~crossed => lyrics.of \in {cur, None}
    /\ lyrics.loading <=> \E f \in fetches : CurrentFetch(f)

(* Whatever mpv's losses cross, the gain of AppState is the current track's  *)
(* once nothing is being restored: "gain_db yang sudah dihitung untuk track  *)
(* itu" (mode_ops), "reload the current track" (_on_mpv_reconnected).        *)
GainIsOfTheTrack == Sounding /\ restore.pc = "none" => gain.of = cur

=============================================================================
