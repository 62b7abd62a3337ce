------------------------------ MODULE Playback ------------------------------
(***************************************************************************)
(* The playback controller of LunaWave (engine/playback) together with the *)
(* queue mode, the radio mode and the cross-track circuit breaker it       *)
(* drives.  Everything runs on one asyncio event loop: a task keeps the    *)
(* processor from one await to the next, so one action here is what a task *)
(* does between two awaits.  Commands arrive from several WebSocket        *)
(* clients, each of which waits for its own command to end                 *)
(* (core/routing/websocket.py); end-of-file events, failure advances and   *)
(* radio fetches run as tasks of their own.  Two asyncio locks are all     *)
(* that orders them: _lock (commands) and _play_lock (play_track).         *)
(***************************************************************************)
EXTENDS Naturals, Sequences, FiniteSets

CONSTANTS
    Track,       \* the tracks a user, the queue or the radio can name
    NoTrack,     \* "None": no current track, no video_id in the request
    NoTask,      \* nobody holds a lock
    Client,      \* WebSocket connections; each runs one command at a time
    Bg,          \* bound: slots for tasks made with safe_create_task
    Ops,         \* bound: the commands the clients of this instance send
    LoopModes,   \* bound: the loop modes the clients of this instance choose
    Batch,       \* bound: what a radio fetch may return (sequences of tracks)
    Threshold,   \* PlaybackCircuitBreaker.threshold
    HistCap,     \* maxlen of state.history
    RadioCap,    \* longest radio queue a backfill leaves
    QueueCap,    \* bound: longest user queue the clients build
    MaxCmds,     \* bound: commands sent
    MaxEnds      \* bound: files that mpv ends by itself

Task == Client \cup Bg
ClientOps == {"play", "next", "prev", "select", "stop", "radio_on", "radio_off",
              "randomize", "set_loop", "add", "remove", "replace", "reorder"}
Loops == {"off", "track", "queue"}

ASSUME PlaybackAssumption ==
    /\ NoTrack \notin Track
    /\ NoTask \notin Task
    /\ Client \cap Bg = {}
    /\ IsFiniteSet(Bg) /\ IsFiniteSet(Client)
    /\ Ops \subseteq ClientOps
    /\ LoopModes \subseteq Loops
    /\ Batch \subseteq Seq(Track)
    /\ Threshold \in Nat \ {0}
    /\ HistCap \in Nat \ {0}
    /\ RadioCap \in Nat
    /\ QueueCap \in Nat
    /\ MaxCmds \in Nat
    /\ MaxEnds \in Nat

MaybeTrack == Track \cup {NoTrack}

VARIABLES
    task,        \* what each task is doing: where it waits and for whom
    lock,        \* holder of PlaybackController._lock
    playLock,    \* holder of PlaybackController._play_lock
    tracked,     \* RadioMode._bg_tasks: tasks that on_deactivated cancels
    current,     \* state.current_track
    status,      \* state.status
    mode,        \* state.playback_mode
    loop,        \* state.loop_mode
    queue,       \* state.queue
    radioQueue,  \* state.radio_queue
    history,     \* state.history
    loading,     \* PlaybackController._loading
    failures,    \* PlaybackCircuitBreaker._consecutive_failures
    mpvTrack,    \* the file mpv has loaded
    mpvPaused,   \* mpv's pause property
    mpvEnds,     \* end-file events on their way to the observer
    streak,      \* history variable: automatic advances since the breaker was reset
    cmds, ends   \* counters of the bounds MaxCmds and MaxEnds

taskVars == <<task, lock, playLock, tracked>>
listVars == <<queue, radioQueue, history>>
mpvVars == <<mpvTrack, mpvPaused, mpvEnds>>
breakerVars == <<failures, streak>>
budget == <<cmds, ends>>
vars == <<taskVars, current, status, mode, loop, listVars, loading, breakerVars,
          mpvVars, budget>>

-----------------------------------------------------------------------------
(* Tasks.  arg is the track a task is to play, or the video_id a request    *)
(* names; ended is the file whose end caused the task, NoTrack otherwise.   *)

Job(pc, op, arg, ended) == [pc |-> pc, op |-> op, arg |-> arg, ended |-> ended]
Idle == Job("idle", "none", NoTrack, NoTrack)

PlayPhases == {"load", "resume", "final", "failed", "dropped", "backoff"}
Pcs == {"idle", "lock", "want", "stopping", "pausing", "activate", "refill", "fetch",
        "backfill", "advance", "eof", "stopwait", "errwait"} \cup PlayPhases
TaskOps == ClientOps \cup {"none", "advance", "start", "standby", "initial",
                           "backfill", "stopped"}

(* The commands that keep _lock until their play_track has ended.          *)
LockedOps == {"play", "next", "prev"}

FreeBg == {b \in Bg : task[b] = Idle}

(* Where the task made by t may run: t's own slot when t ends with it.      *)
Slots(t) == IF t \in Bg THEN {t} ELSE FreeBg

(* Bound: an outside stimulus waits while this many tasks run, which leaves *)
(* every running task a slot for the one task it may have to make.          *)
Room == Cardinality({t \in Task : task[t] # Idle}) + 2 <= Cardinality(Bg)

Goto(t, pc) == task' = [task EXCEPT ![t].pc = pc]
Without(holder, t) == IF holder = t THEN NoTask ELSE holder

(* Mutant of Deactivate: a task cancelled inside play_track keeps _play_lock. *)
DeactivateLeaks(t, job) ==
    /\ task' = [x \in Task |-> IF x = t THEN job
                               ELSE IF x \in tracked THEN Idle ELSE task[x]]
    /\ tracked' = {}
    /\ playLock' = playLock
    /\ radioQueue' = <<>>

(* RadioMode.on_deactivated: the radio queue goes, and every tracked task   *)
(* is cancelled where it waits; inside play_track that frees _play_lock and *)
(* leaves _loading as it is, because CancelledError passes by every handler.*)
Deactivate(t, job) ==
    /\ task' = [x \in Task |-> IF x = t THEN job
                               ELSE IF x \in tracked THEN Idle ELSE task[x]]
    /\ tracked' = {}
    /\ playLock' = IF playLock \in tracked THEN NoTask ELSE playLock
    /\ radioQueue' = <<>>

(* What a task does once its play_track returned: _start goes on to the     *)
(* backfill, everyone else is done.                                         *)
AfterPlay(t) == IF task[t].op = "start"
                THEN Job("backfill", "backfill", NoTrack, NoTrack)
                ELSE Idle
(* Mutants of LeavePlay: _lock stays taken; a start is forgotten too early. *)
LeavePlayHolding(t) ==
    /\ playLock' = NoTask
    /\ lock' = lock
    /\ tracked' = IF task[t].op = "start" THEN tracked ELSE tracked \ {t}
LeavePlayForgets(t) ==
    /\ playLock' = NoTask
    /\ lock' = Without(lock, t)
    /\ tracked' = tracked \ {t}

LeavePlay(t) ==
    /\ playLock' = NoTask
    /\ lock' = Without(lock, t)
    /\ tracked' = IF task[t].op = "start" THEN tracked ELSE tracked \ {t}

(* deque(maxlen) drops the oldest entry.                                    *)
Remember(trk) == IF Len(history) < HistCap THEN Append(history, trk)
                 ELSE Append(Tail(history), trk)

-----------------------------------------------------------------------------
Init ==
    /\ task = [t \in Task |-> Idle]
    /\ lock = NoTask /\ playLock = NoTask /\ tracked = {}
    /\ current = NoTrack /\ status = "IDLE" /\ mode = "QUEUE" /\ loop = "off"
    /\ queue = <<>> /\ radioQueue = <<>> /\ history = <<>>
    /\ loading = FALSE
    /\ failures = 0 /\ streak = 0
    /\ mpvTrack = NoTrack /\ mpvPaused = FALSE /\ mpvEnds = <<>>
    /\ cmds = 0 /\ ends = 0

-----------------------------------------------------------------------------
(* PlayOps.play_track.                                                      *)

(* async with _play_lock; its mutant plays without waiting for it.          *)
PlaysAnytime == TRUE
PlayLockFree == playLock = NoTask

(* Takes _play_lock, pushes the track it displaces on the history and shows *)
(* the new one as LOADING before it knows a URL for it.                     *)
PlayBegin(t) ==
    /\ task[t].pc = "want"
    /\ PlayLockFree
    /\ playLock' = t
    /\ history' = IF current # NoTrack THEN Remember(current) ELSE history
    /\ current' = task[t].arg
    /\ status' = "LOADING"
    /\ loading' = TRUE
    /\ Goto(t, "load")
    /\ UNCHANGED <<lock, tracked, mode, loop, queue, radioQueue, breakerVars,
                   mpvVars, budget>>

(* The URL is resolved; loadfile replaces what mpv plays, and mpv reports    *)
(* the replaced file as ended with reason "stop".                           *)
PlayLoad(t) ==
    /\ task[t].pc = "load"
    /\ mpvTrack' = task[t].arg
    /\ mpvEnds' = IF mpvTrack = NoTrack THEN mpvEnds
                  ELSE Append(mpvEnds, [trk |-> mpvTrack, reason |-> "stop"])
    /\ Goto(t, "resume")
    /\ UNCHANGED <<lock, playLock, tracked, current, status, mode, loop, listVars,
                   loading, breakerVars, mpvPaused, budget>>

(* 0.15 s later: volume and filter are set, mpv is unpaused.                *)
PlayResume(t) ==
    /\ task[t].pc = "resume"
    /\ mpvPaused' = FALSE
    /\ Goto(t, "final")
    /\ UNCHANGED <<lock, playLock, tracked, current, status, mode, loop, listVars,
                   loading, breakerVars, mpvTrack, mpvEnds, budget>>

PlayFinal(t) ==
    /\ task[t].pc = "final"
    /\ status' = "PLAYING"
    /\ failures' = 0 /\ streak' = 0
    /\ loading' = FALSE
    /\ task' = [task EXCEPT ![t] = AfterPlay(t)]
    /\ LeavePlay(t)
    /\ UNCHANGED <<current, mode, loop, listVars, mpvVars, budget>>

(* FailureOps: the load raised.  A video that is gone for good is dropped   *)
(* without a pause, anything else backs off first.                          *)
PlayFail(t) ==
    /\ task[t].pc = "load"
    /\ loading' = FALSE
    /\ status' = "ERROR"
    /\ \/ Goto(t, "failed")
       \/ Goto(t, "dropped")
    /\ UNCHANGED <<lock, playLock, tracked, current, mode, loop, listVars,
                   breakerVars, mpvVars, budget>>

(* The end of advance_after_track_failure: if the failed track is still the *)
(* current one, a task is made that will advance without taking _lock.      *)
GiveUp(t) ==
    /\ LeavePlay(t)
    /\ IF current = task[t].arg
       THEN /\ \E b \in FreeBg :
                 task' = [task EXCEPT ![t] = AfterPlay(t),
                                      ![b] = Job("advance", "advance", task[t].arg, NoTrack)]
            /\ streak' = streak + 1
       ELSE /\ task' = [task EXCEPT ![t] = AfterPlay(t)]
            /\ UNCHANGED streak

(* PlaybackCircuitBreaker.record_failure: this failure opens the breaker.    *)
(* Mutants: one failure too late; never.                                    *)
TripsLate == failures + 1 > Threshold
TripsNever == FALSE
Trips == failures + 1 >= Threshold

(* A breaker that opened is closed again at once, and nobody advances.      *)
RecordFailure(t) ==
    /\ task[t].pc \in {"failed", "dropped"}
    /\ IF Trips
       THEN /\ failures' = 0 /\ streak' = 0
            /\ task' = [task EXCEPT ![t] = AfterPlay(t)]
            /\ LeavePlay(t)
       ELSE /\ failures' = failures + 1
            /\ IF task[t].pc = "failed"
               THEN Goto(t, "backoff") /\ UNCHANGED <<lock, playLock, tracked, streak>>
               ELSE GiveUp(t)
    /\ UNCHANGED <<current, status, mode, loop, listVars, loading, mpvVars, budget>>

(* The sleep of 2 ** failures seconds, under _play_lock, is over.           *)
BackoffEnd(t) ==
    /\ task[t].pc = "backoff"
    /\ GiveUp(t)
    /\ UNCHANGED <<current, status, mode, loop, listVars, loading, failures,
                   mpvVars, budget>>

Play(t) == \/ PlayBegin(t) \/ PlayLoad(t) \/ PlayResume(t) \/ PlayFinal(t)
           \/ PlayFail(t) \/ RecordFailure(t) \/ BackoffEnd(t)

-----------------------------------------------------------------------------
(* QueueController.advance_to_next.  l is what becomes of _lock while the   *)
(* play that follows runs: t for a command, unchanged for a failure advance.*)

(* QueueMode.next *)
QueueNext(t, l) ==
    \/ /\ loop = "track" /\ current # NoTrack
       /\ task' = [task EXCEPT ![t].pc = "want", ![t].arg = current]
       /\ lock' = l
       /\ UNCHANGED <<tracked, queue, radioQueue, status, current>>
    \/ /\ ~(loop = "track" /\ current # NoTrack)
       /\ queue = <<>>
       /\ status' = "IDLE"
       /\ current' = NoTrack
       /\ task' = [task EXCEPT ![t] = Idle]
       /\ UNCHANGED <<lock, tracked, queue, radioQueue>>
    \/ /\ ~(loop = "track" /\ current # NoTrack)
       /\ queue # <<>>
       /\ queue' = IF loop = "queue" THEN Append(Tail(queue), Head(queue)) ELSE Tail(queue)
       /\ task' = [task EXCEPT ![t].pc = "want", ![t].arg = Head(queue)]
       /\ lock' = l
       /\ UNCHANGED <<tracked, radioQueue, status, current>>

(* RadioMode.next: an empty radio queue shows LOADING, tells the clients,   *)
(* and then makes a tracked _start task; nothing remembers that one may be  *)
(* running already.                                                         *)
RadioNext(t, l) ==
    /\ lock' = l
    /\ \/ /\ radioQueue # <<>>
          /\ radioQueue' = Tail(radioQueue)
          /\ task' = [task EXCEPT ![t].pc = "want", ![t].arg = Head(radioQueue)]
          /\ UNCHANGED status
       \/ /\ radioQueue = <<>>
          /\ status' = "LOADING"
          /\ Goto(t, "refill")
          /\ UNCHANGED radioQueue
    /\ UNCHANGED <<tracked, queue, current>>

(* Mutant of Refill: LOADING is shown after the clients were told.          *)
RefillShowsLoading(t) ==
    /\ task[t].pc = "refill"
    /\ \E s \in Slots(t) :
         /\ task' = [task EXCEPT ![t] = Idle,
                                 ![s] = Job("fetch", "start", NoTrack, NoTrack)]
         /\ tracked' = tracked \cup {s}
    /\ lock' = Without(lock, t)
    /\ status' = "LOADING"
    /\ UNCHANGED <<playLock, current, mode, loop, listVars, loading, breakerVars,
                   mpvVars, budget>>

Refill(t) ==
    /\ task[t].pc = "refill"
    /\ \E s \in Slots(t) :
         /\ task' = [task EXCEPT ![t] = Idle,
                                 ![s] = Job("fetch", "start", NoTrack, NoTrack)]
         /\ tracked' = tracked \cup {s}
    /\ lock' = Without(lock, t)
    /\ UNCHANGED <<playLock, current, status, mode, loop, listVars, loading, breakerVars,
                   mpvVars, budget>>

AdvanceToNext(t, l) ==
    /\ IF mode = "QUEUE" THEN QueueNext(t, l) ELSE RadioNext(t, l)
    /\ UNCHANGED <<playLock, mode, loop, history, loading, breakerVars, mpvVars, budget>>

(* The task made after a failed track; it never takes _lock.                *)
Advance(t) == task[t].pc = "advance" /\ AdvanceToNext(t, lock)

(* A request that names another track than the current one is stale.        *)
Stale(t) == task[t].arg # NoTrack /\ current # task[t].arg

Waits(t, op) == task[t].pc = "lock" /\ task[t].op = op /\ lock = NoTask

(* A request that leaves everything as it is: stale, or refused.            *)
Ignored(t) ==
    /\ task' = [task EXCEPT ![t] = Idle]
    /\ UNCHANGED <<lock, playLock, tracked, current, status, mode, loop, listVars, loading,
                   breakerVars, mpvVars, budget>>

(* PlaybackController._on_next *)
Next_(t) ==
    /\ Waits(t, "next")
    /\ IF Stale(t) THEN Ignored(t) ELSE AdvanceToNext(t, t)

(* PlaybackController._on_prev *)
Prev(t) ==
    /\ Waits(t, "prev")
    /\ IF Stale(t) \/ history = <<>>
       THEN Ignored(t)
       ELSE /\ history' = SubSeq(history, 1, Len(history) - 1)
            /\ current' = NoTrack
            /\ task' = [task EXCEPT ![t].pc = "want", ![t].arg = history[Len(history)]]
            /\ lock' = t
            /\ UNCHANGED <<playLock, tracked, status, mode, loop, queue, radioQueue,
                           loading, breakerVars, mpvVars, budget>>

(* PlaybackController._on_cmd_play_track: leaves the radio first.           *)
PlayTrack(t) ==
    /\ Waits(t, "play")
    /\ lock' = t
    /\ LET job == [task[t] EXCEPT !.pc = "want"]
       IN  IF mode = "RADIO"
           THEN Deactivate(t, job) /\ mode' = "QUEUE"
           ELSE /\ task' = [task EXCEPT ![t] = job]
                /\ UNCHANGED <<tracked, playLock, radioQueue, mode>>
    /\ UNCHANGED <<current, status, loop, queue, history, loading, breakerVars, mpvVars, budget>>

(* QueueController.on_queue_select: drops the entries up to the chosen one  *)
(* under _lock, then leaves the radio and plays without it.                 *)
Select(t) ==
    /\ Waits(t, "select")
    /\ \/ Ignored(t)
       \/ \E i \in 1..Len(queue) :
            /\ queue' = SubSeq(queue, i + 1, Len(queue))
            /\ LET job == [task[t] EXCEPT !.pc = "want", !.arg = queue[i]]
               IN  IF mode = "RADIO"
                   THEN Deactivate(t, job) /\ mode' = "QUEUE"
                   ELSE /\ task' = [task EXCEPT ![t] = job]
                        /\ UNCHANGED <<tracked, playLock, radioQueue, mode>>
            /\ UNCHANGED <<lock, current, status, loop, history, loading, breakerVars,
                           mpvVars, budget>>

Commands(t) == \/ Next_(t) \/ Prev(t) \/ PlayTrack(t) \/ Select(t)
               \/ Advance(t) \/ Refill(t)
-----------------------------------------------------------------------------
(* Stop, modes and radio.                                                   *)

(* PlaybackController._on_stop takes no lock; it waits for mpv.pause only.  *)
StopBegin(t) ==
    /\ task[t].pc = "lock" /\ task[t].op = "stop"
    /\ failures' = 0 /\ streak' = 0
    /\ mpvPaused' = TRUE
    /\ Goto(t, "stopping")
    /\ UNCHANGED <<lock, playLock, tracked, current, status, mode, loop, listVars, loading,
                   mpvTrack, mpvEnds, budget>>

(* Mutant of StopEnd: a stop also takes _loading down.                      *)
StopEndClearsLoading(t) ==
    /\ task[t].pc = "stopping"
    /\ status' = "IDLE"
    /\ current' = NoTrack
    /\ queue' = <<>> /\ radioQueue' = <<>>
    /\ loading' = FALSE
    /\ task' = [task EXCEPT ![t] = Idle]
    /\ UNCHANGED <<lock, playLock, tracked, mode, loop, history, breakerVars,
                   mpvVars, budget>>

StopEnd(t) ==
    /\ task[t].pc = "stopping"
    /\ status' = "IDLE"
    /\ current' = NoTrack
    /\ queue' = <<>> /\ radioQueue' = <<>>
    /\ task' = [task EXCEPT ![t] = Idle]
    /\ UNCHANGED <<lock, playLock, tracked, mode, loop, history, loading, breakerVars,
                   mpvVars, budget>>

(* ModeOps.set_mode(RADIO) and SettingsController.on_set_mode: the status   *)
(* is LOADING from here on, and the radio is activated after _lock is free. *)
RadioOn(t) ==
    /\ Waits(t, "radio_on")
    /\ IF mode = "RADIO"
       THEN Ignored(t)
       ELSE /\ mode' = "RADIO"
            /\ status' = "LOADING"
            /\ Goto(t, "activate")
            /\ UNCHANGED <<lock, playLock, tracked, current, loop, listVars, loading,
                           breakerVars, mpvVars, budget>>

(* RadioMode.on_activated: no artists at all is reported and nothing else.  *)
Activate(t) ==
    /\ task[t].pc = "activate"
    /\ \/ Ignored(t)
       \/ /\ radioQueue' = <<>>
          /\ \E s \in Slots(t) :
               /\ task' = [task EXCEPT ![t] = Idle,
                                       ![s] = Job("fetch", "start", NoTrack, NoTrack)]
               /\ tracked' = tracked \cup {s}
          /\ UNCHANGED <<lock, playLock, current, status, mode, loop, queue, history, loading,
                         breakerVars, mpvVars, budget>>

(* ModeOps.set_mode(QUEUE) under _lock, up to the await of mpv.pause.       *)
RadioOff(t) ==
    /\ Waits(t, "radio_off")
    /\ IF mode = "QUEUE"
       THEN Ignored(t)
       ELSE /\ mode' = "QUEUE"
            /\ Deactivate(t, [task[t] EXCEPT !.pc = "pausing"])
            /\ mpvPaused' = TRUE
            /\ lock' = t
            /\ UNCHANGED <<current, status, loop, queue, history, loading, breakerVars,
                           mpvTrack, mpvEnds, budget>>

(* ModeOps.randomize_radio under _lock, up to the await of mpv.pause.       *)
Randomize(t) ==
    /\ Waits(t, "randomize")
    /\ IF mode = "QUEUE"
       THEN Ignored(t)
       ELSE /\ radioQueue' = <<>>
            /\ mpvPaused' = TRUE
            /\ lock' = t
            /\ Goto(t, "pausing")
            /\ UNCHANGED <<playLock, tracked, current, status, mode, loop, queue, history,
                           loading, breakerVars, mpvTrack, mpvEnds, budget>>

(* mpv.pause returned.  set_mode shows IDLE; randomize_radio shows LOADING, *)
(* and on_radio_randomize makes a fetch task that nothing can cancel.       *)
PauseEnd(t) ==
    /\ task[t].pc = "pausing"
    /\ lock' = NoTask
    /\ current' = NoTrack
    /\ IF task[t].op = "radio_off"
       THEN /\ status' = "IDLE"
            /\ task' = [task EXCEPT ![t] = Idle]
       ELSE /\ status' = "LOADING"
            /\ \E s \in Slots(t) :
                 task' = [task EXCEPT ![t] = Idle,
                                      ![s] = Job("fetch", "initial", NoTrack, NoTrack)]
    /\ UNCHANGED <<playLock, tracked, mode, loop, listVars, loading, breakerVars, mpvVars, budget>>

(* RadioMode._start and _fetch_and_play_initial once the standby or the     *)
(* search has answered: no tracks at all leaves everything as it is.        *)
Fetch(t) ==
    /\ task[t].pc = "fetch"
    /\ \/ /\ task' = [task EXCEPT ![t] = Idle]
          /\ tracked' = tracked \ {t}
          /\ UNCHANGED radioQueue
       \/ \E b \in Batch, op \in {task[t].op} \cup (IF task[t].op = "start" THEN {"standby"} ELSE {}) :
            /\ b # <<>>
            /\ radioQueue' = Tail(b)
            /\ task' = [task EXCEPT ![t] = Job("want", op, Head(b), NoTrack)]
            /\ UNCHANGED tracked
    /\ UNCHANGED <<lock, playLock, current, status, mode, loop, queue, history, loading,
                   breakerVars, mpvVars, budget>>

(* RadioMode._backfill_and_standby: the rest of the batch, cut at RadioCap. *)
Backfill(t) ==
    /\ task[t].pc = "backfill"
    /\ \/ UNCHANGED radioQueue
       \/ \E b \in Batch :
            radioQueue' = SubSeq(radioQueue \o b, 1,
                                 IF Len(radioQueue \o b) > RadioCap THEN RadioCap
                                 ELSE Len(radioQueue \o b))
    /\ task' = [task EXCEPT ![t] = Idle]
    /\ tracked' = tracked \ {t}
    /\ UNCHANGED <<lock, playLock, current, status, mode, loop, queue, history, loading,
                   breakerVars, mpvVars, budget>>

Radio(t) == \/ StopBegin(t) \/ StopEnd(t) \/ RadioOn(t) \/ Activate(t) \/ RadioOff(t)
            \/ Randomize(t) \/ PauseEnd(t) \/ Fetch(t) \/ Backfill(t)
-----------------------------------------------------------------------------
(* TrackEndedOps: each end-file event starts a handler that notes which     *)
(* track is current now, not which file has ended.                          *)
TrackEnded(b) ==
    /\ mpvEnds # <<>>
    /\ task[b] = Idle
    /\ Room
    /\ mpvEnds' = Tail(mpvEnds)
    /\ LET e == Head(mpvEnds)
       IN  \/ /\ e.reason = "eof"
              /\ task' = [task EXCEPT ![b] = Job("eof", "next", current, e.trk)]
              /\ UNCHANGED status
           \/ /\ e.reason = "error"
              /\ status' = "ERROR"
              /\ task' = [task EXCEPT ![b] = Job("errwait", "next", current, e.trk)]
           \/ /\ e.reason = "stop" /\ loading
              /\ UNCHANGED <<task, status>>
           \/ /\ e.reason = "stop" /\ ~loading        \* within the grace window
              /\ task' = [task EXCEPT ![b] = Job("stopwait", "stopped", NoTrack, NoTrack)]
              /\ UNCHANGED status
           \/ /\ e.reason = "stop" /\ ~loading        \* after it
              /\ status' = "IDLE"
              /\ UNCHANGED task
    /\ UNCHANGED <<lock, playLock, tracked, current, mode, loop, listVars, loading, breakerVars,
                   mpvTrack, mpvPaused, budget>>

(* The sleeps of the three branches end.                                    *)
EofWake(t) ==
    /\ task[t].pc = "eof"
    /\ Goto(t, "lock")
    /\ UNCHANGED <<lock, playLock, tracked, current, status, mode, loop, listVars, loading,
                   breakerVars, mpvVars, budget>>

StopWake(t) ==
    /\ task[t].pc = "stopwait"
    /\ task' = [task EXCEPT ![t] = Idle]
    /\ status' = IF status = "PLAYING" THEN status ELSE "IDLE"
    /\ UNCHANGED <<lock, playLock, tracked, current, mode, loop, listVars, loading,
                   breakerVars, mpvVars, budget>>

ErrorWake(t) ==
    /\ task[t].pc = "errwait"
    /\ task' = IF status = "IDLE" \/ Stale(t)
               THEN [task EXCEPT ![t] = Idle]
               ELSE [task EXCEPT ![t].pc = "lock"]
    /\ UNCHANGED <<lock, playLock, tracked, current, status, mode, loop, listVars, loading,
                   breakerVars, mpvVars, budget>>

Ended(t) == EofWake(t) \/ StopWake(t) \/ ErrorWake(t)

(* PlaybackController._on_track_progress: mpv reports a position although   *)
(* the status is IDLE, so the status is repaired.  A report may still be on *)
(* its way when mpv is paused.                                              *)
TrackProgress ==
    /\ mpvTrack # NoTrack
    /\ status = "IDLE" /\ current # NoTrack
    /\ status' = "PLAYING"
    /\ UNCHANGED <<taskVars, current, mode, loop, listVars, loading, breakerVars, mpvVars, budget>>

(* mpv reaches the end of its file, or gives up on it.                      *)
MpvEnds ==
    /\ mpvTrack # NoTrack /\ ~mpvPaused
    /\ ends < MaxEnds
    /\ ends' = ends + 1
    /\ \E r \in {"eof", "error"} :
         mpvEnds' = Append(mpvEnds, [trk |-> mpvTrack, reason |-> r])
    /\ mpvTrack' = NoTrack
    /\ UNCHANGED <<taskVars, current, status, mode, loop, listVars, loading, breakerVars,
                   mpvPaused, cmds>>

-----------------------------------------------------------------------------
(* A client sends a command and waits for its end.  next and prev name the  *)
(* track the client sees, or none.                                          *)
Submit(c) ==
    /\ task[c] = Idle /\ cmds < MaxCmds /\ Room
    /\ cmds' = cmds + 1
    /\ \E op \in Ops \cap {"play", "next", "prev", "select", "stop", "radio_on",
                           "radio_off", "randomize"} :
         \E arg \in CASE op = "play" -> Track
                      [] op \in {"next", "prev"} -> {current, NoTrack}
                      [] OTHER -> {NoTrack} :
           task' = [task EXCEPT ![c] = Job("lock", op, arg, NoTrack)]
    /\ UNCHANGED <<lock, playLock, tracked, current, status, mode, loop, listVars, loading,
                   breakerVars, mpvVars, ends>>

(* QueueOps: edits of the queue, whole under _lock.                         *)
QueueEdit(c) ==
    /\ task[c] = Idle /\ cmds < MaxCmds
    /\ lock = NoTask
    /\ cmds' = cmds + 1
    /\ \/ /\ "add" \in Ops /\ Len(queue) < QueueCap
          /\ \E trk \in Track : queue' = Append(queue, trk)
       \/ /\ "remove" \in Ops
          /\ \E i \in 1..Len(queue) :
               queue' = SubSeq(queue, 1, i - 1) \o SubSeq(queue, i + 1, Len(queue))
       \/ /\ "replace" \in Ops
          /\ \E n \in 0..QueueCap : queue' \in [1..n -> Track]
       \/ /\ "reorder" \in Ops
          /\ \E i, j \in 1..Len(queue) :
               LET rest == SubSeq(queue, 1, i - 1) \o SubSeq(queue, i + 1, Len(queue))
               IN  queue' = SubSeq(rest, 1, j - 1) \o <<queue[i]>> \o SubSeq(rest, j, Len(rest))
    /\ UNCHANGED <<taskVars, current, status, mode, loop, radioQueue, history, loading,
                   breakerVars, mpvVars, ends>>

(* ModeOps.set_loop *)
SetLoop(c) ==
    /\ "set_loop" \in Ops /\ task[c] = Idle /\ cmds < MaxCmds
    /\ cmds' = cmds + 1
    /\ loop' \in LoopModes
    /\ UNCHANGED <<taskVars, current, status, mode, listVars, loading, breakerVars, mpvVars, ends>>

-----------------------------------------------------------------------------
(* Nothing is left to do within the bounds.                                 *)
Rest ==
    /\ \A t \in Task : task[t] = Idle
    /\ mpvEnds = <<>> /\ cmds = MaxCmds
    /\ UNCHANGED vars

TaskStep(t) == Play(t) \/ Commands(t) \/ Radio(t) \/ Ended(t)

Next ==
    \/ \E t \in Task : TaskStep(t)
    \/ \E c \in Client : Submit(c) \/ QueueEdit(c) \/ SetLoop(c)
    \/ \E b \in Bg : TrackEnded(b)
    \/ TrackProgress
    \/ MpvEnds
    \/ Rest

Spec == Init /\ [][Next]_vars

(* asyncio runs every task that can run, its locks are granted first come   *)
(* first served, and the observer reads on.  Nothing makes a client send a  *)
(* command or mpv end a file.                                               *)
Fairness == /\ \A t \in Task : SF_vars(TaskStep(t))
            /\ SF_vars(\E b \in Bg : TrackEnded(b))
FairSpec == Spec /\ Fairness
-----------------------------------------------------------------------------
(* Properties                                                               *)

JobType == [pc : Pcs, op : TaskOps, arg : MaybeTrack, ended : MaybeTrack]
EndType == [trk : Track, reason : {"eof", "stop", "error"}]

(* Every variable keeps its type; the breaker rests below its threshold.    *)
TypeOK ==
    /\ task \in [Task -> JobType]
    /\ lock \in Task \cup {NoTask} /\ playLock \in Task \cup {NoTask}
    /\ tracked \subseteq Bg
    /\ current \in MaybeTrack
    /\ status \in {"IDLE", "LOADING", "PLAYING", "ERROR"}
    /\ mode \in {"QUEUE", "RADIO"} /\ loop \in Loops
    /\ queue \in Seq(Track) /\ radioQueue \in Seq(Track) /\ history \in Seq(Track)
    /\ loading \in BOOLEAN
    /\ failures \in 0..(Threshold - 1) /\ streak \in Nat
    /\ mpvTrack \in MaybeTrack /\ mpvPaused \in BOOLEAN
    /\ mpvEnds \in Seq(EndType)
    /\ cmds \in Nat /\ ends \in Nat

InPlay(t) == task[t].pc \in PlayPhases

(* A task is inside play_track exactly while it holds _play_lock, and a     *)
(* command holds _lock exactly from its body to the end of its play, also   *)
(* when the radio is deactivated under it or a failure backs off.           *)
LockDiscipline ==
    \A t \in Task :
        /\ playLock = t <=> InPlay(t)
        /\ lock = t <=> \/ task[t].pc = "pausing"
                        \/ /\ task[t].op \in LockedOps
                           /\ task[t].pc \in {"want", "refill"} \/ InPlay(t)

(* Leaving the radio cancels the tasks of the radio and no others: the      *)
(* tracked tasks are at all times those that start, refill or extend it.    *)
TrackedAreRadio ==
    \A t \in Task : t \in tracked <=> task[t].op \in {"start", "standby", "backfill"}

(* Whoever plays, the shown track is the one being played or, after a stop  *)
(* or a skip, none; and from loadfile on mpv has that file or none.         *)
NowPlayingIsOurs ==
    \A t \in Task :
        /\ InPlay(t) => current \in {task[t].arg, NoTrack}
        /\ task[t].pc \in {"resume", "final"} => mpvTrack \in {task[t].arg, NoTrack}

(* _loading is up all the time a track is being loaded, whatever other plays *)
(* ended, failed or were cancelled before it: the end that mpv reports of   *)
(* the replaced file is then never taken for a stop.                        *)
LoadIsGuarded ==
    (\E t \in Task : task[t].pc \in {"load", "resume", "final"}) => loading

(* A run of failures advances by itself at most Threshold times before the  *)
(* breaker stops it, whatever stops and commands come in between.           *)
BreakerBudget == streak <= Threshold

AtRest == \A t \in Task : task[t] = Idle

(* When everything has settled in QUEUE mode nothing shows LOADING.         *)
QueueModeSettles == AtRest /\ mode = "QUEUE" => status # "LOADING"

(* No task waits for ever for a lock, and no run of failures goes on for    *)
(* ever: every task ends.                                                   *)
TasksEnd == \A t \in Task : task[t].pc # "idle" ~> task[t].pc = "idle"
-----------------------------------------------------------------------------
(* What the repository says of this code and the code does not do.          *)

=============================================================================
