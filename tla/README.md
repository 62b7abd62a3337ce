# LunaWave in TLA+

LunaWave is a music server for one household: a Python process on one asyncio
event loop that takes commands from browsers over WebSockets, drives an `mpv`
process for sound, uses yt-dlp to find, resolve and download tracks, and keeps
its catalogue in SQLite. A launcher starts and stops it, and a framework of
tools keeps the repository's documents in step with its source. This directory
holds TLA+ models of the parts where the order of things decides what is right,
the TLC configurations that check them, and TLAPS proofs of the properties that
matter most.

`APP` is `src/monorepo/apps/lunawave-music`, `FW` is
`src/monorepo/packages/lunawave-framework/src/lunawave_framework`.

## 1. Inventory

| component | state it keeps | operations | talks to | module |
|---|---|---|---|---|
| playback controller (`APP/engine/playback`) | `_lock`, `_play_lock`, `_loading`, failure count; in `state`: current track, status, mode, loop, history, position | play, next, prev, stop, select, pause, seek, modes and settings; handlers of mpv's events | queue and radio mode, track loader, mpv, event bus | `Playback`, `Track` |
| queue mode (`engine/queue_manager.py`, `queue_ops.py`) | `state.queue` | add, remove, replace, reorder, select, advance | playback controller | `Playback` |
| radio mode (`engine/radio`) | `radio_queue`, background tasks, standby list, two locks of the prefetcher | activate, deactivate, next, refill, backfill, randomize, prefetch | playback controller, database | `Playback`, `Radio` |
| download manager (`engine/download_manager.py`, `adapters/ytdlp/downloader.py`) | `_download_lock`, `_download_scheduled`, progress, `is_cancelled` | download, cancel; hooks in a yt-dlp thread | thread pool, event loop, event bus | `Downloads` |
| mpv link (`adapters/mpv`, start in `bootstrap`) | socket, process, `is_connected`, request counter, pending futures, `_req_lock`, `mpv_ready_event` | first connect, send_command, get_property, observe, reconnect, close | mpv, event bus | `MpvLink` |
| resolver, prefetch, streams, files (`adapters/ytdlp/resolver.py`, `services/`, `server/handlers`, `persistence/track_repo.py`) | rows of `tracks`, files in `downloads/` | resolve, prefetch, proxy, download, delete, clear, evict, maintain | yt-dlp, database, disk | `Library` |
| loudness, volume, crossfade, sleep timer, lyrics, SponsorBlock, notification (`engine/`, `plugins/`) | volume, gain, tasks and their handles, lyrics and their generation | set, fade, analyse, stop later, fetch, synchronise | mpv, command bus, ffmpeg | `Track` |
| discover and rewards (`services/discover_*`, `persistence/artist_repo.py`, `discover_repo.py`) | rewards of artists and their cache, plays | record an end or a skip, sections of a page, taste spectrum, search | database, radio | `Discover` |
| command and event bus (`FW/core/kernel`) | handler table, subscriber table | execute, publish, subscribe | everyone | built into the modules |
| WebSocket routing and sessions (`FW/core/routing`, `FW/core/security`, `APP/server`) | connections, logins, identities, attempts per address, sessions, accounts, log tails | connect, message, login, set-up, broadcast, chat, disconnect | handlers, database | `Hub` |
| server processes and their launcher (`APP/launcher`, `bootstrap`, `persistence/db.py`) | processes, port, the window's state, schema | start, stop, restart, kill; boot, migrate, shut down | operating system, database | `Server` |
| patch log (`FW/automation/patchlog.py`) | `docs/PATCHLOG.md` | add, verify, check on commit, edits by hand | git, the tools that read the log | `Patchlog` |
| index of the source tree (`FW/automation`) | cached index, `docs/FILE_INDEX.md` | load, answer, generate, check, lint | the files of a checkout | `RepoIndex` |
| logging, web client, other automation | see PROJECT.json | | | - |

What is hard here is concurrency, not computation. There are few threads, but
every `await` lets another task in:

* The command bus is a direct call (`FW/core/kernel/command_bus.py:93`). A
  WebSocket connection handles its messages one after the other, two connections
  do not wait for each other. Next, prev, play hold `_lock` for as long as their
  `play_track` takes; stop takes no lock; select gives `_lock` back before it
  plays; failure advances and radio fetches never take it.
* The observer publishes each event of mpv and waits for the handlers that are
  coroutines (`event_bus.py:158`), so answers wait for them too.
* Leaving the radio cancels tasks wherever they wait, also inside `play_track`.
* Threads of yt-dlp report through `call_soon_threadsafe`, later than they act.
* All repositories share one database connection: statements take effect in the
  order they were issued, and a task that read a row acts on it some turns later.
* A broadcast waits for every client, and disconnects a client whose own handler
  is in the middle of something.
* mpv, servers, tools and their machines may die between any two steps.
* People edit the log, the index document and the sources while tools run.

What makes each component correct, in a sentence: *playback* - one track is
being started at any time and it is the one shown, no lock is lost, failures
stop by themselves; *queue and radio* - nothing of one mode survives into the
other, the radio stays varied; *downloads* - one at a time, a cancel hits the
download it was meant for; *mpv link* - an answer reaches its request, every
call and the resume at start-up go on; *library* - what the user keeps is not
lost to a task with an old row, only removed videos are marked (the code does
not keep this one); *track* - the gain, the fades and the lyrics belong to the
track that plays (not so when a restore after a reconnect crosses a play);
*discover* - the cache misses nothing, sections and search lose nobody; *hub* - a
connection leaves nothing behind and is told the latest state, there is one
administrator (two set-ups at once can make two); *server* - no process without
an owner but in two cases that section 3 names, no row destroyed by a migration;
*tools* - an entry made while nobody else is at work on the log stays, an entry
made meanwhile may go without a failing check; the cached index and the generated
block tell what stands in the tree.

## 2. Modules and how they follow the code

| module | models |
|---|---|
| `Playback`, `SerialPlayer`, `PlaybackSerial` | controller, queue mode, radio mode, breaker; what playing promises; the refinement mapping |
| `Downloads` | DownloadManager and YtDlpDownloader |
| `MpvLink` | the start of mpv, MpvIPC, MpvObserver, MpvConnection, with mpv as environment |
| `Library` | rows of `tracks` and files on disk, and every task that reads and writes both |
| `Radio` | which songs the radio's tasks put into the queue and the standby list |
| `Discover` | rewards, their cache, the sections of the page and the search |
| `Hub` | connections, logins, set-up, limits, broadcasts, chat, log tails |
| `Server` | launcher, server processes, port, migration |
| `Track` | loudness, volume and fades, sleep timer, lyrics, SponsorBlock, notification |
| `Patchlog`, `RepoIndex`, `Tooling` | the tools of a checkout; `Tooling` composes the two |
| `MC...` | constants for TLC |
| `PlaybackProofs` | theorems about `Playback`, and the refinement of `SerialPlayer` |
| `AdapterProofs` | theorems about `Downloads` and `MpvLink` |
| `UpkeepProofs` | theorems about `Server`, `RepoIndex` and `Patchlog` |
| `LibraryProofs`, `RadioProofs`, `DiscoverProofs`, `HubProofs`, `TrackProofs` | theorems about the module named |

In all modules an action is one turn of a task between two awaits that really
wait, or one step of a thread, a process or the outside world.

### Playback

A *task* is a client (a connection that runs its command) or one of a few slots
for tasks made with `safe_create_task` or by the event bus. `task[t]` says at
which `await` the task waits (`pc`), for which operation, with which track, and
which file's end caused it. `PlayBegin`, `PlayLoad`, `PlayResume`, `PlayFinal`
are `PlayOps.play_track`, `PlayFail`, `RecordFailure`, `BackoffEnd` are
`FailureOps`, `Next_`, `Prev`, `PlayTrack`, `Select`, `StopBegin`/`StopEnd` the
commands, `RadioOn`/`Activate`, `RadioOff`/`PauseEnd`, `Randomize` the mode
commands, `Fetch`, `Refill`, `Backfill` the radio's tasks, `TrackEnded` with
`EofWake`, `StopWake`, `ErrorWake` the end-file handler, `TrackProgress` the
self-healing of the status, `MpvEnds` mpv. An action that waits for a lock is
enabled when the lock is free; the two locks are variables with their holders.

Abstractions, each on purpose: a `publish` under a lock is not a point of its
own unless what is around it could be disturbed (`stopping`, `pausing`, `refill`,
`activate` are); a load fails or succeeds by choice and a fetch returns any
member of `Batch` or nothing; PAUSED and the position are in `Track`; a 'stop' event is
within the grace window or after it by choice; the breaker's OPEN state is closed
in the same turn (`failure_ops.py:135-139`) and has no variable; queue edits are
one turn under `_lock` each.

`SerialPlayer` is the abstract specification: requests appear and are withdrawn,
one begins when no other is in progress, and mpv only gets the file of the
attempt in progress. `PlaybackSerial` maps the player to the holder of
`_play_lock` and claims `Serial!Spec`. It would fail if cancellation freed the
wrong lock, if two plays could overlap, or if a task could load a track other
than the one it announced.

### Downloads

`OnDownload`, `OnCancel` are the commands, `Begin`, `Fetch`, `Conclude`,
`Release` the turns of `_do_download`, `HookProgress`, `HookCancelled`,
`ThreadEnds` the thread, `RunCallback` the loop that runs what threads have
posted. `asked` is a history variable: a cancel was accepted for the job
underway. Files are an outcome here; `Library` has them.

### MpvLink

`InitMpv`, `Spawn`, `TryConnect`, `Resume` are the start-up tasks: mpv may be
missing, fail to start, or never open its socket, and the event the resume waits
for must be set in each case (`Fails`). `Ask`, `Send`, `Drained`, `Wakes`,
`TimesOut` are `MpvIPC`; `ReadLine`, `ReadEvent`/`Handled`, `ReadEof`,
`Subscribe`, `Announce` the observer, `Reconnect` the connection, `Close` the
shutdown; `MpvAnswers` and `MpvDies` are mpv. `Reconnect` has the whole loop of
attempts, but nothing sets `is_connected` to False at the end of file, so its
first test succeeds and the attempts are not reached; that is the code, and
`ReconnectedIsFresh` says what it means. A drain is assumed to end.

### Library

`rows` are the rows of `tracks`, `files` what is on disk, `gone` what YouTube has
removed, `answers` the statements whose answer has not been collected. A
statement takes effect in the turn that issues it and its task goes on when its
answer is the oldest; what a task read it keeps, and it may be stale when used.
`Reason` to `ResolveFile` are the resolver, `Extract`, `Retry`, `GiveUpOn` its
attempts, `Saved` the store of a fresh address. Errors are told apart as the code
does it: a cause has one of several texts (`Says`), a text has phrases, and
`Classify` asks for the phrases in the order of `classify_ytdlp_error`;
`PrefetchRow`, `StreamRow`, `Proxy` the prefetch and the HTTP stream,
`AskRow`/`Download`/`StoreDownload` a download's rows, `DeleteRow`, `List`,
`EvictRow`, `Wipe` deletion, clearing and the eviction loop, `EvictStaleTracks`
the maintenance, `Restart` a restart of the process. `toggle_favorite` is an
operation of the repository that no handler of this commit calls; it is in the
model because the other statements must not undo it.

### Radio

The filter (`FilterTracks`) and the interleaver are stated as what they promise
of a set and of a list (`Interleaved`, by the round each song is in); the artists
are a choice. `Start`,
`QuickDone`, `Play`, `PlayDone`, `Backfill`, `Fill` are a cycle, `Build`,
`BuildLocked`, `BuildDone` the standby list, `Random`, `ShuffleDone` the button.
What `_standby_lock` guards never awaits, so it is not a variable; `_fetch_lock`
is. A play is one step here: `Playback` has its steps, with the batches left open.

### Discover

`RecordUpdate`, `RecordCommit`, `RecordApply` write a reward to the table, commit
it and change the cache in three turns, `StatsSelect`, `StatsFetch`, `StatsFill`
read it back; `PageRead`, `ForYouRead`, `UnheardRead`, `TopGenreRead`,
`SpectrumRead`, `GenreAffinity`, `PageSend` are the page: its sections are
statements of their own, another task's statements may come between any two, and
the five that nothing but a favourite's plays could change are the first step.
The order is that of `asyncio.gather`. `SearchRead`/`SearchSend` are the search. A reward is the list of ends and skips; `RewardAlpha`, `RewardBeta`
are the numbers the table holds after it.

### Hub

One handler for each connection (`handler[c]`), publishers of broadcasts, log
tails. A send is two turns: the frame is written, and the sender goes on any time
later or finds the peer lost. `Open`, `Message`, `Hangup`, `Lose` are browsers;
`AskAuth` to `AllLoggedOut` logins and sessions, `CheckSetup` to `FinishSetup` the set-up of
the administrator, `Execute`, `Publish`, `Broadcast`, `BroadcastDone` commands and
what follows, `Bind` to `SendChat` the chat with its loop over the live list,
`LogTail` the log; `Disconnect` is called from the handler and from a broadcast.

### Server

`Poll`, `OnStart`, `OnStop`, `OnRestart`, `OnKillConflict`, `CloseEvent` are the
window, `Stop`, `Waited`, `Slept`, `Start`, `Kill`, `Spawn` the threads,
`Boot` and its parts the steps of a process from the check of the schema over
each statement of the migration to serving; `Dies` and `StepFails` may come at
any of them. A transaction is opened by the first INSERT or DELETE, and a schema
change outside of one is committed at once, as sqlite3 does. Two histories name
what the launcher cannot avoid: `overlapped`, two threads were starting a server
at once, and `cutShort`, the window was closed while a worker restarted.

### Track

`Begin` to `Final` are the awaits of a play that concern sound, `Analyze` to
`JobEnds` the analyser with its single worker, `ComputeGain` the gain with its
cut, boost and headroom, `FadeIn`, `FadeOut`, `Fade` the fades step by step,
`SetTimer`, `TimerRings` the sleep timer, `Fetch` to `FetchEnds` and `ParseLrc` the lyrics with
their generations, `AskSegments`, `Skips` SponsorBlock, `Render`, `ReaderStep`,
`Press` the notification and its FIFO, `PauseChanged`, `Report` what mpv reports.
`Reconnected` begins the restore after a reconnect, with a fresh mpv or with the
old one, and `RestoreResolved`, `RestoreRowRead`, `RestoreSettles`, `RestoreEnds`,
`RestoreFails` are its awaits, between which a play may begin and end, since it
takes no lock; it loads the track, writes its gain, filter and volume, and pauses
or resumes. `crossed` remembers that a restore and the last play met. Which file
mpv has is not in `Track` (`Playback` has it), and a pause that a fresh mpv would
report by itself is not followed. A behaviour looks at some of the companions
(`focus`), which share the player and nothing else.

### Patchlog, RepoIndex, Tooling

`Patchlog` keeps a line of the log only as far as the tools tell lines apart, and
a long field may hold a rule; what a reader finds in a text (headings, entries)
is picked from it by places. `ReadLog`, `Number`, `NoMarker`, `OpenToWrite`,
`WriteLog` are one `add`, `KillAdd` may end it at each, `EditByHand` is a person;
`CheckPatchlog` is the commit's check, and the histories `past`, `raced`, `torn`
remember which headings the log has had, which of them came while another run was
at work, and whether a run died with the file emptied. `RepoIndex` has a load of the cached index
(`Stat`, `ReadCache`, `Parse`, `OpenCache`, `SaveCache`) with the answer of
`find_owner` (`Answer`, with its one forced rebuild), the generator (`Collect` to
`WriteIndex`), the checks of markers and completeness, and the lint. A marker is
spelt as the generator spells it or not (`exact`): the generator looks for its own
spelling, the check takes both. No tool
writes another's file, so a behaviour of `Tooling` follows one of the three.

## 3. Runs

Each module has a type invariant; where it is listed it is checked by the run,
in the other modules it documents the variables and held while they were built,
and the inductive invariants of section 5 have types of their own.

| run | checks | bounds |
|---|---|---|
| `playback` | TypeOK, LockDiscipline, TrackedAreRadio, NowPlayingIsOurs, LoadIsGuarded, BreakerBudget, QueueModeSettles, PlaysSerially | 2 tracks, 2 clients, 3 slots, 3 commands of all 13 kinds, 1 file ended by mpv, threshold 2; ~455,000 states |
| `playback_live` | TasksEnd under fairness | 2 commands of 5 kinds; ~22,000 |
| `downloads` | TypeOK, OneDownload, ProgressIsLive, CancelsOnlyItsOwn, DownloadsEnd | 2 slots, 6 commands, 3 reports under way; ~1,100 |
| `mpvlink` | AnswerIsOwn, PendingIsWaited, CallsReturn, ResumeGoesOn | 2 callers, 2 properties, 3 calls, 2 attempts at the socket; ~115,000 |
| `library` | KeptIsKept, TasksEnd | 1 video and its file, 2 tasks at a time, 3 in all, of every kind; ~78,000 |
| `radio` | QueueIsVaried, AdjacentOnlyAtTheEnd | 5 songs of 2 artists, 2 tasks, 3 commands, 2 songs of an artist, the song played last excluded; ~455,000 |
| `discover` | CacheKeepsUp, SectionsAgree, SearchKnowsTheHistory | 2 artists, 2 genres, 2 videos, one a favourite, 2 tasks, 2 events of an artist, 1 play of a song; ~4,254,000 |
| `hub` | TypeOK, NothingLeaks, ViewConverges | 2 browsers, 2 names, 1 identity, limits of 1, 4 events; ~490,000 |
| `server` | OneStarterNoOrphan, NoRowIsDestroyed | 2 processes, 1 worker besides the window, 1 song, 3 clicks, 1 failing statement; ~2,033,000 |
| `track` | GainAgrees, NeverClips, TasksAreHeld, LyricsFollow | 2 tracks, 3 slots, fades of 2 steps, 2 plays, 2 events; ~2,031,000 |
| `tooling` | EntriesSurvive, AddAloneIsExact, CacheIsTruthful, NoCycleGetsPast, GeneratorTakesHold | 3 files of 3 layers, 2 runs of each tool, 4 events, 2 edits of the tree, 3 entries, numbers up to 2; ~405,000 |
| `mpv_not_fresh` | ReconnectedIsFresh: violated | 2 calls |

Why the bounds are enough. In `playback` every hazard listed takes two actors and
one disturbance: two commands and a third to disturb them, a play by a command
against a play by the radio, a failure advance and an end of file. Three slots let
a fetch, an advance and an end-file handler exist together; an outside stimulus
waits while the slots are nearly used up (`Room`), so a step of the code is never
held back for want of a slot. Two tracks tell "the same track" from "another".
Threshold 2 makes the breaker open and start again, and capacities of 1 make
every list overflow. Elsewhere: `downloads` needs a second download that must not
be, and a cancel for each; `mpvlink` two callers to confuse answers and calls that
follow a timed-out one; `library` a task with an old row, one that changes the row
and one more begun in between, about one video, since no statement but clearing,
eviction and maintenance touches two; `radio` an artist with more songs than a
batch may hold of it, a song that two artists have, and a fetch that outlives its
cycle; `discover` an event under way while another task reads the rows,
and a hit that the history and the catalogue both know; `hub` a handler in the middle of an operation and a
broadcast that disconnects it, and two logins or set-ups at a limit of one;
`server` two processes on one database and one port; `track` a play that
overtakes the companions of the one before; `tooling` two runs that overlap, one
of which may be killed, and an edit between their steps. Symmetry is used where
nothing temporal is checked but invariants and action properties. Deadlock is
checked in `playback`, `downloads` and `mpvlink`, where explicit rest states are
the only places where nothing may happen; the other systems stop when their
bounded events are used up.

### What the violated run says, and what else was met

`mpv_not_fresh` states a sentence of the repository the code does not keep (the
quote is in PROJECT.json): after mpv's socket ends, a reconnect is announced that
did not happen (`adapters/mpv/connection.py:194`).

Five more such sentences were met. Each is a formula beside the properties of its
module, false in the model, and has a configuration with which TLC finds a
counterexample (`tlc -config track_restore.cfg MCTrack`, and so on). They are no
runs of the project, which checks what holds beside them; the hazards name them.

* `track_restore` (`MCTrack`, `GainIsOfTheTrack`): the restore after a reconnect
  of track A waits for its address; B is played meanwhile; then A's gain is
  written, and applied, while B plays (`controller.py:180`). `GainAgrees`,
  `NeverClips` and `LyricsFollow` hold in every other case.
* `library_marks` (`MCLibrary`, `MarkedIsGone`): YouTube words a rate limit as
  "Video unavailable"; the resolver takes it for a removal and the video is
  marked for good (`resolver.py:43`).
* `hub_two_admins` (`MCHub`, `OneAdmin`): two set-ups with different names both
  find no administrator and both make one; UNIQUE on the name does not refuse
  the second (`core/routing/setup.py:88`). The names are different, which is
  what `Hub.TypeOK` says of the accounts, and all it says.
* `tooling_lost` (`MCTooling`, `LogOnlyGrows`): two runs of `add` overlap, the
  later one writes back the text it read before the other wrote, and the check
  of the log passes (`patchlog.py:409`). What does hold is `EntriesSurvive`: a
  heading that came while no other run was at work stays, whatever overlaps
  later, unless a run is killed with the file emptied. An emptied file has no
  heading and gets a warning.
* `tooling_markers` (`MCTooling`, `BlockIsOverwritten`): with a marker spelt
  `<!--END:GENERATED-->` the generator replaces nothing and reports success, and
  the check passes over the old block (`generated_block.py:54`).
  `GeneratorTakesHold` holds for documents whose first markers are spelt as the
  generator spells them.

While modelling, the models also showed the following; they are listed as
hazards (but for SponsorBlock), each with a note, because no property of the
code's own words holds or is needed beyond the ones above:

* the end-file handler names the track that is current *now*, so an end that
  arrives late advances another track (`track_ended_ops.py:68`);
* a radio fetch started by the shuffle button is in no set that leaving the radio
  cancels (`engine/radio/engine.py:87`);
* a stop between two steps of a running play ends in PLAYING with no track;
* the chat loops over the live list of connections and may skip a client;
* SponsorBlock is made and never started, so nothing is skipped;
* the window's "starting" may stay when a start is stopped.

Weaker facts than one would expect hold and are stated as such. Concurrent
logins exceed the limit by at most one for each further connection
(`Hub.TypeOK`). A server may be left without an owner in two ways
(`OneStarterNoOrphan`): two threads of the launcher start one at once; or the
window is closed during a restart - `closeEvent` finds nothing running, the
worker then starts a server in a session of its own, and the launcher exits.
With one starter and no restart cut short there is no third way. A migration
destroys no row (`NoRowIsDestroyed`), but it may leave rows where nobody looks:
after a crash between the rename and the copy they stay in
`songs_old_migration`, and the next boot finds a new, empty `songs` and does not
copy them back. A path may be lost to a deletion that overlaps a download
(`KeptIsKept` lets it go while something deletes). The interleaver keeps songs
of an artist apart only while others are left (`AdjacentOnlyAtTheEnd`). The
reward cache may count an event twice but never misses one (`CacheKeepsUp`).

## 4. Fairness

`Playback`: every task keeps running (`SF`, since the guard of a waiting task
comes and goes with the lock; `asyncio.Lock` wakes its waiters first come first
served), and the observer reads on. No fairness for clients and for mpv ending
files. `TasksEnd` then says that no interleaving of failures, cancellations and
locks keeps a task waiting for ever; the loop of failing tracks ends because the
breaker does. `Downloads`: the loop runs callbacks and tasks, and a yt-dlp thread
ends, which its socket timeouts and retry limits ensure. `MpvLink`: callers, the
observer and the start-up tasks run, timers fire; nothing is assumed of mpv, which
may be missing or silent, and nothing of how often it sends events. `Library`:
weak fairness of each task's turn - the loop runs what is ready, the database
answers, threads and extractions end; nothing is assumed of requests and of the
world. The other modules state safety only and need none.

## 5. Proofs

Eight modules hold theorems about the eleven models below. A theorem holds for every
value of the constants under the assumption of its model
(`PlaybackAssumption`, `HubAssumption`, `LogBounds` and so on), which the runs
evaluate. These assumptions say which constants are numbers and which sets are
finite; the two that say more are named below.
TLC checked each property on its run first, and the inductive invariants that it
can evaluate; they were then proved action by action: a lemma says what a kind of step leaves alone, and each action is
judged by the kind it is of.

| model | proved for every instance |
|---|---|
| `Playback` | TypeOK, LockDiscipline, TrackedAreRadio, NowPlayingIsOurs, LoadIsGuarded, BreakerBudget, QueueModeSettles, PlaysSerially |
| `Downloads` | TypeOK, OneDownload, ProgressIsLive, CancelsOnlyItsOwn |
| `MpvLink` | AnswerIsOwn, PendingIsWaited |
| `Library` | TypeOK, KeptIsKept |
| `Radio` | TypeOK, QueueIsVaried, AdjacentOnlyAtTheEnd |
| `Discover` | CacheKeepsUp, SectionsAgree, SearchKnowsTheHistory |
| `Hub` | TypeOK, NothingLeaks, ViewConverges |
| `Server` | NoRowIsDestroyed, OneStarterNoOrphan |
| `Track` | GainAgrees, NeverClips, TasksAreHeld, LyricsFollow |
| `RepoIndex` | CacheIsTruthful, NoCycleGetsPast, GeneratorTakesHold |
| `Patchlog` | EntriesSurvive, AddAloneIsExact; that a log the check does not fail is readable |

**Playback**, in three parts. `Inv` adds to the types what a task may be doing at
each place (`Fits`): a task before or inside `play_track` has a track and an
operation that plays, only next or an advance refills, and so on. Without it
neither lock fact is inductive: that a command gives `_lock` back depends on
which operations can be at which place. The tasks not touched keep their facts
(`Untouched`), the one that moves is looked at alone, and `Deactivate`, which
touches many, sets every tracked task to `Idle` and frees `_play_lock` exactly
when a tracked task had it; since tracked tasks are radio tasks they never hold
`_lock`. `Safe` says what the locks are for. A step is either quiet (`Quiet`: no
task moves inside `play_track`, the shown track can only be cleared, failures
only be reset), or an end of a file, or a step of `play_track` by its one holder
(`StepKinds`). So the track, mpv and `_loading` stay in the hands of the task
inside (`InHand`). The breaker's bound needs that an advance is never more than
one ahead of the failures (`OneAhead`; a stop during the sleep resets the one and
not the other). QUEUE mode settles because a shown LOADING always has a task that
will clear it (`LoadingIsCleared`), which needs that the shuffle button's task
cannot meet QUEUE mode (`ShufflesRadio`). The refinement uses the same division:
a quiet step lets requests appear and be withdrawn, or is a stutter, and each
step of the holder maps to the abstract step of the same meaning.

**Downloads.** All reports under way belong to the one job there is, an outcome is
the last of them and comes when the thread has ended, and a raised `is_cancelled`
seen by a running thread was asked for. That callbacks run in order is what keeps
a late report from bringing the bar back.

**MpvLink.** Request numbers are given out once, so a line on its way carries a
number of the past, and the property that number was asked for by whoever still
waits for it (`Faithful`). A caller that gives up takes its entry along; one that
asks again gets a number no line can carry yet.

**Library.** Each statement of the repository has a lemma that says what it may do
to a row (`Careful`: it takes away neither the row nor a play, a path only if it
may clear one, a favourite only if it may toggle it). An action is then judged by
the statement it issues and the request it belongs to, however old the row it
holds.

**Radio.** Both lists are varied (`Varied`: no song and no title twice, no artist
above the quota), and every step cuts a piece from one, takes one whole, or puts
a batch behind the queue. A batch has been filtered against the very list it is
appended to, in the same turn, so nothing that overlaps can come between, and
queue and batch together keep the quota because the places of an artist in the
one and in the other add up. For the standby, the interleaver works in rounds: the
artist of the i-th song has had a song in every round before, so where two songs
of one artist meet, every other artist is used up.

**Discover.** A task that recorded an event has two answers to collect before it
changes the cache, a task that reads the rows two before it fills it. Answers come
in the order of the statements (`Joins`, `GoesRound`, `Leaves`), so an event that
came too late for the rows is applied after them (`After`). Therefore what rows
or the cache lack is never more than what is on its way (`RowsKeepUp`,
`CacheIsAhead`). For the search, a list that is not full cannot have been cut, nor
can what it was merged from, and its rows are one for each video found. For the
sections, what each statement read is related to what the tables hold now, and
events only add: an artist ranked under for-you stays met, so it cannot be under
unheard later; one that was in neither had its first event between the two
statements, and is among those the page was opened as strangers to (`PageInv`
says this of each page underway, section by section). The same goes for
the genre: a song that has been played when the genre is read is in the history
the favourites came from, or was first played since. That an
artist with an event is told from one without by the numbers in the table is
arithmetic: an end raises one of them and a skip the other, in whatever order
they come, so the two are never both at their start again.

**Hub.** What a handler may still do to a counter is the rest of its quota: a login
that passed the check may fail once more, so the failures exceed the limit by no
more than the handlers that are past the check; a change of the player that is
to come is counted in the same way. `Without` (what `list.remove` leaves)
is a recursive function; the facts about it come by induction over its length,
and the induction from the library's theorem that the finite subsets of a set are
well-founded by inclusion (`Induct`).

**Server.** One process at a time is inside of a write transaction, what it sees
has every row the file has, and the old table is dropped only where each of its
rows is in the new one, so a death or a failing statement at any point leaves
the rows in one of the two. For the launcher, a thread that is about to start a
server has seen that no other process runs, as long as it is the only one; and
when the window is closed, what runs is stopped, and a worker that could still
start a server is in the middle of a restart (`Closing`).

**Track.** A gain is computed from the row of the track whose play asked for it,
before anything of that track is heard. A handle names the only task of its kind:
whoever sets it cancels the one before. Fetches of lyrics have different
generations, and while a track is heard, or on its way to be, the last is of that
track. The exception is a restore after a reconnect that meets a play: what it
was to restore and whether it crossed the last play is remembered (`restore`,
`crossed`), and the theorems about gain, headroom and lyrics are about plays no
restore has crossed; `track_restore` shows that they need to be.

**RepoIndex.** A load takes the stamp of a file before it reads it, and a change of
the file moves the stamp; therefore what a load has read and what a cache holds
is true of every file that still has its stamp (`IndexInv`), whichever of two
overlapping loads saves last, and the reverse edges are computed from the imports
they are stored with. The lint's theorem rests on `KnownClosesNoCycle`: any set of
restricted layers has one that is neither allowed nor tolerated to import from any
other of them. Nothing in `arch_rules` enforces this; the configuration takes its
tolerated import from there, and TLC evaluates the assumption on it.
`GeneratorTakesHold` is about documents with any number of markers in either
spelling: what
`replace_marker_block` leaves is a function of the length that remains, and that
this function exists and yields documents is an induction over that length.

**Patchlog.** The readers pick what they want from a text by places, so headings
and entries are counted as sets of places. Each entry has a heading of its own,
the first of its chunk, so there are never more entries than headings; if there
are fewer, either two headings are equal or one is not the number of any entry,
and the check looks for both (`CheckedLogIsReadable`; it is a fact about one text
and says nothing of headings that are gone). For `EntriesSurvive`, a run that
read the log before a heading came was underway when it came, so every run that
is still to write has all the headings that came undisturbed, and `add` itself
takes none away. For a run of `add` that
had the log to itself (`AddAloneIsExact`), a rule cuts a text in two, and each part is read as if it
stood alone (`RuleSplits`, `HeadingsConcat`, `ParseConcat`); the entry goes in
directly below the notice at the top and brings a rule along, so what follows is
read as before. The invariant this needs (`AloneInv`) is that the log is empty,
while somebody writes it, or starts with the notice, and that a run nobody
disturbed holds the log as it is. The property is stated for numbers of three
digits: the entry after number 999 gets a heading that no reader takes for one.
`LogBounds` has the bounds of the counters, and that they are below that limit.

Only model-checked: the liveness properties `Playback.TasksEnd`, `DownloadsEnd`,
`CallsReturn`, `ResumeGoesOn` and `Library.TasksEnd`, which are beyond the proof
system. What recursive functions and folds compute is proved where it matters
here by induction over finite sets or numbers, from the theorem that every set of
numbers has a smallest member and that of well-founded inclusion.

## 6. Not modelled

* Logging and metrics, the browser's code and the drawing of widgets change no
  state of the player. Serializers, pages, compression and traffic counters
  translate or count.
* The wake lock, the connectivity check and the watchdog of mpv. The watchdog may
  show an error while the first connect is still trying; the resume then reads
  that error and does nothing (`startup_tasks.py:93`).
* The subscriber table of the event bus with its weak references. That a command
  runs in its sender's task and a publisher waits for coroutine handlers is built
  into the modules.
* Playback speed and the equaliser: one setting each, with nothing to race.
* YouTube search, yt-dlp's options, the draws of the bandit and the decay of its
  rewards, the text of lyrics and messages: data no property tells apart.
* Password hashing and ffmpeg's measurement are outcomes.
* The remaining automation (scaffolding, reports, doctor, exports) are single runs
  that read the tree: no state of their own, nothing to interleave.
* A file is replaced as a whole: two `write_text` of the same file at once (cache,
  index document, patch log) could leave the tail of the longer text behind the
  shorter one.
* Compositions: `Playback` leaves open what `Radio` decides, `Track` what
  `Playback` plays and what `MpvLink` delivers. Each module takes the other's part
  as any possible behaviour, which is sound for its own properties; the products
  are beyond TLC with bounds at which anything happens.

## 7. Plan

Done: runs for all the modules above, and a proof of each safety and each action
property the passing runs check. What is left would extend the models, most important first:

1. The composition of `Playback` and `Radio` under an abstract queue: the batches
   `Playback` leaves open are those `RadioProofs` describes.
2. The watchdog of mpv beside the first connect (section 6).
3. The subscriber table of the event bus, with subscribers that disappear.
