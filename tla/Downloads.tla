----------------------------- MODULE Downloads ------------------------------
(***************************************************************************)
(* Downloads of LunaWave: DownloadManager (engine/download_manager.py) and *)
(* the YtDlpDownloader it drives (adapters/ytdlp/downloader.py).  The      *)
(* manager runs on the event loop; yt-dlp runs in a thread of the pool and *)
(* reports through call_soon_threadsafe, so its reports reach the loop     *)
(* late, but in order.  One action is one turn of a task between two       *)
(* awaits, one report of the thread, or one callback of the loop.          *)
(***************************************************************************)
EXTENDS Naturals, Sequences, FiniteSets

CONSTANTS
    Job,          \* bound: _do_download tasks that may exist at one time
    MaxCmds,      \* bound: commands received
    MaxCallbacks  \* bound: progress reports on their way to the loop

ASSUME DownloadsAssumption ==
    /\ IsFiniteSet(Job)
    /\ MaxCmds \in Nat
    /\ MaxCallbacks \in Nat \ {0}

VARIABLES
    pc,         \* where each _do_download task stands
    scheduled,  \* DownloadManager._download_scheduled
    progress,   \* state.download_progress: none, zero or some part
    cancelled,  \* YtDlpDownloader.is_cancelled
    thread,     \* the jobs whose yt-dlp thread is running
    callbacks,  \* what threads have posted to the loop, oldest first
    asked,      \* history variable: a cancel was accepted for the job underway
    cmds        \* counter of the bound MaxCmds

vars == <<pc, scheduled, progress, cancelled, thread, callbacks, asked, cmds>>

Outcomes == {"done", "failed", "aborted"}
Pcs == {"idle", "queued", "begun", "fetching", "closing"} \cup Outcomes
Report(j, kind) == [job |-> j, kind |-> kind]
Reports == [job : Job, kind : Outcomes \cup {"progress"}]

(* _download_lock is held from the start of the task's body to its end.     *)
Locked == \E j \in Job : pc[j] \notin {"idle", "queued"}

(* Mutant of Busy: the test before the flag was added (download_manager:54).*)
BusyWhenLocked == Locked

Busy == Locked \/ scheduled

Goto(j, label) == pc' = [pc EXCEPT ![j] = label]
Receive == cmds < MaxCmds /\ cmds' = cmds + 1

Init ==
    /\ pc = [j \in Job |-> "idle"]
    /\ scheduled = FALSE
    /\ progress = "none"
    /\ cancelled = FALSE
    /\ thread = {}
    /\ callbacks = <<>>
    /\ asked = FALSE
    /\ cmds = 0

-----------------------------------------------------------------------------
(* CMD_DOWNLOAD.  Refused without a track, for a track that is saved (both  *)
(* are a matter of the request) and while another download is underway.     *)
OnDownload ==
    /\ Receive
    /\ \/ UNCHANGED <<pc, scheduled>>
       \/ /\ ~Busy
          /\ \E j \in Job : pc[j] = "idle" /\ Goto(j, "queued")
          /\ scheduled' = TRUE
    /\ UNCHANGED <<progress, cancelled, thread, callbacks, asked>>

(* CMD_CANCEL_DOWNLOAD: accepted whenever the lock is held.                 *)
OnCancel ==
    /\ Receive
    /\ cancelled' = (cancelled \/ Locked)
    /\ asked' = (asked \/ Locked)
    /\ UNCHANGED <<pc, scheduled, progress, thread, callbacks>>

(* The task gets the lock, shows 0.0 and announces itself, which is an await.*)
Begin(j) ==
    /\ pc[j] = "queued"
    /\ ~Locked
    /\ Goto(j, "begun")
    /\ progress' = "zero"
    /\ asked' = FALSE
    /\ UNCHANGED <<scheduled, cancelled, thread, callbacks, cmds>>

(* Mutant of Fetch: the flag of an earlier cancel is left standing.         *)
FetchKeepsCancel(j) ==
    /\ pc[j] = "begun"
    /\ Goto(j, "fetching")
    /\ thread' = thread \cup {j}
    /\ UNCHANGED <<scheduled, progress, cancelled, callbacks, asked, cmds>>

(* download_audio: is_cancelled is reset and the thread is started, unless  *)
(* the cache directory cannot be made.                                      *)
Fetch(j) ==
    /\ pc[j] = "begun"
    /\ cancelled' = FALSE
    /\ \/ Goto(j, "fetching") /\ thread' = thread \cup {j}
       \/ Goto(j, "failed") /\ thread' = thread
    /\ UNCHANGED <<scheduled, progress, callbacks, asked, cmds>>

-----------------------------------------------------------------------------
(* The thread.  Its hooks run in the order they were given: the test of     *)
(* is_cancelled first, then the progress report.                            *)

Post(j, kind) == callbacks' = Append(callbacks, Report(j, kind))

HookProgress(j) ==
    /\ j \in thread
    /\ ~cancelled
    /\ Len(callbacks) < MaxCallbacks
    /\ Post(j, "progress")
    /\ UNCHANGED <<pc, scheduled, progress, cancelled, thread, asked, cmds>>

(* Mutant of HookCancelled: reports the cancel but does not stop the thread.*)
HookGoesOn(j) ==
    /\ j \in thread
    /\ cancelled
    /\ thread' = thread
    /\ Post(j, "aborted")
    /\ UNCHANGED <<pc, scheduled, progress, cancelled, asked, cmds>>

HookCancelled(j) ==
    /\ j \in thread
    /\ cancelled
    /\ thread' = thread \ {j}
    /\ Post(j, "aborted")
    /\ UNCHANGED <<pc, scheduled, progress, cancelled, asked, cmds>>

(* yt-dlp returns or raises, with no hook in between.                       *)
ThreadEnds(j) ==
    /\ j \in thread
    /\ thread' = thread \ {j}
    /\ \E kind \in {"done", "failed"} : Post(j, kind)
    /\ UNCHANGED <<pc, scheduled, progress, cancelled, asked, cmds>>

-----------------------------------------------------------------------------
(* Mutant of RunCallback: an unordered hand-over, newest report first.      *)
RunNewest ==
    /\ callbacks # <<>>
    /\ callbacks' = SubSeq(callbacks, 1, Len(callbacks) - 1)
    /\ LET r == callbacks[Len(callbacks)]
       IN IF r.kind = "progress" THEN progress' = "part" /\ UNCHANGED pc
                                 ELSE Goto(r.job, r.kind) /\ UNCHANGED progress
    /\ UNCHANGED <<scheduled, cancelled, thread, asked, cmds>>

(* The loop runs the oldest callback: _update_progress, or the wake-up of   *)
(* the task that waits for the thread.                                      *)
RunCallback ==
    /\ callbacks # <<>>
    /\ callbacks' = Tail(callbacks)
    /\ LET r == Head(callbacks)
       IN IF r.kind = "progress" THEN progress' = "part" /\ UNCHANGED pc
                                 ELSE Goto(r.job, r.kind) /\ UNCHANGED progress
    /\ UNCHANGED <<scheduled, cancelled, thread, asked, cmds>>

(* The task goes on: the file is moved to downloads/, or an exception is    *)
(* reported (the move may raise one too).  Either way progress goes and     *)
(* messages are published, which is an await.                               *)
Conclude(j) ==
    /\ pc[j] \in Outcomes
    /\ Goto(j, "closing")
    /\ progress' = "none"
    /\ UNCHANGED <<scheduled, cancelled, thread, callbacks, asked, cmds>>

(* Mutant of Release: the flag is not reset.                                *)
ReleaseKeepsFlag(j) ==
    /\ pc[j] = "closing"
    /\ Goto(j, "idle")
    /\ UNCHANGED <<scheduled, progress, cancelled, thread, callbacks, asked, cmds>>

(* finally: the flag goes, then the lock, in the same turn.                 *)
Release(j) ==
    /\ pc[j] = "closing"
    /\ Goto(j, "idle")
    /\ scheduled' = FALSE
    /\ UNCHANGED <<progress, cancelled, thread, callbacks, asked, cmds>>

TaskStep(j) == Begin(j) \/ Fetch(j) \/ Conclude(j) \/ Release(j)
ThreadStep(j) == HookProgress(j) \/ HookCancelled(j) \/ ThreadEnds(j)

(* Nothing is underway and the clients have sent all they will send.        *)
AtRest ==
    /\ cmds = MaxCmds /\ ~Busy /\ callbacks = <<>>
    /\ UNCHANGED vars

Next == \/ OnDownload \/ OnCancel \/ RunCallback \/ AtRest
        \/ \E j \in Job : TaskStep(j) \/ ThreadStep(j)

Spec == Init /\ [][Next]_vars

(* The loop runs what is ready, and yt-dlp's own timeouts end its thread.   *)
Fairness ==
    /\ WF_vars(RunCallback)
    /\ \A j \in Job : WF_vars(TaskStep(j)) /\ WF_vars(ThreadEnds(j) \/ HookCancelled(j))

FairSpec == Spec /\ Fairness

-----------------------------------------------------------------------------
(* Types; a thread posts its outcome once, so no more than one outcome is   *)
(* on its way beside the progress reports.                                  *)
TypeOK ==
    /\ pc \in [Job -> Pcs]
    /\ scheduled \in BOOLEAN
    /\ progress \in {"none", "zero", "part"}
    /\ cancelled \in BOOLEAN
    /\ thread \subseteq Job
    /\ callbacks \in Seq(Reports) /\ Len(callbacks) <= MaxCallbacks + 1
    /\ asked \in BOOLEAN
    /\ cmds \in 0 .. MaxCmds

(* One download at a time: two quick requests never leave two tasks, and    *)
(* the flag says exactly whether there is one (download_manager.py:54-66).  *)
OneDownload ==
    /\ \A i, j \in Job : pc[i] # "idle" /\ pc[j] # "idle" => i = j
    /\ scheduled <=> \E j \in Job : pc[j] # "idle"
    /\ \A j \in thread : pc[j] = "fetching"

(* download_progress is None exactly when no download is between its start  *)
(* and its outcome: a late report of the thread never brings back the bar   *)
(* of a download that has ended (state.py:116, "None = idle").              *)
ProgressIsLive ==
    progress # "none" <=> \E j \in Job : pc[j] \in {"begun", "fetching"} \cup Outcomes

(* A download is aborted only by a cancel that was accepted while that      *)
(* download held the lock, never by one meant for an earlier download.      *)
CancelsOnlyItsOwn ==
    /\ \A j \in Job : pc[j] = "aborted" => asked
    /\ \A i \in 1 .. Len(callbacks) : callbacks[i].kind = "aborted" => asked

(* Every accepted download ends, after which another can be started.        *)
DownloadsEnd == scheduled ~> ~Busy

=============================================================================
