------------------------------ MODULE Library -------------------------------
(***************************************************************************)
(* The catalogue of LunaWave: the rows of the table tracks (persistence/   *)
(* track_repo.py), the files in downloads/, and the tasks that read and    *)
(* write both: CacheResolver.resolve, StreamPrefetchService, serve_stream, *)
(* the download handlers, the cache eviction loop and the maintenance of   *)
(* the database.  Every task runs on the event loop and all of them share  *)
(* one aiosqlite connection, which serves statements in the order they     *)
(* were issued and answers them in that order.  A statement therefore      *)
(* takes effect when it is issued, with its commit, and the task goes on   *)
(* when its answer is the first in answers.  One action is one turn of a   *)
(* task between two awaits, or one step of the world outside.              *)
(***************************************************************************)
EXTENDS Naturals, Sequences, FiniteSets

CONSTANTS
    Task,      \* bound: tasks that may be underway at one time
    Video,     \* video ids
    File,      \* names "artist - title.ext" in downloads/
    FileOf,    \* the name a video's download gets
    MaxTasks   \* bound: tasks started

ASSUME LibraryAssumption ==
    /\ IsFiniteSet(Task) /\ IsFiniteSet(Video)
    /\ FileOf \in [Video -> File]
    /\ MaxTasks \in Nat

VARIABLES
    rows,     \* table tracks: what is stored of each video, or Absent
    files,    \* the files in downloads/
    gone,     \* the videos YouTube has removed, made private or blocked
    task,     \* what each task is doing
    answers,  \* the tasks whose statements wait for their answer, oldest first
    started   \* counter of the bound MaxTasks

vars == <<rows, files, gone, task, answers, started>>

Absent == [stored |-> FALSE]
Urls == {"none", "fresh", "stale"}    \* stale: older than STREAM_URL_TTL_SEC
Row == [url : Urls, path : BOOLEAN, played : BOOLEAN, fav : BOOLEAN, dead : BOOLEAN]
NewRow == [url |-> "none", path |-> FALSE, played |-> FALSE, fav |-> FALSE, dead |-> FALSE]
Kinds == {"resolve", "prefetch", "stream", "redirect", "ask", "download", "delete",
          "clear", "evict", "favourite"}
Pcs == {"reason", "row", "isfile", "fetch", "refetch", "save", "proxy", "loading",
        "moved", "listing", "wipe", "finish"}
Attempts == 2    \* PREFETCH_RETRY_ATTEMPTS, and the loop of serve_stream

Idle == [kind |-> "idle"]
Work == [kind : Kinds, v : Video, pc : Pcs, attempt : 1 .. Attempts, url : BOOLEAN,
         row : Row \cup {Absent}, chosen : SUBSET Video,
         doomed : SUBSET File]

Active(t) == task[t] # Idle
Answered(t) == answers # <<>> /\ Head(answers) = t
At(t, pc) == Active(t) /\ task[t].pc = pc
Is(t, kinds) == Active(t) /\ task[t].kind \in kinds

Goto(t, pc) == task' = [task EXCEPT ![t].pc = pc]
End(t) == task' = [task EXCEPT ![t] = Idle]

(* A task that only waits for one more answer forgets what it knew.         *)
LastWait(t) == task' = [task EXCEPT ![t] = [@ EXCEPT
    !.pc = "finish", !.row = Absent, !.attempt = 1, !.url = FALSE,
    !.chosen = {}, !.doomed = {}]]
Issue(t) == answers' = Append(answers, t)
Collect(t) == Answered(t) /\ answers' = Tail(answers)
CollectAndIssue(t) == Answered(t) /\ answers' = Append(Tail(answers), t)

Init ==
    /\ rows = [v \in Video |-> Absent]
    /\ files = {}
    /\ gone = {}
    /\ task = [t \in Task |-> Idle]
    /\ answers = <<>>
    /\ started = 0

-----------------------------------------------------------------------------
(* The statements of TrackRepository.                                       *)

Stored(v) == rows[v] # Absent
RowOrNew(v) == IF Stored(v) THEN rows[v] ELSE NewRow
Update(v, row) == IF Stored(v) THEN [rows EXCEPT ![v] = row] ELSE rows

(* Mutant of UpsertUrl: without COALESCE the upsert writes every column.    *)
UpsertAllColumns(v) ==
    [rows EXCEPT ![v] = [RowOrNew(v) EXCEPT !.url = "fresh", !.path = FALSE]]

(* upsert_track(track, stream_url = url): COALESCE keeps the local path.    *)
UpsertUrl(v) == [rows EXCEPT ![v] = [RowOrNew(v) EXCEPT !.url = "fresh"]]

(* upsert_track(track, local_path = path).                                  *)
UpsertPath(v) == [rows EXCEPT ![v] = [RowOrNew(v) EXCEPT !.path = TRUE]]

(* update_stream_url_only: nothing happens to a video without a row.        *)
UpdateUrlOnly(v) == Update(v, [rows[v] EXCEPT !.url = "fresh"])

ClearPaths(vs) ==
    [v \in Video |-> IF v \in vs /\ Stored(v) THEN [rows[v] EXCEPT !.path = FALSE] ELSE rows[v]]

IncrementPlayCount(v) == Update(v, [rows[v] EXCEPT !.played = TRUE])
ToggleFavourite(v) == Update(v, [rows[v] EXCEPT !.fav = ~@])
MarkUnavailable(v) == [rows EXCEPT ![v] = [RowOrNew(v) EXCEPT !.dead = TRUE]]

(* What evict_stale_tracks may delete: a row nobody has played, saved or    *)
(* liked, whose stream URL was never fetched or is old.  An unavailable     *)
(* video is such a row.                                                     *)
Deletable(v) ==
    Stored(v) /\ ~rows[v].played /\ ~rows[v].path /\ ~rows[v].fav

-----------------------------------------------------------------------------
(* The world outside.                                                       *)

Expire(v) ==
    /\ Stored(v) /\ rows[v].url = "fresh"
    /\ rows' = [rows EXCEPT ![v].url = "stale"]
    /\ UNCHANGED <<files, gone, task, answers, started>>

Vanish(v) ==
    /\ v \notin gone
    /\ gone' = gone \cup {v}
    /\ UNCHANGED <<rows, files, task, answers, started>>

(* The server is killed and started again; no statement spans two commits.  *)
Restart ==
    /\ \E t \in Task : Active(t)
    /\ task' = [t \in Task |-> Idle]
    /\ answers' = <<>>
    /\ UNCHANGED <<rows, files, gone, started>>

(* db_maintenance at the start and every six hours: one DELETE.  A stale    *)
(* URL may or may not be thirty days old.                                   *)
EvictStaleTracks ==
    /\ \E old \in SUBSET {v \in Video : Stored(v) /\ rows[v].url = "stale"} :
         LET out == {v \in Video : Deletable(v) /\ (rows[v].url = "none" \/ v \in old)}
         IN out # {} /\ rows' = [v \in Video |-> IF v \in out THEN Absent ELSE rows[v]]
    /\ UNCHANGED <<files, gone, task, answers, started>>

-----------------------------------------------------------------------------
(* How a task starts.  First(kind) is where it stops first; all but a       *)
(* listing of the directory issue a statement there.                        *)

First(kind) == CASE kind \in {"resolve", "stream", "redirect"} -> "reason"
                 [] kind \in {"clear", "evict"} -> "listing"
                 [] kind = "download" -> "loading"
                 [] OTHER -> "row"

Asks(kind) == First(kind) \in {"reason", "row"}

Begun(kind, v) ==
    [kind |-> kind, v |-> v, pc |-> First(kind), attempt |-> 1, url |-> FALSE,
     row |-> IF Asks(kind) THEN rows[v] ELSE Absent,
     chosen |-> {}, doomed |-> {}]

Start(t, kind, v) ==
    /\ ~Active(t) /\ started < MaxTasks
    /\ task' = [task EXCEPT ![t] = Begun(kind, v)]
    /\ answers' = IF Asks(kind) THEN Append(answers, t) ELSE answers
    /\ started' = started + 1
    /\ UNCHANGED <<rows, files, gone>>

(* The download manager holds its lock (Downloads models it in detail).     *)
Downloading == \E t \in Task : Is(t, {"download"})

(* download_confirm_overwrite: the command goes to the manager as it is.    *)
Overwrite(t, v) == ~Downloading /\ Start(t, "download", v)

-----------------------------------------------------------------------------
HasFresh(row) == row # Absent /\ row.url = "fresh"
HasPath(row) == row # Absent /\ row.path
BeginFetch(t) ==
    task' = [task EXCEPT ![t].pc = "fetch", ![t].row = Absent]

(* get_unavailable_reason (Rule 0).  The answer is that of the moment the   *)
(* statement was issued, which the task's row holds.                        *)
Reason(t) ==
    /\ At(t, "reason") /\ Is(t, {"resolve", "stream", "redirect", "prefetch"})
    /\ LET v == task[t].v
           dead == task[t].row # Absent /\ task[t].row.dead
       IN \/ dead /\ Collect(t) /\ End(t)
          \/ ~dead /\ Is(t, {"prefetch"}) /\ Collect(t)
             /\ BeginFetch(t)
          \/ ~dead /\ ~Is(t, {"prefetch"}) /\ CollectAndIssue(t)
             /\ task' = [task EXCEPT ![t].pc = "row", ![t].row = rows[v]]
    /\ UNCHANGED <<rows, files, gone, started>>

(* CacheResolver.resolve: the saved file, then the stored URL, then yt-dlp. *)
ResolveRow(t) ==
    /\ At(t, "row") /\ Is(t, {"resolve"})
    /\ \/ HasPath(task[t].row) /\ Collect(t) /\ Goto(t, "isfile") /\ UNCHANGED rows
       \/ ~HasPath(task[t].row) /\ HasFresh(task[t].row)
          /\ CollectAndIssue(t) /\ LastWait(t)
          /\ rows' = IncrementPlayCount(task[t].v)
       \/ ~HasPath(task[t].row) /\ ~HasFresh(task[t].row)
          /\ Collect(t) /\ BeginFetch(t) /\ UNCHANGED rows
    /\ UNCHANGED <<files, gone, started>>

(* os.path.isfile in a thread.  The URL is judged by the row read before.   *)
ResolveFile(t) ==
    /\ At(t, "isfile")
    /\ \/ /\ FileOf[task[t].v] \in files \/ HasFresh(task[t].row)
          /\ Issue(t) /\ LastWait(t)
          /\ rows' = IncrementPlayCount(task[t].v)
       \/ /\ FileOf[task[t].v] \notin files /\ ~HasFresh(task[t].row)
          /\ BeginFetch(t)
          /\ UNCHANGED <<rows, answers>>
    /\ UNCHANGED <<files, gone, started>>

(* prefetch_stream_url reads the row first and asks for the reason then.    *)
PrefetchRow(t) ==
    /\ At(t, "row") /\ Is(t, {"prefetch"})
    /\ \/ HasFresh(task[t].row) /\ Collect(t) /\ End(t)
       \/ ~HasFresh(task[t].row) /\ CollectAndIssue(t)
          /\ task' = [task EXCEPT ![t].pc = "reason", ![t].row = rows[task[t].v]]
    /\ UNCHANGED <<rows, files, gone, started>>

(* serve_stream with the row: a redirect, or the first attempt of the proxy.*)
StreamRow(t) ==
    /\ At(t, "row") /\ Is(t, {"stream", "redirect"})
    /\ Collect(t)
    /\ \/ HasFresh(task[t].row) /\ Is(t, {"redirect"}) /\ End(t)
       \/ HasFresh(task[t].row) /\ Is(t, {"stream"})
          /\ task' = [task EXCEPT ![t].pc = "proxy", ![t].url = TRUE, ![t].row = Absent]
       \/ ~HasFresh(task[t].row) /\ BeginFetch(t)
    /\ UNCHANGED <<rows, files, gone, started>>

-----------------------------------------------------------------------------
(* YtDlpResolver.get_stream_url and what each caller makes of its outcome.  *)

(* The URL is stored; the upsert of resolve makes the row if there is none. *)
Save(t) ==
    /\ Goto(t, "save") /\ Issue(t)
    /\ rows' = IF Is(t, {"resolve"}) THEN UpsertUrl(task[t].v) ELSE UpdateUrlOnly(task[t].v)

(* VideoUnavailableError: every caller has the video marked and gives up.   *)
Mark(t) ==
    /\ LastWait(t) /\ Issue(t)
    /\ rows' = MarkUnavailable(task[t].v)

(* Mutant of Retry: a retry does not use up an attempt.                     *)
RetryForFree(t) == task' = [task EXCEPT ![t].pc = "fetch", ![t].url = FALSE]

Retry(t) == task' = [task EXCEPT ![t].pc = "fetch", ![t].url = FALSE,
                                 ![t].attempt = @ + 1]

(* Any other error: the prefetch and the proxy try once more, the prefetch  *)
(* not against a rate limit.                                                *)
GiveUpOn(t, kind) ==
    /\ \/ /\ task[t].attempt < Attempts
          /\ Is(t, {"stream"}) \/ (Is(t, {"prefetch"}) /\ kind # "limited")
          /\ Retry(t)
       \/ /\ \/ task[t].attempt = Attempts
             \/ Is(t, {"resolve", "redirect"})
             \/ Is(t, {"prefetch"}) /\ kind = "limited"
          /\ End(t)
    /\ UNCHANGED <<rows, answers>>

(* yt-dlp tells why it failed in a text.  What matters of a text is which of *)
(* the three groups of phrases of classify_ytdlp_error occur in it; a video  *)
(* that is gone and a rate limit may both be "unavailable".                  *)
Says(cause) ==
    CASE cause = "gone" -> {{"gone"}}
      [] cause = "bot" -> {{"bot"}}
      [] cause = "limited" -> {{"limited"}, {"gone"}, {"limited", "gone"}}
      [] OTHER -> {{}}
Causes(v) == {"bot", "limited", "other"} \cup (IF v \in gone THEN {"gone"} ELSE {})

Classify(said) ==
    IF "bot" \in said THEN "bot"
    ELSE IF "limited" \in said THEN "limited"
    ELSE IF "gone" \in said THEN "gone" ELSE "other"

(* What get_stream_url raises, after a failure of the fallback client too.   *)
Raises(t, class) ==
    \/ class = "gone" /\ Mark(t)
    \/ class # "gone" /\ GiveUpOn(t, class)

(* One extraction: a URL, a text of yt-dlp, or a timeout.  The first bot     *)
(* check is answered by one extraction with the fallback client, after which *)
(* a failure of no class is a bot check still.                               *)
Extract(t) ==
    /\ At(t, "fetch") \/ At(t, "refetch")
    /\ \/ task[t].v \notin gone /\ Save(t)
       \/ GiveUpOn(t, "other")
       \/ \E cause \in Causes(task[t].v) : \E said \in Says(cause) :
            LET class == Classify(said) IN
            \/ /\ At(t, "fetch") /\ class = "bot"
               /\ Goto(t, "refetch") /\ UNCHANGED <<rows, answers>>
            \/ At(t, "fetch") /\ class # "bot" /\ Raises(t, class)
            \/ At(t, "refetch") /\ Raises(t, IF class = "other" THEN "bot" ELSE class)
    /\ UNCHANGED <<files, gone, started>>

Saved(t) ==
    /\ At(t, "save")
    /\ \/ Is(t, {"resolve"}) /\ CollectAndIssue(t) /\ LastWait(t)
          /\ rows' = IncrementPlayCount(task[t].v)
       \/ Is(t, {"stream"}) /\ Collect(t) /\ UNCHANGED rows
          /\ task' = [task EXCEPT ![t].pc = "proxy", ![t].url = TRUE]
       \/ Is(t, {"prefetch", "redirect"}) /\ Collect(t) /\ End(t) /\ UNCHANGED rows
    /\ UNCHANGED <<files, gone, started>>

(* The proxy of serve_stream: the stream is passed on, the URL is not of a  *)
(* host that is allowed, or it has expired or broken, which is good for one *)
(* more attempt with a new URL even when a part has been sent.              *)
Proxy(t) ==
    /\ At(t, "proxy")
    /\ End(t) \/ (task[t].attempt < Attempts /\ Retry(t))
    /\ UNCHANGED <<rows, files, gone, answers, started>>

-----------------------------------------------------------------------------
(* Downloads and the files they leave.                                      *)

(* "download": a file that is there already is a conflict the client must   *)
(* confirm; otherwise the manager takes the command, or refuses it.         *)
AskRow(t) ==
    /\ At(t, "row") /\ Is(t, {"ask"})
    /\ Collect(t)
    /\ LET conflict == HasPath(task[t].row) /\ FileOf[task[t].v] \in files
       IN \/ ~conflict /\ ~Downloading
             /\ task' = [task EXCEPT ![t].kind = "download", ![t].pc = "loading", ![t].row = Absent]
          \/ (conflict \/ Downloading) /\ End(t)
    /\ UNCHANGED <<rows, files, gone, started>>

(* The file is moved to downloads/, over the one that was there; when the   *)
(* download fails that one stays, unless it is the move that failed.        *)
Download(t) ==
    /\ At(t, "loading")
    /\ LET file == FileOf[task[t].v]
       IN \/ files' = files \cup {file} /\ Goto(t, "moved")
          \/ files' \in {files, files \ {file}} /\ End(t)
    /\ UNCHANGED <<rows, gone, answers, started>>

(* _on_download_complete, after the broadcasts: the path is stored, and the *)
(* queries for the discover page are answered after it.                     *)
StoreDownload(t) ==
    /\ At(t, "moved")
    /\ LastWait(t) /\ Issue(t)
    /\ rows' = UpsertPath(task[t].v)
    /\ UNCHANGED <<files, gone, started>>

(* delete_download: the file and the path go in one turn.                   *)
DeleteRow(t) ==
    /\ At(t, "row") /\ Is(t, {"delete"})
    /\ \/ /\ HasPath(task[t].row) /\ CollectAndIssue(t) /\ LastWait(t)
          /\ files' \in {files, files \ {FileOf[task[t].v]}}
          /\ rows' = ClearPaths({task[t].v})
       \/ /\ ~HasPath(task[t].row) /\ Collect(t) /\ End(t)
          /\ UNCHANGED <<rows, files>>
    /\ UNCHANGED <<gone, started>>

(* A thread lists downloads/: to empty it (clear_cache) or to know its size,*)
(* which is followed by a query for the rows with a path, least recent first.*)
List(t) ==
    /\ At(t, "listing")
    /\ \/ /\ Is(t, {"clear"})
          /\ task' = [task EXCEPT ![t].pc = "wipe", ![t].chosen = Video, ![t].doomed = files]
          /\ UNCHANGED answers
       \/ /\ Is(t, {"evict"}) /\ files # {}
          /\ Issue(t)
          /\ task' = [task EXCEPT ![t].pc = "row",
                                  ![t].chosen = {v \in Video : Stored(v) /\ rows[v].path}]
       \/ Is(t, {"evict"}) /\ End(t) /\ UNCHANGED answers
    /\ UNCHANGED <<rows, files, gone, started>>

(* The oldest rows until enough would be freed; rows without a file too.    *)
EvictRow(t) ==
    /\ At(t, "row") /\ Is(t, {"evict"})
    /\ Collect(t)
    /\ \/ task[t].chosen = {} /\ End(t)
       \/ \E vs \in SUBSET task[t].chosen \ {{}} :
             task' = [task EXCEPT ![t].pc = "wipe", ![t].chosen = vs,
                                  ![t].doomed = {FileOf[v] : v \in vs} \cap files]
    /\ UNCHANGED <<rows, files, gone, started>>

(* The thread removes them; the task then clears the paths.                 *)
Wipe(t) ==
    /\ At(t, "wipe")
    /\ files' = files \ task[t].doomed
    /\ rows' = ClearPaths(task[t].chosen)
    /\ Issue(t) /\ LastWait(t)
    /\ UNCHANGED <<gone, started>>

(* toggle_favorite has no caller in src/: its task is what one would do.    *)
FavouriteRow(t) ==
    /\ At(t, "row") /\ Is(t, {"favourite"})
    /\ \/ /\ task[t].row # Absent /\ CollectAndIssue(t) /\ LastWait(t)
          /\ rows' = ToggleFavourite(task[t].v)
       \/ task[t].row = Absent /\ Collect(t) /\ End(t) /\ UNCHANGED rows
    /\ UNCHANGED <<files, gone, started>>

Finish(t) ==
    /\ At(t, "finish")
    /\ Collect(t) /\ End(t)
    /\ UNCHANGED <<rows, files, gone, started>>

-----------------------------------------------------------------------------
Turn(t) ==
    \/ Reason(t) \/ ResolveRow(t) \/ ResolveFile(t) \/ PrefetchRow(t) \/ StreamRow(t)
    \/ Extract(t) \/ Saved(t) \/ Proxy(t) \/ AskRow(t) \/ Download(t) \/ StoreDownload(t)
    \/ DeleteRow(t) \/ List(t) \/ EvictRow(t) \/ Wipe(t) \/ FavouriteRow(t) \/ Finish(t)

World == Restart \/ EvictStaleTracks \/ \E v \in Video : Expire(v) \/ Vanish(v)

Requests == \E t \in Task, v \in Video :
    Overwrite(t, v) \/ \E kind \in Kinds \ {"download"} : Start(t, kind, v)

Next == World \/ Requests \/ \E t \in Task : Turn(t)

Spec == Init /\ [][Next]_vars

(* The loop runs what is ready; threads, extractions and downloads end.     *)
Fairness == \A t \in Task : WF_vars(Turn(t))
FairSpec == Spec /\ Fairness

-----------------------------------------------------------------------------
TypeOK ==
    /\ rows \in [Video -> Row \cup {Absent}]
    /\ files \subseteq File
    /\ gone \subseteq Video
    /\ \A t \in Task : Active(t) => task[t] \in Work
    /\ started \in 0 .. MaxTasks

(* A video is recorded as unavailable for good only when it is: "rate-limit  *)
(* BUKAN video yang permanen mati" (test_stream_prefetch.py), and what       *)
(* mark_unavailable says of its callers.                                     *)
MarkedIsGone == \A v \in Video : Stored(v) /\ rows[v].dead => v \in gone

(* What the user keeps is never lost to a task that works with an old row:  *)
(* a favourite, played or saved track keeps its row, its path goes only     *)
(* while something deletes files, the favourite only by a toggle; and no    *)
(* later upsert takes back that the video is unavailable.                   *)
KeptIsKept ==
    [][\A v \in Video : Stored(v) =>
          /\ ~Stored(v)' => ~(rows[v].played \/ rows[v].path \/ rows[v].fav)
          /\ Stored(v)' =>
               /\ rows[v].path /\ ~rows'[v].path
                    => \E t \in Task : Is(t, {"delete", "clear", "evict"})
               /\ rows[v].fav # rows'[v].fav => \E t \in Task : Is(t, {"favourite"})
               /\ rows[v].played => rows'[v].played
               /\ rows[v].dead => rows'[v].dead]_vars

(* Every task ends: retries are bounded and every error has a way out.      *)
TasksEnd == \A t \in Task : Active(t) ~> ~Active(t)

=============================================================================
