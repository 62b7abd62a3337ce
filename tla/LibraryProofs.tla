---------------------------- MODULE LibraryProofs ---------------------------
(***************************************************************************)
(* Proofs about Library for any sets of tasks, videos and files.  Every    *)
(* statement of TrackRepository gets one lemma that says what it may do to *)
(* a row; an action of a task is then judged by the statement it issues.   *)
(***************************************************************************)
EXTENDS Library, TLAPS

(* Only the two requests that list downloads/ ever remove what they listed. *)
WipesFit == \A t \in Task : At(t, "wipe") => Is(t, {"clear", "evict"})

Types ==
    /\ rows \in [Video -> Row \cup {Absent}]
    /\ files \subseteq File
    /\ gone \subseteq Video
    /\ task \in [Task -> Work \cup {Idle}]
    /\ started \in 0 .. MaxTasks

Inv == Types /\ WipesFit

(* What a new table r takes away from this one, unless it is allowed to.    *)
Careful(r, mayClear, mayToggle) ==
    /\ r \in [Video -> Row \cup {Absent}]
    /\ \A w \in Video :
          /\ Stored(w) =>
                /\ r[w] # Absent
                /\ rows[w].path /\ ~r[w].path => mayClear
                /\ rows[w].fav # r[w].fav => mayToggle
                /\ rows[w].played => r[w].played
                /\ rows[w].dead => r[w].dead

LEMMA AbsentIsNoRow == Absent \notin Row
BY DEF Absent, Row

LEMMA NewIsARow == NewRow \in Row
BY DEF NewRow, Row, Urls

LEMMA RowsAre ==
    ASSUME Types, NEW v \in Video
    PROVE  /\ Stored(v) => rows[v] \in Row
           /\ RowOrNew(v) \in Row
           /\ Stored(v) => RowOrNew(v) = rows[v]
           /\ ~Stored(v) => RowOrNew(v) = NewRow
BY NewIsARow DEF Types, Stored, RowOrNew

(* Writing one row is careful when the new row is a careful one.            *)
LEMMA OneRow ==
    ASSUME Types, NEW v \in Video, NEW row \in Row,
           NEW mayClear \in BOOLEAN, NEW mayToggle \in BOOLEAN,
           Stored(v) => /\ rows[v].path /\ ~row.path => mayClear
                        /\ rows[v].fav # row.fav => mayToggle
                        /\ rows[v].played => row.played
                        /\ rows[v].dead => row.dead
    PROVE  Careful([rows EXCEPT ![v] = row], mayClear, mayToggle)
<1> DEFINE r == [rows EXCEPT ![v] = row]
<1>1. r \in [Video -> Row \cup {Absent}] /\ r[v] = row /\ \A w \in Video \ {v} : r[w] = rows[w]
  BY DEF Types
<1>2. row # Absent
  BY AbsentIsNoRow
<1> HIDE DEF r
<1>3. ASSUME NEW w \in Video, Stored(w)
      PROVE  /\ r[w] # Absent
             /\ rows[w].path /\ ~r[w].path => mayClear
             /\ rows[w].fav # r[w].fav => mayToggle
             /\ rows[w].played => r[w].played
             /\ rows[w].dead => r[w].dead
  BY <1>1, <1>2, <1>3, Zenon DEF Stored
<1>5. Careful(r, mayClear, mayToggle)
  BY <1>1, <1>3, Zenon DEF Careful
<1>6. QED BY <1>5 DEF r

LEMMA NoChange == ASSUME Types PROVE Careful(rows, FALSE, FALSE)
BY DEF Types, Careful, Stored
-----------------------------------------------------------------------------
(* The statements of TrackRepository.                                       *)

LEMMA UpsertsAreCareful ==
    ASSUME Types, NEW v \in Video
    PROVE  /\ Careful(UpsertUrl(v), FALSE, FALSE)
           /\ Careful(UpsertPath(v), FALSE, FALSE)
           /\ Careful(MarkUnavailable(v), FALSE, FALSE)
<1> DEFINE old == RowOrNew(v)
<1>1. /\ old \in Row /\ (Stored(v) => old = rows[v])
      /\ ~Stored(v) => old = NewRow
  BY RowsAre
<1>2. ~NewRow.dead
  BY DEF NewRow
<1> HIDE DEF old
<1>3. ASSUME NEW row \in Row, row.path = old.path \/ row.path, row.fav = old.fav,
             row.played = old.played, row.dead = old.dead \/ row.dead
      PROVE  Careful([rows EXCEPT ![v] = row], FALSE, FALSE)
  BY <1>1, <1>2, <1>3, OneRow
<1>4. Careful(UpsertUrl(v), FALSE, FALSE)
  <2>1. [old EXCEPT !.url = "fresh"] \in Row
    BY <1>1 DEF Row, Urls
  <2>2. Careful([rows EXCEPT ![v] = [old EXCEPT !.url = "fresh"]], FALSE, FALSE)
    BY <1>1, <1>3, <2>1 DEF Row
  <2>3. QED BY <2>2 DEF UpsertUrl, old
<1>5. Careful(UpsertPath(v), FALSE, FALSE)
  <2>1. [old EXCEPT !.path = TRUE] \in Row
    BY <1>1 DEF Row
  <2>2. Careful([rows EXCEPT ![v] = [old EXCEPT !.path = TRUE]], FALSE, FALSE)
    BY <1>1, <1>3, <2>1 DEF Row
  <2>3. QED BY <2>2 DEF UpsertPath, old
<1>6. Careful(MarkUnavailable(v), FALSE, FALSE)
  <2>1. [old EXCEPT !.dead = TRUE] \in Row
    BY <1>1 DEF Row
  <2>2. Careful([rows EXCEPT ![v] = [old EXCEPT !.dead = TRUE]], FALSE, FALSE)
    BY <1>1, <2>1, OneRow DEF Row
  <2>3. QED BY <2>2 DEF MarkUnavailable, old
<1>7. QED BY <1>4, <1>5, <1>6

LEMMA UpdatesAreCareful ==
    ASSUME Types, NEW v \in Video
    PROVE  /\ Careful(UpdateUrlOnly(v), FALSE, FALSE)
           /\ Careful(IncrementPlayCount(v), FALSE, FALSE)
           /\ Careful(ToggleFavourite(v), FALSE, TRUE)
<1>1. CASE ~Stored(v)
  BY <1>1, NoChange DEF UpdateUrlOnly, IncrementPlayCount, ToggleFavourite, Update, Careful
<1>2. CASE Stored(v)
  <2>1. rows[v] \in Row
    BY <1>2, RowsAre
  <2>2. Careful(UpdateUrlOnly(v), FALSE, FALSE)
    <3>1. [rows[v] EXCEPT !.url = "fresh"] \in Row
      BY <2>1 DEF Row, Urls
    <3>2. Careful([rows EXCEPT ![v] = [rows[v] EXCEPT !.url = "fresh"]], FALSE, FALSE)
      BY <1>2, <2>1, <3>1, OneRow DEF Row
    <3>3. QED BY <1>2, <3>2 DEF UpdateUrlOnly, Update
  <2>3. Careful(IncrementPlayCount(v), FALSE, FALSE)
    <3>1. [rows[v] EXCEPT !.played = TRUE] \in Row
      BY <2>1 DEF Row
    <3>2. Careful([rows EXCEPT ![v] = [rows[v] EXCEPT !.played = TRUE]], FALSE, FALSE)
      BY <1>2, <2>1, <3>1, OneRow DEF Row
    <3>3. QED BY <1>2, <3>2 DEF IncrementPlayCount, Update
  <2>4. Careful(ToggleFavourite(v), FALSE, TRUE)
    <3>1. [rows[v] EXCEPT !.fav = ~@] \in Row
      BY <2>1 DEF Row
    <3>2. Careful([rows EXCEPT ![v] = [rows[v] EXCEPT !.fav = ~@]], FALSE, TRUE)
      BY <1>2, <2>1, <3>1, OneRow DEF Row
    <3>3. QED BY <1>2, <3>2 DEF ToggleFavourite, Update
  <2>5. QED BY <2>2, <2>3, <2>4
<1>3. QED BY <1>1, <1>2

LEMMA ClearingIsCareful ==
    ASSUME Types, NEW vs PROVE Careful(ClearPaths(vs), TRUE, FALSE)
<1> DEFINE r == ClearPaths(vs)
<1>1. ASSUME NEW w \in Video, Stored(w)
      PROVE  r[w] \in Row /\ r[w].fav = rows[w].fav /\ r[w].played = rows[w].played
             /\ r[w].dead = rows[w].dead
  <2>1. rows[w] \in Row
    BY <1>1, RowsAre
  <2>2. r[w] = [rows[w] EXCEPT !.path = FALSE] \/ r[w] = rows[w]
    BY DEF ClearPaths
  <2>3. QED BY <2>1, <2>2 DEF Row
<1>2. ASSUME NEW w \in Video, ~Stored(w) PROVE r[w] = Absent
  BY <1>2 DEF ClearPaths, Stored
<1>3. r \in [Video -> Row \cup {Absent}]
  <2>1. r = [w \in Video |-> r[w]]
    BY DEF ClearPaths
  <2>2. QED BY <1>1, <1>2, <2>1
<1> HIDE DEF r
<1>4. Careful(r, TRUE, FALSE)
  BY <1>1, <1>2, <1>3, AbsentIsNoRow DEF Careful
<1>5. QED BY <1>4 DEF r
-----------------------------------------------------------------------------
(* What one turn of task t may do to the table.                             *)
Allowed(t) == Careful(rows', Is(t, {"delete", "clear", "evict"}), Is(t, {"favourite"}))

LEMMA MildIsAllowed ==
    ASSUME NEW t \in Task, Careful(rows', FALSE, FALSE) PROVE Allowed(t)
BY DEF Allowed, Careful

LEMMA UntouchedIsAllowed ==
    ASSUME Types, NEW t \in Task, rows' = rows PROVE Allowed(t)
<1>1. Careful(rows', FALSE, FALSE)
  BY DEF Careful, Types, Stored
<1>2. QED BY <1>1, MildIsAllowed

LEMMA WorkIs ==
    ASSUME Types, NEW t \in Task, Active(t)
    PROVE  /\ task[t] \in Work /\ task[t].v \in Video /\ task[t].kind \in Kinds
           /\ task[t].doomed \subseteq File
<1>1. task[t] \in Work
  BY DEF Types, Active
<1>2. QED BY <1>1 DEF Work

LEMMA MakeWork ==
    ASSUME NEW kind \in Kinds, NEW v \in Video, NEW pc \in Pcs, NEW attempt \in 1 .. Attempts,
           NEW url \in BOOLEAN, NEW row \in Row \cup {Absent}, NEW chosen \in SUBSET Video,
           NEW doomed \in SUBSET File
    PROVE  [kind |-> kind, v |-> v, pc |-> pc, attempt |-> attempt, url |-> url, row |-> row,
            chosen |-> chosen, doomed |-> doomed] \in Work
BY DEF Work

LEMMA SetWork ==
    ASSUME NEW w \in Work, NEW pc \in Pcs, NEW attempt \in 1 .. Attempts, NEW url \in BOOLEAN,
           NEW row \in Row \cup {Absent}
    PROVE  /\ [w EXCEPT !.pc = pc, !.url = url, !.attempt = attempt] \in Work
           /\ [w EXCEPT !.pc = pc, !.row = row, !.attempt = attempt, !.url = url,
                        !.chosen = {}, !.doomed = {}] \in Work
BY DEF Work

(* A turn gives its task another thing to do, or ends it.                   *)
Continues(t, w) ==
    /\ task' = [task EXCEPT ![t] = w]
    /\ w \in Work
    /\ w.pc = "wipe" => w.kind \in {"clear", "evict"}

Moves(t) == End(t) \/ \E w \in Work : Continues(t, w)

LEMMA MovesKeepTasks ==
    ASSUME Types, WipesFit, NEW t \in Task, Moves(t)
    PROVE  task' \in [Task -> Work \cup {Idle}] /\ WipesFit'
<1>1. CASE End(t)
  BY <1>1 DEF Types, WipesFit, End, At, Is, Active
<1>2. CASE \E w \in Work : Continues(t, w)
  <2>1. PICK w \in Work : Continues(t, w)
    BY <1>2
  <2>2. /\ task' \in [Task -> Work \cup {Idle}] /\ task'[t] = w
        /\ \A u \in Task \ {t} : task'[u] = task[u]
    BY <2>1 DEF Continues, Types
  <2>3. w.pc = "wipe" => w.kind \in {"clear", "evict"}
    BY <2>1 DEF Continues
  <2>4. ASSUME NEW u \in Task, At(u, "wipe")' PROVE Is(u, {"clear", "evict"})'
    <3>1. CASE u = t
      BY <2>2, <2>3, <2>4, <3>1 DEF At, Is, Active
    <3>2. CASE u # t
      BY <2>2, <2>4, <3>2 DEF At, Is, Active, WipesFit
    <3>3. QED BY <3>1, <3>2
  <2>5. QED BY <2>2, <2>4 DEF WipesFit
<1>3. QED BY <1>1, <1>2 DEF Moves

LEMMA GotoMoves ==
    ASSUME Types, NEW t \in Task, Active(t), NEW pc \in Pcs \ {"wipe"}, Goto(t, pc)
    PROVE  Moves(t)
<1> DEFINE w == [task[t] EXCEPT !.pc = pc]
<1>1. w \in Work /\ w.pc # "wipe"
  BY WorkIs DEF Work
<1>2. task' = [task EXCEPT ![t] = w]
  BY DEF Goto
<1> HIDE DEF w
<1>3. QED BY <1>1, <1>2 DEF Moves, Continues

LEMMA LastWaitMoves ==
    ASSUME Types, NEW t \in Task, Active(t), LastWait(t) PROVE Moves(t)
<1> DEFINE w == [task[t] EXCEPT !.pc = "finish", !.row = Absent, !.attempt = 1, !.url = FALSE,
                                !.chosen = {}, !.doomed = {}]
<1>1. w \in Work
  <2>1. /\ task[t] \in Work /\ "finish" \in Pcs /\ 1 \in 1 .. Attempts
        /\ Absent \in Row \cup {Absent} /\ FALSE \in BOOLEAN
    BY WorkIs DEF Pcs, Attempts
  <2>2. QED BY <2>1, SetWork
<1>2. w.pc = "finish"
  BY WorkIs DEF Work
<1>3. task' = [task EXCEPT ![t] = w]
  BY DEF LastWait
<1> HIDE DEF w
<1>4. QED BY <1>1, <1>2, <1>3 DEF Moves, Continues

LEMMA BeginFetchMoves ==
    ASSUME Types, NEW t \in Task, Active(t), BeginFetch(t) PROVE Moves(t)
<1> DEFINE w == [task[t] EXCEPT !.pc = "fetch", !.row = Absent]
<1>1. w \in Work /\ w.pc = "fetch"
  BY WorkIs DEF Work, Pcs
<1>2. task' = [task EXCEPT ![t] = w]
  BY DEF BeginFetch, Types
<1> HIDE DEF w
<1>3. QED BY <1>1, <1>2 DEF Moves, Continues

LEMMA RetryMoves ==
    ASSUME Types, NEW t \in Task, Active(t), task[t].attempt < Attempts, Retry(t)
    PROVE  Moves(t)
<1> DEFINE w == [task[t] EXCEPT !.pc = "fetch", !.url = FALSE, !.attempt = @ + 1]
<1>1. w \in Work /\ w.pc = "fetch"
  <2>1. task[t] \in Work
    BY WorkIs
  <2>2. task[t].attempt \in 1 .. Attempts /\ task[t].attempt + 1 \in 1 .. Attempts
    BY <2>1 DEF Work, Attempts
  <2>3. w \in Work
    BY <2>1, <2>2, SetWork DEF Pcs
  <2>4. QED BY <2>1, <2>3 DEF Work
<1>2. task' = [task EXCEPT ![t] = w]
  BY DEF Retry, Types
<1> HIDE DEF w
<1>3. QED BY <1>1, <1>2 DEF Moves, Continues

(* The next statement of a task is another one about the row.               *)
LEMMA ReadingMoves ==
    ASSUME Types, NEW t \in Task, Active(t), NEW pc \in {"row", "reason"},
           NEW row \in Row \cup {Absent},
           task' = [task EXCEPT ![t].pc = pc, ![t].row = row]
    PROVE  Moves(t)
<1> DEFINE w == [task[t] EXCEPT !.pc = pc, !.row = row]
<1>1. w \in Work /\ w.pc # "wipe"
  BY WorkIs DEF Work, Pcs
<1>2. task' = [task EXCEPT ![t] = w]
  BY DEF Types
<1> HIDE DEF w
<1>3. QED BY <1>1, <1>2 DEF Moves, Continues
-----------------------------------------------------------------------------
(* Every turn of a task is a Good one.                                      *)
Good(t) == Moves(t) /\ Allowed(t) /\ files' \subseteq File /\ UNCHANGED <<gone, started>>

LEMMA EndIsAMove == ASSUME NEW t, End(t) PROVE Moves(t)
BY DEF Moves

LEMMA PcsAre ==
    \A pc \in {"reason", "row", "isfile", "fetch", "refetch", "save", "proxy", "loading",
               "moved", "finish"} : pc \in Pcs \ {"wipe"}
BY DEF Pcs

LEMMA FilesAre ==
    ASSUME Types, NEW t \in Task, Active(t) PROVE FileOf[task[t].v] \in File
BY WorkIs, LibraryAssumption

LEMMA ReasonIsGood == ASSUME Types, NEW t \in Task, Reason(t) PROVE Good(t)
<1>1. Active(t) /\ rows' = rows /\ files' = files /\ UNCHANGED <<gone, started>>
  BY DEF Reason, At
<1>2. rows[task[t].v] \in Row \cup {Absent}
  BY <1>1, WorkIs DEF Types
<1>3. Moves(t)
  <2>1. \/ End(t) \/ BeginFetch(t)
        \/ task' = [task EXCEPT ![t].pc = "row", ![t].row = rows[task[t].v]]
    BY DEF Reason
  <2>2. QED BY <1>1, <1>2, <2>1, EndIsAMove, BeginFetchMoves, ReadingMoves
<1>4. QED BY <1>1, <1>3, UntouchedIsAllowed DEF Good, Types

LEMMA ResolveRowIsGood == ASSUME Types, NEW t \in Task, ResolveRow(t) PROVE Good(t)
<1>1. Active(t) /\ files' = files /\ UNCHANGED <<gone, started>>
  BY DEF ResolveRow, At
<1>2. task[t].v \in Video
  BY <1>1, WorkIs
<1>3. Moves(t)
  BY <1>1, PcsAre, GotoMoves, LastWaitMoves, BeginFetchMoves DEF ResolveRow
<1>4. Allowed(t)
  <2>1. rows' = rows \/ rows' = IncrementPlayCount(task[t].v)
    BY DEF ResolveRow
  <2>2. QED BY <1>2, <2>1, UntouchedIsAllowed, UpdatesAreCareful, MildIsAllowed
<1>5. QED BY <1>1, <1>3, <1>4 DEF Good, Types

LEMMA ResolveFileIsGood == ASSUME Types, NEW t \in Task, ResolveFile(t) PROVE Good(t)
<1>1. Active(t) /\ files' = files /\ UNCHANGED <<gone, started>>
  BY DEF ResolveFile, At
<1>2. task[t].v \in Video
  BY <1>1, WorkIs
<1>3. Moves(t)
  BY <1>1, LastWaitMoves, BeginFetchMoves DEF ResolveFile
<1>4. Allowed(t)
  <2>1. rows' = rows \/ rows' = IncrementPlayCount(task[t].v)
    BY DEF ResolveFile
  <2>2. QED BY <1>2, <2>1, UntouchedIsAllowed, UpdatesAreCareful, MildIsAllowed
<1>5. QED BY <1>1, <1>3, <1>4 DEF Good, Types

LEMMA PrefetchRowIsGood == ASSUME Types, NEW t \in Task, PrefetchRow(t) PROVE Good(t)
<1>1. Active(t) /\ rows' = rows /\ files' = files /\ UNCHANGED <<gone, started>>
  BY DEF PrefetchRow, At
<1>2. rows[task[t].v] \in Row \cup {Absent}
  BY <1>1, WorkIs DEF Types
<1>3. Moves(t)
  <2>1. \/ End(t)
        \/ task' = [task EXCEPT ![t].pc = "reason", ![t].row = rows[task[t].v]]
    BY DEF PrefetchRow
  <2>2. QED BY <1>1, <1>2, <2>1, EndIsAMove, ReadingMoves
<1>4. QED BY <1>1, <1>3, UntouchedIsAllowed DEF Good, Types

(* The URL has been found, and the proxy begins.                            *)
LEMMA ProxyMoves ==
    ASSUME Types, NEW t \in Task, Active(t),
           \/ task' = [task EXCEPT ![t].pc = "proxy", ![t].url = TRUE, ![t].row = Absent]
           \/ task' = [task EXCEPT ![t].pc = "proxy", ![t].url = TRUE]
    PROVE  Moves(t)
<1>1. task[t] \in Work /\ "proxy" \in Pcs
  BY WorkIs DEF Pcs
<1>2. CASE task' = [task EXCEPT ![t].pc = "proxy", ![t].url = TRUE, ![t].row = Absent]
  <2> DEFINE w == [task[t] EXCEPT !.pc = "proxy", !.url = TRUE, !.row = Absent]
  <2>1. w \in Work /\ w.pc = "proxy"
    BY <1>1 DEF Work
  <2>2. task' = [task EXCEPT ![t] = w]
    BY <1>2 DEF Types
  <2> HIDE DEF w
  <2>3. QED BY <2>1, <2>2 DEF Moves, Continues
<1>3. CASE task' = [task EXCEPT ![t].pc = "proxy", ![t].url = TRUE]
  <2> DEFINE w == [task[t] EXCEPT !.pc = "proxy", !.url = TRUE]
  <2>1. w \in Work /\ w.pc = "proxy"
    BY <1>1 DEF Work
  <2>2. task' = [task EXCEPT ![t] = w]
    BY <1>3 DEF Types
  <2> HIDE DEF w
  <2>3. QED BY <2>1, <2>2 DEF Moves, Continues
<1>4. QED BY <1>2, <1>3

LEMMA StreamRowIsGood == ASSUME Types, NEW t \in Task, StreamRow(t) PROVE Good(t)
<1>1. Active(t) /\ rows' = rows /\ files' = files /\ UNCHANGED <<gone, started>>
  BY DEF StreamRow, At
<1>2. Moves(t)
  <2>1. \/ End(t) \/ BeginFetch(t)
        \/ task' = [task EXCEPT ![t].pc = "proxy", ![t].url = TRUE, ![t].row = Absent]
    BY DEF StreamRow
  <2>2. QED BY <1>1, <2>1, EndIsAMove, BeginFetchMoves, ProxyMoves
<1>3. QED BY <1>1, <1>2, UntouchedIsAllowed DEF Good, Types

(* A URL is stored, the video is marked, or nothing changes.                *)
LEMMA MarkIsGood ==
    ASSUME Types, NEW t \in Task, Active(t), Mark(t), UNCHANGED <<files, gone, started>>
    PROVE  Good(t)
<1>1. Moves(t)
  BY LastWaitMoves DEF Mark
<1>2. Allowed(t)
  BY WorkIs, UpsertsAreCareful, MildIsAllowed DEF Mark
<1> QED BY <1>1, <1>2 DEF Good, Types

LEMMA ExtractIsGood == ASSUME Types, NEW t \in Task, Extract(t) PROVE Good(t)
<1>1. Active(t) /\ files' = files /\ UNCHANGED <<gone, started>>
  BY DEF Extract, At
<1>2. task[t].v \in Video
  BY <1>1, WorkIs
<1>3. CASE task[t].v \notin gone /\ Save(t)
  <2>1. Moves(t)
    BY <1>1, <1>3, PcsAre, GotoMoves DEF Save
  <2>2. rows' = UpsertUrl(task[t].v) \/ rows' = UpdateUrlOnly(task[t].v)
    BY <1>3 DEF Save
  <2>3. Allowed(t)
    BY <1>2, <2>2, UpsertsAreCareful, UpdatesAreCareful, MildIsAllowed
  <2>4. QED BY <1>1, <2>1, <2>3 DEF Good, Types
<1>5. ASSUME NEW kind, GiveUpOn(t, kind) PROVE Good(t)
  <2>1. Moves(t)
    BY <1>1, <1>5, EndIsAMove, RetryMoves DEF GiveUpOn
  <2>2. Allowed(t)
    BY <1>5, UntouchedIsAllowed DEF GiveUpOn
  <2>3. QED BY <1>1, <2>1, <2>2 DEF Good, Types
<1>6. ASSUME NEW class, Raises(t, class) PROVE Good(t)
  BY <1>1, <1>5, <1>6, MarkIsGood DEF Raises
<1>7. CASE Goto(t, "refetch") /\ UNCHANGED <<rows, answers>>
  BY <1>1, <1>7, PcsAre, GotoMoves, UntouchedIsAllowed DEF Good, Types
<1>8. QED BY <1>3, <1>5, <1>6, <1>7 DEF Extract

LEMMA SavedIsGood == ASSUME Types, NEW t \in Task, Saved(t) PROVE Good(t)
<1>1. Active(t) /\ files' = files /\ UNCHANGED <<gone, started>>
  BY DEF Saved, At
<1>2. task[t].v \in Video
  BY <1>1, WorkIs
<1>3. Moves(t)
  <2>1. \/ LastWait(t) \/ End(t)
        \/ task' = [task EXCEPT ![t].pc = "proxy", ![t].url = TRUE]
    BY DEF Saved
  <2>2. QED BY <1>1, <2>1, LastWaitMoves, EndIsAMove, ProxyMoves
<1>4. Allowed(t)
  <2>1. rows' = rows \/ rows' = IncrementPlayCount(task[t].v)
    BY DEF Saved
  <2>2. QED BY <1>2, <2>1, UntouchedIsAllowed, UpdatesAreCareful, MildIsAllowed
<1>5. QED BY <1>1, <1>3, <1>4 DEF Good, Types

LEMMA ProxyIsGood == ASSUME Types, NEW t \in Task, Proxy(t) PROVE Good(t)
<1>1. Active(t) /\ rows' = rows /\ files' = files /\ UNCHANGED <<gone, started>>
  BY DEF Proxy, At
<1>2. Moves(t)
  BY <1>1, EndIsAMove, RetryMoves DEF Proxy
<1>3. QED BY <1>1, <1>2, UntouchedIsAllowed DEF Good, Types

LEMMA AskRowIsGood == ASSUME Types, NEW t \in Task, AskRow(t) PROVE Good(t)
<1>1. Active(t) /\ rows' = rows /\ files' = files /\ UNCHANGED <<gone, started>>
  BY DEF AskRow, At
<1>2. CASE End(t)
  BY <1>1, <1>2, EndIsAMove, UntouchedIsAllowed DEF Good, Types
<1>3. CASE task' = [task EXCEPT ![t].kind = "download", ![t].pc = "loading", ![t].row = Absent]
  <2> DEFINE w == [task[t] EXCEPT !.kind = "download", !.pc = "loading", !.row = Absent]
  <2>1. w \in Work /\ w.pc = "loading"
    BY ZenonT(30), <1>1, WorkIs DEF Work, Kinds, Pcs
  <2>2. task' = [task EXCEPT ![t] = w]
    BY <1>3 DEF Types
  <2> HIDE DEF w
  <2>3. Moves(t)
    BY <2>1, <2>2 DEF Moves, Continues
  <2>4. QED BY <1>1, <2>3, UntouchedIsAllowed DEF Good, Types
<1>4. QED BY <1>2, <1>3 DEF AskRow

LEMMA DownloadIsGood == ASSUME Types, NEW t \in Task, Download(t) PROVE Good(t)
<1>1. Active(t) /\ rows' = rows /\ UNCHANGED <<gone, started>>
  BY DEF Download, At
<1>2. files' \subseteq File
  BY <1>1, FilesAre DEF Download, Types
<1>3. Moves(t)
  BY <1>1, PcsAre, GotoMoves, EndIsAMove DEF Download
<1>4. QED BY <1>1, <1>2, <1>3, UntouchedIsAllowed DEF Good

LEMMA StoreDownloadIsGood == ASSUME Types, NEW t \in Task, StoreDownload(t) PROVE Good(t)
<1>1. Active(t) /\ files' = files /\ UNCHANGED <<gone, started>>
  BY DEF StoreDownload, At
<1>2. Moves(t)
  BY <1>1, LastWaitMoves DEF StoreDownload
<1>3. Allowed(t)
  BY <1>1, WorkIs, UpsertsAreCareful, MildIsAllowed DEF StoreDownload
<1>4. QED BY <1>1, <1>2, <1>3 DEF Good, Types

(* The three requests that delete files are allowed to clear paths.         *)
LEMMA ClearingIsAllowed ==
    ASSUME Types, NEW t \in Task, NEW vs, Is(t, {"delete", "clear", "evict"}),
           rows' = ClearPaths(vs)
    PROVE  Allowed(t)
BY ClearingIsCareful DEF Allowed, Careful

LEMMA DeleteRowIsGood == ASSUME Types, NEW t \in Task, DeleteRow(t) PROVE Good(t)
<1>1. Active(t) /\ Is(t, {"delete", "clear", "evict"}) /\ UNCHANGED <<gone, started>>
  BY DEF DeleteRow, At, Is
<1>2. files' \subseteq File
  BY <1>1 DEF DeleteRow, Types
<1>3. Moves(t)
  BY <1>1, LastWaitMoves, EndIsAMove DEF DeleteRow
<1>4. Allowed(t)
  BY <1>1, ClearingIsAllowed, UntouchedIsAllowed DEF DeleteRow
<1>5. QED BY <1>1, <1>2, <1>3, <1>4 DEF Good

LEMMA ListIsGood == ASSUME Types, NEW t \in Task, List(t) PROVE Good(t)
<1>1. Active(t) /\ rows' = rows /\ files' = files /\ UNCHANGED <<gone, started>>
  BY DEF List, At
<1>2. task[t] \in Work /\ files \in SUBSET File /\ Video \in SUBSET Video
  BY <1>1, WorkIs DEF Types
<1>3. Moves(t)
  <2>1. CASE /\ Is(t, {"clear"})
             /\ task' = [task EXCEPT ![t].pc = "wipe", ![t].chosen = Video, ![t].doomed = files]
    <3> DEFINE w == [task[t] EXCEPT !.pc = "wipe", !.chosen = Video, !.doomed = files]
    <3>1. w \in Work /\ w.kind = task[t].kind
      BY <1>2 DEF Work, Pcs
    <3>2. task' = [task EXCEPT ![t] = w]
      BY <2>1 DEF Types
    <3> HIDE DEF w
    <3>3. QED BY <2>1, <3>1, <3>2 DEF Moves, Continues, Is
  <2>2. CASE task' = [task EXCEPT ![t].pc = "row",
                                  ![t].chosen = {v \in Video : Stored(v) /\ rows[v].path}]
    <3> DEFINE vs == {v \in Video : Stored(v) /\ rows[v].path}
               w == [task[t] EXCEPT !.pc = "row", !.chosen = vs]
    <3>1. vs \in SUBSET Video
      OBVIOUS
    <3>2. task' = [task EXCEPT ![t] = w]
      BY <2>2 DEF Types
    <3> HIDE DEF vs
    <3>3. w \in Work /\ w.pc = "row"
      BY <1>2, <3>1 DEF Work, Pcs
    <3> HIDE DEF w
    <3>4. QED BY <3>2, <3>3 DEF Moves, Continues
  <2>3. CASE End(t)
    BY <2>3, EndIsAMove
  <2>4. QED BY <2>1, <2>2, <2>3 DEF List
<1>4. QED BY <1>1, <1>3, UntouchedIsAllowed DEF Good, Types

LEMMA EvictRowIsGood == ASSUME Types, NEW t \in Task, EvictRow(t) PROVE Good(t)
<1>1. /\ Active(t) /\ task[t].kind = "evict"
      /\ rows' = rows /\ files' = files /\ UNCHANGED <<gone, started>>
  BY DEF EvictRow, At, Is
<1>2. CASE End(t)
  BY <1>1, <1>2, EndIsAMove, UntouchedIsAllowed DEF Good, Types
<1>3. ASSUME NEW vs \in SUBSET task[t].chosen,
             task' = [task EXCEPT ![t].pc = "wipe", ![t].chosen = vs,
                                  ![t].doomed = {FileOf[v] : v \in vs} \cap files]
      PROVE  Good(t)
  <2> DEFINE out == {FileOf[v] : v \in vs} \cap files
             w == [task[t] EXCEPT !.pc = "wipe", !.chosen = vs, !.doomed = out]
  <2>1. task[t] \in Work /\ vs \in SUBSET Video /\ out \in SUBSET File
    BY <1>1, WorkIs DEF Work, Types
  <2>2. task' = [task EXCEPT ![t] = w]
    BY <1>3 DEF Types
  <2> HIDE DEF out
  <2>3. w \in Work /\ w.kind = task[t].kind
    BY <2>1 DEF Work, Pcs
  <2> HIDE DEF w
  <2>4. Moves(t)
    BY <1>1, <2>2, <2>3 DEF Moves, Continues
  <2>5. QED BY <1>1, <2>4, UntouchedIsAllowed DEF Good, Types
<1>4. QED BY <1>2, <1>3 DEF EvictRow

LEMMA WipeIsGood == ASSUME Types, WipesFit, NEW t \in Task, Wipe(t) PROVE Good(t)
<1>1. Active(t) /\ Is(t, {"delete", "clear", "evict"}) /\ UNCHANGED <<gone, started>>
  BY DEF Wipe, At, Is, WipesFit
<1>2. files' \subseteq File
  BY DEF Wipe, Types
<1>3. Moves(t)
  BY <1>1, LastWaitMoves DEF Wipe
<1>4. Allowed(t)
  BY <1>1, ClearingIsAllowed DEF Wipe
<1>5. QED BY <1>1, <1>2, <1>3, <1>4 DEF Good

LEMMA FavouriteRowIsGood == ASSUME Types, NEW t \in Task, FavouriteRow(t) PROVE Good(t)
<1>1. /\ Active(t) /\ Is(t, {"favourite"})
      /\ files' = files /\ UNCHANGED <<gone, started>>
  BY DEF FavouriteRow, At
<1>2. Moves(t)
  BY <1>1, LastWaitMoves, EndIsAMove DEF FavouriteRow
<1>3. CASE rows' = rows
  BY <1>1, <1>2, <1>3, UntouchedIsAllowed DEF Good, Types
<1>4. CASE rows' = ToggleFavourite(task[t].v)
  <2>1. Careful(rows', FALSE, TRUE)
    BY <1>1, <1>4, WorkIs, UpdatesAreCareful
  <2>2. Allowed(t)
    BY <1>1, <2>1 DEF Allowed, Careful
  <2>3. QED BY <1>1, <1>2, <2>2 DEF Good, Types
<1>5. QED BY <1>3, <1>4 DEF FavouriteRow

LEMMA FinishIsGood == ASSUME Types, NEW t \in Task, Finish(t) PROVE Good(t)
BY EndIsAMove, UntouchedIsAllowed DEF Finish, Good, Types

LEMMA TurnIsGood == ASSUME Types, WipesFit, NEW t \in Task, Turn(t) PROVE Good(t)
BY ReasonIsGood, ResolveRowIsGood, ResolveFileIsGood, PrefetchRowIsGood, StreamRowIsGood,
   ExtractIsGood, SavedIsGood, ProxyIsGood, AskRowIsGood, DownloadIsGood, StoreDownloadIsGood,
   DeleteRowIsGood, ListIsGood, EvictRowIsGood, WipeIsGood, FavouriteRowIsGood, FinishIsGood
   DEF Turn
-----------------------------------------------------------------------------
(* What any step may take away: the body of KeptIsKept, and the invariant.  *)
Kept ==
    \A v \in Video : Stored(v) =>
        /\ ~Stored(v)' => ~(rows[v].played \/ rows[v].path \/ rows[v].fav)
        /\ Stored(v)' =>
             /\ rows[v].path /\ ~rows'[v].path
                  => \E t \in Task : Is(t, {"delete", "clear", "evict"})
             /\ rows[v].fav # rows'[v].fav => \E t \in Task : Is(t, {"favourite"})
             /\ rows[v].played => rows'[v].played
             /\ rows[v].dead => rows'[v].dead

LEMMA GoodKeeps ==
    ASSUME Inv, NEW t \in Task, Good(t) PROVE Inv' /\ Kept
<1>1. task' \in [Task -> Work \cup {Idle}] /\ WipesFit'
  BY MovesKeepTasks DEF Good, Inv
<1>2. Types'
  BY <1>1 DEF Inv, Good, Types, Allowed, Careful
<1>3. Kept
  BY DEF Kept, Good, Allowed, Careful, Stored
<1>4. QED BY <1>1, <1>2, <1>3 DEF Inv

LEMMA StartKeeps ==
    ASSUME Inv, NEW t \in Task, NEW v \in Video, NEW kind \in Kinds, Start(t, kind, v)
    PROVE  Inv' /\ Kept
<1> DEFINE w == Begun(kind, v)
<1>1. w \in Work /\ w.pc # "wipe"
  <2>1. First(kind) \in {"reason", "listing", "loading", "row"}
    BY DEF First
  <2>2. First(kind) \in Pcs /\ First(kind) # "wipe"
    BY <2>1 DEF Pcs
  <2>3. (IF Asks(kind) THEN rows[v] ELSE Absent) \in Row \cup {Absent}
    BY DEF Inv, Types
  <2> HIDE DEF w
  <2>4. w = [kind |-> kind, v |-> v, pc |-> First(kind), attempt |-> 1, url |-> FALSE,
             row |-> IF Asks(kind) THEN rows[v] ELSE Absent, chosen |-> {}, doomed |-> {}]
    BY DEF w, Begun
  <2>5. 1 \in 1 .. Attempts /\ FALSE \in BOOLEAN /\ {} \in SUBSET Video /\ {} \in SUBSET File
    BY DEF Attempts
  <2>6. w \in Work
    BY <2>2, <2>3, <2>4, <2>5, MakeWork
  <2>7. QED BY <2>2, <2>4, <2>6
<1>2. task' = [task EXCEPT ![t] = w]
  BY DEF Start
<1> HIDE DEF w
<1>3. Moves(t)
  BY <1>1, <1>2 DEF Moves, Continues
<1>4. task' \in [Task -> Work \cup {Idle}] /\ WipesFit'
  BY <1>3, MovesKeepTasks DEF Inv
<1>5. rows' = rows /\ gone' = gone /\ files' = files /\ started' \in 0 .. MaxTasks
  BY LibraryAssumption DEF Start, Inv, Types
<1>6. Types' /\ Kept
  BY <1>4, <1>5 DEF Inv, Types, Kept, Stored
<1>7. QED BY <1>4, <1>6 DEF Inv

LEMMA EvictStaleTracksKeeps == ASSUME Inv, EvictStaleTracks PROVE Inv' /\ Kept
<1>1. PICK out \in SUBSET Video :
         /\ \A v \in out : Deletable(v)
         /\ rows' = [v \in Video |-> IF v \in out THEN Absent ELSE rows[v]]
  <2>1. PICK old \in SUBSET {v \in Video : Stored(v) /\ rows[v].url = "stale"} :
           LET out == {v \in Video : Deletable(v) /\ (rows[v].url = "none" \/ v \in old)}
           IN  rows' = [v \in Video |-> IF v \in out THEN Absent ELSE rows[v]]
    BY DEF EvictStaleTracks
  <2> DEFINE out == {v \in Video : Deletable(v) /\ (rows[v].url = "none" \/ v \in old)}
  <2>2. out \in SUBSET Video /\ \A v \in out : Deletable(v)
    OBVIOUS
  <2>3. rows' = [v \in Video |-> IF v \in out THEN Absent ELSE rows[v]]
    BY <2>1
  <2> HIDE DEF out
  <2>4. QED BY <2>2, <2>3
<1>2. UNCHANGED <<files, gone, task, started>>
  BY DEF EvictStaleTracks
<1>3. Types' /\ WipesFit'
  BY <1>1, <1>2 DEF Inv, Types, WipesFit, At, Is, Active
<1>4. Kept
  BY <1>1, Zenon DEF Kept, Stored, Deletable
<1>5. QED BY <1>3, <1>4 DEF Inv

LEMMA ExpireKeeps == ASSUME Inv, NEW v \in Video, Expire(v) PROVE Inv' /\ Kept
<1> DEFINE row == [rows[v] EXCEPT !.url = "stale"]
<1>1. rows[v] \in Row /\ Stored(v)
  BY RowsAre DEF Expire, Inv
<1>2. row \in Row /\ row.path = rows[v].path /\ row.fav = rows[v].fav
      /\ row.played = rows[v].played /\ row.dead = rows[v].dead
  BY <1>1 DEF Row, Urls
<1>3. rows' = [rows EXCEPT ![v] = row] /\ UNCHANGED <<files, gone, task, started>>
  BY DEF Expire
<1> HIDE DEF row
<1>4. Careful([rows EXCEPT ![v] = row], FALSE, FALSE)
  BY <1>1, <1>2, OneRow DEF Inv
<1>5. Careful(rows', FALSE, FALSE)
  BY <1>3, <1>4 DEF Careful
<1>6. Types' /\ WipesFit'
  BY <1>3, <1>5 DEF Inv, Types, WipesFit, At, Is, Active, Careful
<1>7. Kept
  BY <1>3, <1>5 DEF Inv, Kept, Stored, Careful
<1>8. QED BY <1>6, <1>7 DEF Inv

LEMMA StepKeeps == ASSUME Inv, [Next]_vars PROVE Inv' /\ (Kept \/ UNCHANGED vars)
<1>1. ASSUME NEW t \in Task, Turn(t) PROVE Inv' /\ Kept
  BY <1>1, TurnIsGood, GoodKeeps DEF Inv
<1>2. CASE Requests
  <2>1. "download" \in Kinds
    BY DEF Kinds
  <2>2. QED BY <1>2, <2>1, StartKeeps DEF Requests, Overwrite
<1>3. CASE Restart
  <2>1. /\ UNCHANGED <<rows, files, gone, started>> /\ task' = [t \in Task |-> Idle]
    BY <1>3 DEF Restart
  <2>2. Types' /\ WipesFit'
    BY <2>1 DEF Inv, Types, WipesFit, At, Active
  <2>3. Kept
    BY <2>1 DEF Inv, Kept, Stored
  <2>4. QED BY <2>2, <2>3 DEF Inv
<1>4. ASSUME NEW v \in Video, Vanish(v) PROVE Inv' /\ Kept
  <2>1. UNCHANGED <<rows, files, task, started>> /\ gone' = gone \cup {v}
    BY <1>4 DEF Vanish
  <2>2. Types' /\ WipesFit'
    BY <2>1 DEF Inv, Types, WipesFit, At, Is, Active
  <2>3. Kept
    BY <2>1 DEF Inv, Kept, Stored
  <2>4. QED BY <2>2, <2>3 DEF Inv
<1>5. CASE UNCHANGED vars
  <2>1. UNCHANGED <<rows, files, gone, task, started>>
    BY <1>5 DEF vars
  <2>2. Types' /\ WipesFit'
    BY <2>1 DEF Inv, Types, WipesFit, At, Is, Active, Stored
  <2>3. QED BY <1>5, <2>2 DEF Inv
<1>6. QED BY <1>1, <1>2, <1>3, <1>4, <1>5, EvictStaleTracksKeeps, ExpireKeeps DEF Next, World

LEMMA InitInv == Init => Inv
<1> SUFFICES ASSUME Init PROVE Inv
  OBVIOUS
<1>1. Types
  BY LibraryAssumption DEF Init, Types
<1>2. WipesFit
  BY DEF Init, WipesFit, At, Active, Stored
<1>3. QED BY <1>1, <1>2 DEF Inv

(* Rows, files and tasks keep their types; and what is only removed by a    *)
(* listing is removed by the two requests that made one.                    *)
THEOREM LibraryInvariant == Spec => []Inv
BY InitInv, StepKeeps, PTL DEF Spec

(* Type correctness of the catalogue.                                       *)
THEOREM LibraryTypes == Spec => []TypeOK
<1>1. Inv => TypeOK
  BY DEF Inv, Types, TypeOK, Active
<1>2. QED BY <1>1, LibraryInvariant, PTL

(* A track the user keeps is not lost to a task that works with an old row. *)
THEOREM WhatIsKeptIsKept == Spec => KeptIsKept
<1>1. Inv /\ [Next]_vars => [Kept]_vars
  BY StepKeeps
<1>2. Spec => [][Kept]_vars
  BY <1>1, LibraryInvariant, PTL DEF Spec
<1>3. QED BY <1>2, PTL DEF KeptIsKept, Kept
=============================================================================
