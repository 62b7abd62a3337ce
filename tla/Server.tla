------------------------------- MODULE Server -------------------------------
(***************************************************************************)
(* The life of a LunaWave server as the launcher manages it: the window     *)
(* (launcher/gui_qt) and its ServerLifecycle start, stop and restart server *)
(* processes that share a port and a database file, and each process boots  *)
(* on whatever an earlier one left there, migrating the table songs.        *)
(*                                                                          *)
(* The window is one thread; a stop or a restart is a worker thread; every  *)
(* server is a process of the operating system that may die at any step.    *)
(* An action is one step of one of them between two points where another    *)
(* may run: a statement of the database, a look at the port, a system call. *)
(* sqlite3 opens a transaction before an INSERT or a DELETE and commits a   *)
(* schema change made outside of one at once.                               *)
(***************************************************************************)
EXTENDS Naturals, FiniteSets, FiniteSetsExt

CONSTANTS
    Proc,       \* bound: server processes at a time
    Worker,     \* bound: worker threads of the launcher at a time
    Gui,        \* the launcher's main thread
    Outsider,   \* some other program that may listen on the port
    None,
    Song,       \* the songs the database holds before its first migration
    Override,   \* config.ADMIN_PASSWORD_OVERRIDE is set
    MaxClicks,  \* bound: buttons pressed
    MaxErrors   \* bound: statements that fail (disk full, I/O error)

ASSUME ServerAssumption ==
    /\ IsFiniteSet(Proc) /\ IsFiniteSet(Worker) /\ Gui \notin Worker
    /\ None \notin Proc \cup {Outsider} /\ Outsider \notin Proc
    /\ Override \in BOOLEAN /\ MaxClicks \in Nat /\ MaxErrors \in Nat

VARIABLES
    proc,        \* what each server process is doing
    port,        \* who listens on the port
    db,          \* the committed database
    txn,         \* the open write transaction and the database it sees
    server,      \* ServerLifecycle.server_process.process
    job,         \* what each thread of the launcher is doing
    waiting,     \* processes whose wait_for_ready thread still polls
    shown,       \* the state the window shows, and so the buttons it offers
    explicit,    \* ServerManagerQt._explicit_state = "starting"
    signals,     \* sig_starting emitted by a worker, not yet handled
    gui,         \* "open", "closing" (_closing) or "exited"
    clicks, errors,   \* counters of the bounds
    overlapped,  \* history: two threads were starting a server at once
    cutShort     \* history: the window was closed while a worker restarted

os == <<proc, port>>
store == <<db, txn>>
shut == <<gui, cutShort>>
window == <<shown, explicit, signals, shut>>
counters == <<clicks, errors, overlapped>>
launcher == <<server, job, waiting, window, clicks, overlapped>>
vars == <<os, store, server, job, waiting, window, counters>>

Thread == Worker \cup {Gui}
Pcs == {"none", "schema", "check", "rename", "create", "copy", "drop", "commit", "count", "clear",
        "fill", "indexed", "columns", "seed", "insert", "bind", "serve", "closing", "cancelled", "hung", "dying"}
JobPcs == {"idle", "stop", "wait", "slept", "start", "kill", "recheck", "announce", "spawn", "killed"}
Idle == [pc |-> "idle", target |-> None, then |-> "idle"]
NoTxn == [of |-> None, db |-> db]

(* A file of an older version: the table songs without its index, or none of *)
(* its tables.  schema: which UNIQUE constraint songs has, "absent" without  *)
(* the table; kept: the rows of songs_old_migration, hasKept if it exists;   *)
(* bare: tracks without an index; admin: admin_account has a row.            *)
Init ==
    /\ proc = [p \in Proc |-> "none"] /\ port = None
    /\ \E bare \in BOOLEAN, schema \in {"global", "absent"} :
         db = [schema |-> schema, songs |-> IF schema = "global" THEN Song ELSE {},
               kept |-> {}, hasKept |-> FALSE, index |-> {}, bare |-> bare, admin |-> FALSE]
    /\ txn = [of |-> None, db |-> db]
    /\ server = None /\ waiting = {}
    /\ job = [t \in Thread |-> Idle]
    /\ shown = "stopped" /\ explicit = FALSE /\ signals = 0 /\ gui = "open"
    /\ clicks = 0 /\ errors = 0 /\ overlapped = FALSE /\ cutShort = FALSE

InUse == port # None        \* network.check_port_in_use
Owner == port               \* network.get_pid_occupying_port
Alive(p) == proc[p] # "none"
IsRunning == server # None /\ Alive(server)
Goes(p, pc) == proc' = [proc EXCEPT ![p] = pc]

-----------------------------------------------------------------------------
(* A server process boots: DatabaseConnection.init, Repositories.init and    *)
(* the seeding of the administrator.                                         *)

(* SQLite has one writer; others wait for it, far longer than it takes.      *)
MayWrite(p) == txn.of \in {None, p}
Booting(p, pc) == proc[p] = pc /\ UNCHANGED <<port, launcher>>
Autocommits(p, new) == MayWrite(p) /\ db' = new /\ txn' = [of |-> None, db |-> new] /\ UNCHANGED errors
InTransaction(p, new) == MayWrite(p) /\ txn' = [of |-> p, db |-> new] /\ UNCHANGED <<db, errors>>
Reads == UNCHANGED <<store, errors>>
Commits(p) == db' = txn.db /\ txn' = [txn EXCEPT !.of = None] /\ UNCHANGED errors
RolledBack(p) == IF txn.of = p THEN NoTxn ELSE txn

Schema(p) ==
    /\ Booting(p, "schema") /\ Goes(p, "check")
    /\ Autocommits(p, IF db.schema = "absent" THEN [db EXCEPT !.schema = "perArtist"] ELSE db)

(* A statement of init() itself fails: the exception ends the boot before    *)
(* anything is closed.  Whether the interpreter ends with the connection's   *)
(* thread still running is up to aiosqlite.                                  *)
BootFails(p) ==
    /\ proc[p] \in {"schema", "insert"}
    /\ \/ errors < MaxErrors /\ errors' = errors + 1
       \/ proc[p] = "insert" /\ db.admin /\ UNCHANGED errors
    /\ \E pc \in {"none", "hung"} : Goes(p, pc)
    /\ txn' = RolledBack(p) /\ UNCHANGED <<port, db, launcher>>

Check(p) ==
    /\ Booting(p, "check") /\ Goes(p, IF db.schema = "global" THEN "rename" ELSE "count") /\ Reads

(* The statements of the migration.  RENAME and CREATE take effect at once,  *)
(* the copy and the DROP with the commit.                                    *)
CanRename == db.schema # "absent" /\ ~db.hasKept
Rename(p) ==
    /\ Booting(p, "rename") /\ CanRename /\ Goes(p, "create")
    /\ Autocommits(p, [db EXCEPT !.schema = "absent", !.songs = {}, !.kept = db.songs, !.hasKept = TRUE])
CanCreate == db.schema = "absent"
Create(p) ==
    /\ Booting(p, "create") /\ CanCreate /\ Goes(p, "copy")
    /\ Autocommits(p, [db EXCEPT !.schema = "perArtist"])
CanCopy == db.hasKept /\ db.schema # "absent" /\ db.kept \cap db.songs = {}
Copy(p) ==
    /\ Booting(p, "copy") /\ CanCopy /\ Goes(p, "drop")
    /\ InTransaction(p, [db EXCEPT !.songs = @ \cup db.kept])
DropEarly(p) ==
    /\ Booting(p, "drop") /\ Goes(p, "commit")
    /\ Autocommits(p, [db EXCEPT !.hasKept = FALSE, !.kept = {}])
DropOld(p) ==
    /\ Booting(p, "drop") /\ Goes(p, "commit")
    /\ InTransaction(p, [txn.db EXCEPT !.hasKept = FALSE, !.kept = {}])
Commit(p) == Booting(p, "commit") /\ Goes(p, "count") /\ Commits(p)

Impossible(p) ==
    /\ MayWrite(p)
    /\ \/ proc[p] = "rename" /\ ~CanRename
       \/ proc[p] = "create" /\ ~CanCreate
       \/ proc[p] = "copy" /\ ~CanCopy
       \/ proc[p] = "fill" /\ txn.db.schema = "absent"

(* A statement of the migration or of the backfill fails: it is rolled back, *)
(* logged, and the boot goes on.                                             *)
StepFails(p) ==
    /\ proc[p] \in {"rename", "create", "copy", "drop", "commit", "clear", "fill", "indexed"}
    /\ IF Impossible(p) THEN UNCHANGED errors ELSE errors < MaxErrors /\ errors' = errors + 1
    /\ txn' = RolledBack(p)
    /\ Goes(p, IF proc[p] \in {"clear", "fill", "indexed"} THEN "columns" ELSE "count")
    /\ UNCHANGED <<port, db, launcher>>

Count(p) ==
    /\ Booting(p, "count") /\ Reads
    /\ Goes(p, IF db.schema # "absent" /\ (db.bare \/ (db.songs # {} /\ db.index = {}))
               THEN "clear" ELSE "columns")
Clear(p) ==
    /\ Booting(p, "clear") /\ Goes(p, "fill")
    /\ InTransaction(p, [db EXCEPT !.index = {}, !.bare = FALSE])
Fill(p) ==
    /\ Booting(p, "fill") /\ txn.db.schema # "absent" /\ Goes(p, "indexed")
    /\ InTransaction(p, [txn.db EXCEPT !.index = txn.db.songs])
Indexed(p) == Booting(p, "indexed") /\ Goes(p, "columns") /\ Commits(p)

(* Each ALTER of Repositories.init stands alone: a column that is there, or  *)
(* that cannot be added, is passed over.                                     *)
Columns(p) == Booting(p, "columns") /\ MayWrite(p) /\ Goes(p, "seed") /\ Reads

Seed(p) ==
    /\ Booting(p, "seed") /\ Goes(p, IF Override /\ ~db.admin THEN "insert" ELSE "bind") /\ Reads
SeedInsert(p) ==
    /\ Booting(p, "insert") /\ ~db.admin /\ Goes(p, "bind") /\ Autocommits(p, [db EXCEPT !.admin = TRUE])

(* run_server: a bind that fails raises, and the finally clause closes all.  *)
Bind(p) ==
    /\ proc[p] = "bind" /\ UNCHANGED <<store, errors, launcher>>
    /\ \/ port = None /\ port' = p /\ Goes(p, "serve")
       \/ port # None /\ Goes(p, "closing") /\ UNCHANGED port
Release(p) == port' = IF port = p THEN None ELSE port
Interrupt(p) == proc[p] = "serve" /\ Goes(p, "closing") /\ Release(p) /\ UNCHANGED <<store, errors, launcher>>
CancelTasks(p) ==
    /\ proc[p] = "closing" /\ Goes(p, "cancelled") /\ UNCHANGED <<port, store, errors, launcher>>
Shutdown(p) == proc[p] = "cancelled" /\ Goes(p, "none") /\ UNCHANGED <<port, store, errors, launcher>>

(* A process ends: killed by the launcher or the system, or crashed.         *)
Dies(p) ==
    /\ Alive(p) /\ Goes(p, "none") /\ Release(p) /\ txn' = IF txn.of = p THEN NoTxn ELSE txn
    /\ UNCHANGED <<db, errors, launcher>>

Boot(p) ==
    \/ Schema(p) \/ BootFails(p) \/ Check(p) \/ Rename(p) \/ Create(p) \/ Copy(p) \/ DropOld(p)
    \/ Commit(p) \/ StepFails(p) \/ Count(p) \/ Clear(p) \/ Fill(p) \/ Indexed(p) \/ Columns(p)
    \/ Seed(p) \/ SeedInsert(p) \/ Bind(p)

OutsiderMoves ==
    /\ port \in {None, Outsider} /\ port' \in {None, Outsider} \ {port}
    /\ UNCHANGED <<proc, store, errors, launcher>>

-----------------------------------------------------------------------------
(* The window: _refresh_status, by the timer or after an event.              *)
Seen(starting) ==
    CASE starting /\ ~IsRunning -> "starting"
      [] IsRunning -> "running"
      [] ~IsRunning /\ ~starting /\ InUse -> "conflict"
      [] OTHER -> "stopped"
Refresh(starting) == shown' = Seen(starting) /\ explicit' = (Seen(starting) = "starting")
Enabled(button) ==
    CASE button = "start" -> shown = "stopped"
      [] button = "stop" -> shown \in {"starting", "running"}
      [] button = "restart" -> shown = "running"
      [] button = "kill" -> shown = "conflict"

GuiTurn == gui = "open" /\ job[Gui] = Idle
Poll ==
    /\ GuiTurn /\ Refresh(explicit)
    /\ UNCHANGED <<os, store, server, job, waiting, signals, shut, counters>>
OnStarting ==
    /\ GuiTurn /\ signals > 0 /\ signals' = signals - 1 /\ Refresh(TRUE)
    /\ UNCHANGED <<os, store, server, job, waiting, shut, counters>>

Starts(t) == job[t].pc \in {"start", "kill", "recheck", "announce", "spawn"}
Restarts(t) == Starts(t) \/ job[t].pc = "slept" \/ job[t].then = "slept"
Does(t, pc) == job' = [job EXCEPT ![t].pc = pc]
Click(button) ==
    /\ GuiTurn /\ Enabled(button) /\ clicks < MaxClicks /\ clicks' = clicks + 1
    /\ UNCHANGED <<os, store, server, waiting, signals, shut, errors>>
OnStart ==
    /\ Click("start") /\ Does(Gui, "start")
    /\ overlapped' = (overlapped \/ \E t \in Worker : Starts(t)) /\ UNCHANGED <<shown, explicit>>
Spawned(pc, then) ==
    \E t \in Worker : job[t] = Idle /\ job' = [job EXCEPT ![t] = [pc |-> pc, target |-> None, then |-> then]]
OnStop ==
    /\ Click("stop") /\ Refresh(explicit) /\ UNCHANGED overlapped
    /\ IF IsRunning THEN Spawned("stop", "idle") ELSE UNCHANGED job
OnRestart == Click("restart") /\ Spawned("stop", "slept") /\ UNCHANGED <<shown, explicit, overlapped>>

(* kill_process_tree: SIGKILL to whoever has the port; it may be refused.    *)
KillOwner ==
    CASE Owner \in Proc -> Goes(Owner, "dying") /\ UNCHANGED port
      [] Owner = Outsider -> port' \in {None, Outsider} /\ UNCHANGED proc
      [] OTHER -> UNCHANGED os
OnKillConflict ==
    /\ GuiTurn /\ Enabled("kill") /\ clicks < MaxClicks /\ clicks' = clicks + 1
    /\ KillOwner /\ Does(Gui, "killed")
    /\ UNCHANGED <<store, server, waiting, window, errors, overlapped>>
Killed ==
    /\ job[Gui].pc = "killed" /\ Does(Gui, "idle") /\ Refresh(explicit)
    /\ UNCHANGED <<os, store, server, waiting, signals, shut, counters>>

CloseEvent ==
    /\ GuiTurn /\ gui' = "closing" /\ job' = [job EXCEPT ![Gui].pc = "stop"]
    /\ cutShort' = (\E t \in Worker : Restarts(t))
    /\ UNCHANGED <<os, store, server, waiting, shown, explicit, signals, counters>>
(* The daemon threads end with the main thread.                              *)
Exit ==
    /\ gui = "closing" /\ job[Gui] = Idle /\ gui' = "exited"
    /\ job' = [t \in Thread |-> Idle] /\ waiting' = {}
    /\ UNCHANGED <<os, store, server, shown, explicit, signals, cutShort, counters>>

-----------------------------------------------------------------------------
(* ServerLifecycle, run by any thread t.                                     *)
Step(t, pc) == job[t].pc = pc /\ UNCHANGED <<store, shut, clicks, errors>>

(* ServerProcess.stop kills the process group and waits up to six seconds.   *)
Stop(t) ==
    /\ Step(t, "stop") /\ UNCHANGED <<port, server, waiting, shown, explicit, signals, overlapped>>
    /\ \/ IsRunning /\ Goes(server, "dying") /\ job' = [job EXCEPT ![t].pc = "wait", ![t].target = server]
       \/ ~IsRunning /\ UNCHANGED proc /\ job' = [job EXCEPT ![t] = [Idle EXCEPT !.pc = job[t].then]]
Waited(t) ==
    /\ Step(t, "wait") /\ job' = [job EXCEPT ![t] = [Idle EXCEPT !.pc = job[t].then]]
    /\ UNCHANGED <<os, server, waiting, shown, explicit, signals, overlapped>>
Slept(t) ==
    /\ Step(t, "slept") /\ Does(t, "start")
    /\ overlapped' = (overlapped \/ \E u \in Thread \ {t} : Starts(u))
    /\ UNCHANGED <<os, server, waiting, shown, explicit, signals>>

StartUnchecked(t) ==
    /\ Step(t, "start") /\ Does(t, IF InUse THEN "kill" ELSE "announce")
    /\ UNCHANGED <<os, server, waiting, shown, explicit, signals, overlapped>>
Start(t) ==
    /\ Step(t, "start")
    /\ Does(t, IF IsRunning THEN "idle" ELSE IF InUse THEN "kill" ELSE "announce")
    /\ UNCHANGED <<os, server, waiting, shown, explicit, signals, overlapped>>
Kill(t) ==
    /\ Step(t, "kill") /\ KillOwner /\ Does(t, "recheck")
    /\ UNCHANGED <<server, waiting, shown, explicit, signals, overlapped>>
Recheck(t) ==
    /\ Step(t, "recheck") /\ Does(t, IF InUse THEN "idle" ELSE "announce")
    /\ UNCHANGED <<os, server, waiting, shown, explicit, signals, overlapped>>
(* on_starting, then a new ServerProcess: the window handles its own signal  *)
(* at once, a worker's when it has time.                                     *)
Announce(t) ==
    /\ Step(t, "announce") /\ Does(t, "spawn") /\ server' = None
    /\ IF t = Gui THEN Refresh(TRUE) /\ UNCHANGED signals
                  ELSE signals' = signals + 1 /\ UNCHANGED <<shown, explicit>>
    /\ UNCHANGED <<os, waiting, overlapped>>
Unused(p) == ~Alive(p) /\ p # server /\ p \notin waiting /\ \A t \in Thread : job[t].target # p
Spawn(t) ==
    /\ Step(t, "spawn") /\ Does(t, "idle")
    /\ \/ \E p \in Proc : Unused(p) /\ Goes(p, "schema") /\ server' = p /\ waiting' = waiting \cup {p}
       \/ UNCHANGED <<proc, server, waiting>>    \* Popen raises
    /\ UNCHANGED <<port, shown, explicit, signals, overlapped>>

(* wait_for_ready ends: its server is gone, the port answers, or 120 s.      *)
Ready(p) ==
    /\ p \in waiting /\ waiting' = waiting \ {p}
    /\ UNCHANGED <<os, store, server, job, window, counters>>

Thread_(t) ==
    Stop(t) \/ Waited(t) \/ Slept(t) \/ Start(t) \/ Kill(t) \/ Recheck(t) \/ Announce(t) \/ Spawn(t)
Window ==
    Poll \/ OnStarting \/ OnStart \/ OnStop \/ OnRestart \/ OnKillConflict \/ Killed \/ CloseEvent \/ Exit
Next ==
    \/ Window \/ OutsiderMoves
    \/ \E t \in Thread : Thread_(t)
    \/ \E p \in Proc : Boot(p) \/ Interrupt(p) \/ CancelTasks(p) \/ Shutdown(p) \/ Dies(p) \/ Ready(p)

Spec == Init /\ [][Next]_vars

-----------------------------------------------------------------------------
DbType == [schema : {"absent", "global", "perArtist"}, songs : SUBSET Song, kept : SUBSET Song,
           hasKept : BOOLEAN, index : SUBSET Song, bare : BOOLEAN, admin : BOOLEAN]
TypeOK ==
    /\ proc \in [Proc -> Pcs] /\ port \in Proc \cup {Outsider, None}
    /\ db \in DbType /\ txn \in [of : Proc \cup {None}, db : DbType]
    /\ server \in Proc \cup {None} /\ waiting \subseteq Proc
    /\ job \in [Thread -> [pc : JobPcs, target : Proc \cup {None}, then : {"idle", "slept"}]]
    /\ shown \in {"stopped", "starting", "running", "conflict"} /\ explicit \in BOOLEAN
    /\ signals \in 0 .. MaxClicks /\ gui \in {"open", "closing", "exited"}
    /\ clicks \in 0 .. MaxClicks /\ errors \in 0 .. MaxErrors /\ overlapped \in BOOLEAN
    /\ cutShort \in BOOLEAN
    (* who listens is alive, who writes is alive, and nobody else's commit   *)
    (* slips between a transaction and its end                               *)
    /\ port \in Proc => proc[port] \in {"serve", "dying"}
    /\ txn.of # None => proc[txn.of] \in {"drop", "commit", "fill", "indexed", "dying"}

(* Migrating loses no song, whoever dies, fails or boots beside it at any    *)
(* statement: every row is in songs or still in songs_old_migration          *)
(* (_migrate_songs_unique_constraint).                                       *)
NoRowIsDestroyed == [][db.songs \cup db.kept \subseteq db'.songs \cup db'.kept]_db

(* As long as no two threads of the launcher start a server at once, every   *)
(* server process is the one the launcher would stop, however stale the      *)
(* buttons are and whatever stops, kills and crashes come between; and       *)
(* closing the window leaves no server behind, unless a worker was in the    *)
(* middle of a restart: closeEvent stops what runs at that moment, and the   *)
(* worker may start one before the interpreter has ended                     *)
(* (ServerLifecycle.start, restart, ServerManagerQt.closeEvent).             *)
OneStarterNoOrphan ==
    ~overlapped => \A p \in Proc : Alive(p) /\ proc[p] # "dying" =>
        p = server /\ (gui = "exited" => cutShort)

=============================================================================
