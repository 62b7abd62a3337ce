---------------------------- MODULE UpkeepProofs ----------------------------
(***************************************************************************)
(* Proofs about what keeps the installation and its source in order.       *)
(*                                                                         *)
(* Server: what a migration may do to the table songs, with any number of  *)
(* processes booting on one file, and which thread of the launcher may be  *)
(* starting a server.                                                      *)
(*                                                                         *)
(* RepoIndex and Patchlog, together the Tooling of the monorepo: the cache *)
(* of the source index tells the truth after any edits and any overlapping *)
(* or killed runs, the lint that is based on it stops every import cycle,  *)
(* and no entry of the patch log is lost without its check saying so.      *)
(***************************************************************************)
EXTENDS Server, Tooling, FiniteSetTheorems, FunctionTheorems,
        SequenceTheorems, TLAPS


-----------------------------------------------------------------------------
(***************************************************************************)
(* The store and the threads of the launcher.  The first invariant is      *)
(* about the write transaction and who holds it, the second about what a   *)
(* thread that is starting a server has already seen of the others.        *)
(***************************************************************************)

Writing == {"drop", "commit", "fill", "indexed"}    \* inside a transaction

StoreTypes ==
    /\ proc \in [Proc -> Pcs] /\ port \in Proc \cup {Outsider, None}
    /\ db \in DbType /\ txn \in [of : Proc \cup {None}, db : DbType]

(* Who listens on the port is serving, or has been killed while it was.     *)
PortIsServed == port \in Proc => proc[port] \in {"serve", "dying"}

(* Who writes holds the transaction, and who holds it is writing or dying.  *)
Holder ==
    \A p \in Proc : /\ proc[p] \in Writing => txn.of = p
                    /\ txn.of = p => proc[p] \in Writing \cup {"dying"}

(* No row waits in songs_old_migration when there is no such table.         *)
Sound(d) == d.hasKept \/ d.kept = {}
Rows(d) == d.songs \cup d.kept

(* What the transaction sees has every row the file has, and the old table  *)
(* is dropped only where each of its rows is in the new one.                *)
Saved ==
    /\ Sound(db) /\ Sound(txn.db)
    /\ Rows(db) \subseteq Rows(txn.db)
    /\ txn.of = None => txn.db = db
    /\ \A p \in Proc : proc[p] = "drop" => txn.db.kept \subseteq txn.db.songs

Store == StoreTypes /\ PortIsServed /\ Holder /\ Saved

Lossless == Rows(db) \subseteq Rows(db')

LEMMA NobodyIsNoProcess == None \notin Proc
BY ServerAssumption

-----------------------------------------------------------------------------
(* The ways in which a step touches the store.                              *)

(* A process moves on and the store stays.                                  *)
LEMMA MovesOn ==
    ASSUME Store, NEW p \in Proc, NEW pc \in Pcs \ Writing, Goes(p, pc),
           proc[p] \notin Writing \/ pc = "dying",
           txn.of = p => pc = "dying",
           UNCHANGED store, port' \in {port, None, Outsider},
           port = p => pc \in {"serve", "dying"}
    PROVE  Store' /\ Lossless
<1>1. db' = db /\ txn' = txn
  BY DEF store
<1>2. proc' \in [Proc -> Pcs] /\ proc'[p] = pc /\ \A q \in Proc \ {p} : proc'[q] = proc[q]
  BY DEF Goes, Store, StoreTypes
<1>3. StoreTypes'
  BY <1>1, <1>2 DEF Store, StoreTypes
<1>4. PortIsServed'
  BY <1>2, ServerAssumption DEF Store, PortIsServed
<1>5. Holder'
  BY <1>1, <1>2 DEF Store, Holder
<1>6. Saved'
  BY <1>1, <1>2 DEF Store, Saved, Sound, Rows, Writing
<1>7. Lossless
  BY <1>1 DEF Lossless
<1>8. QED BY <1>3, <1>4, <1>5, <1>6, <1>7 DEF Store

(* A statement outside of a transaction.                                    *)
LEMMA AutocommitIsSafe ==
    ASSUME Store, NEW p \in Proc, NEW pc \in Pcs \ Writing, Goes(p, pc), port' = port,
           proc[p] \notin Writing \cup {"serve", "dying"},
           NEW new \in DbType, Autocommits(p, new), Sound(new), Rows(db) \subseteq Rows(new)
    PROVE  Store' /\ Lossless
<1>1. txn.of = None
  BY DEF Store, Holder, Autocommits, MayWrite
<1>2. db' = new /\ txn' = [of |-> None, db |-> new]
  BY DEF Autocommits
<1>3. txn'.of = None /\ txn'.db = new
  BY <1>2
<1>4. proc' \in [Proc -> Pcs] /\ proc'[p] = pc /\ \A q \in Proc \ {p} : proc'[q] = proc[q]
  BY DEF Goes, Store, StoreTypes
<1>5. StoreTypes'
  BY <1>2, <1>4 DEF Store, StoreTypes
<1>6. PortIsServed'
  BY <1>4 DEF Store, PortIsServed
<1>7. Holder'
  BY <1>1, <1>3, <1>4, NobodyIsNoProcess DEF Store, Holder
<1>8. \A q \in Proc : proc'[q] # "drop"
  BY <1>1, <1>4, NobodyIsNoProcess DEF Store, Holder, Writing
<1>9. Saved'
  BY <1>2, <1>3, <1>8 DEF Saved
<1>10. Lossless
  BY <1>2 DEF Lossless
<1>11. QED BY <1>5, <1>6, <1>7, <1>9, <1>10 DEF Store

(* A statement that opens the transaction, or one inside of it.             *)
LEMMA TransactionIsSafe ==
    ASSUME Store, NEW p \in Proc, NEW pc \in Writing, Goes(p, pc), port' = port,
           proc[p] \notin {"serve", "dying"},
           NEW new \in DbType, InTransaction(p, new), Sound(new), Rows(db) \subseteq Rows(new),
           pc = "drop" => new.kept \subseteq new.songs
    PROVE  Store' /\ Lossless
<1>1. txn' = [of |-> p, db |-> new] /\ db' = db /\ txn.of \in {None, p}
  BY DEF InTransaction, MayWrite
<1>2. txn'.of = p /\ txn'.db = new /\ p # None
  BY <1>1, NobodyIsNoProcess
<1>3. pc \in Pcs
  BY DEF Writing, Pcs
<1>4. proc' \in [Proc -> Pcs] /\ proc'[p] = pc /\ \A q \in Proc \ {p} : proc'[q] = proc[q]
  BY <1>3 DEF Goes, Store, StoreTypes
<1>5. StoreTypes'
  BY <1>1, <1>4 DEF Store, StoreTypes
<1>6. PortIsServed'
  BY <1>4 DEF Store, PortIsServed
<1>7. \A q \in Proc \ {p} : proc[q] \notin Writing
  BY <1>1, NobodyIsNoProcess DEF Store, Holder
<1>8. Holder'
  BY <1>2, <1>4, <1>7 DEF Holder
<1>9. Saved'
  <2>1. \A q \in Proc : proc'[q] = "drop" => q = p
    BY <1>4, <1>7 DEF Writing
  <2>2. QED BY <1>1, <1>2, <1>4, <2>1 DEF Saved, Store
<1>10. Lossless
  BY <1>1 DEF Lossless
<1>11. QED BY <1>5, <1>6, <1>8, <1>9, <1>10 DEF Store

LEMMA CommitIsSafe ==
    ASSUME Store, NEW p \in Proc, NEW pc \in Pcs \ Writing, Goes(p, pc), port' = port,
           proc[p] \in Writing, Commits(p)
    PROVE  Store' /\ Lossless
<1>1. txn.of = p /\ txn \in [of : Proc \cup {None}, db : DbType]
  BY DEF Store, Holder, StoreTypes
<1>2. db' = txn.db /\ txn'.of = None /\ txn'.db = txn.db
      /\ txn' \in [of : Proc \cup {None}, db : DbType]
  BY <1>1 DEF Commits
<1>3. proc' \in [Proc -> Pcs] /\ proc'[p] = pc /\ \A q \in Proc \ {p} : proc'[q] = proc[q]
  BY DEF Goes, Store, StoreTypes
<1>4. StoreTypes'
  BY <1>1, <1>2, <1>3 DEF Store, StoreTypes
<1>5. PortIsServed'
  BY <1>3 DEF Store, PortIsServed, Writing
<1>6. \A q \in Proc : proc'[q] \notin Writing
  BY <1>1, <1>3 DEF Store, Holder
<1>7. Holder'
  BY <1>2, <1>6, NobodyIsNoProcess DEF Holder
<1>8. Saved'
  BY <1>2, <1>6 DEF Store, Saved, Writing
<1>9. Lossless
  BY <1>2 DEF Lossless, Store, Saved
<1>10. QED BY <1>4, <1>5, <1>7, <1>8, <1>9 DEF Store

(* A process fails or dies and what it had not committed is gone.           *)
LEMMA RollbackIsSafe ==
    ASSUME Store, NEW p \in Proc, NEW pc \in Pcs \ (Writing \cup {"dying"}), Goes(p, pc),
           port' \in {port, None}, port' # p, db' = db, txn' = RolledBack(p)
    PROVE  Store' /\ Lossless
<1>1. /\ txn.of = p => txn'.of = None /\ txn'.db = db
      /\ txn.of # p => txn' = txn
      /\ txn' \in [of : Proc \cup {None}, db : DbType]
  BY DEF RolledBack, NoTxn, Store, StoreTypes
<1>2. proc' \in [Proc -> Pcs] /\ proc'[p] = pc /\ \A q \in Proc \ {p} : proc'[q] = proc[q]
  BY DEF Goes, Store, StoreTypes
<1>3. StoreTypes'
  BY <1>1, <1>2 DEF Store, StoreTypes
<1>4. PortIsServed'
  BY <1>2, ServerAssumption DEF Store, PortIsServed
<1>5. Holder'
  BY <1>1, <1>2, NobodyIsNoProcess DEF Store, Holder
<1>6. Saved'
  <2>1. CASE txn.of # p
    BY <1>1, <1>2, <2>1 DEF Store, Saved, Writing
  <2>2. CASE txn.of = p
    <3>1. \A q \in Proc : proc'[q] # "drop"
      BY <1>2, <2>2 DEF Store, Holder, Writing
    <3>2. QED BY <1>1, <2>2, <3>1 DEF Store, Saved
  <2>3. QED BY <2>1, <2>2
<1>7. Lossless
  BY DEF Lossless
<1>8. QED BY <1>3, <1>4, <1>5, <1>6, <1>7 DEF Store
-----------------------------------------------------------------------------
(* Every step of a process is one of those.                                 *)

LEMMA PcsAre ==
    \A pc \in {"none", "schema", "check", "rename", "create", "copy", "count", "clear", "columns",
               "seed", "insert", "bind", "serve", "closing", "cancelled", "hung", "dying"} :
        pc \in Pcs \ Writing
BY DEF Pcs, Writing

(* Who does not hold the transaction, and neither serves nor dies, does not *)
(* own the port either.                                                     *)
LEMMA Bystander ==
    ASSUME Store, NEW p \in Proc, proc[p] \notin Writing \cup {"serve", "dying"}
    PROVE  port # p /\ txn.of # p
BY DEF Store, PortIsServed, Holder

LEMMA Writer ==
    ASSUME Store, NEW p \in Proc, proc[p] \in Writing
    PROVE  /\ port # p /\ txn.of = p /\ txn.db \in DbType /\ Sound(txn.db)
           /\ Rows(db) \subseteq Rows(txn.db)
           /\ proc[p] \notin {"serve", "dying"}
BY DEF Store, StoreTypes, PortIsServed, Holder, Saved, Writing

LEMMA DbIs == ASSUME Store PROVE db \in DbType /\ Sound(db)
BY DEF Store, StoreTypes, Saved

LEMMA SchemaIsSafe == ASSUME Store, NEW p \in Proc, Schema(p) PROVE Store' /\ Lossless
<1> DEFINE new == IF db.schema = "absent" THEN [db EXCEPT !.schema = "perArtist"] ELSE db
<1>1. new \in DbType /\ Sound(new) /\ Rows(db) \subseteq Rows(new)
  BY DbIs DEF DbType, Sound, Rows
<1>2. Autocommits(p, new)
  BY DEF Schema
<1> HIDE DEF new
<1>3. proc[p] = "schema" /\ port' = port /\ Goes(p, "check")
  BY DEF Schema, Booting
<1>4. QED BY <1>1, <1>2, <1>3, PcsAre, AutocommitIsSafe DEF Writing

LEMMA RenameIsSafe == ASSUME Store, NEW p \in Proc, Rename(p) PROVE Store' /\ Lossless
<1> DEFINE new == [db EXCEPT !.schema = "absent", !.songs = {}, !.kept = db.songs, !.hasKept = TRUE]
<1>1. new \in DbType /\ Sound(new) /\ Rows(db) \subseteq Rows(new)
  BY DbIs DEF DbType, Sound, Rows, Rename, CanRename
<1>2. Autocommits(p, new)
  BY DEF Rename
<1> HIDE DEF new
<1>3. proc[p] = "rename" /\ port' = port /\ Goes(p, "create")
  BY DEF Rename, Booting
<1>4. QED BY <1>1, <1>2, <1>3, PcsAre, AutocommitIsSafe DEF Writing

LEMMA CreateIsSafe == ASSUME Store, NEW p \in Proc, Create(p) PROVE Store' /\ Lossless
<1> DEFINE new == [db EXCEPT !.schema = "perArtist"]
<1>1. new \in DbType /\ Sound(new) /\ Rows(db) \subseteq Rows(new)
  BY DbIs DEF DbType, Sound, Rows
<1>2. Autocommits(p, new)
  BY DEF Create
<1> HIDE DEF new
<1>3. proc[p] = "create" /\ port' = port /\ Goes(p, "copy")
  BY DEF Create, Booting
<1>4. QED BY <1>1, <1>2, <1>3, PcsAre, AutocommitIsSafe DEF Writing

LEMMA SeedInsertIsSafe == ASSUME Store, NEW p \in Proc, SeedInsert(p) PROVE Store' /\ Lossless
<1> DEFINE new == [db EXCEPT !.admin = TRUE]
<1>1. new \in DbType /\ Sound(new) /\ Rows(db) \subseteq Rows(new)
  BY DbIs DEF DbType, Sound, Rows
<1>2. Autocommits(p, new)
  BY DEF SeedInsert
<1> HIDE DEF new
<1>3. proc[p] = "insert" /\ port' = port /\ Goes(p, "bind")
  BY DEF SeedInsert, Booting
<1>4. QED BY <1>1, <1>2, <1>3, PcsAre, AutocommitIsSafe DEF Writing

(* The copy makes every row of the old table a row of the new one.          *)
LEMMA CopyIsSafe == ASSUME Store, NEW p \in Proc, Copy(p) PROVE Store' /\ Lossless
<1> DEFINE new == [db EXCEPT !.songs = @ \cup db.kept]
<1>1. new \in DbType /\ Sound(new) /\ Rows(db) \subseteq Rows(new) /\ new.kept \subseteq new.songs
  BY DbIs DEF DbType, Sound, Rows
<1>2. InTransaction(p, new)
  BY DEF Copy
<1> HIDE DEF new
<1>3. proc[p] = "copy" /\ port' = port /\ Goes(p, "drop")
  BY DEF Copy, Booting
<1>4. QED BY <1>1, <1>2, <1>3, TransactionIsSafe DEF Writing

(* So the old table may be dropped.                                         *)
LEMMA DropOldIsSafe == ASSUME Store, NEW p \in Proc, DropOld(p) PROVE Store' /\ Lossless
<1> DEFINE new == [txn.db EXCEPT !.hasKept = FALSE, !.kept = {}]
<1>1. proc[p] = "drop" /\ port' = port /\ Goes(p, "commit")
  BY DEF DropOld, Booting
<1>2. txn.db.kept \subseteq txn.db.songs /\ txn.db \in DbType /\ Rows(db) \subseteq Rows(txn.db)
  BY <1>1, Writer DEF Store, Saved, Writing
<1>3. new \in DbType /\ new.songs = txn.db.songs /\ new.kept = {}
  BY <1>2 DEF DbType
<1>4. InTransaction(p, new)
  BY DEF DropOld
<1> HIDE DEF new
<1>5. Sound(new) /\ Rows(db) \subseteq Rows(new)
  BY <1>2, <1>3 DEF Sound, Rows
<1>6. QED BY <1>1, <1>3, <1>4, <1>5, TransactionIsSafe DEF Writing

LEMMA ClearIsSafe == ASSUME Store, NEW p \in Proc, Clear(p) PROVE Store' /\ Lossless
<1> DEFINE new == [db EXCEPT !.index = {}, !.bare = FALSE]
<1>1. new \in DbType /\ Sound(new) /\ Rows(db) \subseteq Rows(new)
  BY DbIs DEF DbType, Sound, Rows
<1>2. InTransaction(p, new)
  BY DEF Clear
<1> HIDE DEF new
<1>3. proc[p] = "clear" /\ port' = port /\ Goes(p, "fill")
  BY DEF Clear, Booting
<1>4. QED BY <1>1, <1>2, <1>3, TransactionIsSafe DEF Writing

LEMMA FillIsSafe == ASSUME Store, NEW p \in Proc, Fill(p) PROVE Store' /\ Lossless
<1> DEFINE new == [txn.db EXCEPT !.index = txn.db.songs]
<1>1. proc[p] = "fill" /\ port' = port /\ Goes(p, "indexed")
  BY DEF Fill, Booting
<1>2. txn.db \in DbType /\ Sound(txn.db) /\ Rows(db) \subseteq Rows(txn.db)
  BY <1>1, Writer DEF Writing
<1>3. new \in DbType /\ Sound(new) /\ Rows(db) \subseteq Rows(new)
  BY <1>2 DEF DbType, Sound, Rows
<1>4. InTransaction(p, new)
  BY DEF Fill
<1> HIDE DEF new
<1>5. QED BY <1>1, <1>3, <1>4, TransactionIsSafe DEF Writing

LEMMA CommitsAreSafe ==
    ASSUME Store, NEW p \in Proc, Commit(p) \/ Indexed(p) PROVE Store' /\ Lossless
<1>1. CASE Commit(p)
  BY <1>1, PcsAre, CommitIsSafe DEF Commit, Booting, Writing
<1>2. CASE Indexed(p)
  BY <1>2, PcsAre, CommitIsSafe DEF Indexed, Booting, Writing
<1>3. QED BY <1>1, <1>2

LEMMA FailuresAreSafe ==
    ASSUME Store, NEW p \in Proc, BootFails(p) \/ StepFails(p) PROVE Store' /\ Lossless
<1>1. PICK pc \in {"none", "hung", "columns", "count"} : Goes(p, pc)
  BY DEF BootFails, StepFails
<1>2. port' = port /\ db' = db /\ txn' = RolledBack(p)
  BY DEF BootFails, StepFails
<1>3. proc[p] \notin {"serve", "dying"}
  BY DEF BootFails, StepFails
<1>4. pc \in Pcs \ (Writing \cup {"dying"})
  BY <1>1, PcsAre
<1>5. port # p
  BY <1>3 DEF Store, PortIsServed
<1>6. QED BY <1>1, <1>2, <1>4, <1>5, RollbackIsSafe

LEMMA ReadsAreSafe ==
    ASSUME Store, NEW p \in Proc,
           Check(p) \/ Count(p) \/ Columns(p) \/ Seed(p) \/ Bind(p) \/ CancelTasks(p) \/ Shutdown(p)
    PROVE  Store' /\ Lossless
<1> DEFINE Goals == {"rename", "count", "clear", "columns", "seed", "insert", "bind", "serve",
                       "closing", "cancelled", "none"}
<1>1. PICK pc \in Goals : /\ Goes(p, pc)
                            /\ \/ port' = port
                               \/ port' = p /\ pc = "serve"
  <2>1. CASE Bind(p)
    BY <2>1 DEF Bind
  <2>2. CASE Check(p) \/ Count(p) \/ Columns(p) \/ Seed(p)
    BY <2>2 DEF Check, Count, Columns, Seed, Booting
  <2>3. CASE CancelTasks(p) \/ Shutdown(p)
    BY <2>3 DEF CancelTasks, Shutdown
  <2>4. QED BY <2>1, <2>2, <2>3
<1>2. UNCHANGED store
  BY DEF Check, Count, Columns, Seed, Bind, CancelTasks, Shutdown, Booting, Reads
<1>3. proc[p] \notin Writing \cup {"serve", "dying"}
  BY DEF Check, Count, Columns, Seed, Bind, CancelTasks, Shutdown, Booting, Writing
<1>4. port # p /\ txn.of # p
  BY <1>3, Bystander
<1>5. CASE port' = port
  BY <1>1, <1>2, <1>3, <1>4, <1>5, PcsAre, MovesOn
<1>6. CASE port' = p /\ pc = "serve"
  <2>1. proc' \in [Proc -> Pcs] /\ proc'[p] = "serve" /\ \A q \in Proc \ {p} : proc'[q] = proc[q]
    BY <1>1, <1>6, PcsAre DEF Goes, Store, StoreTypes
  <2>2. db' = db /\ txn' = txn
    BY <1>2 DEF store
  <2>3. StoreTypes' /\ PortIsServed'
    BY <1>6, <2>1, <2>2 DEF Store, StoreTypes, PortIsServed
  <2>4. Holder' /\ Saved' /\ Lossless
    BY <1>4, <2>1, <2>2 DEF Store, Holder, Saved, Sound, Rows, Lossless, Writing
  <2>5. QED BY <2>3, <2>4 DEF Store
<1>7. QED BY <1>1, <1>5, <1>6

LEMMA EndsAreSafe ==
    ASSUME Store, NEW p \in Proc, Interrupt(p) \/ Dies(p) PROVE Store' /\ Lossless
<1>1. port' \in {port, None} /\ port' # p
  BY NobodyIsNoProcess DEF Interrupt, Dies, Release
<1>2. CASE Interrupt(p)
  <2>1. proc[p] = "serve" /\ Goes(p, "closing") /\ UNCHANGED store
    BY <1>2 DEF Interrupt
  <2>2. txn.of # p
    BY <2>1 DEF Store, Holder, Writing
  <2>3. txn' = RolledBack(p) /\ db' = db
    BY <2>1, <2>2 DEF RolledBack, store
  <2>4. "closing" \in Pcs \ (Writing \cup {"dying"})
    BY PcsAre
  <2>5. QED BY <1>1, <2>1, <2>3, <2>4, RollbackIsSafe
<1>3. CASE Dies(p)
  <2>1. Goes(p, "none") /\ db' = db /\ txn' = RolledBack(p)
    BY <1>3 DEF Dies, RolledBack
  <2>2. "none" \in Pcs \ (Writing \cup {"dying"})
    BY PcsAre
  <2>3. QED BY <1>1, <2>1, <2>2, RollbackIsSafe
<1>4. QED BY <1>2, <1>3
-----------------------------------------------------------------------------
(* The launcher.                                                            *)

JobType == [pc : JobPcs, target : Proc \cup {None}, then : {"idle", "slept"}]
JobTypes ==
    /\ server \in Proc \cup {None}
    /\ job \in [Thread -> JobType]
    /\ overlapped \in BOOLEAN

Starting == {"start", "kill", "recheck", "announce", "spawn"}
Committed == {"kill", "recheck", "announce", "spawn"}    \* past the check of IsRunning

OneStarter ==
    ~overlapped => \A t, u \in Thread : Starts(t) /\ Starts(u) => t = u

(* Who is past the check has seen no server run, and none was started since.*)
NothingElseRuns ==
    ~overlapped => \A t \in Thread : job[t].pc \in Committed =>
        \A p \in Proc : Alive(p) => proc[p] = "dying"

(* Every server that runs is the one the launcher holds.                    *)
Owned == ~overlapped => \A p \in Proc : Alive(p) => p = server \/ proc[p] = "dying"

Launch == JobTypes /\ OneStarter /\ NothingElseRuns /\ Owned

(* No process begins, and none that was killed comes back.                  *)
NoBirth ==
    \A q \in Proc : \/ proc'[q] = proc[q]
                    \/ proc[q] \notin {"none", "dying"}
                    \/ proc'[q] \in {"none", "dying"}

LEMMA OneGoes ==
    ASSUME StoreTypes, NEW p \in Proc, NEW pc, Goes(p, pc),
           proc[p] \notin {"none", "dying"} \/ pc \in {"none", "dying"}
    PROVE  NoBirth
BY DEF NoBirth, Goes, StoreTypes

LEMMA SameProcs == ASSUME proc' = proc PROVE NoBirth
BY DEF NoBirth

LEMMA ProcessesMove ==
    ASSUME Launch, NoBirth, UNCHANGED <<server, job, overlapped>> PROVE Launch'
<1>1. JobTypes' /\ OneStarter'
  BY DEF Launch, JobTypes, OneStarter, Starts
<1>2. NothingElseRuns'
  BY DEF Launch, NothingElseRuns, NoBirth, Alive
<1>3. Owned'
  BY DEF Launch, Owned, NoBirth, Alive
<1>4. QED BY <1>1, <1>2, <1>3 DEF Launch

(* One thread of the launcher goes on.                                      *)
LEMMA OneJob ==
    ASSUME Launch, NoBirth, NEW t \in Thread, NEW j \in JobType, job' = [job EXCEPT ![t] = j],
           server' = server, overlapped' \in BOOLEAN, ~overlapped' => ~overlapped,
           j.pc \in Starting => \/ Starts(t)
                               \/ overlapped'
                               \/ \A u \in Thread \ {t} : ~Starts(u),
           j.pc \in Committed => job[t].pc \in Committed \/ ~IsRunning
    PROVE  Launch'
<1>1. job' \in [Thread -> JobType] /\ job'[t] = j /\ \A u \in Thread \ {t} : job'[u] = job[u]
  BY DEF Launch, JobTypes
<1>2. JobTypes'
  BY <1>1 DEF Launch, JobTypes
<1>3. Owned'
  BY DEF Launch, Owned, NoBirth, Alive
<1>4. OneStarter'
  <2>1. SUFFICES ASSUME ~overlapped', NEW v \in Thread, NEW u \in Thread, Starts(v)', Starts(u)'
                 PROVE  v = u
    BY DEF OneStarter
  <2>2. \A w \in Thread \ {t} : Starts(w)' => Starts(w)
    BY <1>1 DEF Starts
  <2>3. Starts(t)' => j.pc \in Starting
    BY <1>1 DEF Starts, Starting
  <2>4. \A v1, v2 \in Thread : Starts(v1) /\ Starts(v2) => v1 = v2
    BY <2>1 DEF Launch, OneStarter
  <2>5. QED BY <2>1, <2>2, <2>3, <2>4
<1>5. NothingElseRuns'
  <2>1. SUFFICES ASSUME ~overlapped', NEW v \in Thread, job'[v].pc \in Committed, NEW p \in Proc,
                        Alive(p)'
                 PROVE  proc'[p] = "dying"
    BY DEF NothingElseRuns
  <2>2. Alive(p) => proc[p] = "dying"
    <3>1. CASE job[v].pc \in Committed
      BY <2>1, <3>1 DEF Launch, NothingElseRuns
    <3>2. CASE job[v].pc \notin Committed
      <4>1. v = t /\ ~IsRunning
        BY <1>1, <2>1, <3>2
      <4>2. Alive(p) => p = server \/ proc[p] = "dying"
        BY <2>1 DEF Launch, Owned
      <4>3. QED BY <4>1, <4>2, NobodyIsNoProcess DEF IsRunning
    <3>3. QED BY <3>1, <3>2
  <2>3. QED BY <2>1, <2>2 DEF NoBirth, Alive
<1>6. QED BY <1>2, <1>3, <1>4, <1>5 DEF Launch

LEMMA JobIs == ASSUME Launch, NEW t \in Thread PROVE job[t] \in JobType
BY DEF Launch, JobTypes

LEMMA SetPc ==
    ASSUME Launch, NEW t \in Thread, NEW pc \in JobPcs
    PROVE  /\ [job[t] EXCEPT !.pc = pc] \in JobType /\ [job[t] EXCEPT !.pc = pc].pc = pc
BY JobIs DEF JobType

LEMMA IdleIs ==
    /\ Idle \in JobType /\ Idle.pc = "idle"
    /\ \A pc \in JobPcs : [Idle EXCEPT !.pc = pc] \in JobType /\ [Idle EXCEPT !.pc = pc].pc = pc
BY DEF Idle, JobType, JobPcs

(* The same for a thread that only changes its place.                       *)
LEMMA OneDoes ==
    ASSUME Launch, NoBirth, NEW t \in Thread, NEW pc \in JobPcs, Does(t, pc),
           server' = server, overlapped' \in BOOLEAN, ~overlapped' => ~overlapped,
           pc \in Starting => \/ Starts(t)
                             \/ overlapped'
                             \/ \A u \in Thread \ {t} : ~Starts(u),
           pc \in Committed => job[t].pc \in Committed \/ ~IsRunning
    PROVE  Launch'
<1> DEFINE j == [job[t] EXCEPT !.pc = pc]
<1>1. j \in JobType /\ j.pc = pc
  BY SetPc
<1>2. job' = [job EXCEPT ![t] = j]
  BY DEF Does
<1> HIDE DEF j
<1>3. QED BY <1>1, <1>2, OneJob
-----------------------------------------------------------------------------
(* Every step of the window and of a thread of ServerLifecycle.             *)

LEMMA ThreadsAre == Gui \in Thread /\ Worker \subseteq Thread
BY DEF Thread

LEMMA ServerIs ==
    ASSUME Launch, IsRunning PROVE server \in Proc /\ Alive(server)
BY DEF Launch, JobTypes, IsRunning

LEMMA StoreStays ==
    ASSUME Store, UNCHANGED <<proc, store>>, port' \in {port, None, Outsider}
    PROVE  Store' /\ Lossless
<1>1. db' = db /\ txn' = txn /\ proc' = proc
  BY DEF store
<1>2. StoreTypes' /\ PortIsServed'
  BY <1>1, ServerAssumption DEF Store, StoreTypes, PortIsServed
<1>3. Holder' /\ Saved' /\ Lossless
  BY <1>1 DEF Store, Holder, Saved, Sound, Rows, Lossless
<1>4. QED BY <1>2, <1>3 DEF Store

LEMMA KilledIsSafe ==
    ASSUME Store, NEW p \in Proc, Goes(p, "dying"), UNCHANGED <<port, store>>
    PROVE  Store' /\ Lossless /\ NoBirth
<1>1. Store' /\ Lossless
  BY PcsAre, MovesOn
<1>2. NoBirth
  BY OneGoes DEF Store
<1>3. QED BY <1>1, <1>2

LEMMA KillOwnerIsSafe ==
    ASSUME Store, KillOwner, UNCHANGED store PROVE Store' /\ Lossless /\ NoBirth
<1>1. CASE port \in Proc
  <2>1. Goes(port, "dying") /\ port' = port
    BY <1>1, ServerAssumption DEF KillOwner, Owner
  <2>2. QED BY <1>1, <2>1, KilledIsSafe
<1>2. CASE port = Outsider
  <2>1. port' \in {None, Outsider} /\ proc' = proc
    BY <1>2, ServerAssumption DEF KillOwner, Owner
  <2>2. QED BY <2>1, StoreStays, SameProcs
<1>3. CASE port \notin Proc /\ port # Outsider
  <2>1. UNCHANGED os
    BY <1>3 DEF KillOwner, Owner
  <2>2. port' = port /\ proc' = proc
    BY <2>1 DEF os
  <2>3. QED BY <2>2, StoreStays, SameProcs
<1>4. QED BY <1>1, <1>2, <1>3

LEMMA LaunchStays ==
    ASSUME Launch, UNCHANGED <<proc, server, job, overlapped>> PROVE Launch'
BY ProcessesMove, SameProcs

LEMMA GuiSteps ==
    ASSUME Store, Launch, Window PROVE Store' /\ Lossless /\ Launch'
<1>1. ASSUME UNCHANGED <<os, store>> PROVE Store' /\ Lossless /\ NoBirth
  BY <1>1, StoreStays, SameProcs DEF os
<1>2. CASE Poll \/ OnStarting
  <2>1. UNCHANGED <<os, store, server, job, overlapped>>
    BY <1>2 DEF Poll, OnStarting, counters
  <2>2. QED BY <1>1, <2>1, LaunchStays DEF os
<1>3. CASE OnStart
  <2>1. /\ UNCHANGED <<os, store, server>> /\ job[Gui] = Idle /\ Does(Gui, "start")
        /\ overlapped' = (overlapped \/ \E t \in Worker : Starts(t))
    BY <1>3 DEF OnStart, Click, GuiTurn
  <2>2. overlapped' \/ \A u \in Thread \ {Gui} : ~Starts(u)
    BY <2>1 DEF Thread
  <2>3. "start" \in JobPcs /\ "start" \notin Committed
    BY DEF JobPcs, Committed
  <2>4. overlapped' \in BOOLEAN /\ (~overlapped' => ~overlapped)
    BY <2>1 DEF Launch, JobTypes
  <2>5. Launch'
    BY <1>1, <2>1, <2>2, <2>3, <2>4, ThreadsAre, OneDoes
  <2>6. QED BY <1>1, <2>1, <2>5
<1>4. ASSUME NEW then \in {"idle", "slept"}, Spawned("stop", then),
             UNCHANGED <<os, store, server, overlapped>>
      PROVE  Store' /\ Lossless /\ Launch'
  <2>1. PICK t \in Worker : job' = [job EXCEPT ![t] = [pc |-> "stop", target |-> None, then |-> then]]
    BY <1>4 DEF Spawned
  <2> DEFINE j == [pc |-> "stop", target |-> None, then |-> then]
  <2>2. j \in JobType /\ j.pc \notin Starting /\ j.pc \notin Committed
    BY DEF JobType, JobPcs, Starting, Committed
  <2>3. job' = [job EXCEPT ![t] = j]
    BY <2>1
  <2> HIDE DEF j
  <2>4. overlapped' \in BOOLEAN /\ (~overlapped' => ~overlapped)
    BY <1>4 DEF Launch, JobTypes
  <2>5. QED BY <1>1, <1>4, <2>2, <2>3, <2>4, ThreadsAre, OneJob
<1>5. CASE OnStop
  <2>1. UNCHANGED <<os, store, server, overlapped>> /\ (Spawned("stop", "idle") \/ job' = job)
    BY <1>5 DEF OnStop, Click
  <2>2. QED BY <1>1, <1>4, <2>1, LaunchStays DEF os
<1>6. CASE OnRestart
  BY <1>4, <1>6 DEF OnRestart, Click
<1>7. CASE OnKillConflict
  <2>1. UNCHANGED <<store, server, overlapped>> /\ KillOwner /\ Does(Gui, "killed")
    BY <1>7 DEF OnKillConflict
  <2>2. "killed" \in JobPcs /\ "killed" \notin Starting /\ "killed" \notin Committed
    BY DEF JobPcs, Starting, Committed
  <2>3. overlapped' \in BOOLEAN /\ (~overlapped' => ~overlapped)
    BY <2>1 DEF Launch, JobTypes
  <2>4. Store' /\ Lossless /\ NoBirth
    BY <2>1, KillOwnerIsSafe
  <2>5. QED BY <2>1, <2>2, <2>3, <2>4, ThreadsAre, OneDoes
<1>8. CASE Killed
  <2>1. UNCHANGED <<os, store, server, overlapped>> /\ Does(Gui, "idle")
    BY <1>8 DEF Killed, counters
  <2>2. "idle" \in JobPcs /\ "idle" \notin Starting /\ "idle" \notin Committed
    BY DEF JobPcs, Starting, Committed
  <2>3. overlapped' \in BOOLEAN /\ (~overlapped' => ~overlapped)
    BY <2>1 DEF Launch, JobTypes
  <2>4. QED BY <1>1, <2>1, <2>2, <2>3, ThreadsAre, OneDoes
<1>9. CASE CloseEvent
  <2>1. UNCHANGED <<os, store, server, overlapped>> /\ Does(Gui, "stop")
    BY <1>9 DEF CloseEvent, Does, counters
  <2>2. "stop" \in JobPcs /\ "stop" \notin Starting /\ "stop" \notin Committed
    BY DEF JobPcs, Starting, Committed
  <2>3. overlapped' \in BOOLEAN /\ (~overlapped' => ~overlapped)
    BY <2>1 DEF Launch, JobTypes
  <2>4. QED BY <1>1, <2>1, <2>2, <2>3, ThreadsAre, OneDoes
<1>10. CASE Exit
  <2>1. UNCHANGED <<os, store, server, overlapped>> /\ job' = [t \in Thread |-> Idle]
    BY <1>10 DEF Exit, counters
  <2>2. \A t \in Thread : job'[t] = Idle
    BY <2>1
  <2>3. JobTypes' /\ Owned'
    BY <2>1, IdleIs DEF Launch, JobTypes, Owned, Alive, os
  <2>4. OneStarter' /\ NothingElseRuns'
    BY <2>2, IdleIs DEF OneStarter, NothingElseRuns, Starts, Committed
  <2>5. QED BY <1>1, <2>1, <2>3, <2>4 DEF Launch
<1>11. QED
  BY <1>2, <1>3, <1>5, <1>6, <1>7, <1>8, <1>9, <1>10 DEF Window
LEMMA ThreadSteps ==
    ASSUME Store, Launch, NEW t \in Thread, Thread_(t) PROVE Store' /\ Lossless /\ Launch'
<1>1. ASSUME UNCHANGED <<os, store>> PROVE Store' /\ Lossless /\ NoBirth
  BY <1>1, StoreStays, SameProcs DEF os
<1>2. ASSUME UNCHANGED overlapped
      PROVE  overlapped' \in BOOLEAN /\ (~overlapped' => ~overlapped)
  BY <1>2 DEF Launch, JobTypes
<1>3. job[t].then \in {"idle", "slept"}
  BY JobIs DEF JobType
<1>4. \A pc \in {"idle", "slept"} : pc \in JobPcs /\ pc \notin Starting /\ pc \notin Committed
  BY DEF JobPcs, Starting, Committed
<1> DEFINE next == [Idle EXCEPT !.pc = job[t].then]
<1>5. next \in JobType /\ next.pc \notin Starting /\ next.pc \notin Committed
  BY <1>3, <1>4, IdleIs
<1> HIDE DEF next
<1>6. CASE Stop(t)
  <2>1. UNCHANGED <<port, store, server, overlapped>>
    BY <1>6 DEF Stop, Step
  <2>2. CASE IsRunning
    <3> DEFINE j == [job[t] EXCEPT !.pc = "wait", !.target = server]
    <3>1. Goes(server, "dying") /\ job' = [job EXCEPT ![t] = j]
      BY <1>6, <2>2 DEF Stop, Launch, JobTypes
    <3>2. j \in JobType /\ j.pc = "wait"
      BY <2>2, JobIs, ServerIs DEF JobType, JobPcs
    <3> HIDE DEF j
    <3>3. "wait" \notin Starting /\ "wait" \notin Committed
      BY DEF Starting, Committed
    <3>4. Store' /\ Lossless /\ NoBirth
      BY <2>1, <2>2, <3>1, ServerIs, KilledIsSafe
    <3>5. QED BY <1>2, <2>1, <3>1, <3>2, <3>3, <3>4, OneJob
  <2>3. CASE ~IsRunning
    <3>1. proc' = proc /\ job' = [job EXCEPT ![t] = next]
      BY <1>6, <2>3 DEF Stop, next
    <3>2. QED BY <1>1, <1>2, <1>5, <2>1, <3>1, OneJob DEF os
  <2>4. QED BY <2>2, <2>3
<1>7. CASE Waited(t)
  <2>1. UNCHANGED <<os, store, server, overlapped>> /\ job' = [job EXCEPT ![t] = next]
    BY <1>7 DEF Waited, Step, next
  <2>2. QED BY <1>1, <1>2, <1>5, <2>1, OneJob
<1>8. CASE Slept(t)
  <2>1. /\ UNCHANGED <<os, store, server>> /\ Does(t, "start")
        /\ overlapped' = (overlapped \/ \E u \in Thread \ {t} : Starts(u))
    BY <1>8 DEF Slept, Step
  <2>2. "start" \in JobPcs /\ "start" \notin Committed
    BY DEF JobPcs, Committed
  <2>3. /\ overlapped' \in BOOLEAN /\ (~overlapped' => ~overlapped)
        /\ overlapped' \/ \A u \in Thread \ {t} : ~Starts(u)
    BY <2>1 DEF Launch, JobTypes
  <2>4. QED BY <1>1, <2>1, <2>2, <2>3, OneDoes
<1>9. CASE Start(t)
  <2>1. UNCHANGED <<os, store, server, overlapped>> /\ Starts(t)
    BY <1>9 DEF Start, Step, Starts
  <2>2. PICK pc \in {"idle", "kill", "announce"} : Does(t, pc) /\ (pc # "idle" => ~IsRunning)
    BY <1>9 DEF Start
  <2>3. pc \in JobPcs /\ (pc \in Committed => ~IsRunning)
    BY <2>2 DEF JobPcs, Committed
  <2>4. QED BY <1>1, <1>2, <2>1, <2>2, <2>3, OneDoes
<1>10. ASSUME NEW pc \in {"recheck", "idle", "announce"}, job[t].pc \in Committed, Does(t, pc),
              Store' /\ Lossless /\ NoBirth, UNCHANGED <<server, overlapped>>
       PROVE  Store' /\ Lossless /\ Launch'
  <2>1. pc \in JobPcs /\ Starts(t)
    BY <1>10 DEF JobPcs, Starts, Committed
  <2>2. QED BY <1>2, <1>10, <2>1, OneDoes
<1>11. CASE Kill(t)
  BY <1>10, <1>11, KillOwnerIsSafe DEF Kill, Step, Committed
<1>12. CASE Recheck(t)
  BY <1>1, <1>10, <1>12 DEF Recheck, Step, Committed
<1>13. CASE Announce(t)
  <2>1. /\ UNCHANGED <<os, store, overlapped>> /\ Does(t, "spawn") /\ server' = None
        /\ job[t].pc = "announce"
    BY <1>13 DEF Announce, Step
  <2>2. /\ job' \in [Thread -> JobType] /\ job'[t].pc = "spawn"
        /\ \A u \in Thread \ {t} : job'[u] = job[u]
    BY <2>1, JobIs DEF Does, Launch, JobTypes, JobType, JobPcs
  <2>3. JobTypes'
    BY <2>1, <2>2 DEF Launch, JobTypes
  <2>4. OneStarter'
    BY <2>1, <2>2 DEF Launch, OneStarter, Starts
  <2>5. ~overlapped => \A p \in Proc : Alive(p) => proc[p] = "dying"
    BY <2>1 DEF Launch, NothingElseRuns, Committed
  <2>6. NothingElseRuns' /\ Owned'
    BY <2>1, <2>5 DEF NothingElseRuns, Owned, Alive, os
  <2>7. QED BY <1>1, <2>1, <2>3, <2>4, <2>6 DEF Launch
<1>14. CASE Spawn(t)
  <2>1. /\ UNCHANGED <<port, store, overlapped>> /\ Does(t, "idle") /\ job[t].pc = "spawn"
    BY <1>14 DEF Spawn, Step
  <2>2. CASE UNCHANGED <<proc, server, waiting>>
    <3>1. "idle" \in JobPcs /\ "idle" \notin Starting /\ "idle" \notin Committed
      BY <1>4
    <3>2. QED BY <1>1, <1>2, <2>1, <2>2, <3>1, OneDoes DEF os
  <2>3. ASSUME NEW p \in Proc, Unused(p), Goes(p, "schema"), server' = p
        PROVE  Store' /\ Lossless /\ Launch'
    <3>1. proc[p] = "none"
      BY <2>3 DEF Unused, Alive
    <3>2. port # p /\ txn.of # p
      BY <3>1, Bystander DEF Writing
    <3>3. Store' /\ Lossless
      BY <2>1, <2>3, <3>1, <3>2, PcsAre, MovesOn DEF Writing
    <3>4. /\ job' \in [Thread -> JobType] /\ job'[t].pc = "idle"
          /\ \A u \in Thread \ {t} : job'[u] = job[u]
      BY <2>1, JobIs DEF Does, Launch, JobTypes, JobType, JobPcs
    <3>5. JobTypes'
      BY <2>1, <2>3, <3>4 DEF Launch, JobTypes
    <3>6. ~overlapped => \A u \in Thread : ~Starts(u)'
      BY <2>1, <3>4 DEF Launch, OneStarter, Starts
    <3>7. OneStarter' /\ NothingElseRuns'
      BY <2>1, <3>6 DEF OneStarter, NothingElseRuns, Starts, Committed
    <3>8. ~overlapped => \A q \in Proc : Alive(q) => proc[q] = "dying"
      BY <2>1 DEF Launch, NothingElseRuns, Committed
    <3>9. Owned'
      BY <2>1, <2>3, <3>8 DEF Owned, Alive, Goes, Store, StoreTypes
    <3>10. QED BY <3>3, <3>5, <3>7, <3>9 DEF Launch
  <2>4. QED BY <1>14, <2>2, <2>3 DEF Spawn
<1>15. QED
  BY <1>6, <1>7, <1>8, <1>9, <1>11, <1>12, <1>13, <1>14 DEF Thread_

(* A step of a process is none of the launcher's, and never a birth.        *)
LEMMA ProcessBirths ==
    ASSUME Store, NEW p \in Proc,
           Boot(p) \/ Interrupt(p) \/ CancelTasks(p) \/ Shutdown(p) \/ Dies(p)
    PROVE  NoBirth /\ UNCHANGED <<server, job, shut, overlapped>>
<1>2. UNCHANGED <<server, job, shut, overlapped>>
  <2>1. UNCHANGED launcher
    BY DEF Boot, Schema, BootFails, Check, Rename, Create, Copy, DropOld, Commit, StepFails, Count,
           Clear, Fill, Indexed, Columns, Seed, SeedInsert, Bind, Booting, Interrupt, CancelTasks,
           Shutdown, Dies
  <2>2. QED BY <2>1 DEF launcher, window
<1>3. NoBirth
  <2>1. CASE Dies(p)
    BY <2>1, OneGoes DEF Dies, Store
  <2>2. CASE Interrupt(p) \/ CancelTasks(p) \/ Shutdown(p)
    BY <2>2, OneGoes DEF Interrupt, CancelTasks, Shutdown, Store
  <2>3. CASE Boot(p)
    <3>1. proc[p] \notin {"none", "dying"} /\ \E pc : Goes(p, pc)
      BY <2>3 DEF Boot, Schema, BootFails, Check, Rename, Create, Copy, DropOld, Commit, StepFails,
           Count, Clear, Fill, Indexed, Columns, Seed, SeedInsert, Bind, Booting
    <3>2. QED BY <3>1, OneGoes DEF Store
  <2>4. QED BY <2>1, <2>2, <2>3
<1>4. QED BY <1>2, <1>3

LEMMA ProcessSteps ==
    ASSUME Store, Launch, NEW p \in Proc,
           Boot(p) \/ Interrupt(p) \/ CancelTasks(p) \/ Shutdown(p) \/ Dies(p)
    PROVE  Store' /\ Lossless /\ Launch'
<1>1. Store' /\ Lossless
  BY SchemaIsSafe, RenameIsSafe, CreateIsSafe, SeedInsertIsSafe, CopyIsSafe, DropOldIsSafe,
     ClearIsSafe, FillIsSafe, CommitsAreSafe, FailuresAreSafe, ReadsAreSafe, EndsAreSafe DEF Boot
<1>2. QED BY <1>1, ProcessBirths, ProcessesMove

LEMMA StepKeeps == ASSUME Store, Launch, [Next]_vars PROVE Store' /\ Lossless /\ Launch'
<1>1. ASSUME UNCHANGED <<proc, store, server, job, overlapped>>, port' \in {port, None, Outsider}
      PROVE  Store' /\ Lossless /\ Launch'
  BY <1>1, StoreStays, LaunchStays
<1>2. CASE OutsiderMoves
  BY <1>1, <1>2 DEF OutsiderMoves, launcher
<1>3. ASSUME NEW p \in Proc, Ready(p) PROVE Store' /\ Lossless /\ Launch'
  BY <1>1, <1>3 DEF Ready, os, counters
<1>4. CASE UNCHANGED vars
  BY <1>1, <1>4 DEF vars, os, counters
<1>5. QED BY <1>2, <1>3, <1>4, GuiSteps, ThreadSteps, ProcessSteps DEF Next

LEMMA InitInv == Init => Store /\ Launch
<1> SUFFICES ASSUME Init PROVE Store /\ Launch
  OBVIOUS
<1>1. PICK bare \in BOOLEAN, schema \in {"global", "absent"} :
         db = [schema |-> schema, songs |-> IF schema = "global" THEN Song ELSE {},
               kept |-> {}, hasKept |-> FALSE, index |-> {}, bare |-> bare, admin |-> FALSE]
  BY DEF Init
<1>2. (IF schema = "global" THEN Song ELSE {}) \in SUBSET Song
  OBVIOUS
<1>3. db \in DbType /\ Sound(db)
  BY <1>1, <1>2 DEF DbType, Sound
<1>4. txn = [of |-> None, db |-> db] /\ txn.of = None /\ txn.db = db
  BY DEF Init
<1>5. StoreTypes
  BY <1>3, <1>4 DEF Init, StoreTypes, Pcs
<1>6. PortIsServed /\ Holder /\ Saved
  BY <1>3, <1>4, NobodyIsNoProcess DEF Init, PortIsServed, Holder, Saved, Writing
<1>7. job = [t \in Thread |-> Idle] /\ server = None /\ \A p \in Proc : ~Alive(p)
  BY DEF Init, Alive
<1>8. \A t \in Thread : job[t] = Idle
  BY <1>7
<1>9. JobTypes
  BY <1>7, IdleIs DEF Init, JobTypes
<1>10. OneStarter /\ NothingElseRuns /\ Owned
  BY <1>7, <1>8, IdleIs DEF OneStarter, NothingElseRuns, Owned, Starts, Committed
<1>11. QED BY <1>5, <1>6, <1>9, <1>10 DEF Store, Launch

(* One process at a time is inside of a write transaction, which sees every *)
(* row the file has; and a thread that is about to start a server has seen  *)
(* that no other runs.                                                      *)
THEOREM ServerInvariant == Spec => [](Store /\ Launch)
<1>1. (Store /\ Launch) /\ [Next]_vars => (Store /\ Launch)'
  BY StepKeeps
<1>2. QED BY <1>1, InitInv, PTL DEF Spec

(* No statement of a migration, no failure and no death loses a song.       *)
THEOREM MigrationKeepsRows == Spec => NoRowIsDestroyed
<1>1. Store /\ Launch /\ [Next]_vars => [Lossless]_db
  BY StepKeeps
<1>2. Spec => [][Lossless]_db
  BY <1>1, ServerInvariant, PTL DEF Spec
<1>3. QED BY <1>2, PTL DEF NoRowIsDestroyed, Lossless, Rows

(* Once the window has been closed: the main thread only stops the server,  *)
(* and when it has, none runs that a worker has not begun to start before.  *)
AllDying == \A p \in Proc : Alive(p) => proc[p] = "dying"
Closing ==
    /\ cutShort \in BOOLEAN
    /\ gui # "open" =>
         /\ job[Gui].pc \in {"stop", "wait", "idle"} /\ job[Gui].then = "idle"
         /\ ~cutShort => \A t \in Worker : ~Restarts(t)
         /\ ~cutShort /\ ~overlapped /\ job[Gui].pc # "stop" => AllDying
    /\ gui = "exited" => job[Gui].pc = "idle"

LEMMA GuiIsNoWorker == Gui \in Thread /\ Gui \notin Worker /\ Worker \subseteq Thread
BY ServerAssumption DEF Thread

LEMMA ProcessesKeepClosing ==
    ASSUME Closing, NoBirth, UNCHANGED <<job, shut, overlapped>> PROVE Closing'
<1>1. AllDying => AllDying'
  BY DEF AllDying, NoBirth, Alive
<1>2. \A t \in Worker : Restarts(t)' <=> Restarts(t)
  BY DEF Restarts, Starts
<1> QED BY <1>1, <1>2 DEF Closing, shut

(* A worker goes on in its stop, or in a restart.                           *)
LEMMA WorkerKeepsClosing ==
    ASSUME Launch, Closing, NoBirth, NEW t \in Worker, NEW j \in JobType,
           job' = [job EXCEPT ![t] = j], UNCHANGED shut, ~overlapped' => ~overlapped,
           ~Restarts(t) => j.pc \notin Starting \cup {"slept"} /\ j.then # "slept"
    PROVE  Closing'
<1>1. job'[t] = j /\ job'[Gui] = job[Gui] /\ \A u \in Worker \ {t} : job'[u] = job[u]
  BY GuiIsNoWorker DEF Launch, JobTypes
<1>2. AllDying => AllDying'
  BY DEF AllDying, NoBirth, Alive
<1>3. \A u \in Worker : Restarts(u)' => Restarts(u)
  BY <1>1 DEF Restarts, Starts, Starting
<1> QED BY <1>1, <1>2, <1>3 DEF Closing, shut

LEMMA WindowKeepsClosing ==
    ASSUME Store, Launch, Closing, Window PROVE Closing'
<1>1. CASE CloseEvent
  <2>1. /\ gui' = "closing" /\ cutShort' = (\E t \in Worker : Restarts(t))
        /\ job' = [job EXCEPT ![Gui].pc = "stop"] /\ job[Gui] = Idle
    BY <1>1 DEF CloseEvent, GuiTurn
  <2>2. job'[Gui].pc = "stop" /\ job'[Gui].then = "idle" /\ \A u \in Worker : job'[u] = job[u]
    BY <2>1, GuiIsNoWorker, IdleIs, JobIs DEF Launch, JobTypes, Idle, JobType
  <2>3. \A u \in Worker : Restarts(u)' <=> Restarts(u)
    BY <2>2 DEF Restarts, Starts
  <2>4. cutShort' \in BOOLEAN
    BY <2>1
  <2> QED BY <2>1, <2>2, <2>3, <2>4 DEF Closing
<1>2. CASE Exit
  <2>1. /\ gui = "closing" /\ gui' = "exited" /\ job[Gui] = Idle /\ cutShort' = cutShort
        /\ job' = [t \in Thread |-> Idle] /\ UNCHANGED <<proc, overlapped>>
    BY <1>2 DEF Exit, os, counters
  <2>2. /\ \A u \in Thread : job'[u] = Idle
        /\ Idle.pc = "idle" /\ Idle.then = "idle"
    BY <2>1 DEF Idle
  <2>3. \A u \in Worker : ~Restarts(u)'
    BY <2>2, GuiIsNoWorker DEF Restarts, Starts
  <2>4. AllDying => AllDying'
    BY <2>1 DEF AllDying, Alive
  <2> QED BY <2>1, <2>2, <2>3, <2>4, GuiIsNoWorker DEF Closing
<1>3. ASSUME gui = "open", UNCHANGED shut PROVE Closing'
  BY <1>3 DEF Closing, shut
<1>4. CASE Killed
  <2>1. job[Gui].pc = "killed" /\ UNCHANGED shut
    BY <1>4 DEF Killed
  <2>2. gui = "open"
    BY <2>1 DEF Closing
  <2> QED BY <1>3, <2>1, <2>2
<1>5. CASE Poll \/ OnStarting \/ OnStart \/ OnStop \/ OnRestart \/ OnKillConflict
  <2>1. gui = "open" /\ UNCHANGED shut
    BY <1>5 DEF Poll, OnStarting, OnStart, OnStop, OnRestart, OnKillConflict, Click, GuiTurn, window
  <2> QED BY <1>3, <2>1
<1> QED BY <1>1, <1>2, <1>4, <1>5 DEF Window

(* The stop of the closing window: what runs is the server it stops.        *)
LEMMA StopKeepsClosing ==
    ASSUME Store, Launch, Closing, NEW t \in Thread, Stop(t) \/ Waited(t) PROVE Closing'
<1> DEFINE next == [Idle EXCEPT !.pc = job[t].then]
           held == [job[t] EXCEPT !.pc = "wait", !.target = server]
<1>1. /\ job[t] \in JobType /\ job[t].pc \in {"stop", "wait"} /\ UNCHANGED <<shut, overlapped>>
      /\ server \in Proc \cup {None}
  BY JobIs DEF Stop, Waited, Step, Launch, JobTypes
<1>2. /\ next \in JobType /\ next.pc = job[t].then /\ next.then = "idle"
      /\ held \in JobType /\ held.pc = "wait" /\ held.then = job[t].then
      /\ next.pc \notin Starting
  BY <1>1 DEF Idle, JobType, JobPcs, Starting
<1>3. \/ IsRunning /\ Goes(server, "dying") /\ job' = [job EXCEPT ![t] = held]
      \/ ~IsRunning /\ proc' = proc /\ job' = [job EXCEPT ![t] = next]
      \/ proc' = proc /\ job' = [job EXCEPT ![t] = next] /\ job[t].pc = "wait"
  BY <1>1 DEF Stop, Waited, Step, os, Launch, JobTypes
<1>4. NoBirth
  <2>1. CASE IsRunning /\ Goes(server, "dying")
    BY <2>1, ServerIs, OneGoes DEF Store
  <2>2. CASE proc' = proc
    BY <2>2, SameProcs
  <2> QED BY <1>3, <2>1, <2>2
<1>5. ASSUME ~overlapped, job[t].pc = "stop" PROVE AllDying'
  <2>1. \A p \in Proc : Alive(p) => p = server \/ proc[p] = "dying"
    BY <1>5 DEF Launch, Owned
  <2>2. CASE IsRunning /\ Goes(server, "dying")
    BY <2>1, <2>2 DEF AllDying, Alive, Goes, Store, StoreTypes
  <2>3. CASE ~IsRunning /\ proc' = proc
    BY <2>1, <2>3, NobodyIsNoProcess DEF AllDying, Alive, IsRunning
  <2> QED BY <1>3, <1>5, <2>2, <2>3
<1>6. CASE t \in Worker
  <2>1. PICK j \in {next, held} : job' = [job EXCEPT ![t] = j]
    BY <1>3
  <2> HIDE DEF next, held
  <2>2. j \in JobType
    BY <1>2
  <2>3. ~Restarts(t) => job[t].then = "idle"
    BY <1>1 DEF Restarts, JobType
  <2>4. ~Restarts(t) => j.pc \notin Starting \cup {"slept"} /\ j.then # "slept"
    BY <1>2, <2>3 DEF Starting
  <2> QED BY <1>1, <1>4, <1>6, <2>1, <2>2, <2>4, WorkerKeepsClosing
<1>7. CASE t = Gui
  <2>1. \A u \in Worker : Restarts(u)' <=> Restarts(u)
    BY <1>3, <1>7, GuiIsNoWorker DEF Restarts, Starts, Launch, JobTypes
  <2>2. job'[Gui] = next \/ job'[Gui] = held
    BY <1>3, <1>7, GuiIsNoWorker DEF Launch, JobTypes
  <2>3. AllDying => AllDying'
    BY <1>4 DEF AllDying, NoBirth, Alive
  <2>4. gui' = "exited" => FALSE
    BY <1>1, <1>7 DEF Closing, shut
  <2> HIDE DEF next, held
  <2>5. gui # "open" => job'[Gui].pc \in {"stop", "wait", "idle"} /\ job'[Gui].then = "idle"
    BY <1>2, <1>7, <2>2 DEF Closing
  <2> QED BY <1>1, <1>5, <1>7, <2>1, <2>3, <2>4, <2>5 DEF Closing, shut
<1> QED BY <1>6, <1>7 DEF Thread

(* Whoever starts a server was in a restart, or is the open window's thread.*)
LEMMA StartingKeepsClosing ==
    ASSUME Closing, NEW t \in Thread, Restarts(t), UNCHANGED shut,
           ~overlapped' => ~overlapped, Launch, NEW j \in JobType, job' = [job EXCEPT ![t] = j]
    PROVE  t \in Worker \/ gui = "open" => Closing'
<1>1. CASE gui = "open"
  BY <1>1 DEF Closing, shut
<1>2. CASE gui # "open" /\ t \in Worker
  <2>1. cutShort /\ job'[Gui] = job[Gui]
    BY <1>2, GuiIsNoWorker DEF Closing, Launch, JobTypes
  <2> QED BY <1>2, <2>1 DEF Closing, shut
<1> QED BY <1>1, <1>2

LEMMA StepKeepsClosing ==
    ASSUME Store, Launch, Closing, [Next]_vars PROVE Closing'
<1>1. ASSUME NEW t \in Thread, Thread_(t) PROVE Closing'
  <2>1. CASE Stop(t) \/ Waited(t)
    BY <2>1, StopKeepsClosing
  <2>2. CASE Slept(t) \/ Start(t) \/ Kill(t) \/ Recheck(t) \/ Announce(t) \/ Spawn(t)
    <3>1. Restarts(t) /\ job[t].pc \notin {"stop", "wait", "idle"} /\ UNCHANGED shut
      BY <2>2 DEF Slept, Start, Kill, Recheck, Announce, Spawn, Step, Restarts, Starts
    <3>2. ~overlapped' => ~overlapped
      BY <2>2 DEF Slept, Start, Kill, Recheck, Announce, Spawn, Launch, JobTypes
    <3>3. PICK pc \in JobPcs : Does(t, pc)
      BY <2>2 DEF Slept, Start, Kill, Recheck, Announce, Spawn, JobPcs
    <3> DEFINE j == [job[t] EXCEPT !.pc = pc]
    <3>4. j \in JobType /\ job' = [job EXCEPT ![t] = j]
      BY <3>3, SetPc DEF Does
    <3> HIDE DEF j
    <3>5. t \in Worker \/ gui = "open"
      BY <3>1 DEF Closing, Thread
    <3> QED BY <3>1, <3>2, <3>4, <3>5, StartingKeepsClosing
  <2> QED BY <1>1, <2>1, <2>2 DEF Thread_
<1>2. ASSUME NEW p \in Proc, Boot(p) \/ Interrupt(p) \/ CancelTasks(p) \/ Shutdown(p) \/ Dies(p)
      PROVE  Closing'
  BY <1>2, ProcessBirths, ProcessesKeepClosing
<1>3. CASE OutsiderMoves
  <2>1. proc' = proc /\ UNCHANGED <<job, shut, overlapped>>
    BY <1>3 DEF OutsiderMoves, launcher, window
  <2> QED BY <2>1, SameProcs, ProcessesKeepClosing
<1>4. ASSUME NEW p \in Proc, Ready(p) PROVE Closing'
  <2>1. proc' = proc /\ UNCHANGED <<job, shut, overlapped>>
    BY <1>4 DEF Ready, os, window, counters
  <2> QED BY <2>1, SameProcs, ProcessesKeepClosing
<1>5. CASE UNCHANGED vars
  <2>1. proc' = proc /\ UNCHANGED <<job, shut, overlapped>>
    BY <1>5 DEF vars, os, window, counters
  <2> QED BY <2>1, SameProcs, ProcessesKeepClosing
<1> QED BY <1>1, <1>2, <1>3, <1>4, <1>5, WindowKeepsClosing DEF Next

LEMMA InitCloses == Init => Closing
BY DEF Init, Closing

(* Unless two threads start servers at once no server escapes the launcher, *)
(* and closing the window leaves none unless it cuts a restart short.       *)
THEOREM NoOrphan == Spec => []OneStarterNoOrphan
<1>1. Store /\ Launch /\ Closing => OneStarterNoOrphan
  BY DEF Launch, Owned, Closing, AllDying, OneStarterNoOrphan
<1>2. (Store /\ Launch) /\ Closing /\ [Next]_vars => Closing'
  BY StepKeepsClosing
<1>3. Spec => []Closing
  BY <1>2, InitCloses, ServerInvariant, PTL DEF Spec
<1>4. QED BY <1>1, <1>3, ServerInvariant, PTL

-----------------------------------------------------------------------------
(***************************************************************************)
(* The index of the source tree.  The invariant: what a run has read and   *)
(* what the cache holds is true of every file whose stamp has not moved.   *)
(***************************************************************************)

(* What a path may hold, when the tree has changed n times.                 *)
Bodies == {"thin", "constant", "defs", "broken"}
Source(n) == [body : Bodies, imports : SUBSET Files, mtime : 0 .. n]
Tree == edits \in Nat /\ disk \in [Files -> {Absent} \cup Source(edits)]

(* Stamps that were taken of the tree, and entries that are true of every   *)
(* file that still has the stamp that was taken of it.                      *)
Taken(mtimes) == \A f \in DOMAIN mtimes : mtimes[f] \in 0 .. edits
Agree(mtimes, files) ==
    \A f \in OnDisk : f \in DOMAIN mtimes /\ f \in DOMAIN files =>
        (mtimes[f] = disk[f].mtime => files[f] = ParseFile(disk[f]))

Data(d) ==
    /\ d.state = "saved"
    /\ DOMAIN d.files = DOMAIN d.mtimes
    /\ Taken(d.mtimes) /\ Agree(d.mtimes, d.files)
    /\ d.reverse = ReverseDeps(d.files)

CacheHolds == cache = NoCache \/ cache = Torn \/ Data(cache)

RunHolds(run) ==
    /\ run.at \in {"stat", "parsing"} => Taken(run.mtimes)
    /\ run.at = "parsing" =>
         /\ run.redo \subseteq DOMAIN run.mtimes
         /\ DOMAIN run.files = DOMAIN run.mtimes \ run.redo
         /\ Agree(run.mtimes, run.files)
    /\ run.at = "saving" => Data(run.data)

IndexInv ==
    /\ Tree /\ CacheHolds
    /\ DOMAIN tool = Tools /\ \A t \in Tools : RunHolds(tool[t])

-----------------------------------------------------------------------------
LEMMA AbsentIsNoSource ==
    ASSUME NEW n \in Nat, NEW c \in {Absent} \cup Source(n)
    PROVE  c # Absent => c \in Source(n) /\ c.mtime \in 0 .. n
BY DEF Source, Bodies

LEMMA OnDiskIs ==
    ASSUME IndexInv, NEW f \in OnDisk
    PROVE  f \in Files /\ disk[f] # Absent /\ disk[f] \in Source(edits) /\ disk[f].mtime \in 0 .. edits
BY AbsentIsNoSource DEF IndexInv, Tree, OnDisk

(* What does not touch the tree leaves every stamp and every entry as true  *)
(* as it was.                                                               *)
LEMMA SameTree ==
    ASSUME UNCHANGED <<disk, edits>>
    PROVE  /\ \A d : Data(d)' <=> Data(d)
           /\ \A run : RunHolds(run)' <=> RunHolds(run)
BY DEF Data, RunHolds, Taken, Agree, OnDisk

LEMMA RunMoves ==
    ASSUME IndexInv, NEW t \in Tools, NEW run, RunHolds(run),
           tool' = [tool EXCEPT ![t] = run], UNCHANGED <<disk, edits, cache>>
    PROVE  IndexInv'
<1>1. Tree' /\ CacheHolds'
  BY SameTree DEF IndexInv, Tree, CacheHolds
<1>2. DOMAIN tool' = Tools /\ \A x \in Tools : tool'[x] = IF x = t THEN run ELSE tool[x]
  BY DEF IndexInv
<1>3. \A x \in Tools : RunHolds(tool'[x])
  BY <1>2 DEF IndexInv
<1>4. \A x \in Tools : RunHolds(tool[x])'
  BY <1>3, SameTree
<1> QED BY <1>1, <1>2, <1>4 DEF IndexInv

(* A run that stands where it keeps nothing of the tree.                    *)
Forgets(run) == run.at \notin {"stat", "parsing", "saving"}

LEMMA RunForgets ==
    ASSUME IndexInv, NEW t \in Tools, NEW run, Forgets(run),
           tool' = [tool EXCEPT ![t] = run], UNCHANGED <<disk, edits, cache>>
    PROVE  IndexInv'
<1>1. RunHolds(run)
  BY DEF RunHolds, Forgets
<1> QED BY <1>1, RunMoves

-----------------------------------------------------------------------------
(* A change of the tree stamps the file with a number nobody has seen.      *)
LEMMA SaveKeeps ==
    ASSUME IndexInv, NEW f \in Files, NEW content \in {Absent} \cup Source(edits + 1),
           content # Absent => content.mtime = edits + 1, Save(f, content)
    PROVE  IndexInv'
<1>1. /\ edits \in Nat /\ edits' = edits + 1
      /\ disk' = [disk EXCEPT ![f] = content] /\ UNCHANGED <<cache, tool>>
  BY DEF Save, IndexInv, Tree
<1>2. Source(edits) \subseteq Source(edits + 1)
  BY <1>1 DEF Source
<1>3. Tree'
  BY <1>1, <1>2 DEF IndexInv, Tree
<1>4. ASSUME NEW m, Taken(m)
      PROVE  Taken(m)' /\ \A e : Agree(m, e) => Agree(m, e)'
  <2>1. Taken(m)'
    BY <1>1, <1>4 DEF Taken
  <2>2. ASSUME NEW e, Agree(m, e), NEW g \in OnDisk', g \in DOMAIN m, g \in DOMAIN e,
               m[g] = disk'[g].mtime
        PROVE  e[g] = ParseFile(disk'[g])
    <3>1. m[g] \in 0 .. edits
      BY <1>4, <2>2 DEF Taken
    <3>2. g # f
      BY <1>1, <2>2, <3>1 DEF OnDisk, IndexInv, Tree
    <3>3. disk'[g] = disk[g] /\ g \in OnDisk
      BY <1>1, <2>2, <3>2 DEF OnDisk, IndexInv, Tree
    <3> QED BY <2>2, <3>3 DEF Agree
  <2> QED BY <2>1, <2>2 DEF Agree
<1>5. \A d : Data(d) => Data(d)'
  BY <1>4 DEF Data
<1>6. \A run : RunHolds(run) => RunHolds(run)'
  BY <1>4, <1>5 DEF RunHolds
<1> QED BY <1>1, <1>3, <1>5, <1>6 DEF IndexInv, CacheHolds

LEMMA TreeEventKeeps ==
    ASSUME IndexInv, TreeEvent
    PROVE  IndexInv'
<1>1. CASE \E t \in Tools : KillTool(t)
  <2>1. Forgets(Resting)
    BY DEF Forgets, Resting
  <2> QED BY <1>1, <2>1, RunForgets DEF KillTool
<1>2. edits \in Nat
  BY DEF IndexInv, Tree
<1>3. ASSUME NEW f \in Files, CreateFile(f) PROVE IndexInv'
  <2> DEFINE c == [body |-> "defs", imports |-> {}, mtime |-> edits + 1]
  <2>1. c \in Source(edits + 1) /\ c.mtime = edits + 1
    BY <1>2 DEF Source, Bodies
  <2>2. Save(f, c)
    BY <1>3 DEF CreateFile
  <2> HIDE DEF c
  <2> QED BY <2>1, <2>2, SaveKeeps
<1>4. ASSUME NEW f \in Files, DeleteFile(f) PROVE IndexInv'
  BY <1>4, SaveKeeps DEF DeleteFile
<1>5. ASSUME NEW f \in Files, NEW g \in Files, ChangeImport(f, g) PROVE IndexInv'
  <2> DEFINE imports == IF g \in disk[f].imports THEN disk[f].imports \ {g}
                        ELSE disk[f].imports \cup {g}
             c == [disk[f] EXCEPT !.imports = imports, !.mtime = edits + 1]
  <2>1. f \in OnDisk /\ disk[f] \in Source(edits)
    BY <1>5, OnDiskIs DEF ChangeImport, OnDisk
  <2>2. imports \in SUBSET Files
    BY <2>1 DEF Source
  <2>3. Save(f, c)
    BY <1>5 DEF ChangeImport
  <2> HIDE DEF imports
  <2>4. c \in Source(edits + 1) /\ c.mtime = edits + 1
    <3>1. disk[f] \in Source(edits + 1) /\ edits + 1 \in 0 .. edits + 1
      BY <1>2, <2>1 DEF Source
    <3> QED BY <2>2, <3>1 DEF Source
  <2> HIDE DEF c
  <2> QED BY <2>3, <2>4, SaveKeeps
<1>6. ASSUME NEW f \in Files, NEW body \in BodiesOf(f), ChangeBody(f, body) PROVE IndexInv'
  <2> DEFINE c == [disk[f] EXCEPT !.body = body, !.mtime = edits + 1]
  <2>1. f \in OnDisk /\ disk[f] \in Source(edits) /\ body \in Bodies
    BY <1>6, OnDiskIs DEF ChangeBody, OnDisk, BodiesOf, Bodies
  <2>2. c \in Source(edits + 1) /\ c.mtime = edits + 1
    <3>1. disk[f] \in Source(edits + 1) /\ edits + 1 \in 0 .. edits + 1
      BY <1>2, <2>1 DEF Source
    <3> QED BY <2>1, <3>1 DEF Source
  <2>3. Save(f, c)
    BY <1>6 DEF ChangeBody
  <2> HIDE DEF c
  <2> QED BY <2>2, <2>3, SaveKeeps
<1> QED BY <1>1, <1>3, <1>4, <1>5, <1>6 DEF TreeEvent

-----------------------------------------------------------------------------
(* The steps of the runs.                                                   *)

LEMMA WalkKeeps ==
    ASSUME IndexInv, NEW force, NEW t \in Tools, tool' = [tool EXCEPT ![t] = Walked(force)],
           UNCHANGED <<disk, edits, cache>>
    PROVE  IndexInv'
<1>1. Taken(Mtimes)
  BY OnDiskIs DEF Taken, Mtimes
<1>2. RunHolds(Walked(force))
  BY <1>1 DEF RunHolds, Walked
<1> QED BY <1>2, RunMoves

LEMMA ReadCacheKeeps ==
    ASSUME IndexInv, NEW t \in Tools, ReadCache(t)
    PROVE  IndexInv'
<1> DEFINE me == tool[t]
           redo == ToParse(me.mtimes, me.force)
           kept == DOMAIN me.mtimes \ redo
           gone == cache # NoCache /\ DOMAIN cache.mtimes \ DOMAIN me.mtimes # {}
           next == [at |-> "parsing", mtimes |-> me.mtimes, force |-> me.force, redo |-> redo,
                    files |-> [f \in kept |-> cache.files[f]]]
<1>1. me.at = "stat" /\ Taken(me.mtimes) /\ UNCHANGED <<disk, edits, cache>>
  BY DEF ReadCache, IndexInv, RunHolds
<1>2. \/ tool' = [tool EXCEPT ![t] = Resting]
      \/ tool' = [tool EXCEPT ![t] = Loaded(FALSE, cache.files)]
      \/ ~(~me.force /\ cache = Torn) /\ tool' = [tool EXCEPT ![t] = next]
  BY DEF ReadCache
<1>3. CASE tool' = [tool EXCEPT ![t] = Resting]
  BY <1>1, <1>3, RunForgets DEF Forgets, Resting
<1>4. CASE tool' = [tool EXCEPT ![t] = Loaded(FALSE, cache.files)]
  BY <1>1, <1>4, RunForgets DEF Forgets, Loaded
<1>5. CASE ~(~me.force /\ cache = Torn) /\ tool' = [tool EXCEPT ![t] = next]
  <2>1. redo \subseteq DOMAIN me.mtimes
    BY DEF ToParse
  <2>2. ASSUME NEW f \in kept
        PROVE  Data(cache) /\ f \in DOMAIN cache.mtimes /\ cache.mtimes[f] = me.mtimes[f]
    <3>1. ~me.force /\ cache # NoCache
      BY <2>2 DEF ToParse
    <3> QED BY <1>5, <2>2, <3>1 DEF ToParse, IndexInv, CacheHolds
  <2>3. ASSUME NEW f \in OnDisk, f \in kept, me.mtimes[f] = disk[f].mtime
        PROVE  cache.files[f] = ParseFile(disk[f])
    BY <2>2, <2>3 DEF Data, Agree
  <2> HIDE DEF redo
  <2>4. /\ next.at = "parsing" /\ next.mtimes = me.mtimes /\ next.redo = redo
        /\ next.files = [f \in kept |-> cache.files[f]]
    OBVIOUS
  <2> HIDE DEF next
  <2>5. RunHolds(next)
    BY <1>1, <2>1, <2>3, <2>4 DEF RunHolds, Agree
  <2> QED BY <1>1, <1>5, <2>5, RunMoves
<1> QED BY <1>2, <1>3, <1>4, <1>5

LEMMA ParseKeeps ==
    ASSUME IndexInv, NEW t \in Tools, Parse(t)
    PROVE  IndexInv'
<1> DEFINE me == tool[t]
<1>1. /\ me.at = "parsing" /\ Taken(me.mtimes) /\ me.redo \subseteq DOMAIN me.mtimes
      /\ DOMAIN me.files = DOMAIN me.mtimes \ me.redo /\ Agree(me.mtimes, me.files)
      /\ UNCHANGED <<disk, edits, cache>>
  BY DEF Parse, IndexInv, RunHolds
<1>2. PICK f \in me.redo :
        tool' = [tool EXCEPT ![t] =
          IF disk[f] = Absent THEN Resting
          ELSE [me EXCEPT !.redo = @ \ {f},
                          !.files = [g \in DOMAIN @ \union {f} |->
                                       IF g = f THEN ParseFile(disk[f]) ELSE @[g]]]]
  BY DEF Parse
<1>3. CASE disk[f] = Absent
  <2>1. Forgets(Resting)
    BY DEF Forgets, Resting
  <2> QED BY <1>1, <1>2, <1>3, <2>1, RunForgets
<1>4. CASE disk[f] # Absent
  <2> DEFINE files == [g \in DOMAIN me.files \union {f} |->
                         IF g = f THEN ParseFile(disk[f]) ELSE me.files[g]]
             next == [me EXCEPT !.redo = me.redo \ {f}, !.files = files]
  <2>1. tool' = [tool EXCEPT ![t] = next]
    BY <1>2, <1>4
  <2>2. /\ DOMAIN files = DOMAIN me.mtimes \ (me.redo \ {f})
        /\ Agree(me.mtimes, files)
    BY <1>1 DEF Agree
  <2> HIDE DEF files
  <2>3. /\ next.at = "parsing" /\ next.mtimes = me.mtimes
        /\ next.redo = me.redo \ {f} /\ next.files = files
    BY <1>1
  <2> HIDE DEF next
  <2>4. RunHolds(next)
    BY <1>1, <2>2, <2>3 DEF RunHolds
  <2> QED BY <1>1, <2>1, <2>4, RunMoves
<1> QED BY <1>3, <1>4

LEMMA OpenCacheKeeps ==
    ASSUME IndexInv, NEW t \in Tools, OpenCache(t)
    PROVE  IndexInv'
<1> DEFINE me == tool[t]
           data == [state |-> "saved", mtimes |-> Stamps(me), files |-> me.files,
                    reverse |-> ReverseDeps(me.files)]
           next == [at |-> "saving", force |-> me.force, data |-> data]
<1>1. /\ Taken(me.mtimes) /\ DOMAIN me.files = DOMAIN me.mtimes
      /\ Agree(me.mtimes, me.files)
  BY DEF OpenCache, IndexInv, RunHolds
<1>2. Data(data)
  BY <1>1 DEF Data, Stamps
<1>3. cache' = Torn /\ UNCHANGED <<disk, edits>> /\ tool' = [tool EXCEPT ![t] = next]
  BY DEF OpenCache
<1> HIDE DEF data
<1>4. next.at = "saving" /\ next.data = data
  OBVIOUS
<1> HIDE DEF next
<1>5. RunHolds(next)
  BY <1>2, <1>4 DEF RunHolds
<1>6. \A x \in Tools : RunHolds(tool'[x])
  BY <1>3, <1>5 DEF IndexInv
<1>7. DOMAIN tool' = Tools /\ \A x \in Tools : RunHolds(tool[x])'
  BY <1>3, <1>6, SameTree DEF IndexInv
<1> QED BY <1>3, <1>7 DEF IndexInv, Tree, CacheHolds

LEMMA SaveCacheKeeps ==
    ASSUME IndexInv, NEW t \in Tools, SaveCache(t)
    PROVE  IndexInv'
<1> DEFINE next == Loaded(tool[t].force, tool[t].data.files)
<1>1. Data(tool[t].data)
  BY DEF SaveCache, IndexInv, RunHolds
<1>2. /\ cache' = tool[t].data /\ UNCHANGED <<disk, edits>>
      /\ tool' = [tool EXCEPT ![t] = next]
  BY DEF SaveCache
<1>3. RunHolds(next)
  BY DEF Loaded, RunHolds
<1> HIDE DEF next
<1>4. \A x \in Tools : RunHolds(tool'[x])
  BY <1>2, <1>3 DEF IndexInv
<1>5. DOMAIN tool' = Tools /\ \A x \in Tools : RunHolds(tool[x])'
  BY <1>2, <1>4, SameTree DEF IndexInv
<1>6. Data(cache)'
  BY <1>1, <1>2, SameTree
<1> QED BY <1>2, <1>5, <1>6 DEF IndexInv, Tree, CacheHolds

LEMMA ToolStepKeeps ==
    ASSUME IndexInv, ToolStep
    PROVE  IndexInv'
<1>1. PICK t \in Tools : \/ ReadCache(t) \/ Parse(t) \/ OpenCache(t) \/ SaveCache(t) \/ Answer(t)
                        \/ Describe(t) \/ OpenIndex(t) \/ WriteIndex(t)
  BY DEF ToolStep
<1>2. Forgets(Resting)
  BY DEF Forgets, Resting
<1>3. CASE Answer(t)
  <2>1. CASE tool' = [tool EXCEPT ![t] = Resting]
    BY <1>2, <1>3, <2>1, RunForgets DEF Answer
  <2>2. CASE tool' = [tool EXCEPT ![t] = Walked(TRUE)]
    BY <1>3, <2>2, WalkKeeps DEF Answer
  <2> QED BY <1>3, <2>1, <2>2 DEF Answer
<1>4. CASE Describe(t)
  <2>1. Forgets([at |-> "described", refs |-> Described(tool[t].list)])
    BY DEF Forgets
  <2>2. \/ tool' = [tool EXCEPT ![t] = Resting]
        \/ tool' = [tool EXCEPT ![t] = [at |-> "described", refs |-> Described(tool[t].list)]]
    BY <1>4 DEF Describe
  <2> QED BY <1>2, <1>4, <2>1, <2>2, RunForgets DEF Describe
<1>5. CASE OpenIndex(t)
  <2>1. Forgets([at |-> "injecting", refs |-> tool[t].refs, doc |-> Inject(index, tool[t].refs)])
    BY DEF Forgets
  <2> QED BY <1>5, <2>1, RunForgets DEF OpenIndex
<1>6. CASE WriteIndex(t)
  BY <1>2, <1>6, RunForgets DEF WriteIndex
<1> QED BY <1>1, <1>3, <1>4, <1>5, <1>6, ReadCacheKeeps, ParseKeeps, OpenCacheKeeps, SaveCacheKeeps

LEMMA IndexStep ==
    ASSUME IndexInv, [CheckoutNext]_checkoutVars
    PROVE  IndexInv'
<1>1. CASE UNCHANGED repoVars
  <2>1. \A x \in Tools : RunHolds(tool[x])'
    BY <1>1, SameTree DEF IndexInv, repoVars
  <2> QED BY <1>1, <2>1, SameTree DEF IndexInv, Tree, CacheHolds, repoVars
<1>2. CASE EditIndex
  <2>1. /\ edits \in Nat /\ edits' = edits + 1 /\ UNCHANGED <<disk, cache, tool>>
    BY <1>2 DEF EditIndex, IndexInv, Tree
  <2>2. Tree'
    BY <2>1 DEF IndexInv, Tree, Source
  <2>3. \A m : Taken(m) => Taken(m)'
    BY <2>1 DEF Taken
  <2>4. \A d : Data(d) => Data(d)'
    BY <2>1, <2>3 DEF Data, Agree, OnDisk
  <2>5. \A run : RunHolds(run) => RunHolds(run)'
    BY <2>1, <2>3, <2>4 DEF RunHolds, Agree, OnDisk
  <2> QED BY <2>1, <2>2, <2>4, <2>5 DEF IndexInv, CacheHolds
<1>3. ASSUME NEW t \in Tools, Collect(t) PROVE IndexInv'
  <2>1. Forgets([at |-> "collected", list |-> OnDisk])
    BY DEF Forgets
  <2> QED BY <1>3, <2>1, RunForgets DEF Collect
<1>4. ASSUME NEW t \in Tools, Stat(t) PROVE IndexInv'
  BY <1>4, WalkKeeps DEF Stat
<1> QED BY <1>1, <1>2, <1>3, <1>4, TreeEventKeeps, ToolStepKeeps
        DEF CheckoutNext, CheckoutEvent, CheckoutStep, LoadEvent, IndexEvent, checkoutVars, repoVars

LEMMA IndexInit == CheckoutInit => IndexInv
<1> SUFFICES ASSUME CheckoutInit PROVE IndexInv
  OBVIOUS
<1>1. disk = [f \in Files |-> [body |-> "defs", imports |-> {}, mtime |-> 0]] /\ edits = 0
  BY DEF CheckoutInit, RepoInit
<1>2. [body |-> "defs", imports |-> {}, mtime |-> 0] \in Source(0)
  BY DEF Source, Bodies
<1>3. Tree
  BY <1>1, <1>2 DEF Tree
<1>4. DOMAIN tool = Tools /\ \A t \in Tools : RunHolds(tool[t])
  BY DEF CheckoutInit, RepoInit, RunHolds, Resting
<1> QED BY <1>3, <1>4 DEF CheckoutInit, RepoInit, IndexInv, CacheHolds

(* The inductive invariant of the cached index: every stamp was taken of    *)
(* the tree before the entry beside it was read, by the cache and by every  *)
(* load that is underway, for any number of files, edits and loads.         *)
THEOREM IndexInvariant == CheckoutSpec => []IndexInv
BY IndexInit, IndexStep, PTL DEF CheckoutSpec

(* For every tree and every number of loads that overlap, die or run into   *)
(* edits, the saved cache is true of each file that still has its stamp.    *)
THEOREM CacheTellsTheTruth == CheckoutSpec => []CacheIsTruthful
<1>1. IndexInv => CacheIsTruthful
  <2> SUFFICES ASSUME IndexInv, cache.state = "saved" PROVE CacheIsTruthful
    BY DEF CacheIsTruthful
  <2>1. Data(cache)
    BY DEF IndexInv, CacheHolds, NoCache, Torn
  <2>2. ASSUME NEW f \in DOMAIN cache.files, NEW g \in DOMAIN cache.files, ~IsInit(f)
        PROVE  g \in cache.reverse[f] <=> f \in cache.files[g].imports
    BY <2>1, <2>2 DEF Data, ReverseDeps
  <2> QED BY <2>1, <2>2 DEF CacheIsTruthful, Data, Agree
<1> QED BY <1>1, IndexInvariant, PTL

(* For every tree, every division of it into layers and every list of       *)
(* tolerated imports that closes no cycle with the allowed ones: when the   *)
(* lint does not fail, no chain of imports comes back to its layer.         *)
THEOREM LintStopsEveryCycle == CheckoutSpec => []NoCycleGetsPast
<1>1. IndexInv => NoCycleGetsPast
  <2> SUFFICES ASSUME IndexInv, LintStatus # "FAIL",
                      NEW some \in SUBSET {edge[1] : edge \in ImportsBetweenLayers}, some # {}
               PROVE  \E l \in some : \A m \in some : <<l, m>> \notin ImportsBetweenLayers
    BY DEF NoCycleGetsPast
  <2>1. \A edge \in ImportsBetweenLayers :
          /\ edge[1] \in Restricted /\ edge[2] \in Restricted /\ edge[1] # edge[2]
          /\ \E f \in OnDisk, g \in Files : /\ g \in ParseFile(disk[f]).imports
                                           /\ LayerOf[f] = edge[1] /\ LayerOf[g] = edge[2]
    BY DEF ImportsBetweenLayers
  <2>2. some \in SUBSET Restricted
    BY <2>1
  <2>3. PICK l \in some : \A m \in some \ {l} :
          m \notin Allowed(l) /\ \A k \in Known : LayerOf[k[1]] = l => k[2] # m
    BY <2>2, KnownClosesNoCycle
  <2>4. ASSUME NEW m \in some, <<l, m>> \in ImportsBetweenLayers PROVE FALSE
    <3>1. PICK f \in OnDisk, g \in Files : /\ g \in ParseFile(disk[f]).imports
                                         /\ LayerOf[f] = l /\ LayerOf[g] = m
      BY <2>1, <2>4
    <3>2. l \in Restricted /\ m \in Restricted /\ l # m
      BY <2>1, <2>4
    <3>3. f \in Files /\ disk[f] # Absent
      BY OnDiskIs
    <3>4. <<f, m>> \in Violations(f)
      BY <2>3, <2>4, <3>1, <3>2, <3>3 DEF Violations, Layers
    <3>5. <<f, m>> \in Known
      BY <3>3, <3>4 DEF LintStatus, IsKnown
    <3> QED BY <2>3, <2>4, <3>1, <3>2, <3>5
  <2> QED BY <2>4
<1> QED BY <1>1, IndexInvariant, PTL

-----------------------------------------------------------------------------
(***************************************************************************)
(* The patch log.  A text is cut into chunks at its rules and picked from  *)
(* place by place; both views of it, the headings and the entries, are     *)
(* therefore counted by places, and the count tells where they differ.     *)
(***************************************************************************)

Places(I) == I \in SUBSET Nat /\ IsFiniteSet(I)
Rank(I, i) == Cardinality({j \in I : j <= i})

LEMMA RankIs ==
    ASSUME NEW I, Places(I), NEW i \in I
    PROVE  /\ Cardinality(I) \in Nat /\ Rank(I, i) \in 1 .. Cardinality(I)
           /\ \A j \in I : i < j => Rank(I, i) < Rank(I, j)
<1> DEFINE Upto(j) == {x \in I : x <= j}
<1>1. I \in SUBSET Nat /\ IsFiniteSet(I)
  BY DEF Places
<1>2. ASSUME NEW j \in I
      PROVE  /\ IsFiniteSet(Upto(j)) /\ Cardinality(Upto(j)) \in Nat
             /\ Cardinality(Upto(j)) <= Cardinality(I)
  BY <1>1, FS_Subset, FS_CardinalityType
<1>3. Cardinality(Upto(i)) # 0
  <2>1. i \in Upto(i)
    BY <1>1
  <2>2. Upto(i) # {} /\ IsFiniteSet(Upto(i))
    BY <1>2, <2>1
  <2> HIDE DEF Upto
  <2> QED BY <2>2, FS_EmptySet
<1>4. ASSUME NEW j \in I, i < j
      PROVE  Cardinality(Upto(i)) < Cardinality(Upto(j))
  <2>1. /\ \A x \in Upto(i) : x \in Upto(j)
        /\ j \in Upto(j) /\ j \notin Upto(i)
    BY <1>1, <1>4
  <2>2. Upto(i) # Upto(j)
    BY <2>1
  <2> HIDE DEF Upto
  <2>3. IsFiniteSet(Upto(j)) /\ Upto(i) \in SUBSET Upto(j)
    BY <1>2, <1>4, <2>1
  <2>4. /\ Cardinality(Upto(i)) <= Cardinality(Upto(j))
        /\ Cardinality(Upto(i)) # Cardinality(Upto(j))
    BY <2>2, <2>3, FS_Subset
  <2> QED BY <1>2, <1>4, <2>4
<1>5. Cardinality(I) \in Nat
  BY <1>1, FS_CardinalityType
<1> QED BY <1>2, <1>3, <1>4, <1>5 DEF Rank

LEMMA NthIs ==
    ASSUME NEW I, Places(I)
    PROVE  /\ Cardinality(I) \in Nat
           /\ \A n \in 1 .. Cardinality(I) : Nth(I, n) \in I /\ Rank(I, Nth(I, n)) = n
           /\ \A i \in I : Nth(I, Rank(I, i)) = i
<1>1. I \in SUBSET Nat /\ IsFiniteSet(I) /\ Cardinality(I) \in Nat
  BY FS_CardinalityType DEF Places
<1> DEFINE f == [i \in I |-> Rank(I, i)]
           T == 1 .. Cardinality(I)
<1>2. f \in Injection(I, T)
  <2>1. f \in [I -> T]
    BY RankIs
  <2>2. \A i, j \in I : Rank(I, i) = Rank(I, j) => i = j
    BY <1>1, RankIs
  <2> QED BY <2>1, <2>2 DEF Injection, IsInjective
<1>3. IsFiniteSet(T) /\ Cardinality(T) = Cardinality(I)
  BY <1>1, FS_Interval
<1>4. f \in Surjection(I, T)
  <2> HIDE DEF f, T
  <2> QED BY <1>2, <1>3, FS_Injection
<1>5. ASSUME NEW n \in T PROVE \E i \in I : Rank(I, i) = n
  BY <1>4 DEF Surjection
<1>6. \A i, j \in I : Rank(I, i) = Rank(I, j) => i = j
  BY <1>1, RankIs
<1>7. ASSUME NEW n \in T PROVE Nth(I, n) \in I /\ Rank(I, Nth(I, n)) = n
  BY <1>5, <1>7 DEF Nth, Rank
<1>8. ASSUME NEW i \in I PROVE Nth(I, Rank(I, i)) = i
  BY <1>6, <1>7, <1>8, RankIs
<1> QED BY <1>1, <1>7, <1>8

(* A text is picked from place by place.                                    *)
LEMMA OnlyIs ==
    ASSUME NEW I, Places(I), NEW S, NEW s, \A i \in I : s[i] \in S
    PROVE  /\ Only(s, I) \in Seq(S) /\ Len(Only(s, I)) = Cardinality(I)
           /\ Cardinality(I) \in Nat
           /\ \A n \in 1 .. Cardinality(I) : Only(s, I)[n] = s[Nth(I, n)]
<1>1. Only(s, I) = [n \in 1 .. Cardinality(I) |-> s[Nth(I, n)]] /\ Cardinality(I) \in Nat
  BY NthIs DEF Only
<1>2. Only(s, I) \in Seq(S) /\ Len(Only(s, I)) = Cardinality(I)
  BY <1>1, NthIs, IsASeq
<1>3. \A n \in 1 .. Cardinality(I) : Only(s, I)[n] = s[Nth(I, n)]
  BY <1>1
<1> QED BY <1>1, <1>2, <1>3

-----------------------------------------------------------------------------
(* The chunks of a text, and its headings                                   *)

HeadPlaces(body)     == {i \in DOMAIN body : IsHeading(body[i])}
ChunkPlaces(body, c) == {i \in DOMAIN body : body[i].k # "rule" /\ RulesAbove(body, i) = c - 1}
EntryPlaces(body)    == LET all == SplitIntoChunks(body)
                        IN {c \in DOMAIN all : IsEntry(all[c])}

(* What is found in a text lies at finitely many places of it.              *)
LEMMA PlacesOfText ==
    ASSUME NEW S, NEW b \in Seq(S), NEW I \in SUBSET DOMAIN b
    PROVE  Places(I) /\ I \in SUBSET (1 .. Len(b)) /\ \A i \in I : b[i] \in S
<1>1. DOMAIN b = 1 .. Len(b) /\ Len(b) \in Nat
  BY LenProperties
<1>2. IsFiniteSet(1 .. Len(b))
  BY <1>1, FS_Interval
<1>3. I \in SUBSET (1 .. Len(b))
  BY <1>1
<1>4. IsFiniteSet(I)
  BY <1>2, <1>3, FS_Subset
<1> QED BY <1>1, <1>3, <1>4, ElementOfSeq DEF Places

(* The headings of a text are the IDs at its heading places, in order.      *)
LEMMA HeadingsAre ==
    ASSUME NEW S, NEW b \in Seq(S)
    PROVE  /\ Places(HeadPlaces(b)) /\ Cardinality(HeadPlaces(b)) \in Nat
           /\ HeadPlaces(b) \in SUBSET (1 .. Len(b))
           /\ DOMAIN Headings(b) = 1 .. Cardinality(HeadPlaces(b))
           /\ Len(Headings(b)) = Cardinality(HeadPlaces(b))
           /\ \A n \in 1 .. Cardinality(HeadPlaces(b)) :
                Headings(b)[n] = b[Nth(HeadPlaces(b), n)].id
           /\ IdsIn(b) = {b[i].id : i \in HeadPlaces(b)}
<1> DEFINE H == HeadPlaces(b)
           m == Cardinality(H)
<1>1. Places(H) /\ H \in SUBSET (1 .. Len(b)) /\ \A i \in H : b[i] \in S
  BY PlacesOfText DEF HeadPlaces
<1>2. /\ m \in Nat /\ Only(b, H) \in Seq(S) /\ Len(Only(b, H)) = m
      /\ \A n \in 1 .. m : Only(b, H)[n] = b[Nth(H, n)]
  <2> HIDE DEF H
  <2> QED BY <1>1, OnlyIs
<1>3. DOMAIN Only(b, H) = 1 .. m
  BY <1>2, LenProperties
<1>4. Headings(b) = [n \in 1 .. m |-> b[Nth(H, n)].id]
  BY <1>2, <1>3 DEF Headings, HeadPlaces
<1>5. DOMAIN Headings(b) = 1 .. m /\ Len(Headings(b)) = m
      /\ \A n \in 1 .. m : Headings(b)[n] = b[Nth(H, n)].id
  <2> HIDE DEF H
  <2> QED BY <1>2, <1>4
<1>6. IdsIn(b) = {b[i].id : i \in H}
  <2>1. IdsIn(b) = {b[Nth(H, n)].id : n \in 1 .. m}
    <3> HIDE DEF H
    <3> QED BY <1>5 DEF IdsIn, Range
  <2> HIDE DEF H
  <2>2. Places(H)
    BY <1>1
  <2>3. \A n \in 1 .. m : Nth(H, n) \in H
    BY <2>2, NthIs
  <2>4. \A i \in H : Rank(H, i) \in 1 .. m /\ Nth(H, Rank(H, i)) = i
    BY <2>2, NthIs, RankIs
  <2> HIDE DEF m
  <2> QED BY <2>1, <2>3, <2>4
<1> QED BY <1>1, <1>2, <1>5, <1>6

(* A chunk is what stands between two rules.                                *)
LEMMA ChunksAre ==
    ASSUME NEW S, NEW b \in Seq(S)
    PROVE  /\ DOMAIN SplitIntoChunks(b) = 1 .. (1 + RulesAbove(b, Len(b) + 1))
           /\ RulesAbove(b, Len(b) + 1) \in Nat
           /\ \A c \in DOMAIN SplitIntoChunks(b) :
                /\ SplitIntoChunks(b)[c] = Only(b, ChunkPlaces(b, c))
                /\ SplitIntoChunks(b)[c] \in Seq(S)
                /\ Places(ChunkPlaces(b, c))
                /\ Len(SplitIntoChunks(b)[c]) = Cardinality(ChunkPlaces(b, c))
                /\ \A n \in 1 .. Cardinality(ChunkPlaces(b, c)) :
                     SplitIntoChunks(b)[c][n] = b[Nth(ChunkPlaces(b, c), n)]
<1> DEFINE r == RulesAbove(b, Len(b) + 1)
<1>1. r \in Nat
  <2> DEFINE R == {j \in 1 .. (Len(b) + 1 - 1) : b[j].k = "rule"}
  <2>1. Len(b) + 1 \in Int /\ Len(b) \in Nat /\ Len(b) + 1 - 1 = Len(b)
    BY LenProperties
  <2>2. IsFiniteSet(1 .. Len(b)) /\ R \in SUBSET (1 .. Len(b))
    BY <2>1, FS_Interval
  <2> HIDE DEF R
  <2>3. Cardinality(R) \in Nat
    BY <2>2, FS_Subset, FS_CardinalityType
  <2> QED BY <2>3 DEF RulesAbove, R
<1>2. SplitIntoChunks(b) = [c \in 1 .. (1 + r) |-> Only(b, ChunkPlaces(b, c))]
  BY DEF SplitIntoChunks, ChunkPlaces
<1>3. ASSUME NEW c PROVE Places(ChunkPlaces(b, c)) /\ \A i \in ChunkPlaces(b, c) : b[i] \in S
  BY PlacesOfText DEF ChunkPlaces
<1>4. ASSUME NEW c
      PROVE  /\ Only(b, ChunkPlaces(b, c)) \in Seq(S)
             /\ Len(Only(b, ChunkPlaces(b, c))) = Cardinality(ChunkPlaces(b, c))
             /\ \A n \in 1 .. Cardinality(ChunkPlaces(b, c)) :
                  Only(b, ChunkPlaces(b, c))[n] = b[Nth(ChunkPlaces(b, c), n)]
  BY <1>3, OnlyIs
<1> QED BY <1>1, <1>2, <1>3, <1>4

(* The entries of a text are the chunks that are entries, in order.         *)
LEMMA EntriesAre ==
    ASSUME NEW S, NEW b \in Seq(S)
    PROVE  /\ Places(EntryPlaces(b)) /\ Cardinality(EntryPlaces(b)) \in Nat
           /\ EntryPlaces(b) \in SUBSET DOMAIN SplitIntoChunks(b)
           /\ Len(ParseEntries(b)) = Cardinality(EntryPlaces(b))
           /\ ParsedIds(b) = {Headings(SplitIntoChunks(b)[c])[1] : c \in EntryPlaces(b)}
<1> DEFINE all == SplitIntoChunks(b)
           E == EntryPlaces(b)
           m == Cardinality(E)
<1>1. /\ DOMAIN all = 1 .. (1 + RulesAbove(b, Len(b) + 1))
      /\ RulesAbove(b, Len(b) + 1) \in Nat
      /\ \A c \in DOMAIN all : all[c] \in Seq(S)
  BY ChunksAre
<1>2. all \in Seq(Seq(S))
  <2> HIDE DEF all
  <2>0. all = [c \in 1 .. (1 + RulesAbove(b, Len(b) + 1)) |-> all[c]]
    BY <1>1 DEF all, SplitIntoChunks
  <2>1. 1 + RulesAbove(b, Len(b) + 1) \in Nat
    BY <1>1
  <2>2. all \in [1 .. (1 + RulesAbove(b, Len(b) + 1)) -> Seq(S)]
    BY <2>0, <1>1
  <2>3. all \in UNION {[1 .. n -> Seq(S)] : n \in Nat}
    BY <2>1, <2>2
  <2> QED BY <2>3, SeqDef
<1>3. E \in SUBSET DOMAIN all
  BY DEF EntryPlaces
<1>4. Places(E) /\ \A c \in E : all[c] \in Seq(S)
  <2> HIDE DEF all, E
  <2> QED BY <1>2, <1>3, PlacesOfText
<1>5. /\ m \in Nat /\ Only(all, E) \in Seq(Seq(S)) /\ Len(Only(all, E)) = m
      /\ \A n \in 1 .. m : Only(all, E)[n] = all[Nth(E, n)]
  <2> HIDE DEF all, E
  <2> QED BY <1>4, OnlyIs
<1>6. DOMAIN Only(all, E) = 1 .. m
  <2> HIDE DEF all, E
  <2> QED BY <1>5, LenProperties
<1> DEFINE EntryOf(n) == [id    |-> Headings(all[Nth(E, n)])[1],
                           files |-> ValueOf(all[Nth(E, n)], "Changed Files")]
<1>7. ParseEntries(b) = [n \in 1 .. m |-> EntryOf(n)]
  <2>1. ParseEntries(b) = [n \in DOMAIN Only(all, E) |->
                             [id    |-> Headings(Only(all, E)[n])[1],
                              files |-> ValueOf(Only(all, E)[n], "Changed Files")]]
    BY DEF ParseEntries, EntryPlaces
  <2> HIDE DEF all, E
  <2> QED BY <1>5, <1>6, <2>1
<1>8. /\ Len(ParseEntries(b)) = m /\ DOMAIN ParseEntries(b) = 1 .. m
      /\ \A n \in 1 .. m : ParseEntries(b)[n] = EntryOf(n)
  <2> HIDE DEF all, E, EntryOf
  <2> QED BY <1>5, <1>7
<1>9. ParsedIds(b) = {Headings(all[c])[1] : c \in E}
  <2> HIDE DEF all, E
  <2>0. m \in Nat
    BY <1>5
  <2>1. ParsedIds(b) = {Headings(all[Nth(E, n)])[1] : n \in 1 .. m}
    <3>1. DOMAIN ParseEntries(b) = 1 .. m
          /\ \A n \in 1 .. m : ParseEntries(b)[n].id = Headings(all[Nth(E, n)])[1]
      <4>1. \A n : EntryOf(n).id = Headings(all[Nth(E, n)])[1]
        OBVIOUS
      <4> HIDE DEF EntryOf, m
      <4> QED BY <1>8, <4>1
    <3> QED BY <3>1 DEF ParsedIds, Range
  <2>2. \A n \in 1 .. m : Nth(E, n) \in E
    BY <1>4, NthIs
  <2>3. \A c \in E : Rank(E, c) \in 1 .. m /\ Nth(E, Rank(E, c)) = c
    BY <1>4, NthIs, RankIs
  <2> HIDE DEF m
  <2> QED BY <2>1, <2>2, <2>3
<1> QED BY <1>3, <1>4, <1>5, <1>8, <1>9

(* A chunk that is an entry holds a heading of the text.                    *)
LEMMA EntryHoldsHeading ==
    ASSUME NEW S, NEW b \in Seq(S), NEW c \in EntryPlaces(b)
    PROVE  \E i \in HeadPlaces(b) : i \in ChunkPlaces(b, c)
<1> DEFINE chunk == SplitIntoChunks(b)[c]
           P == ChunkPlaces(b, c)
<1>1. c \in DOMAIN SplitIntoChunks(b) /\ Headings(chunk) # <<>>
  BY DEF EntryPlaces, IsEntry
<1>2. /\ chunk \in Seq(S) /\ Places(P) /\ Len(chunk) = Cardinality(P)
      /\ \A n \in 1 .. Cardinality(P) : chunk[n] = b[Nth(P, n)]
  BY <1>1, ChunksAre
<1> HIDE DEF chunk
<1>3. HeadPlaces(chunk) # {}
  <2>1. /\ IsFiniteSet(HeadPlaces(chunk))
        /\ DOMAIN Headings(chunk) = 1 .. Cardinality(HeadPlaces(chunk))
        /\ Headings(chunk) = [i \in DOMAIN Headings(chunk) |-> Headings(chunk)[i]]
    <3>1. /\ Places(HeadPlaces(chunk))
          /\ DOMAIN Headings(chunk) = 1 .. Cardinality(HeadPlaces(chunk))
      BY <1>2, HeadingsAre
    <3>2. Headings(chunk) = [i \in DOMAIN Headings(chunk) |-> Headings(chunk)[i]]
      BY DEF Headings
    <3> QED BY <3>1, <3>2 DEF Places
  <2>2. ASSUME HeadPlaces(chunk) = {} PROVE FALSE
    <3>1. Cardinality(HeadPlaces(chunk)) = 0
      BY <2>1, <2>2, FS_EmptySet
    <3>2. Headings(chunk) = <<>>
      BY <2>1, <3>1
    <3> QED BY <1>1, <3>2
  <2> QED BY <2>2
<1>4. PICK n \in HeadPlaces(chunk) : TRUE
  BY <1>3
<1>5. n \in 1 .. Cardinality(P) /\ IsHeading(chunk[n])
  BY <1>2, <1>4, LenProperties DEF HeadPlaces
<1>6. Nth(P, n) \in P /\ IsHeading(b[Nth(P, n)])
  BY <1>2, <1>5, NthIs
<1>7. Nth(P, n) \in HeadPlaces(b)
  BY <1>6 DEF HeadPlaces, ChunkPlaces
<1> QED BY <1>6, <1>7

(* No two entries share a heading.                                          *)
LEMMA NoMoreEntriesThanHeadings ==
    ASSUME NEW S, NEW b \in Seq(S)
    PROVE  Cardinality(EntryPlaces(b)) <= Cardinality(HeadPlaces(b))
<1> DEFINE E == EntryPlaces(b)
           H == HeadPlaces(b)
           f == [c \in E |-> CHOOSE i \in H : i \in ChunkPlaces(b, c)]
<1>1. \A c \in E : f[c] \in H /\ f[c] \in ChunkPlaces(b, c)
  BY EntryHoldsHeading
<1>2. \A c \in E : RulesAbove(b, f[c]) = c - 1
  BY <1>1 DEF ChunkPlaces
<1>3. \A c \in E : c \in Int
  BY EntriesAre, ChunksAre
<1>4. \A c, d \in E : f[c] = f[d] => c = d
  <2> HIDE DEF f
  <2> QED BY <1>2, <1>3
<1>5. f \in Injection(E, H)
  <2>1. f \in [E -> H] /\ DOMAIN f = E
    BY <1>1
  <2> HIDE DEF f, E, H
  <2> QED BY <1>4, <2>1 DEF Injection, IsInjective
<1>6. IsFiniteSet(H)
  BY HeadingsAre DEF Places
<1> HIDE DEF f, E, H
<1> QED BY <1>5, <1>6, FS_Injection DEF E, H

(* Where every heading has an ID of its own, and an entry with that ID,     *)
(* there is an entry for every heading.                                     *)
LEMMA NoFewerEntriesThanHeadings ==
    ASSUME NEW S, NEW b \in Seq(S), Duplicates(Headings(b)) = {}, Unparsed(b) = {}
    PROVE  Cardinality(HeadPlaces(b)) <= Cardinality(EntryPlaces(b))
<1> DEFINE E == EntryPlaces(b)
           H == HeadPlaces(b)
           IdOf(c) == Headings(SplitIntoChunks(b)[c])[1]
           g == [i \in H |-> CHOOSE c \in E : IdOf(c) = b[i].id]
<1>1. ASSUME NEW i \in H, NEW j \in H, b[i].id = b[j].id PROVE i = j
  <2>1. /\ Places(H) /\ Cardinality(H) \in Nat
        /\ DOMAIN Headings(b) = 1 .. Cardinality(H)
        /\ \A n \in 1 .. Cardinality(H) : Headings(b)[n] = b[Nth(H, n)].id
    BY HeadingsAre
  <2> DEFINE n == Rank(H, i)
             m == Rank(H, j)
  <2>2. /\ n \in 1 .. Cardinality(H) /\ m \in 1 .. Cardinality(H)
        /\ Nth(H, n) = i /\ Nth(H, m) = j
    <3> HIDE DEF H
    <3> QED BY <2>1, RankIs, NthIs
  <2>3. Headings(b)[n] = Headings(b)[m]
    <3> HIDE DEF H, n, m
    <3> QED BY <1>1, <2>1, <2>2
  <2>4. ASSUME NEW x \in 1 .. Cardinality(H), NEW y \in 1 .. Cardinality(H),
               x < y, Headings(b)[x] = Headings(b)[y]
        PROVE  FALSE
    <3>1. x \in 1 .. (y - 1) /\ y \in DOMAIN Headings(b)
      BY <2>1, <2>4
    <3>2. Headings(b)[y] \in Duplicates(Headings(b))
      BY <2>4, <3>1 DEF Duplicates
    <3> QED BY <3>2
  <2>5. n = m
    <3> HIDE DEF H, n, m
    <3> QED BY <2>1, <2>2, <2>3, <2>4
  <2> HIDE DEF H, n, m
  <2> QED BY <2>2, <2>5
<1>2. ASSUME NEW i \in H PROVE g[i] \in E /\ IdOf(g[i]) = b[i].id
  <2>1. b[i].id \in IdsIn(b)
    BY HeadingsAre
  <2>2. b[i].id \in ParsedIds(b)
    BY <2>1 DEF Unparsed
  <2>3. \E c \in E : IdOf(c) = b[i].id
    BY <2>2, EntriesAre
  <2> HIDE DEF E, H, IdOf
  <2> QED BY <2>3
<1>3. g \in Injection(H, E)
  <2>1. g \in [H -> E] /\ DOMAIN g = H
    BY <1>2
  <2> HIDE DEF g, E, H, IdOf
  <2> QED BY <1>1, <1>2, <2>1 DEF Injection, IsInjective
<1>4. IsFiniteSet(E)
  BY EntriesAre DEF Places
<1> HIDE DEF g, E, H
<1> QED BY <1>3, <1>4, FS_Injection DEF E, H

(* The check of the log tells whenever the readers miss an entry.           *)
LEMMA CheckTells ==
    ASSUME NEW S, NEW text, text.body \in Seq(S), CheckPatchlog(text) # "FAIL"
    PROVE  Len(ParseEntries(text.body)) = Len(Headings(text.body))
<1> DEFINE b == text.body
           H == HeadPlaces(b)
           E == EntryPlaces(b)
<1>1. /\ Len(ParseEntries(b)) = Cardinality(E) /\ Cardinality(E) \in Nat
      /\ Len(Headings(b)) = Cardinality(H) /\ Cardinality(H) \in Nat
      /\ Cardinality(E) <= Cardinality(H)
  BY EntriesAre, HeadingsAre, NoMoreEntriesThanHeadings
<1>2. \/ Headings(b) = <<>>
      \/ Duplicates(Headings(b)) = {} /\ Unparsed(b) = {}
  BY DEF CheckPatchlog, VerifyOk
<1>3. CASE Headings(b) = <<>>
  <2>1. Len(Headings(b)) = 0
    BY <1>3
  <2> QED BY <1>1, <2>1
<1>4. CASE Duplicates(Headings(b)) = {} /\ Unparsed(b) = {}
  <2>1. Cardinality(H) <= Cardinality(E)
    BY <1>4, NoFewerEntriesThanHeadings
  <2> QED BY <1>1, <2>1
<1> QED BY <1>2, <1>3, <1>4

-----------------------------------------------------------------------------
(* What the variables of the log hold                                       *)

Id         == [day : Nat, n : Nat]
FieldNames == {"Tanggal", "Type", "Solution", "Changed Files", "Notes"}
Values     == {"date", "text", "Feature", "Oops", {"a"}}
Line       == {Rule, TightRule, Prose} \union {EntryHead(id) : id \in Id}
                \union {Field(name, value) : name \in FieldNames, value \in Values}
Text       == [front : BOOLEAN, latest : Id, total : Nat, body : Seq(Line)]

Run == [at : {"idle"}]
         \union [at : {"read"}, text : Text, entry : Entries]
         \union [at : {"numbered"}, text : Text, entry : Entries, id : Id]
         \union [at : {"writing"}, before : Text, id : Id, entry : Entries, text : Text]

LogTyped == /\ log \in Text
            /\ today \in Nat
            /\ writer \in [Writers -> Run]

(* The largest and the smallest of some places.                             *)
LEMMA Extremes ==
    ASSUME NEW I, Places(I), I # {}
    PROVE  /\ \E i \in I : \A j \in I : j <= i
           /\ \E i \in I : \A j \in I : i <= j
<1> DEFINE m == Cardinality(I)
<1>1. I \in SUBSET Nat /\ m \in Nat /\ m # 0
  BY FS_CardinalityType, FS_EmptySet DEF Places
<1>2. /\ Nth(I, m) \in I /\ Rank(I, Nth(I, m)) = m
      /\ Nth(I, 1) \in I /\ Rank(I, Nth(I, 1)) = 1
  BY <1>1, NthIs
<1>3. ASSUME NEW j \in I PROVE j <= Nth(I, m) /\ Nth(I, 1) <= j
  <2>1. Rank(I, j) \in 1 .. m
    BY RankIs
  <2>2. Nth(I, m) < j => m < Rank(I, j)
    BY <1>2, RankIs
  <2>3. j < Nth(I, 1) => Rank(I, j) < 1
    BY <1>2, RankIs
  <2>4. j \in Nat /\ Nth(I, m) \in Nat /\ Nth(I, 1) \in Nat
    BY <1>1, <1>2
  <2> HIDE DEF m
  <2> QED BY <1>1, <2>1, <2>2, <2>3, <2>4
<1> QED BY <1>2, <1>3

LEMMA MarkerIs ==
    ASSUME NEW S, NEW b \in Seq(S)
    PROVE  /\ Marker(b) \in 0 .. Len(b)
           /\ Marker(b) = 0 <=> \A i \in 1 .. Len(b) : b[i] # Rule
           /\ Marker(b) # 0 => /\ b[Marker(b)] = Rule
                               /\ \A i \in 1 .. (Marker(b) - 1) : b[i] # Rule
<1> DEFINE I == {i \in 1 .. Len(b) : b[i] = Rule}
<1>1. Len(b) \in Nat /\ DOMAIN b = 1 .. Len(b)
  BY LenProperties
<1>2. Marker(b) = IF I # {} THEN CHOOSE x \in I : \A y \in I : x <= y ELSE 0
  BY DEF Marker, SelectInSeq, Min
<1>3. I # {} => \E x \in I : \A y \in I : x <= y
  <2>1. Places(I)
    BY <1>1, PlacesOfText
  <2> HIDE DEF I
  <2> QED BY <2>1, Extremes
<1>4. I # {} => Marker(b) \in I /\ \A y \in I : Marker(b) <= y
  <2> HIDE DEF I
  <2> QED BY <1>2, <1>3
<1>5. I = {} => Marker(b) = 0
  BY <1>2
<1>6. \A i \in 1 .. Len(b) : i \in I <=> b[i] = Rule
  OBVIOUS
<1>7. I \in SUBSET (1 .. Len(b))
  OBVIOUS
<1> HIDE DEF I
<1>8. Marker(b) \in 0 .. Len(b)
  <2>1. CASE I = {}
    BY <1>1, <1>5, <2>1
  <2>2. CASE I # {}
    <3>1. Marker(b) \in 1 .. Len(b)
      BY <1>4, <1>7, <2>2
    <3> QED BY <1>1, <3>1
  <2> QED BY <2>1, <2>2
<1>9. ASSUME Marker(b) = 0 PROVE \A i \in 1 .. Len(b) : b[i] # Rule
  BY <1>4, <1>6, <1>7, <1>9
<1>10. ASSUME \A i \in 1 .. Len(b) : b[i] # Rule PROVE Marker(b) = 0
  BY <1>5, <1>6, <1>7, <1>10
<1>11. ASSUME Marker(b) # 0, NEW i \in 1 .. (Marker(b) - 1) PROVE b[i] # Rule
  BY <1>1, <1>4, <1>5, <1>6, <1>8, <1>11
<1>12. ASSUME Marker(b) # 0 PROVE b[Marker(b)] = Rule
  BY <1>4, <1>5, <1>6, <1>7, <1>12
<1> QED BY <1>8, <1>9, <1>10, <1>11, <1>12

LEMMA LinesAre ==
    /\ Rule \in Line /\ TightRule \in Line /\ Prose \in Line
    /\ \A id \in Id : EntryHead(id) \in Line
    /\ \A name \in FieldNames, value \in Values : Field(name, value) \in Line
    /\ <<Rule>> \in Seq(Line)
BY DEF Line

LEMMA ShortIs ==
    ASSUME NEW S, NEW x \in S, NEW y \in S, NEW z \in S
    PROVE  <<x>> \in Seq(S) /\ <<x, y>> \in Seq(S) /\ <<x, y, z>> \in Seq(S)
OBVIOUS

LEMMA RenderedIs ==
    ASSUME NEW id \in Id, NEW e \in [type : {"Feature", "Oops"}, ruled : BOOLEAN, files : {{"a"}}]
    PROVE  RenderEntry(id, e) \in Seq(Line)
<1>1. e.type \in Values /\ e.files \in Values /\ e.ruled \in BOOLEAN
  BY DEF Values
<1>2. <<EntryHead(id), Field("Tanggal", "date"), Field("Type", e.type)>> \in Seq(Line)
  <2>1. EntryHead(id) \in Line
    BY LinesAre
  <2>2. Field("Tanggal", "date") \in Line
    BY LinesAre DEF FieldNames, Values
  <2>3. Field("Type", e.type) \in Line
    BY <1>1, LinesAre DEF FieldNames
  <2> QED BY <2>1, <2>2, <2>3
<1>3. Solution(e.ruled) \in Seq(Line)
  <2>1. Field("Solution", "text") \in Line
    BY LinesAre DEF FieldNames, Values
  <2>2. <<Field("Solution", "text")>> \in Seq(Line) /\ <<Rule, Prose>> \in Seq(Line)
        /\ << >> \in Seq(Line)
    BY <2>1, LinesAre
  <2> QED BY <2>2, ConcatProperties DEF Solution
<1>4. <<Field("Changed Files", e.files), Field("Notes", "text")>> \in Seq(Line)
  <2>1. Field("Changed Files", e.files) \in Line
    BY <1>1, LinesAre DEF FieldNames
  <2>2. Field("Notes", "text") \in Line
    BY LinesAre DEF FieldNames, Values
  <2> QED BY <2>1, <2>2, ShortIs
<1> DEFINE top == <<EntryHead(id), Field("Tanggal", "date"), Field("Type", e.type)>>
           end == <<Field("Changed Files", e.files), Field("Notes", "text")>>
<1>5. RenderEntry(id, e) = top \o Solution(e.ruled) \o end
  BY DEF RenderEntry
<1>6. top \in Seq(Line) /\ end \in Seq(Line)
  BY <1>2, <1>4
<1> HIDE DEF top, end
<1>7. top \o Solution(e.ruled) \in Seq(Line)
  BY <1>3, <1>6, ConcatProperties
<1> QED BY <1>5, <1>6, <1>7, ConcatProperties

LEMMA HandWrittenIs ==
    ASSUME NEW id \in Id, NEW form \in Forms
    PROVE  HandWritten(id, form) \in Seq(Line)
<1> DEFINE type  == IF form = "own type" THEN "Oops" ELSE "Feature"
           whole == RenderEntry(id, [type |-> type, ruled |-> FALSE, files |-> {"a"}])
           kept  == {i \in DOMAIN whole : whole[i] # Field("Changed Files", {"a"})}
<1>1. whole \in Seq(Line)
  BY RenderedIs
<1>2. /\ whole \o <<TightRule>> \in Seq(Line) /\ whole \o <<Rule>> \in Seq(Line)
  <2> HIDE DEF whole
  <2>1. <<TightRule>> \in Seq(Line)
    BY LinesAre
  <2> QED BY <1>1, <2>1, LinesAre, ConcatProperties
<1>3. Only(whole, kept) \in Seq(Line)
  <2> HIDE DEF whole
  <2>1. kept \in SUBSET DOMAIN whole
    OBVIOUS
  <2> HIDE DEF kept
  <2>2. Places(kept) /\ \A i \in kept : whole[i] \in Line
    BY <1>1, <2>1, PlacesOfText
  <2> QED BY <2>2, OnlyIs
<1>4. Only(whole, kept) \o <<Rule>> \in Seq(Line)
  <2> HIDE DEF whole, kept
  <2> QED BY <1>3, LinesAre, ConcatProperties
<1>5. HandWritten(id, form) \in {whole \o <<TightRule>>, whole, whole \o <<Rule>>,
                                 Only(whole, kept) \o <<Rule>>}
  <2>1. CASE form = "tight"
    BY <2>1 DEF HandWritten
  <2>2. CASE form = "glued"
    BY <2>2 DEF HandWritten
  <2>3. CASE form = "no field"
    BY <2>3 DEF HandWritten
  <2>4. CASE form \in {"own type", "canonical"}
    BY <2>4 DEF HandWritten
  <2> QED BY <2>1, <2>2, <2>3, <2>4 DEF Forms
<1> HIDE DEF whole, kept
<1> QED BY <1>1, <1>2, <1>3, <1>4, <1>5

(* What is put in after the marker leaves a text of lines.                  *)
LEMMA Inserted ==
    ASSUME NEW b \in Seq(Line), NEW block \in Seq(Line)
    PROVE  /\ SubSeq(b, 1, Marker(b)) \in Seq(Line)
           /\ SubSeq(b, Marker(b) + 1, Len(b)) \in Seq(Line)
           /\ SubSeq(b, 1, Marker(b)) \o block \o SubSeq(b, Marker(b) + 1, Len(b)) \in Seq(Line)
<1>1. /\ Marker(b) \in 0 .. Len(b) /\ Len(b) \in Nat /\ 1 \in Int
      /\ Marker(b) \in Int /\ Marker(b) + 1 \in Int /\ Len(b) \in Int
  BY MarkerIs, LenProperties
<1>2. \A i \in 1 .. Len(b) : b[i] \in Line
  BY ElementOfSeq
<1>3. SubSeq(b, 1, Marker(b)) \in Seq(Line)
  BY <1>1, <1>2, SubSeqProperties
<1>4. SubSeq(b, Marker(b) + 1, Len(b)) \in Seq(Line)
  BY <1>1, <1>2, SubSeqProperties
<1>5. SubSeq(b, 1, Marker(b)) \o block \in Seq(Line)
  BY <1>3, ConcatProperties
<1> QED BY <1>3, <1>4, <1>5, ConcatProperties

LEMMA WithEntryIs ==
    ASSUME NEW text \in Text, NEW id \in Id, NEW block \in Seq(Line)
    PROVE  WithEntry(text, id, block) \in Text
<1> DEFINE b    == text.body
           at   == Marker(b)
           body == SubSeq(b, 1, at) \o block \o <<Rule>> \o SubSeq(b, at + 1, Len(b))
<1>1. b \in Seq(Line)
  BY DEF Text
<1>2. block \o <<Rule>> \in Seq(Line)
  BY LinesAre, ConcatProperties
<1>3. SubSeq(b, 1, at) \o (block \o <<Rule>>) \o SubSeq(b, at + 1, Len(b)) \in Seq(Line)
  <2> HIDE DEF b
  <2> QED BY <1>1, <1>2, Inserted
<1>4. SubSeq(b, 1, at) \o (block \o <<Rule>>) = SubSeq(b, 1, at) \o block \o <<Rule>>
  <2> HIDE DEF b
  <2>1. SubSeq(b, 1, at) \in Seq(Line) /\ <<Rule>> \in Seq(Line)
    BY <1>1, LinesAre, Inserted
  <2> DEFINE above == SubSeq(b, 1, at)
             rule  == <<Rule>>
  <2>2. above \in Seq(Line) /\ rule \in Seq(Line)
    BY <2>1
  <2> HIDE DEF at, above, rule
  <2>3. (above \o block) \o rule = above \o (block \o rule)
    BY <2>2, ConcatAssociative
  <2> QED BY <2>3 DEF above, rule
<1>5. body \in Seq(Line)
  BY <1>3, <1>4
<1>6. Len(Headings(body)) \in Nat
  <2> HIDE DEF body
  <2> QED BY <1>5, HeadingsAre
<1>7. WithEntry(text, id, block)
        = [text EXCEPT !.body = body, !.latest = id, !.total = Len(Headings(body))]
  BY DEF WithEntry
<1> HIDE DEF body
<1> QED BY <1>5, <1>6, <1>7 DEF Text

(* The next number is above the number of every heading.                    *)
LEMMA NextNumberIs ==
    ASSUME NEW b \in Seq(Line)
    PROVE  NextNumber(b) \in Nat /\ \A id \in IdsIn(b) : id \in Id /\ id.n < NextNumber(b)
<1>1. IdsIn(b) = {b[i].id : i \in HeadPlaces(b)} /\ Places(HeadPlaces(b))
  BY HeadingsAre
<1>2. ASSUME NEW i \in HeadPlaces(b) PROVE b[i].id \in Id
  <2>1. b[i] \in Line /\ b[i].k = "head"
    BY LenProperties, ElementOfSeq DEF HeadPlaces, IsHeading
  <2>2. PICK id \in Id : b[i] = EntryHead(id)
    BY <2>1 DEF Line, Rule, TightRule, Prose, Field
  <2> QED BY <2>2 DEF EntryHead
<1>3. \A id \in IdsIn(b) : id \in Id /\ id.n \in Nat
  BY <1>1, <1>2 DEF Id
<1>4. CASE IdsIn(b) = {}
  BY <1>4 DEF NextNumber
<1>5. CASE IdsIn(b) # {}
  <2> DEFINE N == {id.n : id \in IdsIn(b)}
             f == [i \in HeadPlaces(b) |-> b[i].id.n]
  <2>1. N \in SUBSET Nat /\ N # {}
    BY <1>3, <1>5
  <2>2. IsFiniteSet(N)
    <3>1. f \in Surjection(HeadPlaces(b), N)
      BY <1>1 DEF Surjection
    <3>2. IsFiniteSet(HeadPlaces(b))
      BY <1>1 DEF Places
    <3> HIDE DEF f, N
    <3> QED BY <3>1, <3>2, FS_Surjection
  <2>3. \E n \in N : \A k \in N : k <= n
    <3> HIDE DEF N
    <3> QED BY <2>1, <2>2, Extremes DEF Places
  <2>4. PICK n \in N : \A id \in IdsIn(b) : id.n <= n
    BY <2>3
  <2> DEFINE max == CHOOSE x \in N : \A id \in IdsIn(b) : id.n <= x
  <2>5. max \in N /\ \A id \in IdsIn(b) : id.n <= max
    BY <2>4
  <2>6. NextNumber(b) = 1 + max
    BY <1>5 DEF NextNumber
  <2> HIDE DEF max
  <2> QED BY <1>3, <2>1, <2>5, <2>6
<1> QED BY <1>4, <1>5

LEMMA NextIdIs ==
    ASSUME NEW b \in Seq(Line), today \in Nat
    PROVE  NextId(b) \in Id
BY NextNumberIs DEF NextId, Id

LEMMA LogTypedInit ==
    ASSUME CheckoutInit PROVE LogTyped
<1>1. <<Prose, Rule>> \in Seq(Line)
  BY LinesAre, ShortIs
<1>2. NoId \in Id
  BY DEF NoId, Id
<1>3. log \in Text
  BY <1>1, <1>2 DEF CheckoutInit, LogInit, Text
<1>4. NotRunning \in Run
  BY DEF NotRunning, Run
<1> QED BY <1>3, <1>4 DEF CheckoutInit, LogInit, LogTyped

(* Whoever moves, moves to one of the states a run of `add` has.            *)
LEMMA RunMovesOn ==
    ASSUME LogTyped, NEW w \in Writers, NEW run \in Run,
           writer' = [writer EXCEPT ![w] = run], log' \in Text, today' \in Nat
    PROVE  LogTyped'
BY DEF LogTyped

LEMMA EntriesIs ==
    ASSUME NEW e \in Entries
    PROVE  e \in [type : {"Feature", "Oops"}, ruled : BOOLEAN, files : {{"a"}}]
BY DEF Entries

LEMMA RunIs ==
    ASSUME LogTyped, NEW w \in Writers
    PROVE  /\ writer[w].at = "read" =>
                writer[w] \in [at : {"read"}, text : Text, entry : Entries]
           /\ writer[w].at = "numbered" =>
                writer[w] \in [at : {"numbered"}, text : Text, entry : Entries, id : Id]
           /\ writer[w].at = "writing" =>
                writer[w] \in [at : {"writing"}, before : Text, id : Id, entry : Entries, text : Text]
<1>1. writer[w] \in Run
  BY DEF LogTyped
<1> QED BY <1>1 DEF Run

LEMMA LogTypedStep ==
    ASSUME LogTyped, [CheckoutNext]_checkoutVars PROVE LogTyped'
<1>1. log \in Text /\ today \in Nat /\ writer \in [Writers -> Run] /\ log.body \in Seq(Line)
      /\ NotRunning \in Run
  BY DEF LogTyped, Text, Run, NotRunning
<1>2. ASSUME UNCHANGED logVars PROVE LogTyped'
  BY <1>2 DEF LogTyped, logVars
<1>3. ASSUME NEW w \in Writers, NEW e \in Entries, ReadLog(w, e) PROVE LogTyped'
  <2>1. [at |-> "read", text |-> log, entry |-> e] \in Run
    BY <1>1 DEF Run
  <2> QED BY <1>1, <1>3, <2>1, RunMovesOn DEF ReadLog
<1>4. ASSUME NEW w \in Writers, Number(w) PROVE LogTyped'
  <2>1. writer[w] \in [at : {"read"}, text : Text, entry : Entries] /\ NextId(log.body) \in Id
    BY <1>1, <1>4, RunIs, NextIdIs DEF Number
  <2> DEFINE run == [at |-> "numbered", text |-> writer[w].text, entry |-> writer[w].entry,
                     id |-> NextId(log.body)]
  <2>2. run \in Run
    BY <2>1 DEF Run
  <2>3. writer' = [writer EXCEPT ![w] = run]
    BY <1>1, <1>4 DEF Number
  <2> HIDE DEF run
  <2> QED BY <1>1, <1>4, <2>2, <2>3, RunMovesOn DEF Number
<1>5. ASSUME NEW w \in Writers, NoMarker(w) \/ KillAdd(w) PROVE LogTyped'
  BY <1>1, <1>5, RunMovesOn DEF NoMarker, KillAdd
<1>6. ASSUME NEW w \in Writers, OpenToWrite(w) PROVE LogTyped'
  <2>1. writer[w] \in [at : {"numbered"}, text : Text, entry : Entries, id : Id]
    BY <1>6, RunIs DEF OpenToWrite
  <2>2. /\ writer[w].text \in Text /\ writer[w].id \in Id /\ writer[w].entry \in Entries
    BY <2>1
  <2> DEFINE block == RenderEntry(writer[w].id, writer[w].entry)
             text  == WithEntry(writer[w].text, writer[w].id, block)
             run   == [at |-> "writing", before |-> writer[w].text, id |-> writer[w].id,
                       entry |-> writer[w].entry, text |-> text]
  <2>3. block \in Seq(Line)
    BY <2>2, EntriesIs, RenderedIs
  <2>4. text \in Text
    <3> HIDE DEF block
    <3> QED BY <2>2, <2>3, WithEntryIs
  <2>5. writer' = [writer EXCEPT ![w] = run] /\ log' = Emptied /\ today' = today
    BY <1>6 DEF OpenToWrite
  <2>6. run \in Run
    <3> HIDE DEF text
    <3> QED BY <2>2, <2>4 DEF Run
  <2>7. Emptied \in Text
    <3>1. << >> \in Seq(Line) /\ NoId \in Id
      BY DEF NoId, Id
    <3> QED BY <3>1 DEF Emptied, Text
  <2> HIDE DEF run
  <2> QED BY <1>1, <2>5, <2>6, <2>7, RunMovesOn
<1>7. ASSUME NEW w \in Writers, WriteLog(w) PROVE LogTyped'
  <2>1. writer[w].text \in Text
    BY <1>7, RunIs DEF WriteLog
  <2> QED BY <1>1, <1>7, <2>1, RunMovesOn DEF WriteLog
<1>8. ASSUME NEW form \in Forms, NEW updates \in BOOLEAN, EditByHand(form, updates) PROVE LogTyped'
  <2> DEFINE id    == NextId(log.body)
             block == HandWritten(id, form)
             body  == SubSeq(log.body, 1, Marker(log.body)) \o block
                        \o SubSeq(log.body, Marker(log.body) + 1, Len(log.body))
  <2>1. id \in Id
    BY <1>1, NextIdIs
  <2>2. block \in Seq(Line)
    <3> HIDE DEF id
    <3> QED BY <2>1, HandWrittenIs
  <2>3. body \in Seq(Line)
    <3> HIDE DEF block
    <3> QED BY <1>1, <2>2, Inserted
  <2>4. Len(Headings(body)) \in Nat
    <3> HIDE DEF body
    <3> QED BY <2>3, HeadingsAre
  <2>5. /\ log' \in {[log EXCEPT !.body = body, !.latest = id, !.total = Len(Headings(body))],
                     [log EXCEPT !.body = body]}
        /\ UNCHANGED <<today, writer>>
    BY <1>8 DEF EditByHand
  <2>6. log' \in Text
    <3> HIDE DEF body, id
    <3> QED BY <1>1, <2>1, <2>3, <2>4, <2>5 DEF Text
  <2> QED BY <1>1, <2>5, <2>6 DEF LogTyped
<1>9. ASSUME NextDay PROVE LogTyped'
  BY <1>1, <1>9 DEF NextDay, LogTyped
<1> QED BY <1>2, <1>3, <1>4, <1>5, <1>6, <1>7, <1>8, <1>9
        DEF CheckoutNext, CheckoutEvent, CheckoutStep, LogEvent, AddStep, checkoutVars

(* What the check of the log tells of the text it reads: where it does not  *)
(* fail, the readers of the history (context_pack, find_owner, hotspot) get *)
(* one entry for every heading in the text, whatever people wrote by hand   *)
(* and whatever a long field contains.  It says nothing of headings that    *)
(* are gone from the file (checks_docs.py:95-142).                          *)
THEOREM CheckedLogIsReadable ==
  CheckoutSpec =>
    [](CheckPatchlog(log) # "FAIL" => Len(ParseEntries(log.body)) = Len(Headings(log.body)))
<1>1. LogTyped =>
        (CheckPatchlog(log) # "FAIL" => Len(ParseEntries(log.body)) = Len(Headings(log.body)))
  <2>1. LogTyped => log.body \in Seq(Line)
    BY DEF LogTyped, Text
  <2> QED BY <2>1, CheckTells
<1> QED BY <1>1, LogTypedInit, LogTypedStep, PTL DEF CheckoutSpec

-----------------------------------------------------------------------------
(***************************************************************************)
(* An add that had the log to itself.  A rule cuts a text in two, and each *)
(* part is read as if it stood alone; an entry goes in right below the     *)
(* notice, with a rule under it, so what was readable stays readable.  The *)
(* invariant: the log is empty or has its notice, and a run nobody disturbed*)
(* holds the log as it is.                                                 *)
(***************************************************************************)

(* Two texts in one: what is picked from s and from t is what is picked from *)
(* s followed by t, where a place j of t has become Len(s) + j.              *)

Shifted(J, k) == {k + j : j \in J}
Within(I, k)  == I \in SUBSET (1 .. k)
InText(I, s)  == I \in SUBSET DOMAIN s
Positive(J)   == J \in SUBSET (Nat \ {0}) /\ IsFiniteSet(J)

(* Places moved down, below some others.                                     *)
LEMMA ShiftedPlaces ==
    ASSUME NEW k \in Nat, NEW I, Within(I, k), NEW J, Positive(J)
    PROVE  /\ Places(I) /\ Places(J) /\ Places(Shifted(J, k)) /\ Places(I \cup Shifted(J, k))
           /\ I \cap Shifted(J, k) = {}
           /\ Cardinality(Shifted(J, k)) = Cardinality(J)
           /\ Cardinality(I \cup Shifted(J, k)) = Cardinality(I) + Cardinality(J)
           /\ Cardinality(I) \in Nat /\ Cardinality(J) \in Nat
<1> DEFINE f == [j \in J |-> k + j]
           K == Shifted(J, k)
<1>0. I \in SUBSET (1 .. k) /\ J \in SUBSET (Nat \ {0}) /\ IsFiniteSet(J)
  BY DEF Within, Positive
<1>1. f \in Bijection(J, K)
  <2>1. f \in [J -> K]
    BY DEF Shifted
  <2>2. \A i, j \in J : f[i] = f[j] => i = j
    BY <1>0
  <2>3. \A x \in K : \E j \in J : f[j] = x
    BY DEF Shifted
  <2> HIDE DEF f, K
  <2> QED BY <2>1, <2>2, <2>3 DEF Bijection, Injection, Surjection, IsInjective
<1>2. IsFiniteSet(K) /\ Cardinality(K) = Cardinality(J)
  <2>1. ExistsBijection(J, K)
    BY <1>1 DEF ExistsBijection
  <2> HIDE DEF f, K
  <2> QED BY <1>0, <2>1, FS_Bijection
<1>3. IsFiniteSet(I)
  <2>1. 1 \in Int /\ k \in Int
    OBVIOUS
  <2>2. IsFiniteSet(1 .. k)
    BY <2>1, FS_Interval
  <2> QED BY <1>0, <2>2, FS_Subset
<1>4. I \cap K = {} /\ I \in SUBSET Nat /\ J \in SUBSET Nat /\ K \in SUBSET Nat
  BY <1>0 DEF Shifted
<1> HIDE DEF f, K
<1>5. /\ IsFiniteSet(I \cup K)
      /\ Cardinality(I \cup K) = Cardinality(I) + Cardinality(K) - Cardinality(I \cap K)
  BY <1>2, <1>3, FS_Union
<1>6. Cardinality(I \cap K) = 0 /\ Cardinality(I) \in Nat /\ Cardinality(J) \in Nat
  BY <1>0, <1>3, <1>4, FS_EmptySet, FS_CardinalityType
<1>7. Cardinality(I \cup K) = Cardinality(I) + Cardinality(J)
  BY <1>2, <1>5, <1>6
<1> QED BY <1>0, <1>2, <1>3, <1>4, <1>5, <1>6, <1>7 DEF K, Places

LEMMA OnlyConcat ==
    ASSUME NEW S, NEW s \in Seq(S), NEW t \in Seq(S),
           NEW I, InText(I, s), NEW J, InText(J, t)
    PROVE  Only(s \o t, I \cup Shifted(J, Len(s))) = Only(s, I) \o Only(t, J)
<1> DEFINE k == Len(s)
           M == Shifted(J, k)
           K == I \cup M
           z == s \o t
           p == Cardinality(I)
           q == Cardinality(J)
<1>1. /\ k \in Nat /\ Len(t) \in Nat /\ DOMAIN s = 1 .. k /\ DOMAIN t = 1 .. Len(t)
      /\ z \in Seq(S) /\ Len(z) = k + Len(t) /\ DOMAIN z = 1 .. (k + Len(t))
  BY LenProperties, ConcatProperties
<1>2. \A i \in 1 .. (k + Len(t)) : z[i] = IF i <= k THEN s[i] ELSE t[i - k]
  BY <1>1, ConcatProperties
<1>3. I \in SUBSET (1 .. k) /\ J \in SUBSET (1 .. Len(t)) /\ J \in SUBSET (Nat \ {0})
  BY <1>1 DEF InText
<1>4. IsFiniteSet(J)
  BY PlacesOfText DEF Places, InText
<1>5. /\ Places(I) /\ Places(J) /\ Places(K) /\ Cardinality(K) = p + q
      /\ p \in Nat /\ q \in Nat /\ I \cap M = {}
  <2> HIDE DEF k
  <2>1. k \in Nat /\ Within(I, k) /\ Positive(J)
    BY <1>1, <1>3, <1>4 DEF Within, Positive
  <2>2. /\ Places(I) /\ Places(J) /\ Places(I \cup Shifted(J, k)) /\ I \cap Shifted(J, k) = {}
        /\ Cardinality(I \cup Shifted(J, k)) = Cardinality(I) + Cardinality(J)
        /\ Cardinality(I) \in Nat /\ Cardinality(J) \in Nat
    BY <2>1, ShiftedPlaces
  <2> QED BY <2>2
<1>6. K \in SUBSET (1 .. (k + Len(t)))
  <2>1. \A i \in I : i \in 1 .. (k + Len(t))
    BY <1>1, <1>3
  <2>2. \A j \in J : k + j \in 1 .. (k + Len(t))
    BY <1>1, <1>3
  <2> QED BY <2>1, <2>2 DEF Shifted
<1>7. /\ \A i \in I : i \in K /\ z[i] = s[i]
      /\ \A j \in J : k + j \in K /\ z[k + j] = t[j]
  <2>1. \A i \in I : z[i] = s[i]
    BY <1>1, <1>2, <1>3
  <2>2. \A j \in J : z[k + j] = t[j]
    <3> TAKE j \in J
    <3>1. k + j \in 1 .. (k + Len(t)) /\ ~(k + j <= k) /\ k + j - k = j
      BY <1>1, <1>3
    <3>0. k \in Nat /\ j \in Nat /\ Len(t) \in Nat
      BY <1>1, <1>3
    <3> HIDE DEF k, z
    <3>2. z[k + j] = t[k + j - k]
      BY <1>2, <3>0, <3>1
    <3> QED BY <3>1, <3>2
  <2> QED BY <2>1, <2>2 DEF Shifted
<1>8. ASSUME NEW i \in I PROVE Rank(K, i) = Rank(I, i)
  <2>1. \A j \in J : ~(k + j <= i)
    BY <1>1, <1>3
  <2>2. {x \in K : x <= i} = {x \in I : x <= i}
    BY <2>1 DEF Shifted
  <2> QED BY <2>2 DEF Rank
<1>9. ASSUME NEW j \in J PROVE Rank(K, k + j) = p + Rank(J, j)
  <2> DEFINE U == {x \in J : x <= j}
  <2>1. {x \in K : x <= k + j} = I \cup Shifted(U, k)
    <3>1. \A i \in I : i <= k + j
      BY <1>1, <1>3
    <3>2. \A x \in J : k + x <= k + j <=> x <= j
      BY <1>1, <1>3
    <3> QED BY <3>1, <3>2 DEF Shifted
  <2>2. U \in SUBSET (Nat \ {0}) /\ U \in SUBSET J
    BY <1>3
  <2>3. IsFiniteSet(U)
    BY <1>4, <2>2, FS_Subset
  <2>4. Cardinality(I \cup Shifted(U, k)) = p + Cardinality(U)
    <3> HIDE DEF U, k
    <3>1. k \in Nat /\ Within(I, k) /\ Positive(U)
      BY <1>1, <1>3, <2>2, <2>3 DEF Within, Positive
    <3>2. Cardinality(I \cup Shifted(U, k)) = Cardinality(I) + Cardinality(U)
      BY <3>1, ShiftedPlaces
    <3> QED BY <3>2
  <2> QED BY <2>1, <2>4 DEF Rank
<1> HIDE DEF K, M, z
<1>10. /\ \A i \in I : Nth(K, Rank(I, i)) = i
       /\ \A j \in J : Nth(K, p + Rank(J, j)) = k + j
  <2>1. \A x \in K : Nth(K, Rank(K, x)) = x
    BY <1>5, NthIs
  <2> QED BY <1>7, <1>8, <1>9, <2>1
<1>11. /\ \A n \in 1 .. p : Nth(I, n) \in I /\ Rank(I, Nth(I, n)) = n
       /\ \A n \in 1 .. q : Nth(J, n) \in J /\ Rank(J, Nth(J, n)) = n
  BY <1>5, NthIs
<1>12. /\ Only(z, K) \in Seq(S) /\ Len(Only(z, K)) = p + q
       /\ \A n \in 1 .. (p + q) : Only(z, K)[n] = z[Nth(K, n)]
  <2>1. \A i \in K : z[i] \in S
    BY <1>1, <1>6, ElementOfSeq
  <2>2. /\ Only(z, K) \in Seq(S) /\ Len(Only(z, K)) = Cardinality(K)
        /\ \A n \in 1 .. Cardinality(K) : Only(z, K)[n] = z[Nth(K, n)]
    BY <1>5, <2>1, OnlyIs
  <2> QED BY <1>5, <2>2
<1>13. /\ Only(s, I) \in Seq(S) /\ Len(Only(s, I)) = p
       /\ \A n \in 1 .. p : Only(s, I)[n] = s[Nth(I, n)]
  <2>1. \A i \in I : s[i] \in S
    BY <1>1, <1>3, ElementOfSeq
  <2> QED BY <1>5, <2>1, OnlyIs
<1>14. /\ Only(t, J) \in Seq(S) /\ Len(Only(t, J)) = q
       /\ \A n \in 1 .. q : Only(t, J)[n] = t[Nth(J, n)]
  <2>1. \A i \in J : t[i] \in S
    BY <1>1, <1>3, ElementOfSeq
  <2> QED BY <1>5, <2>1, OnlyIs
<1> DEFINE u == Only(s, I)
           v == Only(t, J)
           w == Only(z, K)
<1>15. /\ u \in Seq(S) /\ v \in Seq(S) /\ w \in Seq(S) /\ Len(u) = p /\ Len(v) = q /\ Len(w) = p + q
       /\ \A n \in 1 .. p : u[n] = s[Nth(I, n)]
       /\ \A n \in 1 .. q : v[n] = t[Nth(J, n)]
       /\ \A n \in 1 .. (p + q) : w[n] = z[Nth(K, n)]
  BY <1>12, <1>13, <1>14
<1> HIDE DEF u, v, w
<1>16. /\ u \o v \in Seq(S) /\ Len(u \o v) = p + q
       /\ \A n \in 1 .. (p + q) : (u \o v)[n] = IF n <= p THEN u[n] ELSE v[n - p]
  <2>1. /\ u \o v \in Seq(S) /\ Len(u \o v) = Len(u) + Len(v)
        /\ \A n \in 1 .. (Len(u) + Len(v)) :
             (u \o v)[n] = IF n <= Len(u) THEN u[n] ELSE v[n - Len(u)]
    BY <1>15, ConcatProperties
  <2>2. Len(u) = p /\ Len(v) = q
    BY <1>15
  <2> HIDE DEF p, q
  <2> QED BY <2>1, <2>2
<1>17. ASSUME NEW n \in 1 .. (p + q) PROVE w[n] = (u \o v)[n]
  <2>1. CASE n <= p
    <3>1. n \in 1 .. p
      BY <1>5, <2>1
    <3>2. Nth(K, n) = Nth(I, n) /\ Nth(I, n) \in I
      BY <1>10, <1>11, <3>1
    <3>3. w[n] = s[Nth(I, n)]
      BY <1>7, <1>15, <3>2
    <3>4. u[n] = s[Nth(I, n)]
      BY <1>15, <3>1
    <3>5. (u \o v)[n] = u[n]
      BY <1>16, <2>1
    <3> QED BY <3>3, <3>4, <3>5
  <2>2. CASE ~(n <= p)
    <3>1. n - p \in 1 .. q /\ p + (n - p) = n
      BY <1>5, <2>2
    <3>2. Nth(K, n) = k + Nth(J, n - p) /\ Nth(J, n - p) \in J
      BY <1>10, <1>11, <3>1
    <3> QED BY <1>7, <1>15, <1>16, <2>2, <3>1, <3>2
  <2> QED BY <2>1, <2>2
<1>18. w = u \o v
  <2>1. \A n \in 1 .. Len(w) : w[n] = (u \o v)[n]
    BY <1>15, <1>17
  <2>2. Len(w) = Len(u \o v)
    BY <1>15, <1>16
  <2> DEFINE uv == u \o v
  <2>3. uv \in Seq(S) /\ Len(w) = Len(uv) /\ \A n \in 1 .. Len(w) : w[n] = uv[n]
    BY <1>16, <2>1, <2>2
  <2> HIDE DEF uv
  <2>4. w = uv
    BY <1>15, <2>3, SeqEqual
  <2> QED BY <2>4 DEF uv
<1> QED BY <1>18 DEF u, v, w, K, M, z

(* Headings and fields of s followed by t.                                   *)
LEMMA PlacesConcat ==
    ASSUME NEW S, NEW s \in Seq(S), NEW t \in Seq(S)
    PROVE  /\ s \o t \in Seq(S) /\ Len(s) \in Nat /\ Len(t) \in Nat
           /\ Len(s \o t) = Len(s) + Len(t)
           /\ DOMAIN s = 1 .. Len(s) /\ DOMAIN t = 1 .. Len(t)
           /\ DOMAIN (s \o t) = 1 .. (Len(s) + Len(t))
           /\ \A i \in DOMAIN s : i \in DOMAIN (s \o t) /\ (s \o t)[i] = s[i]
           /\ \A j \in DOMAIN t : Len(s) + j \in DOMAIN (s \o t) /\ (s \o t)[Len(s) + j] = t[j]
           /\ \A i \in DOMAIN (s \o t) : i \in DOMAIN s \/ \E j \in DOMAIN t : i = Len(s) + j
<1>1. /\ s \o t \in Seq(S) /\ Len(s) \in Nat /\ Len(t) \in Nat
      /\ Len(s \o t) = Len(s) + Len(t)
      /\ DOMAIN s = 1 .. Len(s) /\ DOMAIN t = 1 .. Len(t)
      /\ DOMAIN (s \o t) = 1 .. (Len(s) + Len(t))
      /\ \A i \in 1 .. (Len(s) + Len(t)) :
           (s \o t)[i] = IF i <= Len(s) THEN s[i] ELSE t[i - Len(s)]
  BY LenProperties, ConcatProperties
<1> DEFINE k == Len(s)
           m == Len(t)
           z == s \o t
<1>2. /\ k \in Nat /\ m \in Nat /\ DOMAIN s = 1 .. k /\ DOMAIN t = 1 .. m /\ DOMAIN z = 1 .. (k + m)
      /\ \A i \in 1 .. (k + m) : z[i] = IF i <= k THEN s[i] ELSE t[i - k]
  BY <1>1
<1> HIDE DEF k, m, z
<1>3. \A i \in DOMAIN s : i \in DOMAIN z /\ z[i] = s[i]
  BY <1>2
<1>4. ASSUME NEW j \in DOMAIN t PROVE k + j \in DOMAIN z /\ z[k + j] = t[j]
  <2>1. k + j \in 1 .. (k + m) /\ ~(k + j <= k) /\ k + j - k = j
    BY <1>2
  <2> QED BY <1>2, <2>1
<1>5. ASSUME NEW i \in DOMAIN z PROVE i \in DOMAIN s \/ \E j \in DOMAIN t : i = k + j
  <2>1. i \in 1 .. k \/ (i - k \in 1 .. m /\ i = k + (i - k))
    BY <1>2
  <2> QED BY <1>2, <2>1
<1> QED BY <1>1, <1>3, <1>4, <1>5 DEF k, m, z

LEMMA ConcatPlaceByPlace ==
    ASSUME NEW S, NEW g \in Seq(S), NEW h \in Seq(S), NEW p, NEW q, Len(g) = p, Len(h) = q
    PROVE  /\ g \o h = [n \in DOMAIN (g \o h) |-> (g \o h)[n]] /\ DOMAIN (g \o h) = 1 .. (p + q)
           /\ \A n \in 1 .. p : (g \o h)[n] = g[n]
           /\ \A n \in 1 .. q : (g \o h)[p + n] = h[n]
<1>1. /\ g \o h \in Seq(S) /\ DOMAIN (g \o h) = 1 .. (Len(g) + Len(h))
      /\ DOMAIN g = 1 .. Len(g) /\ DOMAIN h = 1 .. Len(h)
  <2>1. g \o h \in Seq(S) /\ Len(g \o h) = Len(g) + Len(h)
    BY ConcatProperties
  <2>2. DOMAIN (g \o h) = 1 .. Len(g \o h) /\ DOMAIN g = 1 .. Len(g) /\ DOMAIN h = 1 .. Len(h)
    BY <2>1, LenProperties
  <2> QED BY <2>1, <2>2, Zenon
<1>2. \A n \in DOMAIN g : (g \o h)[n] = g[n]
  BY PlacesConcat
<1>3. \A n \in DOMAIN h : (g \o h)[Len(g) + n] = h[n]
  BY PlacesConcat
<1>4. g \o h \in [1 .. Len(g \o h) -> S]
  BY <1>1, LenProperties
<1> QED BY <1>1, <1>2, <1>3, <1>4

LEMMA HeadingsConcat ==
    ASSUME NEW S, NEW s \in Seq(S), NEW t \in Seq(S)
    PROVE  Headings(s \o t) = Headings(s) \o Headings(t)
<1> DEFINE z == s \o t
           I == HeadPlaces(s)
           J == HeadPlaces(t)
           K == HeadPlaces(z)
           u == Only(s, I)
           v == Only(t, J)
<1>1. InText(I, s) /\ InText(J, t)
  BY DEF HeadPlaces, InText
<1>2. K = I \cup Shifted(J, Len(s))
  BY PlacesConcat DEF HeadPlaces, Shifted
<1>3. Only(z, K) = u \o v
  <2> HIDE DEF I, J, K, z
  <2>1. Only(s \o t, I \cup Shifted(J, Len(s))) = Only(s, I) \o Only(t, J)
    BY <1>1, OnlyConcat
  <2> QED BY <1>2, <2>1 DEF z
<1>4. u \in Seq(S) /\ v \in Seq(S)
  <2>1. /\ Places(I) /\ \A i \in I : s[i] \in S
        /\ Places(J) /\ \A i \in J : t[i] \in S
    <3> HIDE DEF I, J
    <3> QED BY <1>1, PlacesOfText DEF InText
  <2> HIDE DEF I, J
  <2> QED BY <2>1, OnlyIs
<1>5. /\ Headings(z) = [n \in DOMAIN (u \o v) |-> (u \o v)[n].id]
      /\ Headings(s) = [n \in DOMAIN u |-> u[n].id]
      /\ Headings(t) = [n \in DOMAIN v |-> v[n].id]
  <2>1. /\ Headings(z) = [n \in DOMAIN Only(z, K) |-> Only(z, K)[n].id]
        /\ Headings(s) = [n \in DOMAIN u |-> u[n].id]
        /\ Headings(t) = [n \in DOMAIN v |-> v[n].id]
    BY DEF Headings, HeadPlaces
  <2> HIDE DEF u, v, z, K
  <2> QED BY <1>3, <2>1
<1> HIDE DEF u, v
<1> DEFINE IDs == {x.id : x \in S}
           g == Headings(s)
           h == Headings(t)
           p == Len(u)
           q == Len(v)
<1>6. /\ p \in Nat /\ q \in Nat /\ DOMAIN u = 1 .. p /\ DOMAIN v = 1 .. q
      /\ DOMAIN (u \o v) = 1 .. (p + q)
      /\ \A n \in 1 .. p : u[n] \in S /\ (u \o v)[n] = u[n]
      /\ \A n \in 1 .. q : v[n] \in S /\ (u \o v)[p + n] = v[n]
  BY <1>4, PlacesConcat, ElementOfSeq
<1>7. g = [n \in 1 .. p |-> u[n].id] /\ h = [n \in 1 .. q |-> v[n].id]
  BY <1>5, <1>6
<1>8. /\ g \in Seq(IDs) /\ h \in Seq(IDs) /\ Len(g) = p /\ Len(h) = q
  <2>1. \A n \in 1 .. p : u[n].id \in IDs
    BY <1>6
  <2>2. \A n \in 1 .. q : v[n].id \in IDs
    BY <1>6
  <2> HIDE DEF IDs, p, q
  <2>3. [n \in 1 .. p |-> u[n].id] \in Seq(IDs) /\ [n \in 1 .. q |-> v[n].id] \in Seq(IDs)
    BY <1>6, <2>1, <2>2, IsASeq
  <2>4. g \in Seq(IDs) /\ h \in Seq(IDs) /\ DOMAIN g = 1 .. p /\ DOMAIN h = 1 .. q
    BY <1>7, <2>3
  <2> HIDE DEF g, h
  <2> QED BY <1>6, <2>4
<1> HIDE DEF g, h, IDs, p, q
<1>9. /\ g \o h = [n \in DOMAIN (g \o h) |-> (g \o h)[n]] /\ DOMAIN (g \o h) = 1 .. (p + q)
      /\ \A n \in 1 .. p : (g \o h)[n] = g[n]
      /\ \A n \in 1 .. q : (g \o h)[p + n] = h[n]
  BY <1>8, ConcatPlaceByPlace
<1>10. \A n \in 1 .. (p + q) : (u \o v)[n].id = (g \o h)[n]
  <2> TAKE n \in 1 .. (p + q)
  <2>1. CASE n \in 1 .. p
    BY <1>6, <1>7, <1>9, <2>1
  <2>2. CASE n \notin 1 .. p
    <3> DEFINE m == n - p
    <3>1. m \in 1 .. q /\ n = p + m
      BY <1>6, <2>2
    <3> HIDE DEF m
    <3>2. (u \o v)[n] = v[m] /\ (g \o h)[n] = h[m] /\ h[m] = v[m].id
      BY <1>6, <1>7, <1>9, <3>1
    <3> QED BY <3>2
  <2> QED BY <2>1, <2>2
<1>11. Headings(z) = g \o h
  BY <1>5, <1>6, <1>9, <1>10
<1> QED BY <1>11 DEF g, h

LEMMA FieldLinesConcat ==
    ASSUME NEW S, NEW s \in Seq(S), NEW t \in Seq(S), NEW name
    PROVE  FieldLines(s \o t, name) = FieldLines(s, name) \o FieldLines(t, name)
<1> DEFINE In(c) == {i \in DOMAIN c : c[i].k = "field" /\ c[i].name = name}
<1>1. InText(In(s), s) /\ InText(In(t), t)
  BY DEF InText
<1>2. In(s \o t) = In(s) \cup Shifted(In(t), Len(s))
  BY PlacesConcat DEF Shifted
<1>3. FieldLines(s \o t, name) = Only(s \o t, In(s \o t)) /\ FieldLines(s, name) = Only(s, In(s))
      /\ FieldLines(t, name) = Only(t, In(t))
  BY DEF FieldLines
<1> HIDE DEF In
<1>4. Only(s \o t, In(s) \cup Shifted(In(t), Len(s))) = Only(s, In(s)) \o Only(t, In(t))
  BY <1>1, OnlyConcat
<1> QED BY <1>2, <1>3, <1>4

(* What is picked from one line.                                             *)
LEMMA OnlyOne ==
    ASSUME NEW s
    PROVE  Only(s, {}) = <<>> /\ Only(s, {1}) = <<s[1]>>
<1>1. Only(s, {}) = <<>>
  <2>1. Cardinality({}) = 0
    BY FS_EmptySet
  <2>2. Only(s, {}) = [n \in 1 .. 0 |-> s[Nth({}, n)]]
    BY <2>1 DEF Only
  <2> QED BY <2>2
<1>2. Only(s, {1}) = <<s[1]>>
  <2>1. Cardinality({1}) = 1 /\ IsFiniteSet({1})
    BY FS_Singleton
  <2>2. Places({1})
    BY <2>1 DEF Places
  <2>3. Nth({1}, 1) \in {1}
    BY <2>1, <2>2, NthIs
  <2>4. Nth({1}, 1) = 1
    BY <2>3
  <2>5. Only(s, {1}) = [n \in 1 .. 1 |-> s[Nth({1}, n)]]
    BY <2>1 DEF Only
  <2> QED BY <2>4, <2>5
<1> QED BY <1>1, <1>2

LEMMA OneLine ==
    ASSUME NEW x, NEW name
    PROVE  /\ Headings(<<x>>) = IF IsHeading(x) THEN <<x.id>> ELSE <<>>
           /\ FieldLines(<<x>>, name) = IF x.k = "field" /\ x.name = name THEN <<x>> ELSE <<>>
<1> DEFINE s == <<x>>
           H == {i \in DOMAIN s : IsHeading(s[i])}
           F == {i \in DOMAIN s : s[i].k = "field" /\ s[i].name = name}
<1>1. DOMAIN s = {1} /\ s[1] = x
  OBVIOUS
<1> HIDE DEF s
<1>2. H = IF IsHeading(x) THEN {1} ELSE {}
  BY <1>1
<1>3. F = IF x.k = "field" /\ x.name = name THEN {1} ELSE {}
  BY <1>1
<1>4. Only(s, {}) = <<>> /\ Only(s, {1}) = <<x>>
  BY <1>1, OnlyOne
<1>5. FieldLines(s, name) = Only(s, F)
  BY DEF FieldLines
<1>6. Headings(s) = [i \in DOMAIN Only(s, H) |-> Only(s, H)[i].id]
  BY DEF Headings
<1>7. FieldLines(s, name) = IF x.k = "field" /\ x.name = name THEN <<x>> ELSE <<>>
  BY <1>3, <1>4, <1>5
<1>8. CASE IsHeading(x)
  <2>1. Only(s, H) = <<x>>
    BY <1>2, <1>4, <1>8
  <2>2. Headings(s) = <<x.id>>
    BY <1>6, <2>1
  <2> QED BY <1>7, <1>8, <2>2 DEF s
<1>9. CASE ~IsHeading(x)
  <2>1. Only(s, H) = <<>>
    BY <1>2, <1>4, <1>9
  <2>2. Headings(s) = <<>>
    BY <1>6, <2>1
  <2> QED BY <1>7, <1>9, <2>2 DEF s
<1> QED BY <1>8, <1>9

LEMMA ShiftedCount ==
    ASSUME NEW k \in Nat, NEW I, Within(I, k), NEW J, Positive(J)
    PROVE  /\ Cardinality(I \cup Shifted(J, k)) = Cardinality(I) + Cardinality(J)
           /\ Cardinality(J) \in Nat
BY ShiftedPlaces

(* A rule between two texts, of k and m lines.                               *)
Through(z, s, k, t, m) ==
    /\ \A i \in 1 .. k : z[i] = s[i]
    /\ z[k + 1].k = "rule"
    /\ \A j \in 1 .. m : z[k + 1 + j] = t[j]

LEMMA RulesThrough ==
    ASSUME NEW k \in Nat, NEW m \in Nat, NEW s, NEW t, NEW z, Through(z, s, k, t, m)
    PROVE  /\ \A i \in 1 .. (k + 1) : RulesAbove(z, i) = RulesAbove(s, i)
           /\ \A j \in 1 .. (m + 1) : RulesAbove(z, k + 1 + j)
                                        = RulesAbove(s, k + 1) + 1 + RulesAbove(t, j)
           /\ RulesAbove(s, k + 1) \in Nat
           /\ \A j \in 1 .. (m + 1) : RulesAbove(t, j) \in Nat
<1>0. /\ \A i \in 1 .. k : z[i] = s[i]
      /\ z[k + 1].k = "rule"
      /\ \A j \in 1 .. m : z[k + 1 + j] = t[j]
  BY DEF Through
<1>1. ASSUME NEW i \in 1 .. (k + 1) PROVE RulesAbove(z, i) = RulesAbove(s, i)
  <2>1. \A j \in 1 .. (i - 1) : j \in 1 .. k
    OBVIOUS
  <2>2. {j \in 1 .. (i - 1) : z[j].k = "rule"} = {j \in 1 .. (i - 1) : s[j].k = "rule"}
    BY <1>0, <2>1
  <2> QED BY <2>2 DEF RulesAbove
<1>2. ASSUME NEW j \in 1 .. (m + 1)
      PROVE  /\ RulesAbove(z, k + 1 + j) = RulesAbove(s, k + 1) + 1 + RulesAbove(t, j)
             /\ RulesAbove(s, k + 1) \in Nat /\ RulesAbove(t, j) \in Nat
  <2> DEFINE X == {x \in 1 .. (k + 1 - 1) : s[x].k = "rule"}
             Y == {x \in 1 .. (j - 1) : t[x].k = "rule"}
             I == X \cup {k + 1}
             Z == {x \in 1 .. (k + 1 + j - 1) : z[x].k = "rule"}
  <2>1. X \in SUBSET (1 .. k) /\ Y \in SUBSET (1 .. m) /\ k + 1 \notin X
    OBVIOUS
  <2>2. IsFiniteSet(1 .. k) /\ IsFiniteSet(1 .. m)
    BY FS_Interval
  <2>3. Z = I \cup Shifted(Y, k + 1)
    <3>1. ASSUME NEW x \in Z PROVE x \in I \cup Shifted(Y, k + 1)
      <4>1. x \in 1 .. (k + j) /\ z[x].k = "rule"
        OBVIOUS
      <4>2. CASE x <= k
        <5>1. x \in 1 .. k
          BY <4>1, <4>2
        <5>2. s[x].k = "rule" /\ x \in 1 .. (k + 1 - 1)
          BY <1>0, <4>1, <5>1
        <5> QED BY <5>2
      <4>3. CASE x = k + 1
        BY <4>3
      <4>4. CASE x > k + 1
        <5> DEFINE y == x - (k + 1)
        <5>1. y \in 1 .. (j - 1) /\ y \in 1 .. m /\ x = k + 1 + y
          BY <4>1, <4>4
        <5> HIDE DEF y
        <5>2. t[y].k = "rule"
          BY <1>0, <4>1, <5>1
        <5>3. y \in Y
          BY <5>1, <5>2
        <5> HIDE DEF Y
        <5> QED BY <5>1, <5>3 DEF Shifted
      <4> QED BY <4>1, <4>2, <4>3, <4>4
    <3>2. ASSUME NEW x \in X PROVE x \in Z
      <4>1. x \in 1 .. k /\ s[x].k = "rule" /\ x \in 1 .. (k + 1 + j - 1)
        BY <1>0
      <4> QED BY <1>0, <4>1
    <3>3. k + 1 \in Z
      <4>1. k + 1 \in 1 .. (k + 1 + j - 1)
        OBVIOUS
      <4> QED BY <1>0, <4>1
    <3>4. ASSUME NEW y \in Y PROVE k + 1 + y \in Z
      <4>1. y \in 1 .. m /\ t[y].k = "rule" /\ k + 1 + y \in 1 .. (k + 1 + j - 1)
        OBVIOUS
      <4>2. z[k + 1 + y] = t[y]
        BY <1>0, <4>1
      <4> QED BY <4>1, <4>2
    <3> HIDE DEF X, Y, Z
    <3> QED BY <3>1, <3>2, <3>3, <3>4 DEF Shifted
  <2>4. /\ RulesAbove(z, k + 1 + j) = Cardinality(Z) /\ RulesAbove(s, k + 1) = Cardinality(X)
        /\ RulesAbove(t, j) = Cardinality(Y)
    BY DEF RulesAbove
  <2> HIDE DEF X, Y, Z
  <2>5. IsFiniteSet(X) /\ IsFiniteSet(Y)
    BY <2>1, <2>2, FS_Subset
  <2>6. Cardinality(I) = Cardinality(X) + 1 /\ Cardinality(X) \in Nat
    BY <2>1, <2>5, FS_AddElement, FS_CardinalityType
  <2>7. Within(I, k + 1) /\ Positive(Y) /\ k + 1 \in Nat
    BY <2>1, <2>5 DEF Within, Positive
  <2> HIDE DEF I
  <2>8. Cardinality(I \cup Shifted(Y, k + 1)) = Cardinality(I) + Cardinality(Y) /\ Cardinality(Y) \in Nat
    <3> DEFINE n == k + 1
    <3>1. n \in Nat /\ Within(I, n) /\ Positive(Y)
      BY <2>7
    <3> HIDE DEF n
    <3>2. /\ Cardinality(I \cup Shifted(Y, n)) = Cardinality(I) + Cardinality(Y)
          /\ Cardinality(Y) \in Nat
      BY <3>1, ShiftedCount
    <3> QED BY <3>2 DEF n
  <2> QED BY <2>3, <2>4, <2>6, <2>8
<1>3. RulesAbove(s, k + 1) \in Nat
  <2>1. 1 \in 1 .. (m + 1)
    OBVIOUS
  <2> QED BY <1>2, <2>1
<1> QED BY <1>1, <1>2, <1>3

LEMMA RulesOnlyGrow ==
    ASSUME NEW k \in Nat, NEW s, NEW i \in 1 .. (k + 1)
    PROVE  RulesAbove(s, i) \in Nat /\ RulesAbove(s, k + 1) \in Nat
           /\ RulesAbove(s, i) <= RulesAbove(s, k + 1)
<1> DEFINE X == {x \in 1 .. (i - 1) : s[x].k = "rule"}
           Y == {x \in 1 .. (k + 1 - 1) : s[x].k = "rule"}
<1>1. X \in SUBSET Y /\ Y \in SUBSET (1 .. k)
  OBVIOUS
<1>2. IsFiniteSet(1 .. k)
  BY FS_Interval
<1>3. RulesAbove(s, i) = Cardinality(X) /\ RulesAbove(s, k + 1) = Cardinality(Y)
  BY DEF RulesAbove
<1> HIDE DEF X, Y
<1>4. IsFiniteSet(Y) /\ IsFiniteSet(X)
  BY <1>1, <1>2, FS_Subset
<1>5. Cardinality(X) \in Nat /\ Cardinality(Y) \in Nat /\ Cardinality(X) <= Cardinality(Y)
  BY <1>1, <1>4, FS_Subset, FS_CardinalityType
<1> QED BY <1>3, <1>5

LEMMA PickedFromOne ==
    ASSUME NEW S, NEW s \in Seq(S), NEW t \in Seq(S)
    PROVE  /\ \A I : InText(I, s) => Only(s \o t, I) = Only(s, I)
           /\ \A J : InText(J, t) => Only(s \o t, Shifted(J, Len(s))) = Only(t, J)
<1>1. InText({}, s) /\ InText({}, t) /\ Only(s, {}) = <<>> /\ Only(t, {}) = <<>>
  BY OnlyOne DEF InText
<1>2. ASSUME NEW I, InText(I, s) PROVE Only(s \o t, I) = Only(s, I)
  <2>1. Only(s \o t, I \cup Shifted({}, Len(s))) = Only(s, I) \o Only(t, {})
    BY <1>1, <1>2, OnlyConcat
  <2>2. I \cup Shifted({}, Len(s)) = I
    BY DEF Shifted
  <2>3. Only(s, I) \in Seq(S)
    <3>1. Places(I) /\ \A i \in I : s[i] \in S
      BY <1>2, PlacesOfText DEF InText
    <3> QED BY <3>1, OnlyIs
  <2>4. Only(s, I) \o <<>> = Only(s, I)
    BY <2>3
  <2> QED BY <1>1, <2>1, <2>2, <2>4
<1>3. ASSUME NEW J, InText(J, t) PROVE Only(s \o t, Shifted(J, Len(s))) = Only(t, J)
  <2> DEFINE E == {}
  <2>1. Only(s \o t, E \cup Shifted(J, Len(s))) = Only(s, E) \o Only(t, J)
    <3> HIDE DEF E
    <3>1. InText(E, s)
      BY <1>1 DEF E
    <3> QED BY <1>3, <3>1, OnlyConcat
  <2>2. E \cup Shifted(J, Len(s)) = Shifted(J, Len(s))
    OBVIOUS
  <2>3. Only(t, J) \in Seq(S)
    <3>1. Places(J) /\ \A i \in J : t[i] \in S
      BY <1>3, PlacesOfText DEF InText
    <3> QED BY <3>1, OnlyIs
  <2>4. <<>> \o Only(t, J) = Only(t, J)
    BY <2>3
  <2> QED BY <1>1, <2>1, <2>2, <2>4
<1> QED BY <1>2, <1>3

LEMMA InChunk ==
    ASSUME NEW z, NEW c, NEW i
    PROVE  i \in ChunkPlaces(z, c)
             <=> i \in DOMAIN z /\ z[i].k # "rule" /\ RulesAbove(z, i) = c - 1
BY DEF ChunkPlaces

(* Which lines are in which chunk, on both sides of a rule.                  *)
LEMMA ChunkPlacesThrough ==
    ASSUME NEW k \in Nat, NEW m \in Nat, NEW s, NEW t, NEW z,
           DOMAIN s = 1 .. k, DOMAIN t = 1 .. m, DOMAIN z = 1 .. (k + 1 + m),
           Through(z, s, k, t, m)
    PROVE  /\ RulesAbove(z, k + 1 + m + 1) = RulesAbove(s, k + 1) + 1 + RulesAbove(t, m + 1)
           /\ RulesAbove(s, k + 1) \in Nat /\ RulesAbove(t, m + 1) \in Nat
           /\ \A c \in 1 .. (1 + RulesAbove(s, k + 1)) : ChunkPlaces(z, c) = ChunkPlaces(s, c)
           /\ \A d \in 1 .. (1 + RulesAbove(t, m + 1)) :
                ChunkPlaces(z, 1 + RulesAbove(s, k + 1) + d) = Shifted(ChunkPlaces(t, d), k + 1)
<1> DEFINE a == RulesAbove(s, k + 1)
           b == RulesAbove(t, m + 1)
<1>0. /\ DOMAIN s = 1 .. k /\ DOMAIN t = 1 .. m /\ DOMAIN z = 1 .. (k + 1 + m)
      /\ \A i \in 1 .. k : z[i] = s[i]
      /\ z[k + 1].k = "rule"
      /\ \A j \in 1 .. m : z[k + 1 + j] = t[j]
  BY DEF Through
<1>1. /\ \A i \in 1 .. (k + 1) : RulesAbove(z, i) = RulesAbove(s, i)
      /\ \A j \in 1 .. (m + 1) : RulesAbove(z, k + 1 + j) = a + 1 + RulesAbove(t, j)
      /\ a \in Nat
      /\ \A j \in 1 .. (m + 1) : RulesAbove(t, j) \in Nat
  BY RulesThrough
<1>2. \A i \in 1 .. (k + 1) : RulesAbove(s, i) \in Nat /\ RulesAbove(s, i) <= a
  BY RulesOnlyGrow
<1>3. RulesAbove(z, k + 1 + m + 1) = a + 1 + b /\ b \in Nat
  <2>1. m + 1 \in 1 .. (m + 1) /\ k + 1 + (m + 1) = k + 1 + m + 1
    OBVIOUS
  <2> QED BY <1>1, <2>1
<1> HIDE DEF a, b
<1>4. \A i \in 1 .. (k + 1 + m) : \/ i \in 1 .. k
                                  \/ i = k + 1
                                  \/ \E j \in 1 .. m : i = k + 1 + j
  <2> TAKE i \in 1 .. (k + 1 + m)
  <2>1. i \in 1 .. k \/ i = k + 1 \/ (i - (k + 1) \in 1 .. m /\ i = k + 1 + (i - (k + 1)))
    OBVIOUS
  <2> QED BY <2>1
<1>5. /\ \A i \in 1 .. k : i \in 1 .. (k + 1 + m) /\ i \in 1 .. (k + 1)
      /\ \A j \in 1 .. m : k + 1 + j \in 1 .. (k + 1 + m) /\ j \in 1 .. (m + 1)
      /\ k + 1 \in 1 .. (k + 1)
  OBVIOUS
<1>6. ASSUME NEW c \in 1 .. (1 + a) PROVE ChunkPlaces(z, c) = ChunkPlaces(s, c)
  <2>1. \A i \in 1 .. k : i \in ChunkPlaces(z, c) <=> i \in ChunkPlaces(s, c)
    BY <1>0, <1>1, <1>5 DEF ChunkPlaces
  <2>2. ASSUME NEW j \in 1 .. m PROVE RulesAbove(z, k + 1 + j) # c - 1
    <3>1. RulesAbove(z, k + 1 + j) = a + 1 + RulesAbove(t, j) /\ RulesAbove(t, j) \in Nat
      BY <1>1, <1>5
    <3> QED BY <1>1, <3>1
  <2>3. ASSUME NEW i \in ChunkPlaces(z, c) PROVE i \in 1 .. k
    <3>1. i \in 1 .. (k + 1 + m) /\ z[i].k # "rule" /\ RulesAbove(z, i) = c - 1
      BY DEF ChunkPlaces
    <3> QED BY <1>0, <1>4, <2>2, <3>1
  <2>4. \A i \in ChunkPlaces(s, c) : i \in 1 .. k
    BY DEF ChunkPlaces
  <2> QED BY <2>1, <2>3, <2>4
<1>7. ASSUME NEW d \in 1 .. (1 + b)
      PROVE  ChunkPlaces(z, 1 + a + d) = Shifted(ChunkPlaces(t, d), k + 1)
  <2>1. ASSUME NEW j \in 1 .. m
        PROVE  RulesAbove(z, k + 1 + j) = 1 + a + d - 1 <=> RulesAbove(t, j) = d - 1
    <3>1. RulesAbove(z, k + 1 + j) = a + 1 + RulesAbove(t, j) /\ RulesAbove(t, j) \in Nat
      BY <1>1, <1>5
    <3> QED BY <1>1, <1>3, <3>1
  <2>2. ASSUME NEW j \in 1 .. m
        PROVE  k + 1 + j \in ChunkPlaces(z, 1 + a + d) <=> j \in ChunkPlaces(t, d)
    <3>1. k + 1 + j \in DOMAIN z /\ j \in DOMAIN t /\ z[k + 1 + j] = t[j]
      BY <1>0, <1>5
    <3> DEFINE e == 1 + a + d
               i == k + 1 + j
    <3>2. i \in ChunkPlaces(z, e) <=> i \in DOMAIN z /\ z[i].k # "rule" /\ RulesAbove(z, i) = e - 1
      BY InChunk
    <3>3. j \in ChunkPlaces(t, d) <=> j \in DOMAIN t /\ t[j].k # "rule" /\ RulesAbove(t, j) = d - 1
      BY InChunk
    <3>4. RulesAbove(z, i) = e - 1 <=> RulesAbove(t, j) = d - 1
      BY <1>1, <1>3, <2>1
    <3> HIDE DEF e, i
    <3>5. i \in ChunkPlaces(z, e) <=> j \in ChunkPlaces(t, d)
      BY <3>1, <3>2, <3>3, <3>4 DEF i
    <3> QED BY <3>5 DEF e, i
  <2>3. \A i \in 1 .. (k + 1) : RulesAbove(z, i) # 1 + a + d - 1
    BY <1>1, <1>2
  <2>4. ASSUME NEW i \in ChunkPlaces(z, 1 + a + d) PROVE \E j \in 1 .. m : i = k + 1 + j
    <3>0. i \in ChunkPlaces(z, 1 + a + d)
      OBVIOUS
    <3>1. i \in DOMAIN z /\ RulesAbove(z, i) = 1 + a + d - 1
      <4> DEFINE e == 1 + a + d
      <4>1. i \in ChunkPlaces(z, e)
        BY <3>0
      <4> HIDE DEF e
      <4>2. i \in DOMAIN z /\ RulesAbove(z, i) = e - 1
        BY <4>1, InChunk
      <4> QED BY <1>1, <1>3, <4>2 DEF e
    <3>2. i \notin 1 .. (k + 1)
      BY <2>3, <3>1
    <3> QED BY <1>0, <1>4, <1>5, <3>1, <3>2
  <2>5. \A j \in ChunkPlaces(t, d) : j \in 1 .. m
    BY DEF ChunkPlaces
  <2> QED BY <2>2, <2>4, <2>5 DEF Shifted
<1> QED BY <1>1, <1>3, <1>6, <1>7 DEF a, b

(* A rule cuts a text in two, and each part is cut up for itself.            *)
LEMMA RuleSplits ==
    ASSUME NEW S, NEW s \in Seq(S), NEW t \in Seq(S), NEW r \in S, r.k = "rule"
    PROVE  /\ SplitIntoChunks(s \o <<r>> \o t) = SplitIntoChunks(s) \o SplitIntoChunks(t)
           /\ SplitIntoChunks(s) \in Seq(Seq(S)) /\ SplitIntoChunks(t) \in Seq(Seq(S))
           /\ s \o <<r>> \o t \in Seq(S)
<1> DEFINE u == s \o <<r>>
           z == u \o t
           k == Len(s)
           m == Len(t)
           a == RulesAbove(s, k + 1)
           b == RulesAbove(t, m + 1)
           v == SplitIntoChunks(s)
           w == SplitIntoChunks(t)
           y == SplitIntoChunks(z)
<1>1. <<r>> \in Seq(S) /\ Len(<<r>>) = 1 /\ DOMAIN <<r>> = {1} /\ <<r>>[1] = r
  OBVIOUS
<1>2. /\ u \in Seq(S) /\ k \in Nat /\ Len(u) = k + 1 /\ DOMAIN s = 1 .. k /\ DOMAIN u = 1 .. (k + 1)
      /\ \A i \in 1 .. k : u[i] = s[i]
      /\ u[k + 1] = r
  <2> DEFINE x == <<r>>
  <2>1. x \in Seq(S) /\ Len(x) = 1 /\ DOMAIN x = {1} /\ x[1] = r
    BY <1>1
  <2> HIDE DEF x
  <2>2. /\ s \o x \in Seq(S) /\ Len(s) \in Nat /\ Len(s \o x) = Len(s) + Len(x)
        /\ DOMAIN s = 1 .. Len(s) /\ DOMAIN (s \o x) = 1 .. (Len(s) + Len(x))
        /\ \A i \in DOMAIN s : (s \o x)[i] = s[i]
        /\ \A j \in DOMAIN x : (s \o x)[Len(s) + j] = x[j]
    BY <2>1, PlacesConcat
  <2>3. s \o x = u
    BY DEF x
  <2> HIDE DEF u
  <2> QED BY <2>1, <2>2, <2>3
<1>3. /\ z \in Seq(S) /\ m \in Nat /\ Len(z) = k + 1 + m /\ DOMAIN t = 1 .. m
      /\ DOMAIN z = 1 .. (k + 1 + m)
      /\ \A i \in 1 .. (k + 1) : z[i] = u[i]
      /\ \A j \in 1 .. m : z[k + 1 + j] = t[j]
  <2> HIDE DEF u
  <2>1. /\ u \o t \in Seq(S) /\ Len(t) \in Nat /\ Len(u \o t) = Len(u) + Len(t)
        /\ DOMAIN t = 1 .. Len(t) /\ DOMAIN (u \o t) = 1 .. (Len(u) + Len(t))
        /\ \A i \in DOMAIN u : (u \o t)[i] = u[i]
        /\ \A j \in DOMAIN t : (u \o t)[Len(u) + j] = t[j]
    <3>1. u \in Seq(S)
      BY <1>2
    <3> QED BY <3>1, PlacesConcat
  <2> QED BY <1>2, <2>1
<1>4. /\ \A i \in 1 .. k : z[i] = s[i]
      /\ z[k + 1].k = "rule"
  <2>1. \A i \in 1 .. k : i \in 1 .. (k + 1)
    BY <1>2
  <2>2. k + 1 \in 1 .. (k + 1)
    BY <1>2
  <2> HIDE DEF u, z, k
  <2> QED BY <1>2, <1>3, <2>1, <2>2
<1>5. /\ RulesAbove(z, k + 1 + m + 1) = a + 1 + b
      /\ a \in Nat /\ b \in Nat
      /\ \A c \in 1 .. (1 + a) : ChunkPlaces(z, c) = ChunkPlaces(s, c)
      /\ \A d \in 1 .. (1 + b) : ChunkPlaces(z, 1 + a + d) = Shifted(ChunkPlaces(t, d), k + 1)
  <2> HIDE DEF z, k, m
  <2>1. Through(z, s, k, t, m)
    BY <1>3, <1>4 DEF Through
  <2> QED BY <1>2, <1>3, <2>1, ChunkPlacesThrough
<1>6. /\ \A I : InText(I, s) => Only(z, I) = Only(s, I)
      /\ \A J : InText(J, t) => Only(z, Shifted(J, k + 1)) = Only(t, J)
  <2>1. \A I : InText(I, s) => Only(u, I) = Only(s, I)
    <3> DEFINE x == <<r>>
    <3>1. x \in Seq(S)
      BY <1>1
    <3> HIDE DEF x
    <3>2. \A I : InText(I, s) => Only(s \o x, I) = Only(s, I)
      BY <3>1, PickedFromOne
    <3> QED BY <3>2 DEF x
  <2>2. \A I : InText(I, s) => InText(I, u)
    <3>1. \A i \in 1 .. k : i \in 1 .. (k + 1)
      BY <1>2
    <3> QED BY <1>2, <3>1 DEF InText
  <2> HIDE DEF u
  <2>3. /\ \A I : InText(I, u) => Only(u \o t, I) = Only(u, I)
        /\ \A J : InText(J, t) => Only(u \o t, Shifted(J, Len(u))) = Only(t, J)
    BY <1>2, PickedFromOne
  <2> QED BY <1>2, <2>1, <2>2, <2>3
<1>7. /\ DOMAIN v = 1 .. (1 + a) /\ DOMAIN w = 1 .. (1 + b) /\ DOMAIN y = 1 .. (1 + a + (1 + b))
      /\ \A c \in 1 .. (1 + a) : v[c] = Only(s, ChunkPlaces(s, c)) /\ v[c] \in Seq(S)
      /\ \A d \in 1 .. (1 + b) : w[d] = Only(t, ChunkPlaces(t, d)) /\ w[d] \in Seq(S)
      /\ \A e \in 1 .. (1 + a + (1 + b)) : y[e] = Only(z, ChunkPlaces(z, e)) /\ y[e] \in Seq(S)
  <2>1. DOMAIN v = 1 .. (1 + a) /\ \A c \in DOMAIN v : v[c] = Only(s, ChunkPlaces(s, c)) /\ v[c] \in Seq(S)
    BY ChunksAre
  <2>2. DOMAIN w = 1 .. (1 + b) /\ \A c \in DOMAIN w : w[c] = Only(t, ChunkPlaces(t, c)) /\ w[c] \in Seq(S)
    BY ChunksAre
  <2>3. DOMAIN y = 1 .. (1 + RulesAbove(z, Len(z) + 1))
        /\ \A c \in DOMAIN y : y[c] = Only(z, ChunkPlaces(z, c)) /\ y[c] \in Seq(S)
    <3> HIDE DEF z
    <3> QED BY <1>3, ChunksAre
  <2>4. 1 + RulesAbove(z, Len(z) + 1) = 1 + a + (1 + b)
    <3> HIDE DEF a, b
    <3> QED BY <1>3, <1>5
  <2> QED BY <2>1, <2>2, <2>3, <2>4
<1>8. /\ \A c : InText(ChunkPlaces(s, c), s)
      /\ \A d : InText(ChunkPlaces(t, d), t)
  BY DEF InText, ChunkPlaces
<1> HIDE DEF u, z, k, m, a, b, v, w, y
<1>9. /\ \A c \in 1 .. (1 + a) : y[c] = v[c]
      /\ \A d \in 1 .. (1 + b) : y[1 + a + d] = w[d]
  <2>1. ASSUME NEW c \in 1 .. (1 + a) PROVE y[c] = v[c]
    <3>1. c \in 1 .. (1 + a + (1 + b))
      BY <1>5
    <3> QED BY <1>5, <1>6, <1>7, <1>8, <3>1
  <2>2. ASSUME NEW d \in 1 .. (1 + b) PROVE y[1 + a + d] = w[d]
    <3>1. 1 + a + d \in 1 .. (1 + a + (1 + b))
      BY <1>5
    <3> QED BY <1>5, <1>6, <1>7, <1>8, <3>1
  <2> QED BY <2>1, <2>2
<1>10. v \in Seq(Seq(S)) /\ w \in Seq(Seq(S)) /\ Len(v) = 1 + a /\ Len(w) = 1 + b
  <2>1. v = [c \in 1 .. (1 + a) |-> v[c]] /\ w = [d \in 1 .. (1 + b) |-> w[d]]
    <3>1. v = [c \in DOMAIN v |-> v[c]]
      BY DEF v, SplitIntoChunks
    <3>2. w = [d \in DOMAIN w |-> w[d]]
      BY DEF w, SplitIntoChunks
    <3> QED BY <1>7, <3>1, <3>2
  <2>2. 1 + a \in Nat /\ 1 + b \in Nat
    BY <1>5
  <2>3. [c \in 1 .. (1 + a) |-> v[c]] \in Seq(Seq(S)) /\ [d \in 1 .. (1 + b) |-> w[d]] \in Seq(Seq(S))
    <3> DEFINE p == 1 + a
               q == 1 + b
               SS == Seq(S)
    <3>1. /\ p \in Nat /\ \A c \in 1 .. p : v[c] \in SS
          /\ q \in Nat /\ \A d \in 1 .. q : w[d] \in SS
      BY <1>7, <2>2
    <3> HIDE DEF p, q, SS
    <3>2. [c \in 1 .. p |-> v[c]] \in Seq(SS) /\ [d \in 1 .. q |-> w[d]] \in Seq(SS)
      BY <3>1, IsASeq
    <3> QED BY <3>2 DEF p, q, SS
  <2>4. v \in Seq(Seq(S)) /\ w \in Seq(Seq(S))
    BY <2>1, <2>3
  <2> QED BY <1>7, <2>2, <2>4, LenProperties
<1>11. y \in Seq(Seq(S)) /\ Len(y) = 1 + a + (1 + b)
  <2>1. y = [e \in 1 .. (1 + a + (1 + b)) |-> y[e]]
    <3>1. y = [c \in DOMAIN y |-> y[c]]
      BY DEF y, SplitIntoChunks
    <3> QED BY <1>7, <3>1
  <2>2. 1 + a + (1 + b) \in Nat
    BY <1>5
  <2>3. [e \in 1 .. (1 + a + (1 + b)) |-> y[e]] \in Seq(Seq(S))
    <3> DEFINE p == 1 + a + (1 + b)
               SS == Seq(S)
    <3>1. p \in Nat /\ \A c \in 1 .. p : y[c] \in SS
      BY <1>7, <2>2
    <3> HIDE DEF p, SS
    <3>2. [c \in 1 .. p |-> y[c]] \in Seq(SS)
      BY <3>1, IsASeq
    <3> QED BY <3>2 DEF p, SS
  <2>4. y \in Seq(Seq(S))
    BY <2>1, <2>3
  <2> QED BY <1>7, <2>2, <2>4, LenProperties
<1>12. y = v \o w
  <2> DEFINE p == 1 + a
             q == 1 + b
             x == v \o w
  <2>1. /\ DOMAIN x = 1 .. (p + q)
        /\ \A n \in 1 .. p : x[n] = v[n]
        /\ \A n \in 1 .. q : x[p + n] = w[n]
    <3> HIDE DEF p, q
    <3>1. Len(v) = p /\ Len(w) = q
      BY <1>10 DEF p, q
    <3> DEFINE SS == Seq(S)
    <3>2. v \in Seq(SS) /\ w \in Seq(SS)
      BY <1>10
    <3> HIDE DEF SS
    <3> QED BY <3>1, <3>2, ConcatPlaceByPlace
  <2>2. x \in Seq(Seq(S)) /\ Len(x) = p + q
    <3>1. x \in Seq(Seq(S)) /\ Len(x) = Len(v) + Len(w)
      BY <1>10, ConcatProperties
    <3> HIDE DEF x
    <3> QED BY <1>10, <3>1
  <2>3. p \in Nat /\ q \in Nat /\ Len(y) = p + q
    BY <1>5, <1>11
  <2>4. /\ \A c \in 1 .. p : y[c] = v[c]
        /\ \A d \in 1 .. q : y[p + d] = w[d]
    BY <1>9
  <2> HIDE DEF p, q, x
  <2>5. ASSUME NEW n \in 1 .. Len(y) PROVE y[n] = x[n]
    <3>1. CASE n \in 1 .. p
      BY <2>1, <2>4, <3>1
    <3>2. CASE n \notin 1 .. p
      <4>1. n - p \in 1 .. q /\ p + (n - p) = n
        BY <2>3, <3>2
      <4>2. y[p + (n - p)] = x[p + (n - p)]
        BY <2>1, <2>4, <4>1
      <4> QED BY <4>1, <4>2
    <3> QED BY <3>1, <3>2
  <2>6. y = x
    BY <1>11, <2>2, <2>3, <2>5, SeqEqual
  <2> QED BY <2>6 DEF x
<1> QED BY <1>3, <1>10, <1>12 DEF y, v, w, z, u

(* What is made of each member of u followed by v.                           *)
Mapped(f, u) == [n \in DOMAIN u |-> f[u[n]]]

LEMMA MapConcat ==
    ASSUME NEW S, NEW u \in Seq(S), NEW v \in Seq(S), NEW f
    PROVE  Mapped(f, u \o v) = Mapped(f, u) \o Mapped(f, v)
<1> DEFINE R == {f[x] : x \in S}
           g == Mapped(f, u)
           h == Mapped(f, v)
           p == Len(u)
           q == Len(v)
           x == u \o v
<1>1. /\ p \in Nat /\ q \in Nat /\ DOMAIN u = 1 .. p /\ DOMAIN v = 1 .. q
      /\ DOMAIN x = 1 .. (p + q)
      /\ \A n \in 1 .. p : u[n] \in S /\ x[n] = u[n]
      /\ \A n \in 1 .. q : v[n] \in S /\ x[p + n] = v[n]
  BY PlacesConcat, ElementOfSeq
<1>2. g = [n \in 1 .. p |-> f[u[n]]] /\ h = [n \in 1 .. q |-> f[v[n]]]
  BY <1>1 DEF Mapped
<1>3. /\ g \in Seq(R) /\ h \in Seq(R) /\ Len(g) = p /\ Len(h) = q
  <2>1. \A n \in 1 .. p : f[u[n]] \in R
    BY <1>1
  <2>2. \A n \in 1 .. q : f[v[n]] \in R
    BY <1>1
  <2> HIDE DEF R, p, q
  <2>3. [n \in 1 .. p |-> f[u[n]]] \in Seq(R) /\ [n \in 1 .. q |-> f[v[n]]] \in Seq(R)
    BY <1>1, <2>1, <2>2, IsASeq
  <2>4. g \in Seq(R) /\ h \in Seq(R) /\ DOMAIN g = 1 .. p /\ DOMAIN h = 1 .. q
    BY <1>2, <2>3
  <2> HIDE DEF g, h
  <2> QED BY <1>1, <2>4
<1> HIDE DEF g, h, R, p, q, x
<1>4. /\ g \o h = [n \in DOMAIN (g \o h) |-> (g \o h)[n]] /\ DOMAIN (g \o h) = 1 .. (p + q)
      /\ \A n \in 1 .. p : (g \o h)[n] = g[n]
      /\ \A n \in 1 .. q : (g \o h)[p + n] = h[n]
  BY <1>3, ConcatPlaceByPlace
<1>5. ASSUME NEW n \in 1 .. (p + q) PROVE f[x[n]] = (g \o h)[n]
  <2>1. CASE n \in 1 .. p
    BY <1>1, <1>2, <1>4, <2>1
  <2>2. CASE n \notin 1 .. p
    <3> DEFINE m == n - p
    <3>1. m \in 1 .. q /\ n = p + m
      BY <1>1, <2>2
    <3> HIDE DEF m
    <3>2. x[n] = v[m] /\ (g \o h)[n] = h[m] /\ h[m] = f[v[m]]
      BY <1>1, <1>2, <1>4, <3>1
    <3> QED BY <3>2
  <2> QED BY <2>1, <2>2
<1>6. Mapped(f, x) = [n \in 1 .. (p + q) |-> f[x[n]]]
  BY <1>1 DEF Mapped
<1>7. Mapped(f, x) = g \o h
  BY <1>4, <1>5, <1>6
<1> QED BY <1>7 DEF g, h, x

(* The entries of a text are those of its chunks, in their order.            *)
EntryOf(chunk) == [id |-> Headings(chunk)[1], files |-> ValueOf(chunk, "Changed Files")]
Entry(all)     == {c \in DOMAIN all : IsEntry(all[c])}
EntriesIn(all) == [i \in DOMAIN Only(all, Entry(all)) |-> EntryOf(Only(all, Entry(all))[i])]

LEMMA EntriesConcat ==
    ASSUME NEW S, NEW s \in Seq(S), NEW t \in Seq(S)
    PROVE  EntriesIn(s \o t) = EntriesIn(s) \o EntriesIn(t)
<1> DEFINE z == s \o t
           I == Entry(s)
           J == Entry(t)
           K == Entry(z)
           u == Only(s, I)
           v == Only(t, J)
           x == Only(z, K)
           f == [c \in S |-> EntryOf(c)]
<1>1. InText(I, s) /\ InText(J, t)
  BY DEF Entry, InText
<1>2. K = I \cup Shifted(J, Len(s))
  BY PlacesConcat DEF Entry, Shifted
<1>3. x = u \o v
  <2> HIDE DEF I, J, K, z
  <2>1. Only(s \o t, I \cup Shifted(J, Len(s))) = Only(s, I) \o Only(t, J)
    BY <1>1, OnlyConcat
  <2> QED BY <1>2, <2>1 DEF z
<1>4. u \in Seq(S) /\ v \in Seq(S)
  <2>1. /\ Places(I) /\ \A i \in I : s[i] \in S
        /\ Places(J) /\ \A i \in J : t[i] \in S
    <3> HIDE DEF I, J
    <3> QED BY <1>1, PlacesOfText DEF InText
  <2> HIDE DEF I, J
  <2> QED BY <2>1, OnlyIs
<1>5. /\ EntriesIn(z) = [i \in DOMAIN x |-> EntryOf(x[i])]
      /\ EntriesIn(s) = [i \in DOMAIN u |-> EntryOf(u[i])]
      /\ EntriesIn(t) = [i \in DOMAIN v |-> EntryOf(v[i])]
  BY DEF EntriesIn
<1> HIDE DEF u, v, x, I, J, K, z
<1>6. x \in Seq(S)
  BY <1>3, <1>4, ConcatProperties
<1>7. /\ \A i \in DOMAIN u : u[i] \in S
      /\ \A i \in DOMAIN v : v[i] \in S
      /\ \A i \in DOMAIN x : x[i] \in S
  BY <1>4, <1>6, ElementOfSeq, LenProperties
<1>8. /\ EntriesIn(z) = Mapped(f, x)
      /\ EntriesIn(s) = Mapped(f, u)
      /\ EntriesIn(t) = Mapped(f, v)
  BY <1>5, <1>7 DEF Mapped
<1> HIDE DEF f
<1>9. Mapped(f, u \o v) = Mapped(f, u) \o Mapped(f, v)
  BY <1>4, MapConcat
<1> QED BY <1>3, <1>8, <1>9 DEF z

LEMMA ParseIs ==
    ASSUME NEW b
    PROVE  ParseEntries(b) = EntriesIn(SplitIntoChunks(b))
BY DEF ParseEntries, EntriesIn, Entry, EntryOf

(* The entries on both sides of a rule.                                      *)
LEMMA ParseConcat ==
    ASSUME NEW S, NEW s \in Seq(S), NEW t \in Seq(S), NEW r \in S, r.k = "rule"
    PROVE  ParseEntries(s \o <<r>> \o t) = ParseEntries(s) \o ParseEntries(t)
<1> DEFINE z == s \o <<r>> \o t
           v == SplitIntoChunks(s)
           w == SplitIntoChunks(t)
           SS == Seq(S)
<1>1. SplitIntoChunks(z) = v \o w /\ v \in Seq(SS) /\ w \in Seq(SS)
  <2>1. r.k = "rule"
    OBVIOUS
  <2> QED BY <2>1, RuleSplits
<1>2. /\ ParseEntries(z) = EntriesIn(SplitIntoChunks(z))
      /\ ParseEntries(s) = EntriesIn(v)
      /\ ParseEntries(t) = EntriesIn(w)
  <2> HIDE DEF z
  <2> QED BY ParseIs
<1> HIDE DEF z, v, w, SS
<1>3. EntriesIn(v \o w) = EntriesIn(v) \o EntriesIn(w)
  BY <1>1, EntriesConcat
<1>4. ParseEntries(z) = ParseEntries(s) \o ParseEntries(t)
  BY <1>1, <1>2, <1>3
<1> QED BY <1>4 DEF z

LEMMA OnlyAt ==
    ASSUME NEW s, NEW i \in Nat
    PROVE  Only(s, {i}) = <<s[i]>>
<1>1. Cardinality({i}) = 1 /\ IsFiniteSet({i})
  BY FS_Singleton
<1>2. Places({i})
  BY <1>1 DEF Places
<1>3. Nth({i}, 1) \in {i}
  BY <1>1, <1>2, NthIs
<1>4. Nth({i}, 1) = i
  BY <1>3
<1>5. Only(s, {i}) = [n \in 1 .. 1 |-> s[Nth({i}, n)]]
  BY <1>1 DEF Only
<1> QED BY <1>4, <1>5

(* All of a text.                                                            *)
LEMMA OnlyAll ==
    ASSUME NEW S, NEW s \in Seq(S)
    PROVE  Only(s, DOMAIN s) = s
<1> DEFINE m == Len(s)
           I == 1 .. m
<1>1. m \in Nat /\ DOMAIN s = I
  BY LenProperties
<1>2. IsFiniteSet(I) /\ Cardinality(I) = m /\ Places(I)
  <2>1. 1 \in Int /\ m \in Int
    BY <1>1
  <2> HIDE DEF m
  <2>2. IsFiniteSet(1 .. m) /\ Cardinality(1 .. m) = IF 1 > m THEN 0 ELSE m - 1 + 1
    BY <2>1, FS_Interval
  <2>3. Cardinality(1 .. m) = m
    BY <1>1, <2>2
  <2>4. I \in SUBSET Nat
    BY <1>1
  <2> QED BY <2>2, <2>3, <2>4 DEF Places
<1>3. ASSUME NEW i \in I PROVE Nth(I, i) = i
  <2>1. {j \in I : j <= i} = 1 .. i
    BY <1>1
  <2>2. 1 \in Int /\ i \in Int /\ i >= 1
    BY <1>1
  <2>3. Cardinality(1 .. i) = IF 1 > i THEN 0 ELSE i - 1 + 1
    BY <2>2, FS_Interval
  <2>4. Rank(I, i) = i
    <3>1. Rank(I, i) = Cardinality({j \in I : j <= i})
      BY DEF Rank
    <3>2. Cardinality(1 .. i) = i
      BY <2>2, <2>3
    <3> QED BY <2>1, <3>1, <3>2
  <2>5. Nth(I, Rank(I, i)) = i
    <3> HIDE DEF I
    <3> QED BY <1>2, NthIs
  <2> QED BY <2>4, <2>5
<1> HIDE DEF I
<1>4. Only(s, I) = [n \in 1 .. m |-> s[Nth(I, n)]]
  BY <1>2 DEF Only
<1>5. Only(s, I) = [n \in I |-> s[n]]
  BY <1>3, <1>4 DEF I
<1>6. s = [n \in DOMAIN s |-> s[n]]
  <2>1. s \in [1 .. m -> S]
    BY LenProperties
  <2> QED BY <2>1
<1> QED BY <1>1, <1>5, <1>6

(* A text without a rule is one chunk.                                       *)
LEMMA OneChunk ==
    ASSUME NEW S, NEW s \in Seq(S), \A i \in DOMAIN s : s[i].k # "rule"
    PROVE  /\ SplitIntoChunks(s) = <<s>>
           /\ ParseEntries(s) = IF IsEntry(s) THEN <<EntryOf(s)>> ELSE <<>>
<1> DEFINE m == Len(s)
<1>1. m \in Nat /\ DOMAIN s = 1 .. m
  BY LenProperties
<1>2. ASSUME NEW i \in 1 .. (m + 1) PROVE RulesAbove(s, i) = 0
  <2>1. \A j \in 1 .. (i - 1) : j \in DOMAIN s
    BY <1>1
  <2>2. {j \in 1 .. (i - 1) : s[j].k = "rule"} = {}
    BY <2>1
  <2>3. Cardinality({}) = 0
    BY FS_EmptySet
  <2> QED BY <2>2, <2>3 DEF RulesAbove
<1>3. ChunkPlaces(s, 1) = DOMAIN s
  <2>1. \A i \in DOMAIN s : i \in 1 .. (m + 1)
    BY <1>1
  <2>2. \A i \in DOMAIN s : s[i].k # "rule" /\ RulesAbove(s, i) = 1 - 1
    BY <1>2, <2>1
  <2> QED BY <2>2 DEF ChunkPlaces
<1>4. SplitIntoChunks(s) = [c \in 1 .. 1 |-> s]
  <2>1. m + 1 \in 1 .. (m + 1)
    BY <1>1
  <2>2. 1 + RulesAbove(s, m + 1) = 1
    BY <1>2, <2>1
  <2>3. SplitIntoChunks(s) = [c \in 1 .. 1 |-> Only(s, ChunkPlaces(s, c))]
    BY <2>2 DEF SplitIntoChunks, ChunkPlaces
  <2>4. Only(s, ChunkPlaces(s, 1)) = s
    BY <1>3, OnlyAll
  <2>5. \A c \in 1 .. 1 : Only(s, ChunkPlaces(s, c)) = s
    BY <2>4
  <2> QED BY <2>3, <2>5
<1>5. SplitIntoChunks(s) = <<s>>
  BY <1>4
<1>6. ParseEntries(s) = EntriesIn(<<s>>)
  BY <1>5, ParseIs
<1> DEFINE all == <<s>>
<1>7. DOMAIN all = {1} /\ all[1] = s
  OBVIOUS
<1> HIDE DEF all
<1>8. Entry(all) = IF IsEntry(s) THEN {1} ELSE {}
  BY <1>7 DEF Entry
<1>9. Only(all, Entry(all)) = IF IsEntry(s) THEN <<s>> ELSE <<>>
  BY <1>7, <1>8, OnlyOne
<1>10. EntriesIn(all) = IF IsEntry(s) THEN <<EntryOf(s)>> ELSE <<>>
  <2> DEFINE x == Only(all, Entry(all))
  <2>1. EntriesIn(all) = [i \in DOMAIN x |-> EntryOf(x[i])]
    BY DEF EntriesIn
  <2> HIDE DEF x
  <2>2. CASE IsEntry(s)
    <3>1. x = <<s>>
      BY <1>9, <2>2 DEF x
    <3>2. DOMAIN x = 1 .. 1 /\ x[1] = s
      BY <3>1
    <3>3. EntriesIn(all) = <<EntryOf(s)>>
      BY <2>1, <3>2
    <3> QED BY <2>2, <3>3
  <2>3. CASE ~IsEntry(s)
    <3>1. x = <<>>
      BY <1>9, <2>3 DEF x
    <3>2. EntriesIn(all) = <<>>
      BY <2>1, <3>1
    <3> QED BY <2>3, <3>2
  <2> QED BY <2>2, <2>3
<1> QED BY <1>5, <1>6, <1>10 DEF all

Named(x, name) == x.k = "field" /\ x.name = name

(* What the parser finds in a text of lines it can tell apart.               *)
LEMMA FoundAt ==
    ASSUME NEW s, NEW i \in Nat
    PROVE  /\ HeadPlaces(s) = {i} => Headings(s) = <<s[i].id>>
           /\ HeadPlaces(s) = {} => Headings(s) = <<>>
           /\ \A name : {j \in DOMAIN s : Named(s[j], name)} = {i}
                          => /\ HasField(s, name)
                             /\ ValueOf(s, name) = s[i].value
           /\ \A name : {j \in DOMAIN s : Named(s[j], name)} = {} => ~HasField(s, name)
<1>1. Headings(s) = [j \in DOMAIN Only(s, HeadPlaces(s)) |-> Only(s, HeadPlaces(s))[j].id]
  BY DEF Headings, HeadPlaces
<1>2. Only(s, {i}) = <<s[i]>> /\ Only(s, {}) = <<>>
  BY OnlyAt, OnlyOne
<1>3. HeadPlaces(s) = {i} => Headings(s) = <<s[i].id>>
  <2> DEFINE x == <<s[i]>>
  <2>1. DOMAIN x = 1 .. 1 /\ x[1] = s[i]
    OBVIOUS
  <2> HIDE DEF x
  <2>2. HeadPlaces(s) = {i} => Headings(s) = [j \in DOMAIN x |-> x[j].id]
    BY <1>1, <1>2 DEF x
  <2>3. [j \in DOMAIN x |-> x[j].id] = <<s[i].id>>
    BY <2>1
  <2> QED BY <2>2, <2>3
<1>4. HeadPlaces(s) = {} => Headings(s) = <<>>
  <2>1. HeadPlaces(s) = {} => Headings(s) = [j \in DOMAIN <<>> |-> <<>>[j].id]
    BY <1>1, <1>2
  <2> QED BY <2>1
<1>5. ASSUME NEW name
      PROVE  FieldLines(s, name) = Only(s, {j \in DOMAIN s : Named(s[j], name)})
  BY DEF FieldLines, Named
<1>6. ASSUME NEW name, {j \in DOMAIN s : Named(s[j], name)} = {i}
      PROVE  HasField(s, name) /\ ValueOf(s, name) = s[i].value
  <2>1. FieldLines(s, name) = <<s[i]>>
    BY <1>2, <1>5, <1>6
  <2> DEFINE x == s[i]
  <2>2. <<x>> # <<>> /\ Last(<<x>>) = x
    BY DEF Last
  <2>3. FieldLines(s, name) # <<>> /\ Last(FieldLines(s, name)) = x
    BY <2>1, <2>2
  <2> QED BY <2>3 DEF HasField, ValueOf
<1>7. ASSUME NEW name, {j \in DOMAIN s : Named(s[j], name)} = {}
      PROVE  ~HasField(s, name)
  BY <1>2, <1>5, <1>7 DEF HasField
<1> QED BY <1>3, <1>4, <1>6, <1>7

LEMMA FieldsDiffer ==
    ASSUME NEW x, NEW name, Named(x, name)
    PROVE  x.k # "rule" /\ ~IsHeading(x) /\ \A other : Named(x, other) <=> other = name
BY DEF Named, IsHeading

\* The last of the names an entry needs.
FilesName == "Changed Files"

LEMMA NamesDiffer ==
    FilesName # "Tanggal" /\ FilesName # "Type" /\ FilesName # "Solution" /\ FilesName # "Notes"
BY Zenon DEF FilesName

LEMMA NeedsFields ==
    ASSUME NEW s
    PROVE  /\ IsEntry(s) <=> Headings(s) # <<>> /\ HasField(s, "Tanggal") /\ HasField(s, FilesName)
           /\ EntryOf(s) = [id |-> Headings(s)[1], files |-> ValueOf(s, FilesName)]
BY Zenon DEF IsEntry, EntryOf, FilesName

LEMMA HeadsDiffer ==
    ASSUME NEW x, IsHeading(x)
    PROVE  x.k # "rule" /\ \A other : ~Named(x, other)
BY DEF Named, IsHeading

LEMMA SixIs ==
    ASSUME NEW S, NEW a \in S, NEW b \in S, NEW c \in S, NEW d \in S, NEW e \in S, NEW f \in S
    PROVE  /\ <<a, b, c, d, e, f>> \in Seq(S) /\ DOMAIN <<a, b, c, d, e, f>> = 1 .. 6
           /\ <<a, b, c, d, e, f>>[1] = a /\ <<a, b, c, d, e, f>>[2] = b
           /\ <<a, b, c, d, e, f>>[3] = c /\ <<a, b, c, d, e, f>>[4] = d
           /\ <<a, b, c, d, e, f>>[5] = e /\ <<a, b, c, d, e, f>>[6] = f
<1>1. <<a, b, c, d, e, f>> \in Seq(S)
  OBVIOUS
<1>2. DOMAIN <<a, b, c, d, e, f>> = 1 .. 6
  OBVIOUS
<1> QED BY <1>1, <1>2

OneEntry(id, files) == <<[id |-> id, files |-> files]>>

LEMMA PlainBlock ==
    ASSUME NEW S, NEW a \in S, NEW b \in S, NEW c \in S, NEW d \in S, NEW e \in S, NEW f \in S,
           IsHeading(a), Named(b, "Tanggal"), Named(c, "Type"), Named(d, "Solution"),
           Named(e, FilesName), Named(f, "Notes")
    PROVE  /\ Headings(<<a, b, c, d, e, f>>) = <<a.id>>
           /\ ParseEntries(<<a, b, c, d, e, f>>) = OneEntry(a.id, e.value)
<1> DEFINE s == <<a, b, c, d, e, f>>
<1>1. /\ s \in Seq(S) /\ DOMAIN s = 1 .. 6
      /\ s[1] = a /\ s[2] = b /\ s[3] = c /\ s[4] = d /\ s[5] = e /\ s[6] = f
  BY SixIs
<1> HIDE DEF s
<1>2. \A i \in DOMAIN s : i = 1 \/ i = 2 \/ i = 3 \/ i = 4 \/ i = 5 \/ i = 6
  <2>1. DOMAIN s = 1 .. 6
    BY <1>1
  <2> QED BY <2>1
<1>3. 1 \in DOMAIN s /\ 2 \in DOMAIN s /\ 5 \in DOMAIN s
  <2>1. DOMAIN s = 1 .. 6
    BY <1>1
  <2> QED BY <2>1
<1>4. \A i \in DOMAIN s : s[i].k # "rule"
  BY <1>1, <1>2, FieldsDiffer, HeadsDiffer
<1>5. HeadPlaces(s) = {1}
  <2>1. \A i \in DOMAIN s : IsHeading(s[i]) <=> i = 1
    BY <1>1, <1>2, FieldsDiffer
  <2> QED BY <1>3, <2>1 DEF HeadPlaces
<1>6. {j \in DOMAIN s : Named(s[j], "Tanggal")} = {2}
  <2>1. \A i \in DOMAIN s : Named(s[i], "Tanggal") <=> i = 2
    BY <1>1, <1>2, FieldsDiffer, HeadsDiffer, NamesDiffer
  <2> QED BY <1>3, <2>1
<1>7. {j \in DOMAIN s : Named(s[j], FilesName)} = {5}
  <2>1. \A i \in DOMAIN s : Named(s[i], FilesName) <=> i = 5
    BY <1>1, <1>2, FieldsDiffer, HeadsDiffer, NamesDiffer
  <2> QED BY <1>3, <2>1
<1>8. Headings(s) = <<a.id>>
  <2>1. HeadPlaces(s) = {1} => Headings(s) = <<s[1].id>>
    BY FoundAt
  <2> QED BY <1>1, <1>5, <2>1
<1>9. HasField(s, "Tanggal")
  <2>1. {j \in DOMAIN s : Named(s[j], "Tanggal")} = {2} => HasField(s, "Tanggal")
    BY FoundAt
  <2> QED BY <1>6, <2>1
<1>10. HasField(s, FilesName) /\ ValueOf(s, FilesName) = e.value
  <2>1. {j \in DOMAIN s : Named(s[j], FilesName)} = {5}
          => HasField(s, FilesName) /\ ValueOf(s, FilesName) = s[5].value
    BY FoundAt
  <2> QED BY <1>1, <1>7, <2>1
<1>11. <<a.id>> # <<>> /\ <<a.id>>[1] = a.id
  OBVIOUS
<1>12. IsEntry(s) /\ EntryOf(s) = [id |-> a.id, files |-> e.value]
  BY <1>8, <1>9, <1>10, <1>11, NeedsFields
<1>13. ParseEntries(s) = IF IsEntry(s) THEN <<EntryOf(s)>> ELSE <<>>
  BY <1>1, <1>4, OneChunk
<1>14. ParseEntries(s) = <<EntryOf(s)>>
  BY <1>12, <1>13
<1>15. ParseEntries(s) = OneEntry(a.id, e.value)
  BY <1>12, <1>14 DEF OneEntry
<1> QED BY <1>8, <1>15 DEF s

(* The upper part of an entry that a rule in its text cuts in two.           *)
LEMMA UpperPart ==
    ASSUME NEW S, NEW a \in S, NEW b \in S, NEW c \in S, NEW d \in S,
           IsHeading(a), Named(b, "Tanggal"), Named(c, "Type"), Named(d, "Solution")
    PROVE  Headings(<<a, b, c, d>>) = <<a.id>> /\ ParseEntries(<<a, b, c, d>>) = <<>>
<1> DEFINE s == <<a, b, c, d>>
<1>1. s \in Seq(S) /\ DOMAIN s = 1 .. 4 /\ s[1] = a /\ s[2] = b /\ s[3] = c /\ s[4] = d
  OBVIOUS
<1> HIDE DEF s
<1>2. \A i \in DOMAIN s : i = 1 \/ i = 2 \/ i = 3 \/ i = 4
  BY <1>1
<1>3. 1 \in DOMAIN s
  BY <1>1
<1>4. \A i \in DOMAIN s : s[i].k # "rule"
  BY <1>1, <1>2, FieldsDiffer, HeadsDiffer
<1>5. HeadPlaces(s) = {1}
  <2>1. \A i \in DOMAIN s : IsHeading(s[i]) <=> i = 1
    BY <1>1, <1>2, FieldsDiffer
  <2> QED BY <1>3, <2>1 DEF HeadPlaces
<1>6. {j \in DOMAIN s : Named(s[j], FilesName)} = {}
  BY <1>1, <1>2, FieldsDiffer, HeadsDiffer, NamesDiffer
<1>7. Headings(s) = <<a.id>>
  <2>1. HeadPlaces(s) = {1} => Headings(s) = <<s[1].id>>
    BY FoundAt
  <2> QED BY <1>1, <1>5, <2>1
<1>8. ~HasField(s, FilesName)
  BY <1>6, FoundAt
<1>9. ParseEntries(s) = IF IsEntry(s) THEN <<EntryOf(s)>> ELSE <<>>
  BY <1>1, <1>4, OneChunk
<1>10. ParseEntries(s) = <<>>
  BY <1>8, <1>9, NeedsFields
<1> QED BY <1>7, <1>10 DEF s

(* A text without a heading and without a rule has no entry.                 *)
LEMMA NoEntry ==
    ASSUME NEW S, NEW s \in Seq(S), \A i \in DOMAIN s : s[i].k # "rule" /\ ~IsHeading(s[i])
    PROVE  Headings(s) = <<>> /\ ParseEntries(s) = <<>>
<1>1. HeadPlaces(s) = {}
  BY DEF HeadPlaces
<1>2. Headings(s) = <<>>
  BY <1>1, FoundAt
<1>3. ParseEntries(s) = IF IsEntry(s) THEN <<EntryOf(s)>> ELSE <<>>
  BY OneChunk
<1> QED BY <1>2, <1>3, NeedsFields

LEMMA HeadingsThrough ==
    ASSUME NEW S, NEW s \in Seq(S), NEW t \in Seq(S), NEW r \in S, r.k = "rule"
    PROVE  Headings(s \o <<r>> \o t) = Headings(s) \o Headings(t)
<1> DEFINE x == <<r>>
<1>1. x \in Seq(S)
  OBVIOUS
<1>2. Headings(x) = <<>>
  <2>1. ~IsHeading(r)
    BY DEF IsHeading
  <2> QED BY <2>1, OneLine
<1> HIDE DEF x
<1>3. s \o x \in Seq(S)
  BY <1>1, ConcatProperties
<1>4. Headings(s \o x) = Headings(s) \o Headings(x)
  BY <1>1, HeadingsConcat
<1>5. Headings((s \o x) \o t) = Headings(s \o x) \o Headings(t)
  BY <1>3, HeadingsConcat
<1>6. Headings(s) \o <<>> = Headings(s)
  <2>1. Headings(s) \in Seq({s[i].id : i \in DOMAIN s})
    <3> DEFINE H == HeadPlaces(s)
               T == {s[i].id : i \in DOMAIN s}
               m == Cardinality(H)
    <3>1. /\ Places(H) /\ m \in Nat
          /\ DOMAIN Headings(s) = 1 .. m
          /\ \A n \in 1 .. m : Headings(s)[n] = s[Nth(H, n)].id
      BY HeadingsAre
    <3>2. \A n \in 1 .. m : Nth(H, n) \in H
      <4> HIDE DEF H
      <4> QED BY <3>1, NthIs
    <3>3. \A n \in 1 .. m : Headings(s)[n] \in T
      <4>1. \A i \in H : s[i].id \in T
        BY DEF HeadPlaces
      <4> HIDE DEF H, T, m
      <4> QED BY <3>1, <3>2, <4>1
    <3>4. Headings(s) = [n \in DOMAIN Headings(s) |-> Headings(s)[n]]
      BY DEF Headings
    <3> HIDE DEF H, T, m
    <3>5. [n \in 1 .. m |-> Headings(s)[n]] \in Seq(T)
      BY <3>1, <3>3, IsASeq
    <3>6. Headings(s) \in Seq(T)
      BY <3>1, <3>4, <3>5
    <3> QED BY <3>6 DEF T
  <2> QED BY <2>1, ConcatEmptySeq
<1>7. Headings((s \o x) \o t) = Headings(s) \o Headings(t)
  BY <1>2, <1>4, <1>5, <1>6
<1> QED BY <1>7 DEF x

LEMMA SixInOne ==
    ASSUME NEW S, NEW a \in S, NEW b \in S, NEW c \in S, NEW d \in S, NEW e \in S, NEW f \in S
    PROVE  <<a, b, c>> \o (<<d>> \o <<>>) \o <<e, f>> = <<a, b, c, d, e, f>>
<1> DEFINE x == <<a, b, c>>
           y == <<d>>
           v == <<e, f>>
           w == <<a, b, c, d, e, f>>
<1>1. /\ x \in Seq(S) /\ Len(x) = 3 /\ x[1] = a /\ x[2] = b /\ x[3] = c
      /\ y \in Seq(S) /\ Len(y) = 1 /\ y[1] = d
      /\ v \in Seq(S) /\ Len(v) = 2 /\ v[1] = e /\ v[2] = f
  OBVIOUS
<1>2. /\ w \in Seq(S) /\ DOMAIN w = 1 .. 6
      /\ w[1] = a /\ w[2] = b /\ w[3] = c /\ w[4] = d /\ w[5] = e /\ w[6] = f
  BY SixIs
<1> HIDE DEF x, y, v, w
<1>3. Len(w) = 6
  <2>1. DOMAIN w = 1 .. Len(w) /\ Len(w) \in Nat
    BY <1>2, LenProperties
  <2> QED BY <1>2, <2>1
<1>4. y \o <<>> = y
  BY <1>1, ConcatEmptySeq
<1> DEFINE xy == x \o y
<1>5. /\ xy \in Seq(S) /\ Len(xy) = 4
      /\ xy[1] = a /\ xy[2] = b /\ xy[3] = c /\ xy[4] = d
  <2>1. /\ xy \in Seq(S) /\ Len(xy) = Len(x) + Len(y)
        /\ \A i \in 1 .. (Len(x) + Len(y)) : xy[i] = IF i <= Len(x) THEN x[i] ELSE y[i - Len(x)]
    BY <1>1, ConcatProperties
  <2> QED BY <1>1, <2>1
<1> HIDE DEF xy
<1> DEFINE z == xy \o v
<1>6. /\ z \in Seq(S) /\ Len(z) = 6
      /\ z[1] = a /\ z[2] = b /\ z[3] = c /\ z[4] = d /\ z[5] = e /\ z[6] = f
  <2>1. /\ z \in Seq(S) /\ Len(z) = Len(xy) + Len(v)
        /\ \A i \in 1 .. (Len(xy) + Len(v)) : z[i] = IF i <= Len(xy) THEN xy[i] ELSE v[i - Len(xy)]
    BY <1>1, <1>5, ConcatProperties
  <2> QED BY <1>1, <1>5, <2>1
<1> HIDE DEF z
<1>7. \A i \in 1 .. Len(z) : z[i] = w[i]
  <2>1. \A i \in 1 .. 6 : i = 1 \/ i = 2 \/ i = 3 \/ i = 4 \/ i = 5 \/ i = 6
    OBVIOUS
  <2> QED BY <1>2, <1>6, <2>1
<1>8. z = w
  BY <1>2, <1>3, <1>6, <1>7, SeqEqual
<1> QED BY <1>4, <1>8 DEF x, y, v, w, xy, z

LEMMA EightInOne ==
    ASSUME NEW a, NEW b, NEW c, NEW d, NEW r, NEW p, NEW e, NEW f
    PROVE  <<a, b, c>> \o (<<d>> \o <<r, p>>) \o <<e, f>> = <<a, b, c, d>> \o <<r>> \o <<p, e, f>>
OBVIOUS

(* What `add` writes of an entry, as the parser reads it.                    *)
LEMMA EntryBlockIs ==
    ASSUME NEW id \in Id, id.n <= LastNumber, NEW entry \in Entries
    PROVE  /\ Headings(RenderEntry(id, entry)) = <<id>>
           /\ ParseEntries(RenderEntry(id, entry))
                = IF entry.ruled THEN <<>> ELSE OneEntry(id, entry.files)
<1> DEFINE a == EntryHead(id)
           b == Field("Tanggal", "date")
           c == Field("Type", entry.type)
           d == Field("Solution", "text")
           e == Field(FilesName, entry.files)
           f == Field("Notes", "text")
<1>1. entry.type \in Values /\ entry.files \in Values /\ entry.ruled \in BOOLEAN
  BY DEF Entries, Values
<1>2. FilesName \in FieldNames /\ "Tanggal" \in FieldNames /\ "Type" \in FieldNames
      /\ "Solution" \in FieldNames /\ "Notes" \in FieldNames
  BY Zenon DEF FieldNames, FilesName
<1>3. "date" \in Values /\ "text" \in Values
  BY DEF Values
<1>4. /\ a \in Line /\ b \in Line /\ c \in Line /\ d \in Line /\ e \in Line /\ f \in Line
      /\ Rule \in Line /\ Prose \in Line
  BY <1>1, <1>2, <1>3, LinesAre
<1>5. /\ Named(b, "Tanggal") /\ Named(c, "Type") /\ Named(d, "Solution")
      /\ Named(e, FilesName) /\ Named(f, "Notes") /\ e.value = entry.files
  BY DEF Named, Field
<1>6. a.k = "head" /\ a.id = id
  BY DEF EntryHead
<1>7. IsHeading(a)
  BY <1>6 DEF IsHeading
<1>8. RenderEntry(id, entry) = <<a, b, c>> \o Solution(entry.ruled) \o <<e, f>>
  BY Zenon DEF RenderEntry, FilesName
<1>9. Solution(entry.ruled) = <<d>> \o (IF entry.ruled THEN <<Rule, Prose>> ELSE <<>>)
  BY DEF Solution
<1>10. Rule.k = "rule" /\ Prose.k = "prose"
  BY DEF Rule, Prose
<1> HIDE DEF a, b, c, d, e, f
<1>11. CASE ~entry.ruled
  <2>1. RenderEntry(id, entry) = <<a, b, c, d, e, f>>
    BY <1>4, <1>8, <1>9, <1>11, SixInOne
  <2>2. /\ Headings(<<a, b, c, d, e, f>>) = <<a.id>>
        /\ ParseEntries(<<a, b, c, d, e, f>>) = OneEntry(a.id, e.value)
    BY <1>4, <1>5, <1>7, PlainBlock
  <2> QED BY <1>5, <1>6, <1>11, <2>1, <2>2
<1>12. CASE entry.ruled
  <2> DEFINE s == <<a, b, c, d>>
             t == <<Prose, e, f>>
  <2>1. RenderEntry(id, entry) = s \o <<Rule>> \o t
    <3>1. Solution(entry.ruled) = <<d>> \o <<Rule, Prose>>
      BY <1>9, <1>12
    <3>2. <<a, b, c>> \o (<<d>> \o <<Rule, Prose>>) \o <<e, f>> = s \o <<Rule>> \o t
      OBVIOUS
    <3>3. RenderEntry(id, entry) = <<a, b, c>> \o (<<d>> \o <<Rule, Prose>>) \o <<e, f>>
      BY <1>8, <3>1, Zenon
    <3> HIDE DEF s, t
    <3> QED BY <3>2, <3>3
  <2>2. s \in Seq(Line) /\ t \in Seq(Line)
    BY <1>4
  <2>3. Headings(s) = <<id>> /\ ParseEntries(s) = <<>>
    BY <1>4, <1>5, <1>6, <1>7, UpperPart
  <2>4. Headings(t) = <<>> /\ ParseEntries(t) = <<>>
    <3>1. DOMAIN t = 1 .. 3 /\ t[1] = Prose /\ t[2] = e /\ t[3] = f
      OBVIOUS
    <3> HIDE DEF t
    <3>2. \A i \in DOMAIN t : i = 1 \/ i = 2 \/ i = 3
      BY <3>1
    <3>3. Prose.k # "rule" /\ ~IsHeading(Prose)
      BY <1>10 DEF IsHeading
    <3>4. \A i \in DOMAIN t : t[i].k # "rule" /\ ~IsHeading(t[i])
      BY <1>5, <3>1, <3>2, <3>3, FieldsDiffer
    <3> QED BY <2>2, <3>4, NoEntry
  <2> HIDE DEF s, t
  <2>5. /\ Headings(s \o <<Rule>> \o t) = Headings(s) \o Headings(t)
        /\ ParseEntries(s \o <<Rule>> \o t) = ParseEntries(s) \o ParseEntries(t)
    BY <1>4, <1>10, <2>2, HeadingsThrough, ParseConcat
  <2>6. <<id>> \o <<>> = <<id>> /\ <<>> \o <<>> = <<>>
    OBVIOUS
  <2> QED BY <1>12, <2>1, <2>3, <2>4, <2>5, <2>6
<1> QED BY <1>1, <1>11, <1>12

(* A log that somebody may add to: the notice, a rule, and the entries.      *)
Notice     == <<Prose>> \o <<Rule>>
Below(b, rest) == b = Notice \o rest
Noticed(b) == \E rest \in Seq(Line) : Below(b, rest)

LEMMA NoticeIs ==
    /\ Notice \in Seq(Line) /\ Len(Notice) = 2 /\ Notice[1] = Prose /\ Notice[2] = Rule
    /\ <<Prose>> \in Seq(Line) /\ <<Rule>> \in Seq(Line) /\ Rule \in Line /\ Prose # Rule
    /\ Rule.k = "rule" /\ <<Prose, Rule>> = Notice
<1>1. Rule \in Line /\ Prose \in Line
  BY LinesAre
<1>2. Prose.k = "prose" /\ Rule.k = "rule"
  BY DEF Prose, Rule
<1> DEFINE x == Prose
           y == Rule
           u == <<x>>
           v == <<y>>
           w == <<x, y>>
<1>3. x \in Line /\ y \in Line /\ x # y
  BY <1>1, <1>2
<1> HIDE DEF x, y
<1>4. /\ u \in Seq(Line) /\ Len(u) = 1 /\ u[1] = x
      /\ v \in Seq(Line) /\ Len(v) = 1 /\ v[1] = y
      /\ w \in Seq(Line) /\ Len(w) = 2 /\ w[1] = x /\ w[2] = y
  BY <1>3
<1>5. Notice = u \o v
  BY DEF Notice, x, y
<1> HIDE DEF u, v, w
<1>6. Notice \in Seq(Line) /\ Len(Notice) = 2 /\ Notice[1] = x /\ Notice[2] = y
  <2>1. /\ u \o v \in Seq(Line) /\ Len(u \o v) = Len(u) + Len(v)
        /\ \A i \in 1 .. (Len(u) + Len(v)) :
             (u \o v)[i] = IF i <= Len(u) THEN u[i] ELSE v[i - Len(u)]
    BY <1>4, ConcatProperties
  <2> QED BY <1>4, <1>5, <2>1
<1>7. w = Notice
  <2>1. \A i \in 1 .. Len(w) : w[i] = Notice[i]
    BY <1>4, <1>6
  <2> QED BY <1>4, <1>6, <2>1, SeqEqual
<1> QED BY <1>2, <1>3, <1>4, <1>6, <1>7 DEF u, v, w, x, y

LEMMA CutIs ==
    ASSUME NEW S, NEW s \in Seq(S), NEW m \in Nat \ {0}, NEW n \in Nat, n <= Len(s), m <= n
    PROVE  /\ SubSeq(s, m, n) \in Seq(S) /\ Len(SubSeq(s, m, n)) = n - m + 1
           /\ \A i \in 1 .. (n - m + 1) : SubSeq(s, m, n)[i] = s[m + i - 1]
<1>1. \A i \in m .. n : s[i] \in S
  BY ElementOfSeq, LenProperties
<1>2. m \in Int /\ n \in Int
  OBVIOUS
<1> QED BY <1>1, <1>2, SubSeqProperties

LEMMA NoticedIs ==
    ASSUME NEW rest \in Seq(Line), NEW b, Below(b, rest)
    PROVE  /\ b \in Seq(Line) /\ Marker(b) = 2
           /\ SubSeq(b, 1, 2) = Notice
           /\ SubSeq(b, 2 + 1, Len(b)) = rest
<1>0. b = Notice \o rest
  BY DEF Below
<1>1. /\ b \in Seq(Line) /\ Len(b) = 2 + Len(rest) /\ Len(rest) \in Nat
      /\ b[1] = Prose /\ b[2] = Rule /\ \A j \in 1 .. Len(rest) : b[2 + j] = rest[j]
  <2>0. Notice \in Seq(Line) /\ Len(Notice) = 2 /\ Notice[1] = Prose /\ Notice[2] = Rule
    BY NoticeIs
  <2>1. /\ Notice \o rest \in Seq(Line) /\ Len(Notice \o rest) = Len(Notice) + Len(rest)
        /\ \A i \in 1 .. (Len(Notice) + Len(rest)) :
             (Notice \o rest)[i] = IF i <= Len(Notice) THEN Notice[i] ELSE rest[i - Len(Notice)]
    BY <2>0, ConcatProperties
  <2>2. Len(rest) \in Nat
    BY LenProperties
  <2>3. b \in Seq(Line) /\ Len(b) = 2 + Len(rest)
    BY <1>0, <2>0, <2>1
  <2>4. \A i \in 1 .. (2 + Len(rest)) : b[i] = IF i <= 2 THEN Notice[i] ELSE rest[i - 2]
    BY <1>0, <2>0, <2>1
  <2>5. b[1] = Prose /\ b[2] = Rule
    <3>1. 1 \in 1 .. (2 + Len(rest)) /\ 2 \in 1 .. (2 + Len(rest))
      BY <2>2
    <3>2. b[1] = Notice[1] /\ b[2] = Notice[2]
      BY <2>4, <3>1
    <3> QED BY <2>0, <3>2
  <2>6. ASSUME NEW j \in 1 .. Len(rest) PROVE b[2 + j] = rest[j]
    <3>1. 2 + j \in 1 .. (2 + Len(rest)) /\ ~(2 + j <= 2) /\ 2 + j - 2 = j
      BY <2>2
    <3>2. b[2 + j] = rest[2 + j - 2]
      BY <2>4, <3>1
    <3> QED BY <3>1, <3>2
  <2> QED BY <2>2, <2>3, <2>5, <2>6
<1>2. Marker(b) = 2
  <2>1. /\ Marker(b) \in 0 .. Len(b)
        /\ Marker(b) = 0 <=> \A i \in 1 .. Len(b) : b[i] # Rule
        /\ Marker(b) # 0 => b[Marker(b)] = Rule /\ \A i \in 1 .. (Marker(b) - 1) : b[i] # Rule
    BY <1>1, MarkerIs
  <2>2. 2 \in 1 .. Len(b)
    BY <1>1
  <2>3. Marker(b) # 0 /\ b[Marker(b)] = Rule
    BY <1>1, <2>1, <2>2
  <2>4. Marker(b) # 1
    BY <1>1, <2>3, NoticeIs
  <2>5. ASSUME Marker(b) > 2 PROVE FALSE
    <3>1. 2 \in 1 .. (Marker(b) - 1)
      BY <1>1, <2>1, <2>5
    <3> QED BY <1>1, <2>1, <2>3, <3>1
  <2> QED BY <1>1, <2>1, <2>3, <2>4, <2>5
<1>3. \A i \in 1 .. Len(b) : b[i] \in Line
  BY <1>1, ElementOfSeq
<1>4. SubSeq(b, 1, 2) = Notice
  <2> DEFINE lo == 1
             hi == 2
             x == SubSeq(b, lo, hi)
  <2>1. lo \in Nat \ {0} /\ hi \in Nat /\ hi <= Len(b) /\ lo <= hi
    BY <1>1
  <2>2. /\ x \in Seq(Line) /\ Len(x) = hi - lo + 1
        /\ \A i \in 1 .. (hi - lo + 1) : x[i] = b[lo + i - 1]
    <3> HIDE DEF lo, hi
    <3> QED BY <1>1, <2>1, CutIs
  <2> HIDE DEF x
  <2>3. x \in Seq(Line) /\ Len(x) = 2 /\ \A i \in 1 .. 2 : x[i] = b[i]
    <3>1. hi - lo + 1 = 2 /\ \A i \in 1 .. 2 : lo + i - 1 = i
      OBVIOUS
    <3> HIDE DEF lo, hi
    <3> QED BY <2>2, <3>1
  <2>4. Notice \in Seq(Line) /\ Len(Notice) = 2 /\ b[1] = Notice[1] /\ b[2] = Notice[2]
    BY <1>1, NoticeIs
  <2>5. \A i \in 1 .. Len(x) : x[i] = Notice[i]
    BY <2>3, <2>4
  <2>6. x = Notice
    BY <2>3, <2>4, <2>5, SeqEqual
  <2> QED BY <2>6 DEF x
<1>5. SubSeq(b, 2 + 1, Len(b)) = rest
  <2> DEFINE m == Len(b)
             lo == 2 + 1
             x == SubSeq(b, lo, m)
  <2>1. m \in Nat /\ m = 2 + Len(rest) /\ m <= Len(b) /\ lo \in Nat \ {0}
    BY <1>1
  <2>2. CASE rest = <<>>
    <3>1. lo \in Int /\ m \in Int /\ m < lo
      BY <1>1, <2>2
    <3>2. SubSeq(b, lo, m) = <<>>
      <4> HIDE DEF lo, m
      <4> QED BY <3>1, SubSeqEmpty
    <3> QED BY <2>2, <3>2
  <2>3. CASE rest # <<>>
    <3>1. lo <= m
      <4>1. Len(rest) # 0
        BY <2>3, EmptySeq
      <4> QED BY <1>1, <2>1, <4>1
    <3>2. /\ x \in Seq(Line) /\ Len(x) = m - lo + 1
          /\ \A i \in 1 .. (m - lo + 1) : x[i] = b[lo + i - 1]
      <4> HIDE DEF lo, m
      <4> QED BY <1>1, <2>1, <3>1, CutIs
    <3> HIDE DEF x, m
    <3>3. x \in Seq(Line) /\ Len(x) = Len(rest)
      BY <1>1, <2>1, <3>2
    <3>4. ASSUME NEW i \in 1 .. Len(x) PROVE x[i] = rest[i]
      <4>1. i \in 1 .. (m - lo + 1) /\ lo + i - 1 = 2 + i /\ i \in 1 .. Len(rest)
        BY <1>1, <2>1, <3>3
      <4>2. x[i] = b[2 + i]
        BY <3>2, <4>1
      <4> QED BY <1>1, <4>1, <4>2
    <3>5. x = rest
      BY <3>3, <3>4, SeqEqual
    <3> QED BY <3>5 DEF x, m
  <2> QED BY <2>2, <2>3
<1> QED BY <1>1, <1>2, <1>4, <1>5

(* What is in the log below the notice, and what an `add` puts there.        *)
LEMMA BelowNotice ==
    ASSUME NEW rest \in Seq(Line)
    PROVE  /\ Headings(Notice \o rest) = Headings(rest)
           /\ ParseEntries(Notice \o rest) = ParseEntries(rest)
<1> DEFINE x == <<Prose>>
<1>1. x \in Seq(Line) /\ DOMAIN x = {1} /\ x[1] = Prose
  BY NoticeIs
<1>2. Prose.k = "prose"
  BY DEF Prose
<1>3. Notice = x \o <<Rule>>
  BY DEF Notice
<1> HIDE DEF x
<1>4. Headings(x) = <<>> /\ ParseEntries(x) = <<>>
  <2>1. \A i \in DOMAIN x : x[i].k # "rule" /\ ~IsHeading(x[i])
    BY <1>1, <1>2 DEF IsHeading
  <2> QED BY <1>1, <2>1, NoEntry
<1>5. Headings(x \o <<Rule>> \o rest) = Headings(x) \o Headings(rest)
  BY <1>1, NoticeIs, HeadingsThrough
<1>6. ParseEntries(x \o <<Rule>> \o rest) = ParseEntries(x) \o ParseEntries(rest)
  BY <1>1, NoticeIs, ParseConcat
<1>7. <<>> \o Headings(rest) = Headings(rest) /\ <<>> \o ParseEntries(rest) = ParseEntries(rest)
  OBVIOUS
<1> QED BY <1>3, <1>4, <1>5, <1>6, <1>7

(* A text under the notice, in the place where `add` and people put it.      *)
LEMMA PutUnderNotice ==
    ASSUME NEW rest \in Seq(Line), NEW b, Below(b, rest), NEW block \in Seq(Line)
    PROVE  /\ SubSeq(b, 1, Marker(b)) \o block \o SubSeq(b, Marker(b) + 1, Len(b))
                = Notice \o (block \o rest)
           /\ block \o rest \in Seq(Line)
<1>1. Marker(b) = 2 /\ SubSeq(b, 1, 2) = Notice /\ SubSeq(b, 2 + 1, Len(b)) = rest
  BY NoticedIs
<1>2. Notice \in Seq(Line)
  BY NoticeIs
<1>3. (Notice \o block) \o rest = Notice \o (block \o rest)
  BY <1>2, ConcatAssociative
<1>4. block \o rest \in Seq(Line)
  BY ConcatProperties
<1> QED BY <1>1, <1>3, <1>4

LEMMA StaysNoticed ==
    ASSUME NEW b, Noticed(b), NEW block \in Seq(Line)
    PROVE  Noticed(SubSeq(b, 1, Marker(b)) \o block \o SubSeq(b, Marker(b) + 1, Len(b)))
<1>1. PICK rest \in Seq(Line) : Below(b, rest)
  BY DEF Noticed
<1>2. /\ SubSeq(b, 1, Marker(b)) \o block \o SubSeq(b, Marker(b) + 1, Len(b))
           = Notice \o (block \o rest)
      /\ block \o rest \in Seq(Line)
  BY <1>1, PutUnderNotice
<1> QED BY <1>2 DEF Noticed, Below

(* What the log is after an `add`, from what it was before.                  *)
Exact(before, id, entry, after) ==
    /\ Headings(after.body) = <<id>> \o Headings(before)
    /\ after.latest = id
    /\ after.total = Len(Headings(after.body))
    /\ ParseEntries(after.body)
         = (IF entry.ruled THEN <<>> ELSE <<[id |-> id, files |-> entry.files]>>)
             \o ParseEntries(before)

LEMMA AddedBody ==
    ASSUME NEW text \in Text, NEW rest \in Seq(Line), Below(text.body, rest),
           NEW id, NEW block \in Seq(Line), NEW after, after = WithEntry(text, id, block)
    PROVE  /\ after.body = Notice \o (block \o <<Rule>> \o rest)
           /\ block \o <<Rule>> \o rest \in Seq(Line)
           /\ after.latest = id /\ after.total = Len(Headings(after.body))
<1> DEFINE b    == text.body
           at   == Marker(b)
           body == SubSeq(b, 1, at) \o block \o <<Rule>> \o SubSeq(b, at + 1, Len(b))
           rule == <<Rule>>
           new  == block \o rule
           above == SubSeq(b, 1, at)
           under == SubSeq(b, at + 1, Len(b))
<1>1. rule \in Seq(Line) /\ Notice \in Seq(Line)
  BY NoticeIs
<1>2. after = [text EXCEPT !.body = body, !.latest = id, !.total = Len(Headings(body))]
  BY DEF WithEntry
<1>3. after.body = body /\ after.latest = id /\ after.total = Len(Headings(after.body))
  <2> HIDE DEF body
  <2> QED BY <1>2 DEF Text
<1>4. body = ((above \o block) \o rule) \o under
  OBVIOUS
<1> HIDE DEF rule, body
<1>5. new \in Seq(Line)
  BY <1>1, ConcatProperties
<1>6. Below(b, rest)
  OBVIOUS
<1> HIDE DEF b, new
<1>7. (above \o new) \o under = Notice \o (new \o rest) /\ new \o rest \in Seq(Line)
  BY <1>5, <1>6, PutUnderNotice
<1>8. above \in Seq(Line)
  <2>1. at = 2 /\ SubSeq(b, 1, 2) = Notice
    BY <1>6, NoticedIs
  <2> QED BY <1>1, <2>1
<1> HIDE DEF at, above, under
<1>9. above \o new = (above \o block) \o rule
  <2>1. (above \o block) \o rule = above \o (block \o rule)
    <3>1. above \in Seq(Line) /\ block \in Seq(Line) /\ rule \in Seq(Line)
      BY <1>1, <1>8
    <3> QED BY <3>1, ConcatAssociative
  <2> QED BY <2>1 DEF new
<1>10. body = Notice \o (new \o rest)
  BY <1>4, <1>7, <1>9
<1> QED BY <1>3, <1>7, <1>10 DEF new, rule

LEMMA AddedIs ==
    ASSUME NEW text \in Text, Noticed(text.body), NEW id \in Id, id.n <= LastNumber,
           NEW entry \in Entries
    PROVE  Exact(text.body, id, entry, WithEntry(text, id, RenderEntry(id, entry)))
<1> DEFINE block == RenderEntry(id, entry)
           after == WithEntry(text, id, block)
           b     == text.body
           own   == IF entry.ruled THEN <<>> ELSE <<[id |-> id, files |-> entry.files]>>
<1>1. PICK rest \in Seq(Line) : Below(b, rest)
  BY DEF Noticed
<1>2. block \in Seq(Line)
  BY EntriesIs, RenderedIs
<1>3. Headings(block) = <<id>> /\ ParseEntries(block) = own
  BY EntryBlockIs DEF OneEntry
<1> HIDE DEF block, own
<1>4. /\ after.body = Notice \o (block \o <<Rule>> \o rest)
      /\ block \o <<Rule>> \o rest \in Seq(Line)
      /\ after.latest = id /\ after.total = Len(Headings(after.body))
  BY <1>1, <1>2, AddedBody
<1>5. /\ Headings(block \o <<Rule>> \o rest) = <<id>> \o Headings(rest)
      /\ ParseEntries(block \o <<Rule>> \o rest) = own \o ParseEntries(rest)
  <2>1. Rule \in Line /\ Rule.k = "rule"
    BY NoticeIs
  <2>2. Headings(block \o <<Rule>> \o rest) = Headings(block) \o Headings(rest)
    BY <1>2, <2>1, HeadingsThrough
  <2>3. ParseEntries(block \o <<Rule>> \o rest) = ParseEntries(block) \o ParseEntries(rest)
    BY <1>2, <2>1, ParseConcat
  <2> QED BY <1>3, <2>2, <2>3
<1>6. /\ Headings(after.body) = Headings(block \o <<Rule>> \o rest)
      /\ ParseEntries(after.body) = ParseEntries(block \o <<Rule>> \o rest)
  <2> DEFINE all == block \o <<Rule>> \o rest
  <2>1. all \in Seq(Line) /\ after.body = Notice \o all
    BY <1>4
  <2> HIDE DEF all, after
  <2> QED BY <2>1, BelowNotice DEF all
<1>7. Headings(b) = Headings(rest) /\ ParseEntries(b) = ParseEntries(rest)
  <2>1. b = Notice \o rest
    BY <1>1 DEF Below
  <2> HIDE DEF b
  <2> QED BY <2>1, BelowNotice
<1> HIDE DEF after, b
<1>8. /\ Headings(after.body) = <<id>> \o Headings(b)
      /\ ParseEntries(after.body) = own \o ParseEntries(b)
  BY <1>5, <1>6, <1>7
<1>9. Exact(b, id, entry, after)
  BY <1>4, <1>8, Zenon DEF Exact, own
<1> QED BY <1>9 DEF after, b, block

(* The log is empty, while somebody writes it, or has the notice.  A run     *)
(* whose log nobody else wrote holds the log as it is, has the number after  *)
(* its headings, and writes what it has read with its entry on top.          *)
Shape(b) == b = <<>> \/ Noticed(b)

RunKept(w) ==
    /\ writer[w].at \in {"read", "numbered"} =>
         Shape(writer[w].text.body) /\ (w \notin disturbed => writer[w].text = log)
    /\ writer[w].at = "numbered" /\ w \notin disturbed => writer[w].id.n = NextNumber(log.body)
    /\ writer[w].at = "writing" =>
         /\ Noticed(writer[w].before.body)
         /\ writer[w].text = WithEntry(writer[w].before, writer[w].id,
                                       RenderEntry(writer[w].id, writer[w].entry))
         /\ w \notin disturbed => writer[w].id.n = NextNumber(writer[w].before.body)

AloneInv == Shape(log.body) /\ \A w \in Writers : RunKept(w)

LEMMA AloneInit ==
    ASSUME CheckoutInit PROVE AloneInv
<1>1. log.body = Notice /\ \A w \in Writers : writer[w].at = "idle"
  BY NoticeIs DEF CheckoutInit, LogInit, NotRunning
<1>2. Noticed(log.body)
  <2>1. <<>> \in Seq(Line) /\ Notice \o <<>> = Notice
    BY NoticeIs, ConcatEmptySeq, EmptySeq
  <2> QED BY <1>1, <2>1 DEF Noticed, Below
<1> QED BY <1>1, <1>2 DEF AloneInv, Shape, RunKept

(* A run that is not at work has nothing to keep, and a run keeps what it    *)
(* has while the log stays, or while it counts as disturbed.                 *)
LEMMA RestingIsKept ==
    ASSUME NEW w \in Writers, writer'[w] = NotRunning PROVE RunKept(w)'
BY DEF RunKept, NotRunning

LEMMA LogUntouched ==
    ASSUME NEW w \in Writers, RunKept(w), writer'[w] = writer[w], log' = log,
           w \in disturbed => w \in disturbed'
    PROVE  RunKept(w)'
BY DEF RunKept

LEMMA LogRewritten ==
    ASSUME NEW w \in Writers, RunKept(w), writer'[w] = writer[w],
           writer[w] # NotRunning => w \in disturbed'
    PROVE  RunKept(w)'
<1>1. CASE writer[w] = NotRunning
  BY <1>1, RestingIsKept
<1>2. CASE writer[w] # NotRunning
  BY <1>2 DEF RunKept
<1> QED BY <1>1, <1>2

LEMMA AloneStep ==
    ASSUME LogTyped, AloneInv, [CheckoutNext]_checkoutVars PROVE AloneInv'
<1>1. /\ writer \in [Writers -> Run] /\ log \in Text /\ log.body \in Seq(Line)
      /\ Shape(log.body) /\ \A w \in Writers : RunKept(w)
  BY DEF LogTyped, Text, AloneInv
<1>2. ASSUME UNCHANGED <<log, writer, disturbed>> PROVE AloneInv'
  <2>1. \A w \in Writers : RunKept(w)'
    BY <1>1, <1>2, LogUntouched
  <2> QED BY <1>1, <1>2, <2>1 DEF AloneInv
<1>3. ASSUME NEW w \in Writers, NEW e \in Entries, ReadLog(w, e) PROVE AloneInv'
  <2>1. /\ log' = log /\ disturbed' = disturbed \ {w}
        /\ writer'[w].at = "read" /\ writer'[w].text = log
        /\ \A v \in Writers \ {w} : writer'[v] = writer[v]
    BY <1>1, <1>3 DEF ReadLog
  <2>2. RunKept(w)'
    BY <1>1, <2>1 DEF RunKept
  <2>3. ASSUME NEW v \in Writers \ {w} PROVE RunKept(v)'
    BY <1>1, <2>1, LogUntouched
  <2> QED BY <1>1, <2>1, <2>2, <2>3 DEF AloneInv
<1>4. ASSUME NEW w \in Writers, Number(w) PROVE AloneInv'
  <2>1. /\ log' = log /\ disturbed' = disturbed
        /\ writer[w].at = "read"
        /\ writer'[w].at = "numbered" /\ writer'[w].text = writer[w].text
        /\ writer'[w].id.n = NextNumber(log.body)
        /\ \A v \in Writers \ {w} : writer'[v] = writer[v]
    BY <1>1, <1>4 DEF Number, NextId
  <2>2. RunKept(w)'
    BY <1>1, <2>1 DEF RunKept
  <2>3. ASSUME NEW v \in Writers \ {w} PROVE RunKept(v)'
    BY <1>1, <2>1, LogUntouched
  <2> QED BY <1>1, <2>1, <2>2, <2>3 DEF AloneInv
<1>5. ASSUME NEW w \in Writers, NoMarker(w) \/ KillAdd(w) PROVE AloneInv'
  <2>1. /\ log' = log /\ disturbed' = disturbed /\ writer'[w] = NotRunning
        /\ \A v \in Writers \ {w} : writer'[v] = writer[v]
    BY <1>1, <1>5 DEF NoMarker, KillAdd
  <2>2. RunKept(w)'
    BY <2>1, RestingIsKept
  <2>3. ASSUME NEW v \in Writers \ {w} PROVE RunKept(v)'
    BY <1>1, <2>1, LogUntouched
  <2> QED BY <1>1, <2>1, <2>2, <2>3 DEF AloneInv
<1>6. ASSUME NEW w \in Writers, OpenToWrite(w) PROVE AloneInv'
  <2> DEFINE me == writer[w]
  <2>1. /\ me.at = "numbered" /\ Marker(me.text.body) # 0 /\ log' = Emptied
        /\ disturbed' = disturbed \cup Others(w)
        /\ writer'[w] = [at |-> "writing", before |-> me.text, id |-> me.id, entry |-> me.entry,
                         text |-> WithEntry(me.text, me.id, RenderEntry(me.id, me.entry))]
        /\ \A v \in Writers \ {w} : writer'[v] = writer[v]
    BY <1>1, <1>6 DEF OpenToWrite, Wrote
  <2>2. Shape(log'.body)
    BY <2>1 DEF Shape, Emptied
  <2>3. me.text \in Text
    BY <2>1, RunIs
  <2>4. Noticed(me.text.body)
    <3>1. Shape(me.text.body)
      BY <1>1, <2>1 DEF RunKept
    <3>2. me.text.body # <<>>
      <4>1. ASSUME me.text.body = <<>> PROVE FALSE
        <5> DEFINE b == me.text.body
        <5>1. b \in Seq(Line) /\ Len(b) = 0
          BY <2>3, <4>1 DEF Text
        <5> HIDE DEF b
        <5>2. Marker(b) \in 0 .. Len(b)
          BY <5>1, MarkerIs
        <5>3. Marker(b) = 0
          BY <5>1, <5>2
        <5> QED BY <2>1, <5>3 DEF b
      <4> QED BY <4>1
    <3> QED BY <3>1, <3>2 DEF Shape
  <2>5. w \notin disturbed => me.id.n = NextNumber(me.text.body)
    <3>1. w \notin disturbed => me.id.n = NextNumber(log.body) /\ me.text = log
      BY <1>1, <2>1 DEF RunKept
    <3> QED BY <3>1
  <2>6. w \notin disturbed' => w \notin disturbed
    BY <2>1
  <2>7. RunKept(w)'
    <3> DEFINE new == writer'[w]
    <3>1. /\ new.at = "writing" /\ new.before = me.text /\ new.id = me.id /\ new.entry = me.entry
          /\ new.text = WithEntry(me.text, me.id, RenderEntry(me.id, me.entry))
      BY <2>1
    <3> HIDE DEF me
    <3>2. /\ Noticed(new.before.body)
          /\ new.text = WithEntry(new.before, new.id, RenderEntry(new.id, new.entry))
          /\ w \notin disturbed' => new.id.n = NextNumber(new.before.body)
      BY <2>4, <2>5, <2>6, <3>1
    <3> QED BY <3>1, <3>2 DEF RunKept
  <2>8. ASSUME NEW v \in Writers \ {w} PROVE RunKept(v)'
    <3>1. v \in Writers /\ RunKept(v) /\ writer'[v] = writer[v]
      BY <1>1, <2>1
    <3>2. writer[v] # NotRunning => v \in disturbed'
      BY <2>1 DEF Others
    <3> QED BY <3>1, <3>2, LogRewritten
  <2> QED BY <2>2, <2>7, <2>8 DEF AloneInv
<1>7. ASSUME NEW w \in Writers, WriteLog(w) PROVE AloneInv'
  <2> DEFINE me == writer[w]
  <2>1. /\ me.at = "writing" /\ log' = me.text /\ disturbed' = disturbed \cup Others(w)
        /\ writer'[w] = NotRunning
        /\ \A v \in Writers \ {w} : writer'[v] = writer[v]
    BY <1>1, <1>7 DEF WriteLog, Wrote
  <2>2. /\ me.before \in Text /\ me.id \in Id /\ me.entry \in Entries
        /\ Noticed(me.before.body)
        /\ me.text = WithEntry(me.before, me.id, RenderEntry(me.id, me.entry))
    <3>1. me \in [at : {"writing"}, before : Text, id : Id, entry : Entries, text : Text]
      BY <2>1, RunIs
    <3>2. Noticed(me.before.body)
          /\ me.text = WithEntry(me.before, me.id, RenderEntry(me.id, me.entry))
      BY <1>1, <2>1 DEF RunKept
    <3> HIDE DEF me
    <3> QED BY <3>1, <3>2
  <2>3. Noticed(log'.body)
    <3> HIDE DEF me
    <3> DEFINE block == RenderEntry(me.id, me.entry)
    <3>1. block \in Seq(Line)
      BY <2>2, EntriesIs, RenderedIs
    <3> HIDE DEF block
    <3>2. PICK rest \in Seq(Line) : Below(me.before.body, rest)
      BY <2>2 DEF Noticed
    <3>3. me.text = WithEntry(me.before, me.id, block)
      BY <2>2 DEF block
    <3>4. /\ me.text.body = Notice \o (block \o <<Rule>> \o rest)
          /\ block \o <<Rule>> \o rest \in Seq(Line)
      <4>1. me.before \in Text /\ me.id \in Id /\ Below(me.before.body, rest)
        BY <2>2, <3>2
      <4> DEFINE text == me.before
                 id   == me.id
                 new  == me.text
      <4>2. text \in Text /\ id \in Id /\ Below(text.body, rest) /\ new = WithEntry(text, id, block)
        BY <4>1, <3>3
      <4> HIDE DEF text, id, new
      <4>3. /\ new.body = Notice \o (block \o <<Rule>> \o rest)
            /\ block \o <<Rule>> \o rest \in Seq(Line)
        BY <4>2, <3>1, <3>2, AddedBody
      <4> QED BY <4>3 DEF new
    <3>5. Noticed(me.text.body)
      BY <3>4 DEF Noticed, Below
    <3> QED BY <2>1, <3>5
  <2>4. RunKept(w)'
    BY <2>1, RestingIsKept
  <2>5. ASSUME NEW v \in Writers \ {w} PROVE RunKept(v)'
    <3>1. v \in Writers /\ RunKept(v) /\ writer'[v] = writer[v]
      BY <1>1, <2>1
    <3>2. writer[v] # NotRunning => v \in disturbed'
      BY <2>1 DEF Others
    <3> QED BY <3>1, <3>2, LogRewritten
  <2> QED BY <2>3, <2>4, <2>5 DEF AloneInv, Shape
<1>8. ASSUME NEW form \in Forms, NEW updates \in BOOLEAN, EditByHand(form, updates) PROVE AloneInv'
  <2> DEFINE id    == NextId(log.body)
             b     == log.body
             block == HandWritten(id, form)
             body  == SubSeq(b, 1, Marker(b)) \o block \o SubSeq(b, Marker(b) + 1, Len(b))
  <2>1. /\ Marker(log.body) # 0
        /\ log' \in {[log EXCEPT !.body = body, !.latest = id, !.total = Len(Headings(body))],
                     [log EXCEPT !.body = body]}
        /\ disturbed' = disturbed \cup {v \in Writers : writer[v] # NotRunning}
        /\ writer' = writer
    BY <1>8 DEF EditByHand
  <2>2. block \in Seq(Line)
    <3>1. today \in Nat
      BY DEF LogTyped
    <3>2. id \in Id
      BY <1>1, <3>1, NextIdIs
    <3> HIDE DEF id
    <3> QED BY <3>2, HandWrittenIs
  <2> HIDE DEF block
  <2>3. Noticed(b)
    <3>1. b # <<>>
      <4>1. ASSUME b = <<>> PROVE FALSE
        <5>1. b \in Seq(Line) /\ Len(b) = 0
          BY <1>1, <4>1
        <5> HIDE DEF b
        <5>2. Marker(b) \in 0 .. Len(b)
          BY <5>1, MarkerIs
        <5>3. Marker(b) = 0
          BY <5>1, <5>2
        <5> QED BY <2>1, <5>3 DEF b
      <4> QED BY <4>1
    <3> QED BY <1>1, <3>1 DEF Shape
  <2>4. Noticed(body)
    <3> HIDE DEF b
    <3> QED BY <2>2, <2>3, StaysNoticed
  <2>5. log'.body = body
    <3> HIDE DEF body, id
    <3> QED BY <1>1, <2>1 DEF Text
  <2>6. ASSUME NEW v \in Writers PROVE RunKept(v)'
    <3>1. RunKept(v) /\ writer'[v] = writer[v]
      BY <1>1, <2>1
    <3>2. writer[v] # NotRunning => v \in disturbed'
      BY <2>1
    <3> QED BY <3>1, <3>2, LogRewritten
  <2> QED BY <2>4, <2>5, <2>6 DEF AloneInv, Shape
<1>9. ASSUME NextDay PROVE AloneInv'
  BY <1>2, <1>9 DEF NextDay
<1> QED BY <1>2, <1>3, <1>4, <1>5, <1>6, <1>7, <1>8, <1>9
        DEF CheckoutNext, CheckoutEvent, CheckoutStep, LogEvent, AddStep, checkoutVars, logVars

(* An `add` that had the log to itself gives its entry a number above all    *)
(* others, puts it on top, brings the front matter into agreement, and takes *)
(* no entry from the readers, for logs of any length and any entries in it.  *)
THEOREM AddsAreExact == CheckoutSpec => AddAloneIsExact
<1> DEFINE Good(w) ==
      LET before == writer[w].before.body
          after  == log'.body
          id     == writer[w].id
          own    == IF writer[w].entry.ruled THEN <<>>
                    ELSE <<[id |-> id, files |-> writer[w].entry.files]>>
      IN  /\ Headings(after) = <<id>> \o Headings(before)
          /\ \A other \in IdsIn(before) : other.n < id.n
          /\ log'.latest = id
          /\ log'.total = Len(Headings(after))
          /\ ParseEntries(after) = own \o ParseEntries(before)
           Adds(w) ==
      writer[w].at = "writing" /\ writer[w].id.n <= LastNumber /\ w \notin disturbed
      /\ log' = writer[w].text /\ log' # log
<1>1. ASSUME LogTyped, AloneInv, NEW w \in Writers, Adds(w) PROVE Good(w)
  <2> DEFINE me == writer[w]
  <2>1. me.at = "writing" /\ me.id.n <= LastNumber /\ w \notin disturbed /\ log' = me.text
    BY <1>1
  <2>2. me \in [at : {"writing"}, before : Text, id : Id, entry : Entries, text : Text]
    BY <1>1, <2>1, RunIs
  <2>3. /\ Noticed(me.before.body)
        /\ me.text = WithEntry(me.before, me.id, RenderEntry(me.id, me.entry))
        /\ me.id.n = NextNumber(me.before.body)
    BY <1>1, <2>1 DEF AloneInv, RunKept
  <2> HIDE DEF me
  <2>4. me.before \in Text /\ me.id \in Id /\ me.entry \in Entries /\ me.before.body \in Seq(Line)
    BY <2>2 DEF Text
  <2>5. Exact(me.before.body, me.id, me.entry, log')
    BY <2>1, <2>3, <2>4, AddedIs
  <2>6. \A other \in IdsIn(me.before.body) : other.n < me.id.n
    BY <2>3, <2>4, NextNumberIs
  <2> QED BY <2>5, <2>6, Zenon DEF Exact, me
<1>2. LogTyped /\ AloneInv /\ [CheckoutNext]_checkoutVars
        => [\A w \in Writers :
              writer[w].at = "writing" /\ writer[w].id.n <= LastNumber /\ w \notin disturbed
              /\ log' = writer[w].text /\ log' # log
                => Good(w)]_logVars
  BY <1>1
<1>3. CheckoutSpec => [](LogTyped /\ AloneInv)
  BY LogTypedInit, LogTypedStep, AloneInit, AloneStep, PTL DEF CheckoutSpec
<1> QED BY <1>2, <1>3, PTL DEF CheckoutSpec, AddAloneIsExact

-----------------------------------------------------------------------------
(***************************************************************************)
(* What overlapping runs can cost.  The invariant: every text that is in   *)
(* the log or in the hands of a run, and is not empty, has all the headings*)
(* that came while nobody else was at work; and somebody is about to write *)
(* whenever the file is empty.                                             *)
(***************************************************************************)

LEMMA IdsConcat ==
    ASSUME NEW s \in Seq(Line), NEW t \in Seq(Line)
    PROVE  IdsIn(s) \subseteq IdsIn(s \o t) /\ IdsIn(t) \subseteq IdsIn(s \o t)
<1> DEFINE z == s \o t
<1>1. /\ z \in Seq(Line) /\ Len(s) \in Nat
      /\ \A i \in DOMAIN s : i \in DOMAIN z /\ z[i] = s[i]
      /\ \A j \in DOMAIN t : Len(s) + j \in DOMAIN z /\ z[Len(s) + j] = t[j]
  BY PlacesConcat
<1> HIDE DEF z
<1>2. /\ IdsIn(s) = {s[i].id : i \in HeadPlaces(s)}
      /\ IdsIn(t) = {t[i].id : i \in HeadPlaces(t)}
      /\ IdsIn(z) = {z[i].id : i \in HeadPlaces(z)}
  BY <1>1, HeadingsAre
<1>3. ASSUME NEW i \in HeadPlaces(s) PROVE i \in HeadPlaces(z) /\ z[i].id = s[i].id
  BY <1>1 DEF HeadPlaces
<1>4. ASSUME NEW j \in HeadPlaces(t)
      PROVE  Len(s) + j \in HeadPlaces(z) /\ z[Len(s) + j].id = t[j].id
  BY <1>1 DEF HeadPlaces
<1>5. IdsIn(s) \subseteq IdsIn(z)
  BY <1>2, <1>3
<1>6. IdsIn(t) \subseteq IdsIn(z)
  <2>1. ASSUME NEW j \in HeadPlaces(t) PROVE t[j].id \in IdsIn(z)
    BY <1>2, <1>4
  <2> QED BY <1>2, <2>1
<1> QED BY <1>5, <1>6 DEF z

LEMMA NoticeIsSomething ==
    ASSUME NEW rest \in Seq(Line)
    PROVE  Notice \o rest # <<>>
<1> DEFINE z == Notice \o rest
<1>1. Notice \in Seq(Line) /\ Len(Notice) = 2 /\ Len(rest) \in Nat
  BY NoticeIs, LenProperties
<1>2. Len(z) = Len(Notice) + Len(rest)
  BY <1>1, ConcatProperties
<1> HIDE DEF z
<1>3. Len(z) # 0
  BY <1>1, <1>2
<1>4. z # <<>>
  BY <1>3
<1> QED BY <1>4 DEF z

(* Whatever goes in under the notice, the headings stay.                    *)
LEMMA PutKeepsIds ==
    ASSUME NEW b, Noticed(b), NEW block \in Seq(Line)
    PROVE  LET z == SubSeq(b, 1, Marker(b)) \o block \o SubSeq(b, Marker(b) + 1, Len(b))
           IN  IdsIn(b) \subseteq IdsIn(z) /\ z # <<>>
<1> DEFINE z == SubSeq(b, 1, Marker(b)) \o block \o SubSeq(b, Marker(b) + 1, Len(b))
<1>1. PICK rest \in Seq(Line) : Below(b, rest)
  BY DEF Noticed
<1>2. z = Notice \o (block \o rest) /\ block \o rest \in Seq(Line)
  BY <1>1, PutUnderNotice
<1> HIDE DEF z
<1>3. Headings(b) = Headings(rest) /\ Headings(z) = Headings(block \o rest)
  <2>1. b = Notice \o rest
    BY <1>1 DEF Below
  <2> QED BY <1>2, <2>1, BelowNotice
<1>4. IdsIn(b) = IdsIn(rest) /\ IdsIn(z) = IdsIn(block \o rest)
  BY <1>3 DEF IdsIn
<1>5. IdsIn(rest) \subseteq IdsIn(block \o rest)
  BY IdsConcat
<1>6. z # <<>>
  BY <1>2, NoticeIsSomething
<1> QED BY <1>4, <1>5, <1>6 DEF z

LEMMA AddKeepsIds ==
    ASSUME NEW text \in Text, Noticed(text.body), NEW id \in Id, NEW block \in Seq(Line)
    PROVE  /\ IdsIn(text.body) \subseteq IdsIn(WithEntry(text, id, block).body)
           /\ WithEntry(text, id, block).body # <<>>
<1> DEFINE after == WithEntry(text, id, block)
           b     == text.body
           put   == block \o <<Rule>>
<1>1. PICK rest \in Seq(Line) : Below(b, rest)
  BY DEF Noticed
<1>2. after.body = Notice \o (put \o rest)
  BY <1>1, AddedBody
<1>3. put \in Seq(Line)
  BY LinesAre, ConcatProperties
<1> HIDE DEF after, put, b
<1>4. SubSeq(b, 1, Marker(b)) \o put \o SubSeq(b, Marker(b) + 1, Len(b)) = Notice \o (put \o rest)
  BY <1>1, <1>3, PutUnderNotice
<1>5. Noticed(b)
  BY DEF b
<1> QED BY <1>2, <1>3, <1>4, <1>5, PutKeepsIds DEF after, b

Held == past \ raced
Has(body, ids) == body # <<>> => ids \subseteq IdsIn(body)

Safe == /\ Has(log.body, Held)
        /\ log.body = <<>> => \E w \in Writers : writer[w].at = "writing"
        /\ \A w \in Writers : writer[w] # NotRunning => Has(writer[w].text.body, Held)

SurvivalInv == torn \/ Safe

LEMMA SurvivalInit ==
    ASSUME CheckoutInit PROVE SurvivalInv
<1>1. /\ past = {} /\ log.body = <<Prose, Rule>> /\ \A w \in Writers : writer[w] = NotRunning
  BY DEF CheckoutInit, LogInit
<1>2. log.body # <<>>
  BY <1>1
<1> QED BY <1>1, <1>2 DEF SurvivalInv, Safe, Has, Held

LEMMA HasFewer ==
    ASSUME NEW body, NEW more, NEW fewer, fewer \subseteq more, Has(body, more)
    PROVE  Has(body, fewer)
BY DEF Has

(* Steps that leave the log alone, and the runs but one.                    *)
LEMMA SafeAway ==
    ASSUME Safe, NEW w \in Writers, UNCHANGED <<log, past, raced>>, DOMAIN writer' = Writers,
           \A v \in Writers \ {w} : writer'[v] = writer[v],
           writer[w].at = "writing" => writer'[w].at = "writing",
           writer'[w] # NotRunning => Has(writer'[w].text.body, Held)
    PROVE  Safe'
<1>1. Held' = Held /\ \A b, ids : Has(b, ids)' = Has(b, ids)
  BY DEF Held, Has
<1>2. log'.body = <<>> => \E v \in Writers : writer'[v].at = "writing"
  BY DEF Safe
<1>3. \A v \in Writers : writer'[v] # NotRunning => Has(writer'[v].text.body, Held)
  BY DEF Safe
<1>4. Has(log'.body, Held)
  BY DEF Safe
<1> QED BY <1>1, <1>2, <1>3, <1>4 DEF Safe, Has

LEMMA HeldMoves ==
    ASSUME NEW others, Remember(others)
    PROVE  /\ others = {} => Held' \subseteq Held \cup IdsIn(log'.body)
           /\ others # {} => Held' \subseteq Held
BY DEF Remember, Held

LEMMA SurvivalStep ==
    ASSUME LogTyped, AloneInv, SurvivalInv, [CheckoutNext]_checkoutVars PROVE SurvivalInv'
<1>1. /\ writer \in [Writers -> Run] /\ log \in Text /\ log.body \in Seq(Line) /\ today \in Nat
      /\ Shape(log.body) /\ \A w \in Writers : RunKept(w)
  BY DEF LogTyped, Text, AloneInv
<1>2. ASSUME UNCHANGED <<log, writer, past, raced, torn>> PROVE SurvivalInv'
  BY <1>2 DEF SurvivalInv, Safe, Held, Has
<1>3. ASSUME NEW w \in Writers, NEW e \in Entries, ReadLog(w, e) PROVE SurvivalInv'
  <2>1. /\ UNCHANGED <<log, past, raced, torn>> /\ writer[w] = NotRunning
        /\ DOMAIN writer' = Writers /\ writer'[w].at = "read" /\ writer'[w].text = log
        /\ \A v \in Writers \ {w} : writer'[v] = writer[v]
    BY <1>1, <1>3 DEF ReadLog, fate
  <2>2. ASSUME Safe PROVE Safe'
    <3>1. Has(writer'[w].text.body, Held)
      BY <2>1, <2>2 DEF Safe
    <3>2. writer[w].at # "writing"
      BY <2>1 DEF NotRunning
    <3> QED BY <2>1, <2>2, <3>1, <3>2, SafeAway
  <2> QED BY <2>1, <2>2 DEF SurvivalInv
<1>4. ASSUME NEW w \in Writers, Number(w) PROVE SurvivalInv'
  <2>1. /\ UNCHANGED <<log, past, raced, torn>> /\ writer[w].at = "read"
        /\ DOMAIN writer' = Writers /\ writer'[w].text = writer[w].text
        /\ \A v \in Writers \ {w} : writer'[v] = writer[v]
    BY <1>1, <1>4 DEF Number, fate
  <2>2. ASSUME Safe PROVE Safe'
    <3>1. writer[w] # NotRunning /\ writer[w].at # "writing"
      BY <2>1 DEF NotRunning
    <3>2. Has(writer'[w].text.body, Held)
      BY <2>1, <2>2, <3>1 DEF Safe
    <3> QED BY <2>1, <2>2, <3>1, <3>2, SafeAway
  <2> QED BY <2>1, <2>2 DEF SurvivalInv
<1>5. ASSUME NEW w \in Writers, NoMarker(w) \/ KillAdd(w) PROVE SurvivalInv'
  <2>1. /\ UNCHANGED <<log, past, raced>> /\ writer'[w] = NotRunning
        /\ DOMAIN writer' = Writers
        /\ \A v \in Writers \ {w} : writer'[v] = writer[v]
    BY <1>1, <1>5 DEF NoMarker, KillAdd, fate
  <2>3. (torn => torn') /\ (writer[w].at = "writing" => torn')
    <3>1. CASE NoMarker(w)
      BY <3>1 DEF NoMarker, fate
    <3>2. CASE KillAdd(w)
      <4>1. torn' = (torn \/ writer[w].at = "writing")
        BY <3>2 DEF KillAdd
      <4> QED BY <4>1, Zenon
    <3> QED BY <1>5, <3>1, <3>2
  <2>2. ASSUME Safe, writer[w].at # "writing" PROVE Safe'
    BY <2>1, <2>2, SafeAway
  <2> QED BY <2>2, <2>3 DEF SurvivalInv
<1>6. ASSUME NEW w \in Writers, OpenToWrite(w) PROVE SurvivalInv'
  <2> DEFINE me    == writer[w]
             block == RenderEntry(me.id, me.entry)
  <2>1. /\ me.at = "numbered" /\ log' = Emptied /\ UNCHANGED <<past, raced, torn>>
        /\ writer'[w] = [at |-> "writing", before |-> me.text, id |-> me.id, entry |-> me.entry,
                         text |-> WithEntry(me.text, me.id, block)]
        /\ \A v \in Writers \ {w} : writer'[v] = writer[v]
    BY <1>1, <1>6 DEF OpenToWrite, fate
  <2>2. me.text \in Text /\ me.id \in Id /\ me.entry \in Entries
    <3>1. me \in [at : {"numbered"}, text : Text, entry : Entries, id : Id]
      BY <2>1, RunIs
    <3> HIDE DEF me
    <3> QED BY <3>1
  <2>3. Noticed(me.text.body)
    <3>1. AloneInv'
      BY AloneStep
    <3>2. RunKept(w)'
      BY <3>1 DEF AloneInv
    <3>3. writer'[w].at = "writing" /\ writer'[w].before = me.text
      BY <2>1
    <3> QED BY <3>2, <3>3 DEF RunKept, Noticed
  <2>4. writer'[w].at = "writing" /\ writer'[w].text = WithEntry(me.text, me.id, block)
    BY <2>1
  <2>5. block \in Seq(Line)
    BY <2>2, EntriesIs, RenderedIs
  <2> HIDE DEF block
  <2>6. ASSUME Safe PROVE Safe'
    <3>1. Held' = Held
      BY <2>1 DEF Held
    <3>2. me # NotRunning
      BY <2>1 DEF NotRunning
    <3>3. Has(me.text.body, Held)
      BY <2>6, <3>2 DEF Safe
    <3>4. /\ IdsIn(me.text.body) \subseteq IdsIn(writer'[w].text.body)
          /\ me.text.body # <<>>
      <4>1. me.text.body # <<>>
        <5>1. PICK rest \in Seq(Line) : me.text.body = Notice \o rest
          BY <2>3 DEF Noticed, Below
        <5> QED BY <5>1, NoticeIsSomething
      <4> HIDE DEF me
      <4>2. IdsIn(me.text.body) \subseteq IdsIn(WithEntry(me.text, me.id, block).body)
        BY <2>2, <2>3, <2>5, AddKeepsIds
      <4> QED BY <2>4, <4>1, <4>2
    <3>5. Has(writer'[w].text.body, Held)
      BY <3>3, <3>4 DEF Has
    <3>6. \A v \in Writers \ {w} : writer'[v] # NotRunning => Has(writer'[v].text.body, Held)
      BY <2>1, <2>6 DEF Safe
    <3>7. log'.body = <<>>
      BY <2>1 DEF Emptied
    <3>8. \E v \in Writers : writer'[v].at = "writing"
      BY <2>4
    <3> HIDE DEF me
    <3> QED BY <3>1, <3>5, <3>6, <3>7, <3>8 DEF Safe, Has
  <2> QED BY <2>1, <2>6 DEF SurvivalInv
<1>7. ASSUME NEW w \in Writers, WriteLog(w) PROVE SurvivalInv'
  <2>1. /\ writer[w].at = "writing" /\ log' = writer[w].text /\ Remember(Others(w))
        /\ writer'[w] = NotRunning
        /\ \A v \in Writers \ {w} : writer'[v] = writer[v]
        /\ torn' = torn
    BY <1>1, <1>7 DEF WriteLog, Remember
  <2>2. log'.body # <<>>
    <3>1. AloneInv'
      BY AloneStep
    <3>2. writer[w] \in [at : {"writing"}, before : Text, id : Id, entry : Entries, text : Text]
      BY <2>1, RunIs
    <3>3. /\ Noticed(writer[w].before.body) /\ writer[w].before \in Text /\ writer[w].id \in Id
          /\ writer[w].entry \in Entries
          /\ writer[w].text = WithEntry(writer[w].before, writer[w].id,
                                        RenderEntry(writer[w].id, writer[w].entry))
      BY <1>1, <2>1, <3>2 DEF RunKept
    <3>4. RenderEntry(writer[w].id, writer[w].entry) \in Seq(Line)
      BY <3>3, EntriesIs, RenderedIs
    <3> QED BY <2>1, <3>3, <3>4, AddKeepsIds
  <2>3. ASSUME Safe PROVE Safe'
    <3>1. Held \subseteq IdsIn(log'.body)
      <4>1. writer[w] # NotRunning
        BY <2>1 DEF NotRunning
      <4>2. Has(writer[w].text.body, Held)
        BY <2>3, <4>1 DEF Safe
      <4> QED BY <2>1, <2>2, <4>2 DEF Has
    <3>2. Held' \subseteq IdsIn(log'.body)
      BY <2>1, <3>1, HeldMoves
    <3>3. ASSUME NEW v \in Writers, writer'[v] # NotRunning
          PROVE  Has(writer'[v].text.body, Held')
      <4>1. v # w /\ writer[v] # NotRunning /\ writer'[v] = writer[v]
        BY <2>1, <3>3
      <4>2. Others(w) # {}
        BY <4>1 DEF Others
      <4>3. Held' \subseteq Held
        BY <2>1, <4>2, HeldMoves
      <4>4. Has(writer[v].text.body, Held)
        BY <2>3, <4>1 DEF Safe
      <4> QED BY <4>1, <4>3, <4>4 DEF Has
    <3> QED BY <2>2, <3>2, <3>3 DEF Safe, Has
  <2> QED BY <2>1, <2>3 DEF SurvivalInv
<1>8. ASSUME NEW form \in Forms, NEW updates \in BOOLEAN, EditByHand(form, updates) PROVE SurvivalInv'
  <2> DEFINE id     == NextId(log.body)
             b      == log.body
             block  == HandWritten(id, form)
             body   == SubSeq(b, 1, Marker(b)) \o block \o SubSeq(b, Marker(b) + 1, Len(b))
             atWork == {v \in Writers : writer[v] # NotRunning}
  <2>1. /\ Marker(b) # 0
        /\ log' \in {[log EXCEPT !.body = body, !.latest = id, !.total = Len(Headings(body))],
                     [log EXCEPT !.body = body]}
        /\ Remember(atWork) /\ writer' = writer /\ torn' = torn
    BY <1>8 DEF EditByHand, Remember
  <2>2. block \in Seq(Line)
    <3>1. id \in Id
      BY <1>1, NextIdIs
    <3> HIDE DEF id
    <3> QED BY <3>1, HandWrittenIs
  <2> HIDE DEF block
  <2>3. b # <<>>
    <3>1. ASSUME b = <<>> PROVE FALSE
      <4>1. b \in Seq(Line) /\ Len(b) = 0
        BY <1>1, <3>1
      <4> HIDE DEF b
      <4>2. Marker(b) \in 0 .. Len(b)
        BY <4>1, MarkerIs
      <4> QED BY <2>1, <4>1, <4>2
    <3> QED BY <3>1
  <2>4. Noticed(b)
    BY <1>1, <2>3 DEF Shape
  <2>5. log'.body = body
    <3> HIDE DEF body, id
    <3> QED BY <1>1, <2>1 DEF Text
  <2>6. IdsIn(b) \subseteq IdsIn(body) /\ body # <<>>
    <3> HIDE DEF b
    <3> QED BY <2>2, <2>4, PutKeepsIds
  <2> HIDE DEF body, atWork
  <2>7. ASSUME Safe PROVE Safe'
    <3>1. Held \subseteq IdsIn(log'.body)
      BY <2>3, <2>5, <2>6, <2>7 DEF Safe, Has
    <3>2. Held' \subseteq IdsIn(log'.body)
      BY <2>1, <3>1, HeldMoves
    <3>3. ASSUME NEW v \in Writers, writer'[v] # NotRunning
          PROVE  Has(writer'[v].text.body, Held')
      <4>1. writer[v] # NotRunning /\ writer'[v] = writer[v]
        BY <2>1, <3>3
      <4>2. atWork # {}
        BY <4>1 DEF atWork
      <4>3. Held' \subseteq Held
        BY <2>1, <4>2, HeldMoves
      <4>4. Has(writer[v].text.body, Held)
        BY <2>7, <4>1 DEF Safe
      <4> QED BY <4>1, <4>3, <4>4 DEF Has
    <3> QED BY <2>5, <2>6, <3>2, <3>3 DEF Safe, Has
  <2> QED BY <2>1, <2>7 DEF SurvivalInv
<1>9. ASSUME NextDay PROVE SurvivalInv'
  BY <1>2, <1>9 DEF NextDay, fate
<1>10. ASSUME UNCHANGED logVars PROVE SurvivalInv'
  BY <1>2, <1>10 DEF logVars, fate
<1> QED BY <1>3, <1>4, <1>5, <1>6, <1>7, <1>8, <1>9, <1>10
        DEF CheckoutNext, CheckoutEvent, CheckoutStep, LogEvent, AddStep, checkoutVars

(* However many runs of `add` overlap, and whatever is written by hand in   *)
(* between: while no run has died with the file emptied, no heading that    *)
(* came while nobody else was at work is lost, for logs of any length.      *)
THEOREM HeldEntriesSurvive == CheckoutSpec => []EntriesSurvive
<1>1. LogTyped /\ AloneInv /\ SurvivalInv => EntriesSurvive
  <2> SUFFICES ASSUME LogTyped, AloneInv, Safe
               PROVE  \/ Held \subseteq IdsIn(log.body)
                      \/ \E w \in Writers : /\ writer[w].at = "writing"
                                           /\ Held \subseteq IdsIn(writer[w].text.body)
    BY DEF SurvivalInv, EntriesSurvive, Held
  <2>1. CASE log.body # <<>>
    BY <2>1 DEF Safe, Has
  <2>2. CASE log.body = <<>>
    <3>1. PICK w \in Writers : writer[w].at = "writing"
      BY <2>2 DEF Safe
    <3>2. writer[w] \in [at : {"writing"}, before : Text, id : Id, entry : Entries, text : Text]
      BY <3>1, RunIs
    <3>3. /\ Noticed(writer[w].before.body) /\ writer[w].before \in Text /\ writer[w].id \in Id
          /\ writer[w].entry \in Entries
          /\ writer[w].text = WithEntry(writer[w].before, writer[w].id,
                                        RenderEntry(writer[w].id, writer[w].entry))
      BY <3>1, <3>2 DEF AloneInv, RunKept
    <3>4. RenderEntry(writer[w].id, writer[w].entry) \in Seq(Line)
      BY <3>3, EntriesIs, RenderedIs
    <3>5. writer[w].text.body # <<>>
      BY <3>3, <3>4, AddKeepsIds
    <3>6. writer[w] # NotRunning
      BY <3>1 DEF NotRunning
    <3>7. Has(writer[w].text.body, Held)
      BY <3>6 DEF Safe
    <3> QED BY <3>1, <3>5, <3>7 DEF Has
  <2> QED BY <2>1, <2>2
<1> QED BY <1>1, LogTypedInit, LogTypedStep, AloneInit, AloneStep, SurvivalInit, SurvivalStep,
           PTL DEF CheckoutSpec

-----------------------------------------------------------------------------
(***************************************************************************)
(* The index document.  What replace_marker_block makes of a document is a *)
(* function of how many lines are left; that the function exists and yields*)
(* texts of lines is an induction over the numbers, which comes from finite*)
(* sets of numbers having a smallest member.                               *)
(***************************************************************************)

Marks     == [k : {"begin", "end"}, exact : BOOLEAN]
IndexLine == Marks \cup {Refs(files) : files \in SUBSET Files}
Doc == Seq(IndexLine)

LEMMA IndexLinesDiffer ==
    /\ Begin # End
    /\ \A refs : Refs(refs) # Begin /\ Refs(refs) # End
    /\ \A refs : Refs(refs).k = "refs" /\ Refs(refs).files = refs
    /\ Begin.k # "refs" /\ End.k # "refs"
    /\ Begin \in IndexLine /\ End \in IndexLine
    /\ \A line \in IndexLine : IsMarker(line) => Respelt(line) \in IndexLine
BY DEF Begin, End, Refs, IndexLine, Marks, IsMarker, Respelt

(* The first line of a kind.                                                *)
LEMMA FirstIs ==
    ASSUME NEW S, NEW doc \in Seq(S), NEW line
    PROVE  /\ FirstOf(line, doc) \in 0 .. Len(doc)
           /\ FirstOf(line, doc) = 0 <=> \A i \in 1 .. Len(doc) : doc[i] # line
           /\ FirstOf(line, doc) # 0 =>
                /\ doc[FirstOf(line, doc)] = line
                /\ \A i \in 1 .. (FirstOf(line, doc) - 1) : doc[i] # line
<1> DEFINE I == {i \in 1 .. Len(doc) : doc[i] = line}
           at == FirstOf(line, doc)
<1>1. Len(doc) \in Nat /\ DOMAIN doc = 1 .. Len(doc)
  BY LenProperties
<1>2. at = IF I # {} THEN CHOOSE x \in I : \A y \in I : x <= y ELSE 0
  BY DEF FirstOf, SelectInSeq, Min
<1>3. I # {} => \E x \in I : \A y \in I : x <= y
  <2>1. Places(I)
    BY <1>1, PlacesOfText
  <2> HIDE DEF I
  <2> QED BY <2>1, Extremes
<1>4. I # {} => at \in I /\ \A y \in I : at <= y
  <2> HIDE DEF I, at
  <2> QED BY <1>2, <1>3
<1>5. I = {} => at = 0
  BY <1>2
<1>6. \A i \in 1 .. Len(doc) : i \in I <=> doc[i] = line
  OBVIOUS
<1>7. I \in SUBSET (1 .. Len(doc))
  OBVIOUS
<1> HIDE DEF I, at
<1>8. at \in 0 .. Len(doc)
  <2>1. CASE I = {}
    BY <1>1, <1>5, <2>1
  <2>2. CASE I # {}
    <3>1. at \in 1 .. Len(doc)
      BY <1>4, <1>7, <2>2
    <3> QED BY <1>1, <3>1
  <2> QED BY <2>1, <2>2
<1>9. ASSUME at = 0 PROVE \A i \in 1 .. Len(doc) : doc[i] # line
  BY <1>4, <1>6, <1>7, <1>9
<1>10. ASSUME \A i \in 1 .. Len(doc) : doc[i] # line PROVE at = 0
  BY <1>5, <1>6, <1>7, <1>10
<1>11. ASSUME at # 0, NEW i \in 1 .. (at - 1) PROVE doc[i] # line
  BY <1>1, <1>4, <1>5, <1>6, <1>8, <1>11
<1>12. ASSUME at # 0 PROVE doc[at] = line
  BY <1>4, <1>5, <1>6, <1>7, <1>12
<1> QED BY <1>8, <1>9, <1>10, <1>11, <1>12 DEF at

(* A text has a block where it has an END after its first BEGIN.            *)
LEMMA BlockIs ==
    ASSUME NEW S, NEW doc \in Seq(S)
    PROVE  LET at == FirstBlock(doc)
               b  == FirstOf(Begin, doc)
           IN  /\ at[1] = 0 /\ at[2] = 0 =>
                     b = 0 \/ \A j \in 1 .. Len(doc) : j > b => doc[j] # End
               /\ at[1] # 0 => /\ b # 0 /\ at[1] = b
                               /\ at[2] \in 1 .. Len(doc) /\ at[2] > b /\ doc[at[2]] = End
                               /\ \A j \in 1 .. Len(doc) : j > b /\ doc[j] = End => at[2] <= j
               /\ at[1] = 0 => at[2] = 0
<1> DEFINE b == FirstOf(Begin, doc)
           I == {j \in 1 .. Len(doc) : b # 0 /\ j > b /\ doc[j] = End}
           at == FirstBlock(doc)
<1>1. Len(doc) \in Nat /\ DOMAIN doc = 1 .. Len(doc) /\ b \in 0 .. Len(doc)
  BY LenProperties, FirstIs
<1>2. at = IF I = {} THEN <<0, 0>> ELSE <<b, CHOOSE j \in I : \A i \in I : j <= i>>
  BY <1>1 DEF FirstBlock
<1>3. I # {} => \E j \in I : \A i \in I : j <= i
  <2>1. Places(I)
    BY <1>1, PlacesOfText
  <2> HIDE DEF I
  <2> QED BY <2>1, Extremes
<1>4. CASE I = {}
  <2>1. at[1] = 0 /\ at[2] = 0
    BY <1>2, <1>4
  <2>2. b = 0 \/ \A j \in 1 .. Len(doc) : j > b => doc[j] # End
    BY <1>4
  <2> HIDE DEF at, b
  <2> QED BY <2>1, <2>2 DEF at, b
<1>5. CASE I # {}
  <2>1. /\ at[1] = b /\ at[2] \in I /\ \A i \in I : at[2] <= i
    <3> HIDE DEF I, b, at
    <3> QED BY <1>2, <1>3, <1>5
  <2>2. b # 0 /\ at[2] \in 1 .. Len(doc) /\ at[2] > b /\ doc[at[2]] = End
    <3> HIDE DEF b, at
    <3> QED BY <2>1
  <2>3. ASSUME NEW j \in 1 .. Len(doc), j > b, doc[j] = End PROVE at[2] <= j
    <3>1. j \in I
      BY <2>2, <2>3
    <3> HIDE DEF I, at, b
    <3> QED BY <2>1, <3>1
  <2> HIDE DEF at, b, I
  <2> QED BY <2>1, <2>2, <2>3 DEF at, b
<1> QED BY <1>4, <1>5

(* What becomes of the last n lines, given what becomes of fewer.           *)
Ends(doc, n) == SubSeq(doc, Len(doc) - n + 1, Len(doc))
Replaced(doc, refs, g, n) ==
  LET text == SubSeq(doc, Len(doc) - n + 1, Len(doc))
      at   == FirstBlock(text)
  IN  IF at[1] = 0 THEN text
      ELSE SubSeq(text, 1, at[1]) \o <<Refs(refs), End>> \o g[n - at[2]]
Replaces(doc, refs, g, n) == g = [m \in 0 .. n |-> Replaced(doc, refs, g, m)]

LEMMA NatInduct ==
    ASSUME NEW S \in SUBSET Nat, 0 \in S, \A n \in S : n + 1 \in S
    PROVE  S = Nat
<1> SUFFICES ASSUME NEW k \in Nat \ S PROVE FALSE
  OBVIOUS
<1> DEFINE I == {m \in 0 .. k : m \notin S}
<1>1. Places(I) /\ k \in I
  <2>1. I \in SUBSET (0 .. k) /\ k \in I /\ 0 \in Nat /\ k \in Nat
    OBVIOUS
  <2> HIDE DEF I
  <2>2. IsFiniteSet(0 .. k)
    BY <2>1, FS_Interval
  <2>3. IsFiniteSet(I)
    BY <2>1, <2>2, FS_Subset
  <2> QED BY <2>1, <2>3 DEF Places
<1>2. PICK m \in I : \A l \in I : m <= l
  <2> HIDE DEF I
  <2> QED BY <1>1, Extremes
<1>3. m \in 0 .. k /\ m \notin S /\ m # 0
  BY <1>2
<1>4. m - 1 \in 0 .. k /\ m - 1 \notin I
  BY <1>2, <1>3
<1>5. m - 1 \in S /\ (m - 1) + 1 = m
  BY <1>3, <1>4
<1> QED BY <1>3, <1>5

LEMMA EndsAre ==
    ASSUME NEW doc \in Doc, NEW n \in 0 .. Len(doc)
    PROVE  Ends(doc, n) \in Doc /\ Len(Ends(doc, n)) = n
BY SubSeqProperties DEF Doc, Ends

LEMMA ReplacedUses ==
    ASSUME NEW doc \in Doc, NEW refs, NEW g, NEW h, NEW n \in 0 .. Len(doc),
           \A m \in 0 .. n - 1 : g[m] = h[m]
    PROVE  Replaced(doc, refs, g, n) = Replaced(doc, refs, h, n)
<1> DEFINE at == FirstBlock(Ends(doc, n))
<1>1. Ends(doc, n) \in Seq(IndexLine) /\ Len(Ends(doc, n)) = n /\ n \in Nat
  BY EndsAre, LenProperties DEF Doc
<1>2. at[1] # 0 => at[2] \in 1 .. n
  BY <1>1, BlockIs
<1> HIDE DEF at
<1>3. at[1] # 0 => n - at[2] \in 0 .. n - 1
  BY <1>1, <1>2
<1>4. at[1] # 0 => g[n - at[2]] = h[n - at[2]]
  BY <1>3
<1> QED BY <1>4 DEF Replaced, Ends, at

LEMMA ReplacesExists ==
    ASSUME NEW doc \in Doc, NEW refs, NEW n \in 0 .. Len(doc)
    PROVE  \E g : Replaces(doc, refs, g, n)
<1> DEFINE S == {m \in Nat : m <= Len(doc) => \E g : Replaces(doc, refs, g, m)}
<1>1. Len(doc) \in Nat
  BY LenProperties DEF Doc
<1>2. 0 \in S
  <2> DEFINE g == [i \in 0 .. 0 |-> Replaced(doc, refs, <<>>, 0)]
  <2>1. Replaced(doc, refs, g, 0) = Replaced(doc, refs, <<>>, 0)
    <3> HIDE DEF g
    <3>1. 0 \in 0 .. Len(doc) /\ \A m \in 0 .. 0 - 1 : g[m] = <<>>[m]
      BY <1>1
    <3> QED BY <3>1, ReplacedUses
  <2>2. g = [i \in 0 .. 0 |-> Replaced(doc, refs, g, i)]
    BY <2>1
  <2> QED BY <2>2 DEF Replaces
<1>3. ASSUME NEW m \in S PROVE m + 1 \in S
  <2> SUFFICES ASSUME m + 1 <= Len(doc) PROVE \E g : Replaces(doc, refs, g, m + 1)
    BY <1>3
  <2>1. PICK g : Replaces(doc, refs, g, m)
    BY <1>1, <1>3
  <2> DEFINE h == [i \in 0 .. m + 1 |-> IF i = m + 1 THEN Replaced(doc, refs, g, i) ELSE g[i]]
  <2>2. \A i \in 0 .. m : h[i] = g[i]
    BY <1>3
  <2>3. DOMAIN h = 0 .. m + 1 /\ h = [i \in DOMAIN h |-> h[i]] /\ h[m + 1] = Replaced(doc, refs, g, m + 1)
    BY <1>3
  <2> HIDE DEF h, S
  <2>4. ASSUME NEW i \in 0 .. m + 1 PROVE h[i] = Replaced(doc, refs, h, i)
    <3>1. m \in Nat /\ i \in 0 .. Len(doc) /\ \A k \in 0 .. i - 1 : g[k] = h[k]
      BY <1>1, <1>3, <2>2 DEF S
    <3>2. Replaced(doc, refs, g, i) = Replaced(doc, refs, h, i)
      BY <3>1, ReplacedUses
    <3>3. CASE i = m + 1
      BY <2>3, <3>2, <3>3
    <3>4. CASE i # m + 1
      <4>1. i \in 0 .. m
        BY <3>1, <3>4
      <4>2. g[i] = Replaced(doc, refs, g, i)
        BY <2>1, <4>1 DEF Replaces
      <4> QED BY <2>2, <3>2, <4>1, <4>2
    <3> QED BY <3>3, <3>4
  <2>5. Replaces(doc, refs, h, m + 1)
    BY <2>3, <2>4, Zenon DEF Replaces
  <2> QED BY <2>5
<1>4. S = Nat
  <2> HIDE DEF S
  <2>1. S \in SUBSET Nat
    BY DEF S
  <2> QED BY <1>2, <1>3, <2>1, NatInduct
<1>5. n \in S /\ n <= Len(doc)
  BY <1>1, <1>4
<1> QED BY <1>5

LEMMA ReplaceBlocksIs ==
    ASSUME NEW doc \in Doc, NEW refs
    PROVE  \E g : Replaces(doc, refs, g, Len(doc)) /\ ReplaceBlocks(doc, refs) = g[Len(doc)]
<1> DEFINE f == CHOOSE g : Replaces(doc, refs, g, Len(doc))
<1>1. Replaces(doc, refs, f, Len(doc))
  <2>1. Len(doc) \in 0 .. Len(doc)
    BY LenProperties DEF Doc
  <2> QED BY <2>1, ReplacesExists
<1>2. ReplaceBlocks(doc, refs) = f[Len(doc)]
  BY DEF ReplaceBlocks, Replaces, Replaced
<1> HIDE DEF f
<1> QED BY <1>1, <1>2

Filling(refs) == <<Refs(refs), End>>

LEMMA FillingIs ==
    ASSUME NEW refs \in SUBSET Files
    PROVE  /\ Filling(refs) \in Doc /\ Len(Filling(refs)) = 2
           /\ Filling(refs)[1] = Refs(refs) /\ Filling(refs)[2] = End
<1>1. Refs(refs) \in IndexLine /\ End \in IndexLine
  BY IndexLinesDiffer DEF IndexLine
<1> QED BY <1>1 DEF Filling, Doc

(* Each text a document ends in becomes a text of lines.                    *)
LEMMA ReplacedIsText ==
    ASSUME NEW doc \in Doc, NEW refs \in SUBSET Files, NEW g, Replaces(doc, refs, g, Len(doc)),
           NEW n \in 0 .. Len(doc)
    PROVE  g[n] \in Doc
<1> DEFINE S == {m \in Nat : \A i \in 0 .. m : i <= Len(doc) => g[i] \in Doc}
<1>1. Len(doc) \in Nat
  BY LenProperties DEF Doc
<1>2. ASSUME NEW i \in 0 .. Len(doc), \A j \in 0 .. i - 1 : g[j] \in Doc PROVE g[i] \in Doc
  <2> DEFINE text == Ends(doc, i)
             at   == FirstBlock(text)
  <2>1. text \in Doc /\ Len(text) = i /\ i \in Nat
    BY EndsAre
  <2>2. at[1] # 0 => at[2] \in 1 .. i
    BY <2>1, BlockIs DEF Doc
  <2>3. g[i] = Replaced(doc, refs, g, i)
    BY DEF Replaces
  <2>4. g[i] = IF at[1] = 0 THEN text ELSE SubSeq(text, 1, at[1]) \o Filling(refs) \o g[i - at[2]]
    BY <2>3 DEF Replaced, Ends, Filling
  <2>5. at[1] # 0 => at[1] \in 0 .. i
    BY <2>1, BlockIs, FirstIs DEF Doc
  <2> HIDE DEF text, at
  <2>6. CASE at[1] # 0
    <3>1. i - at[2] \in 0 .. i - 1
      BY <2>1, <2>2, <2>6
    <3>2. g[i - at[2]] \in Seq(IndexLine)
      BY <1>2, <3>1 DEF Doc
    <3>3. SubSeq(text, 1, at[1]) \in Seq(IndexLine)
      BY <2>1, <2>5, <2>6, SubSeqProperties DEF Doc
    <3>4. Filling(refs) \in Seq(IndexLine)
      BY FillingIs DEF Doc
    <3>5. SubSeq(text, 1, at[1]) \o Filling(refs) \o g[i - at[2]] \in Seq(IndexLine)
      BY <3>2, <3>3, <3>4, ConcatProperties
    <3> QED BY <2>4, <2>6, <3>5 DEF Doc
  <2> QED BY <2>1, <2>4, <2>6
<1>3. 0 \in S
  <2>1. 0 \in 0 .. Len(doc) /\ \A j \in 0 .. 0 - 1 : g[j] \in Doc
    BY <1>1
  <2>2. g[0] \in Doc
    BY <1>2, <2>1
  <2> QED BY <2>2
<1>4. ASSUME NEW m \in S PROVE m + 1 \in S
  <2>1. m \in Nat /\ \A i \in 0 .. m : i <= Len(doc) => g[i] \in Doc
    OBVIOUS
  <2>2. m + 1 <= Len(doc) => g[m + 1] \in Doc
    <3> SUFFICES ASSUME m + 1 <= Len(doc) PROVE g[m + 1] \in Doc
      OBVIOUS
    <3>1. m + 1 \in 0 .. Len(doc) /\ \A j \in 0 .. (m + 1) - 1 : g[j] \in Doc
      BY <1>1, <2>1
    <3> QED BY <1>2, <3>1
  <2>3. \A i \in 0 .. m + 1 : i <= Len(doc) => g[i] \in Doc
    BY <2>1, <2>2
  <2> QED BY <2>1, <2>3
<1>5. S = Nat
  <2> HIDE DEF S
  <2>1. S \in SUBSET Nat
    BY DEF S
  <2> QED BY <1>3, <1>4, <2>1, NatInduct
<1>6. n \in S /\ n \in 0 .. n /\ n <= Len(doc)
  BY <1>1, <1>5
<1> QED BY <1>6

(* The first block is replaced, and what follows it is a text.              *)
LEMMA ReplaceBlocksGives ==
    ASSUME NEW doc \in Doc, NEW refs \in SUBSET Files
    PROVE  LET at == FirstBlock(doc)
           IN  /\ at[1] = 0 => ReplaceBlocks(doc, refs) = doc
               /\ at[1] # 0 => \E rest \in Doc : ReplaceBlocks(doc, refs) =
                                  SubSeq(doc, 1, at[1]) \o Filling(refs) \o rest
<1> DEFINE at == FirstBlock(doc)
<1>1. PICK g : Replaces(doc, refs, g, Len(doc)) /\ ReplaceBlocks(doc, refs) = g[Len(doc)]
  BY ReplaceBlocksIs
<1>2. Len(doc) \in Nat /\ Len(doc) \in 0 .. Len(doc)
  BY LenProperties DEF Doc
<1>3. g[Len(doc)] = Replaced(doc, refs, g, Len(doc))
  BY <1>1, <1>2 DEF Replaces
<1>4. SubSeq(doc, Len(doc) - Len(doc) + 1, Len(doc)) = doc
  BY <1>2, SubSeqFull DEF Doc
<1>5. g[Len(doc)] = IF at[1] = 0 THEN doc ELSE SubSeq(doc, 1, at[1]) \o Filling(refs) \o g[Len(doc) - at[2]]
  BY <1>3, <1>4 DEF Replaced, Filling
<1>6. at[1] # 0 => at[2] \in 1 .. Len(doc)
  BY BlockIs DEF Doc
<1> HIDE DEF at
<1>7. at[1] # 0 => Len(doc) - at[2] \in 0 .. Len(doc)
  BY <1>2, <1>6
<1>8. at[1] # 0 => g[Len(doc) - at[2]] \in Doc
  BY <1>1, <1>7, ReplacedIsText
<1> QED BY <1>1, <1>5, <1>8 DEF at

LEMMA Joined ==
    ASSUME NEW S, NEW s \in Seq(S), NEW t \in Seq(S), NEW z, z = s \o t
    PROVE  /\ z \in Seq(S) /\ Len(z) = Len(s) + Len(t)
           /\ Len(s) \in Nat /\ Len(t) \in Nat
           /\ \A i \in 1 .. Len(s) : i \in 1 .. Len(z) /\ z[i] = s[i]
           /\ \A i \in 1 .. Len(t) : Len(s) + i \in 1 .. Len(z) /\ z[Len(s) + i] = t[i]
<1>1. /\ z \in Seq(S) /\ Len(z) = Len(s) + Len(t) /\ Len(s) \in Nat /\ Len(t) \in Nat
      /\ \A i \in 1 .. Len(s) + Len(t) : z[i] = IF i <= Len(s) THEN s[i] ELSE t[i - Len(s)]
  BY ConcatProperties, LenProperties
<1>2. ASSUME NEW i \in 1 .. Len(s) PROVE i \in 1 .. Len(z) /\ z[i] = s[i]
  BY <1>1
<1>3. ASSUME NEW i \in 1 .. Len(t) PROVE Len(s) + i \in 1 .. Len(z) /\ z[Len(s) + i] = t[i]
  <2>1. Len(s) + i \in 1 .. Len(s) + Len(t) /\ ~(Len(s) + i <= Len(s)) /\ Len(s) + i - Len(s) = i
    BY <1>1
  <2>2. z[Len(s) + i] = t[Len(s) + i - Len(s)]
    BY <1>1, <2>1
  <2> QED BY <1>1, <2>1, <2>2
<1> QED BY <1>1, <1>2, <1>3

LEMMA FirstFound ==
    ASSUME NEW S, NEW doc \in Seq(S), NEW line, NEW k \in 1 .. Len(doc), doc[k] = line,
           \A i \in 1 .. (k - 1) : doc[i] # line
    PROVE  FirstOf(line, doc) = k
<1> DEFINE b == FirstOf(line, doc)
<1>1. /\ b \in 0 .. Len(doc)
      /\ b = 0 <=> \A i \in 1 .. Len(doc) : doc[i] # line
      /\ b # 0 => doc[b] = line /\ \A i \in 1 .. (b - 1) : doc[i] # line
  BY FirstIs
<1>2. Len(doc) \in Nat
  BY LenProperties
<1> HIDE DEF b
<1>3. b # 0
  BY <1>1
<1>4. ~(b < k) /\ ~(k < b)
  BY <1>1, <1>2, <1>3
<1> QED BY <1>1, <1>2, <1>3, <1>4 DEF b

(* A text with a block at place b that holds one list of files.              *)
Filled(text, b, refs) ==
    /\ text \in Doc /\ b \in 1 .. Len(text) /\ b + 2 <= Len(text)
    /\ FirstBlock(text)[1] = b /\ FirstBlock(text)[2] = b + 2
    /\ text[b] = Begin /\ text[b + 1] = Refs(refs) /\ text[b + 2] = End

LEMMA FilledIs ==
    ASSUME NEW p \in Doc, NEW rest \in Doc, NEW refs \in SUBSET Files,
           Len(p) # 0, FirstOf(Begin, p) = Len(p),
           NEW text, text = p \o Filling(refs) \o rest
    PROVE  Filled(text, Len(p), refs)
<1>1. p \in Seq(IndexLine) /\ rest \in Seq(IndexLine) /\ Filling(refs) \in Seq(IndexLine)
      /\ Len(p) \in Nat /\ Len(rest) \in Nat /\ Len(Filling(refs)) = 2
      /\ Filling(refs)[1] = Refs(refs) /\ Filling(refs)[2] = End
  BY FillingIs, LenProperties DEF Doc
<1> DEFINE head == p \o Filling(refs)
<1>2. /\ head \in Seq(IndexLine) /\ Len(head) = Len(p) + 2
      /\ \A i \in 1 .. Len(p) : head[i] = p[i]
      /\ head[Len(p) + 1] = Refs(refs) /\ head[Len(p) + 2] = End
  <2>1. /\ head \in Seq(IndexLine) /\ Len(head) = Len(p) + Len(Filling(refs))
        /\ \A i \in 1 .. Len(p) : i \in 1 .. Len(head) /\ head[i] = p[i]
        /\ \A i \in 1 .. Len(Filling(refs)) : head[Len(p) + i] = Filling(refs)[i]
    <3>1. head = p \o Filling(refs) /\ p \in Seq(IndexLine) /\ Filling(refs) \in Seq(IndexLine)
      BY <1>1
    <3> HIDE DEF head
    <3> QED BY <3>1, Joined
  <2> HIDE DEF head
  <2>2. 1 \in 1 .. Len(Filling(refs)) /\ 2 \in 1 .. Len(Filling(refs))
    BY <1>1
  <2>3. head[Len(p) + 1] = Filling(refs)[1] /\ head[Len(p) + 2] = Filling(refs)[2]
    BY <2>1, <2>2
  <2> QED BY <1>1, <2>1, <2>3
<1> HIDE DEF head
<1>3. /\ text \in Seq(IndexLine) /\ Len(text) = Len(head) + Len(rest)
      /\ \A i \in 1 .. Len(head) : text[i] = head[i]
  <2>1. text = head \o rest /\ head \in Seq(IndexLine) /\ rest \in Seq(IndexLine)
    BY <1>1, <1>2 DEF head
  <2> QED BY <2>1, Joined
<1>4. /\ \A i \in 1 .. Len(p) : text[i] = p[i]
      /\ text[Len(p) + 1] = Refs(refs) /\ text[Len(p) + 2] = End
  <2>1. /\ \A i \in 1 .. Len(p) : i \in 1 .. Len(head)
        /\ Len(p) + 1 \in 1 .. Len(head) /\ Len(p) + 2 \in 1 .. Len(head)
    BY <1>1, <1>2
  <2>2. /\ \A i \in 1 .. Len(p) : text[i] = head[i]
        /\ text[Len(p) + 1] = head[Len(p) + 1] /\ text[Len(p) + 2] = head[Len(p) + 2]
    BY <1>3, <2>1
  <2> QED BY <1>2, <2>2
<1>5. p[Len(p)] = Begin /\ \A i \in 1 .. (Len(p) - 1) : p[i] # Begin
  <2>1. p \in Seq(IndexLine)
    BY <1>1
  <2>2. FirstOf(Begin, p) # 0 =>
          /\ p[FirstOf(Begin, p)] = Begin
          /\ \A i \in 1 .. (FirstOf(Begin, p) - 1) : p[i] # Begin
    BY <2>1, FirstIs
  <2> QED BY <2>2
<1>6. text[Len(p)] = Begin /\ \A i \in 1 .. (Len(p) - 1) : text[i] # Begin
  <2>1. /\ Len(p) \in 1 .. Len(p)
        /\ \A i \in 1 .. (Len(p) - 1) : i \in 1 .. Len(p)
    BY <1>1
  <2> QED BY <1>4, <1>5, <2>1
<1>7. FirstOf(Begin, text) = Len(p)
  <2>1. text \in Seq(IndexLine) /\ Len(p) \in 1 .. Len(text)
    BY <1>1, <1>2, <1>3
  <2> QED BY <1>6, <2>1, FirstFound
<1>8. FirstBlock(text)[1] = Len(p) /\ FirstBlock(text)[2] = Len(p) + 2
  <2> DEFINE at == FirstBlock(text)
  <2>1. /\ at[1] = 0 => at[2] = 0
        /\ at[1] = 0 /\ at[2] = 0 => \A j \in 1 .. Len(text) : j > Len(p) => text[j] # End
        /\ at[1] # 0 => /\ at[1] = Len(p)
                        /\ at[2] \in 1 .. Len(text) /\ at[2] > Len(p) /\ text[at[2]] = End
                        /\ \A j \in 1 .. Len(text) : j > Len(p) /\ text[j] = End => at[2] <= j
    BY <1>1, <1>3, <1>7, BlockIs
  <2> HIDE DEF at
  <2>2. Len(p) + 2 \in 1 .. Len(text) /\ Len(p) + 2 > Len(p) /\ text[Len(p) + 2] = End
    BY <1>1, <1>2, <1>3, <1>4
  <2>3. at[1] # 0
    BY <2>1, <2>2
  <2>4. at[2] <= Len(p) + 2 /\ at[2] # Len(p) + 1
    BY <1>4, <2>1, <2>2, <2>3, IndexLinesDiffer
  <2>5. at[2] \in Nat /\ at[2] > Len(p) /\ at[1] = Len(p)
    BY <2>1, <2>3
  <2>6. at[2] = Len(p) + 2
    <3>1. Len(p) \in Nat
      BY <1>1
    <3> QED BY <2>4, <2>5, <3>1
  <2> QED BY <2>5, <2>6 DEF at
<1>9. Len(p) \in 1 .. Len(text) /\ Len(p) + 2 <= Len(text)
  BY <1>1, <1>2, <1>3
<1> QED BY <1>3, <1>4, <1>6, <1>8, <1>9 DEF Filled, Doc

(* What such a block lists.                                                 *)
LEMMA FilledLists ==
    ASSUME NEW text, NEW b, NEW refs, Filled(text, b, refs)
    PROVE  Listed(SubSeq(text, b, b + 2)) = refs /\ refs \subseteq Listed(text)
<1>0. /\ text \in Doc /\ b \in 1 .. Len(text) /\ b + 2 <= Len(text)
      /\ text[b] = Begin /\ text[b + 1] = Refs(refs) /\ text[b + 2] = End
  BY DEF Filled
<1> DEFINE block == SubSeq(text, b, b + 2)
<1>1. Len(text) \in Nat /\ DOMAIN text = 1 .. Len(text) /\ b \in Nat
  BY <1>0, LenProperties DEF Doc
<1>2. /\ block \in Seq(IndexLine) /\ Len(block) = 3
      /\ block[1] = Begin /\ block[2] = Refs(refs) /\ block[3] = End
  <2>1. \A i \in b .. b + 2 : text[i] \in IndexLine
    BY <1>0, <1>1, ElementOfSeq DEF Doc
  <2>2. /\ block \in Seq(IndexLine)
        /\ Len(block) = IF b <= b + 2 THEN (b + 2) - b + 1 ELSE 0
        /\ \A i \in 1 .. (b + 2) - b + 1 : block[i] = text[b + i - 1]
    BY <1>1, <2>1, SubSeqProperties
  <2> HIDE DEF block
  <2>3. Len(block) = 3 /\ block[1] = text[b] /\ block[2] = text[b + 1] /\ block[3] = text[b + 2]
    BY <1>1, <2>2
  <2> QED BY <1>0, <2>2, <2>3
<1> HIDE DEF block
<1>3. DOMAIN block = 1 .. 3
  BY <1>2, LenProperties
<1>4. {j \in DOMAIN block : block[j].k = "refs"} = {2}
  <2>1. \A j \in DOMAIN block : j = 1 \/ j = 2 \/ j = 3
    BY <1>3
  <2>2. 2 \in DOMAIN block
    BY <1>3
  <2> QED BY <1>2, <2>1, <2>2, IndexLinesDiffer
<1>5. Listed(block) = refs
  BY <1>2, <1>4, IndexLinesDiffer DEF Listed
<1>6. refs \subseteq Listed(text)
  <2>1. b + 1 \in DOMAIN text /\ text[b + 1].k = "refs" /\ text[b + 1].files = refs
    BY <1>0, <1>1, IndexLinesDiffer
  <2> QED BY <2>1 DEF Listed
<1> QED BY <1>5, <1>6 DEF block

(* A document the generator has written holds its block, or no END follows  *)
(* its first BEGIN.                                                         *)
LEMMA InjectIs ==
    ASSUME NEW doc \in Doc, NEW refs \in SUBSET Files
    PROVE  \/ \E p \in Doc, rest \in Doc :
                /\ Len(p) # 0 /\ FirstOf(Begin, p) = Len(p)
                /\ Inject(doc, refs) = p \o Filling(refs) \o rest
           \/ /\ Inject(doc, refs) = doc
              /\ FirstOf(Begin, doc) # 0
              /\ \A j \in 1 .. Len(doc) : j > FirstOf(Begin, doc) => doc[j] # End
<1> DEFINE b  == FirstOf(Begin, doc)
           at == FirstBlock(doc)
<1>1. /\ doc \in Seq(IndexLine) /\ Len(doc) \in Nat /\ b \in 0 .. Len(doc)
      /\ b = 0 <=> \A i \in 1 .. Len(doc) : doc[i] # Begin
      /\ b # 0 => doc[b] = Begin /\ \A i \in 1 .. (b - 1) : doc[i] # Begin
  BY FirstIs, LenProperties DEF Doc
<1>2. CASE b = 0
  <2> DEFINE p == doc \o <<Begin>>
  <2>1. /\ <<Begin>> \in Seq(IndexLine) /\ Len(<<Begin>>) = 1 /\ <<Begin>>[1] = Begin
        /\ <<>> \in Seq(IndexLine) /\ Filling(refs) \in Seq(IndexLine)
    BY FillingIs, IndexLinesDiffer DEF Doc
  <2>2. /\ p \in Seq(IndexLine) /\ Len(p) = Len(doc) + 1 /\ p[Len(doc) + 1] = Begin
        /\ \A i \in 1 .. Len(doc) : p[i] # Begin
    <3>1. /\ p \in Seq(IndexLine) /\ Len(p) = Len(doc) + Len(<<Begin>>)
          /\ \A i \in 1 .. Len(doc) : p[i] = doc[i]
          /\ \A i \in 1 .. Len(<<Begin>>) : p[Len(doc) + i] = <<Begin>>[i]
      BY <1>1, <2>1, Joined
    <3>2. p[Len(doc) + 1] = Begin
      BY <2>1, <3>1
    <3> HIDE DEF p, b
    <3> QED BY <1>1, <1>2, <2>1, <3>1, <3>2
  <2>3. FirstOf(Begin, p) = Len(p)
    <3> HIDE DEF p, b
    <3>1. Len(p) \in 1 .. Len(p) /\ \A i \in 1 .. (Len(p) - 1) : p[i] # Begin
      BY <1>1, <2>2
    <3> QED BY <2>2, <3>1, FirstFound
  <2>4. Inject(doc, refs) = p \o Filling(refs) \o <<>>
    <3>1. Inject(doc, refs) = doc \o <<Begin, Refs(refs), End>>
      BY <1>2 DEF Inject
    <3>2. <<Begin>> \o Filling(refs) = <<Begin, Refs(refs), End>>
      <4> DEFINE z == <<Begin>> \o Filling(refs)
                 l == <<Begin, Refs(refs), End>>
      <4>1. /\ z \in Seq(IndexLine) /\ Len(z) = Len(<<Begin>>) + Len(Filling(refs))
            /\ \A i \in 1 .. Len(<<Begin>>) : z[i] = <<Begin>>[i]
            /\ \A i \in 1 .. Len(Filling(refs)) : z[Len(<<Begin>>) + i] = Filling(refs)[i]
        BY <2>1, Joined
      <4>2. /\ Filling(refs) \in Doc /\ Len(Filling(refs)) = 2
            /\ Filling(refs)[1] = Refs(refs) /\ Filling(refs)[2] = End
        BY FillingIs
      <4>3. /\ l \in Seq(IndexLine) /\ Len(l) = 3
            /\ l[1] = Begin /\ l[2] = Refs(refs) /\ l[3] = End
        BY IndexLinesDiffer DEF IndexLine
      <4> HIDE DEF z, l
      <4>4. Len(z) = 3 /\ z[1] = Begin /\ z[2] = Refs(refs) /\ z[3] = End
        BY <2>1, <4>1, <4>2
      <4>5. \A i \in 1 .. Len(z) : z[i] = l[i]
        BY <4>3, <4>4
      <4>6. z = l
        BY <4>1, <4>3, <4>4, <4>5, SeqEqual
      <4> QED BY <4>6 DEF z, l
    <3>3. p \o Filling(refs) = doc \o (<<Begin>> \o Filling(refs))
      BY <1>1, <2>1, ConcatAssociative
    <3>4. p \o Filling(refs) \in Seq(IndexLine)
      BY <2>1, <2>2, ConcatProperties
    <3>5. (p \o Filling(refs)) \o <<>> = p \o Filling(refs)
      BY <3>4, ConcatEmptySeq
    <3> QED BY <3>1, <3>2, <3>3, <3>5
  <2> HIDE DEF p, b
  <2>5. p \in Doc /\ <<>> \in Doc /\ Len(p) # 0
    BY <1>1, <2>1, <2>2 DEF Doc
  <2> QED BY <2>3, <2>4, <2>5
<1>3. CASE b # 0 /\ at[1] = 0
  <2>1. Inject(doc, refs) = doc
    BY <1>3, ReplaceBlocksGives DEF Inject
  <2>2. \A j \in 1 .. Len(doc) : j > b => doc[j] # End
    BY <1>1, <1>3, BlockIs
  <2> QED BY <1>3, <2>1, <2>2
<1>4. CASE b # 0 /\ at[1] # 0
  <2> DEFINE p == SubSeq(doc, 1, b)
  <2>1. at[1] = b
    BY <1>1, <1>4, BlockIs
  <2>2. PICK rest \in Doc : Inject(doc, refs) = p \o Filling(refs) \o rest
    BY <1>4, <2>1, ReplaceBlocksGives DEF Inject
  <2> HIDE DEF at
  <2>3. p \in Seq(IndexLine) /\ Len(p) = b /\ \A i \in 1 .. b : p[i] = doc[i]
    <3>1. b \in 1 .. Len(doc) /\ b \in Int /\ 1 \in Int
      BY <1>1, <1>4
    <3>2. \A i \in 1 .. b : doc[i] \in IndexLine
      BY <1>1, <3>1, ElementOfSeq
    <3> HIDE DEF b
    <3>3. /\ p \in Seq(IndexLine) /\ Len(p) = IF 1 <= b THEN b - 1 + 1 ELSE 0
          /\ \A i \in 1 .. b - 1 + 1 : p[i] = doc[1 + i - 1]
      BY <3>1, <3>2, SubSeqProperties
    <3> HIDE DEF p
    <3> QED BY <1>1, <3>1, <3>3
  <2>4. FirstOf(Begin, p) = Len(p)
    <3> HIDE DEF p, b
    <3>1. p[b] = Begin /\ b \in 1 .. Len(p) /\ \A i \in 1 .. (b - 1) : p[i] # Begin
      BY <1>1, <1>4, <2>3
    <3> QED BY <2>3, <3>1, FirstFound
  <2> HIDE DEF p, b
  <2>5. p \in Doc /\ Len(p) # 0
    BY <1>4, <2>3 DEF Doc
  <2> QED BY <2>2, <2>4, <2>5
<1> QED BY <1>2, <1>3, <1>4

(* Where the check of the markers passes on what the generator writes and   *)
(* looks at the generator's own, the first block of it lists what the       *)
(* generator has described.                                                 *)
LEMMA InjectTakes ==
    ASSUME NEW doc \in Doc, NEW refs \in SUBSET Files,
           MarkersOk(Inject(doc, refs)), SameMarkers(Inject(doc, refs))
    PROVE  LET text == Inject(doc, refs)
               at   == FirstBlock(text)
           IN  /\ at[1] # 0 /\ Listed(SubSeq(text, at[1], at[2])) = refs
               /\ refs \subseteq Listed(text)
<1> DEFINE text == Inject(doc, refs)
           at   == FirstBlock(text)
<1>1. ASSUME text = doc, FirstOf(Begin, doc) # 0,
             \A j \in 1 .. Len(doc) : j > FirstOf(Begin, doc) => doc[j] # End
      PROVE  FALSE
  <2>1. FirstOf(End, doc) # 0 /\ FirstOf(Begin, doc) < FirstOf(End, doc)
    BY <1>1 DEF MarkersOk, SameMarkers
  <2>2. doc \in Seq(IndexLine)
    BY DEF Doc
  <2>3. FirstOf(End, doc) \in 0 .. Len(doc) /\ doc[FirstOf(End, doc)] = End
    BY <2>1, <2>2, FirstIs
  <2>4. FirstOf(Begin, doc) \in 0 .. Len(doc) /\ Len(doc) \in Nat
    BY <2>2, FirstIs, LenProperties
  <2>5. FirstOf(End, doc) \in 1 .. Len(doc)
    BY <2>1, <2>3, <2>4
  <2> QED BY <1>1, <2>1, <2>3, <2>4, <2>5
<1>2. CASE \E p \in Doc, rest \in Doc :
             /\ Len(p) # 0 /\ FirstOf(Begin, p) = Len(p)
             /\ text = p \o Filling(refs) \o rest
  <2> HIDE DEF text
  <2>1. PICK b : Filled(text, b, refs)
    BY <1>2, FilledIs
  <2>2. at[1] = b /\ at[2] = b + 2 /\ b # 0
    <3>1. text \in Doc /\ b \in 1 .. Len(text) /\ FirstBlock(text)[1] = b /\ FirstBlock(text)[2] = b + 2
      BY <2>1 DEF Filled
    <3> QED BY <3>1, LenProperties DEF Doc
  <2>3. Listed(SubSeq(text, b, b + 2)) = refs /\ refs \subseteq Listed(text)
    BY <2>1, FilledLists
  <2> HIDE DEF at
  <2> QED BY <2>2, <2>3 DEF text, at
<1> QED BY <1>1, <1>2, InjectIs

(* What a run of the generator holds, and the document.                     *)
Generates(run) ==
    /\ run.at = "collected" => run.list \in SUBSET Files
    /\ run.at = "described" => run.refs \in SUBSET Files
    /\ run.at = "injecting" => /\ run.refs \in SUBSET Files
                               /\ \E doc \in Doc : run.doc = Inject(doc, run.refs)

Elsewhere(run) == run.at \notin {"collected", "described", "injecting"}

DocInv == index \in Doc /\ \A t \in Tools : Generates(tool[t])

LEMMA ElsewhereGenerates ==
    ASSUME NEW run, Elsewhere(run)
    PROVE  Generates(run)
BY DEF Elsewhere, Generates

LEMMA InjectIsText ==
    ASSUME NEW doc \in Doc, NEW refs \in SUBSET Files
    PROVE  Inject(doc, refs) \in Doc
<1>1. CASE \E p \in Doc, rest \in Doc :
             /\ Len(p) # 0 /\ FirstOf(Begin, p) = Len(p)
             /\ Inject(doc, refs) = p \o Filling(refs) \o rest
  BY <1>1, FilledIs DEF Filled
<1> QED BY <1>1, InjectIs

LEMMA DocMoves ==
    ASSUME DocInv, IndexInv, index' \in Doc, NEW t \in Tools, NEW run, Generates(run),
           tool' = [tool EXCEPT ![t] = run]
    PROVE  DocInv'
<1>1. \A x \in Tools : tool'[x] = IF x = t THEN run ELSE tool[x]
  BY DEF IndexInv
<1>2. \A x \in Tools : Generates(tool'[x])
  BY <1>1 DEF DocInv
<1>3. \A x : Generates(x)' <=> Generates(x)
  BY DEF Generates
<1> QED BY <1>2 DEF DocInv, Generates

LEMMA EditKeeps ==
    ASSUME DocInv, EditIndex
    PROVE  DocInv'
<1> SUFFICES index' \in Doc
  BY DEF DocInv, EditIndex, Generates
<1>1. PICK i \in DOMAIN index :
        \/ index' = RemoveAt(index, i)
        \/ /\ i < Len(index)
           /\ index' = [index EXCEPT ![i] = index[i + 1], ![i + 1] = index[i]]
        \/ IsMarker(index[i]) /\ index' = [index EXCEPT ![i] = Respelt(index[i])]
  BY DEF EditIndex
<1>2. /\ index \in Seq(IndexLine) /\ Len(index) \in Nat /\ i \in 1 .. Len(index)
      /\ \A j \in 1 .. Len(index) : index[j] \in IndexLine
  BY LenProperties, ElementOfSeq DEF DocInv, Doc
<1>3. CASE index' = RemoveAt(index, i)
  <2>1. SubSeq(index, 1, i - 1) \in Seq(IndexLine)
    BY <1>2, SubSeqProperties
  <2>2. SubSeq(index, i + 1, Len(index)) \in Seq(IndexLine)
    BY <1>2, SubSeqProperties
  <2>3. SubSeq(index, 1, i - 1) \o SubSeq(index, i + 1, Len(index)) \in Seq(IndexLine)
    BY <2>1, <2>2, ConcatProperties
  <2> QED BY <1>3, <2>3 DEF RemoveAt, Doc
<1>4. CASE /\ i < Len(index)
           /\ index' = [index EXCEPT ![i] = index[i + 1], ![i + 1] = index[i]]
  <2>1. index[i] \in IndexLine /\ index[i + 1] \in IndexLine
    BY <1>2, <1>4
  <2>2. index' \in Seq(IndexLine)
    BY <1>2, <1>4, <2>1, ExceptSeq
  <2> QED BY <2>2 DEF Doc
<1>5. CASE IsMarker(index[i]) /\ index' = [index EXCEPT ![i] = Respelt(index[i])]
  <2>1. Respelt(index[i]) \in IndexLine
    BY <1>2, <1>5, IndexLinesDiffer
  <2>2. index' \in Seq(IndexLine)
    BY <1>2, <1>5, <2>1, ExceptSeq
  <2> QED BY <2>2 DEF Doc
<1> QED BY <1>1, <1>3, <1>4, <1>5

LEMMA GeneratorSteps ==
    ASSUME DocInv, IndexInv, NEW t \in Tools,
           Collect(t) \/ Describe(t) \/ OpenIndex(t) \/ WriteIndex(t)
    PROVE  DocInv'
<1>1. index \in Doc /\ Generates(tool[t])
  BY DEF DocInv
<1>2. OnDisk \in SUBSET Files
  BY DEF OnDisk
<1>3. Generates(Resting)
  BY DEF Generates, Resting
<1>4. CASE Collect(t)
  <2>1. Generates([at |-> "collected", list |-> OnDisk])
    BY <1>2 DEF Generates
  <2> QED BY <1>1, <1>4, <2>1, DocMoves DEF Collect
<1>5. CASE Describe(t)
  <2> DEFINE next == [at |-> "described", refs |-> Described(tool[t].list)]
  <2>1. Generates(next)
    BY <1>1, <1>5 DEF Generates, Describe, Described
  <2>2. tool' = [tool EXCEPT ![t] = Resting] \/ tool' = [tool EXCEPT ![t] = next]
    BY <1>5 DEF Describe
  <2>3. index' \in Doc
    BY <1>1, <1>5 DEF Describe
  <2> HIDE DEF next
  <2> QED BY <1>3, <2>1, <2>2, <2>3, DocMoves
<1>6. CASE OpenIndex(t)
  <2> DEFINE next == [at |-> "injecting", refs |-> tool[t].refs, doc |-> Inject(index, tool[t].refs)]
  <2>1. Generates(next)
    BY <1>1, <1>6 DEF Generates, OpenIndex
  <2>2. tool' = [tool EXCEPT ![t] = next] /\ index' = <<>>
    BY <1>6 DEF OpenIndex
  <2>3. index' \in Doc
    BY <2>2 DEF Doc
  <2> HIDE DEF next
  <2> QED BY <2>1, <2>2, <2>3, DocMoves
<1>7. CASE WriteIndex(t)
  <2>1. PICK doc \in Doc : tool[t].doc = Inject(doc, tool[t].refs)
    BY <1>1, <1>7 DEF Generates, WriteIndex
  <2>2. index' \in Doc
    BY <1>1, <1>7, <2>1, InjectIsText DEF Generates, WriteIndex
  <2> QED BY <1>3, <1>7, <2>2, DocMoves DEF WriteIndex
<1> QED BY <1>4, <1>5, <1>6, <1>7

(* Every other tool leaves the document alone.                              *)
LEMMA LoadSteps ==
    ASSUME DocInv, IndexInv, NEW t \in Tools,
           \/ Stat(t) \/ ReadCache(t) \/ Parse(t) \/ OpenCache(t) \/ SaveCache(t)
           \/ Answer(t) \/ KillTool(t)
    PROVE  DocInv'
<1>1. index' \in Doc
  BY DEF DocInv, Stat, ReadCache, Parse, OpenCache, SaveCache, Answer, KillTool
<1>2. ASSUME NEW run, Elsewhere(run), tool' = [tool EXCEPT ![t] = run] PROVE DocInv'
  BY <1>1, <1>2, ElsewhereGenerates, DocMoves
<1>3. /\ Elsewhere(Resting)
      /\ \A force : Elsewhere(Walked(force))
      /\ \A force, files : Elsewhere(Loaded(force, files))
  BY DEF Elsewhere, Resting, Walked, Loaded
<1>4. CASE Stat(t)
  BY <1>2, <1>3, <1>4 DEF Stat
<1>5. CASE ReadCache(t)
  <2> DEFINE redo == ToParse(tool[t].mtimes, tool[t].force)
             kept == DOMAIN tool[t].mtimes \ redo
             next == [at |-> "parsing", mtimes |-> tool[t].mtimes, force |-> tool[t].force,
                      redo |-> redo, files |-> [f \in kept |-> cache.files[f]]]
  <2>1. \/ tool' = [tool EXCEPT ![t] = Resting]
        \/ tool' = [tool EXCEPT ![t] = Loaded(FALSE, cache.files)]
        \/ tool' = [tool EXCEPT ![t] = next]
    BY <1>5 DEF ReadCache
  <2>2. Elsewhere(next)
    BY DEF Elsewhere
  <2> HIDE DEF next
  <2> QED BY <1>2, <1>3, <2>1, <2>2
<1>6. CASE Parse(t)
  <2>1. PICK f \in tool[t].redo :
          tool' = [tool EXCEPT ![t] =
            IF disk[f] = Absent THEN Resting
            ELSE [tool[t] EXCEPT !.redo = @ \ {f},
                                 !.files = [g \in DOMAIN @ \union {f} |->
                                              IF g = f THEN ParseFile(disk[f]) ELSE @[g]]]]
    BY <1>6 DEF Parse
  <2> DEFINE next == [tool[t] EXCEPT !.redo = @ \ {f},
                        !.files = [g \in DOMAIN @ \union {f} |->
                                     IF g = f THEN ParseFile(disk[f]) ELSE @[g]]]
  <2>2. tool[t].at = "parsing"
    BY <1>6 DEF Parse
  <2>3. next.at = tool[t].at
    OBVIOUS
  <2>4. tool' = [tool EXCEPT ![t] = Resting] \/ tool' = [tool EXCEPT ![t] = next]
    BY <2>1
  <2> HIDE DEF next
  <2>5. Elsewhere(next)
    BY <2>2, <2>3 DEF Elsewhere
  <2> QED BY <1>2, <1>3, <2>4, <2>5
<1>7. CASE OpenCache(t)
  <2> DEFINE data == [state |-> "saved", mtimes |-> Stamps(tool[t]), files |-> tool[t].files,
                      reverse |-> ReverseDeps(tool[t].files)]
             next == [at |-> "saving", force |-> tool[t].force, data |-> data]
  <2>1. tool' = [tool EXCEPT ![t] = next]
    BY <1>7 DEF OpenCache
  <2> HIDE DEF data
  <2>2. Elsewhere(next)
    BY DEF Elsewhere
  <2> HIDE DEF next
  <2> QED BY <1>2, <2>1, <2>2
<1>8. CASE SaveCache(t)
  BY <1>2, <1>3, <1>8 DEF SaveCache
<1>9. CASE Answer(t)
  <2>1. tool' = [tool EXCEPT ![t] = Resting] \/ tool' = [tool EXCEPT ![t] = Walked(TRUE)]
    BY <1>9 DEF Answer
  <2> QED BY <1>2, <1>3, <2>1
<1>10. CASE KillTool(t)
  BY <1>2, <1>3, <1>10 DEF KillTool
<1> QED BY <1>4, <1>5, <1>6, <1>7, <1>8, <1>9, <1>10

LEMMA DocStep ==
    ASSUME DocInv, IndexInv, [CheckoutNext]_checkoutVars
    PROVE  DocInv'
<1>1. CASE UNCHANGED <<index, tool>>
  BY <1>1 DEF DocInv, Generates
<1>2. CASE EditIndex
  BY <1>2, EditKeeps
<1>3. ASSUME NEW f, NEW content, Save(f, content) PROVE DocInv'
  BY <1>1, <1>3 DEF Save
<1>4. CASE TreeEvent
  BY <1>3, <1>4, LoadSteps DEF TreeEvent, CreateFile, DeleteFile, ChangeImport, ChangeBody
<1>5. CASE LoadEvent
  BY <1>5, LoadSteps DEF LoadEvent
<1>6. CASE IndexEvent
  BY <1>2, <1>6, GeneratorSteps DEF IndexEvent
<1>7. CASE ToolStep
  BY <1>7, GeneratorSteps, LoadSteps DEF ToolStep
<1>8. CASE UNCHANGED repoVars
  BY <1>1, <1>8 DEF repoVars
<1> QED BY <1>4, <1>5, <1>6, <1>7, <1>8
        DEF CheckoutNext, CheckoutEvent, CheckoutStep, checkoutVars

LEMMA DocInit == CheckoutInit => DocInv
<1> SUFFICES ASSUME CheckoutInit PROVE DocInv
  OBVIOUS
<1>1. index = <<Begin, End>> /\ Begin \in IndexLine /\ End \in IndexLine
  BY IndexLinesDiffer DEF CheckoutInit, RepoInit
<1>2. \A t \in Tools : Generates(tool[t])
  BY DEF CheckoutInit, RepoInit, Generates, Resting
<1> QED BY <1>1, <1>2 DEF DocInv, Doc

(* The document is always one of markers and blocks, and what a run of the  *)
(* generator is about to write is what it has made of such a document, with *)
(* any number of generators and any edits of it by hand.                    *)
THEOREM IndexDocument == CheckoutSpec => []DocInv
BY DocInit, DocStep, IndexInvariant, PTL DEF CheckoutSpec

(* However many generators overlap and whatever people do to the lines of   *)
(* the document: where the check of the markers passes on the document just *)
(* written, and the first markers it found are spelt as the generator spells*)
(* them, its first block lists what the run has described, and while the    *)
(* tree is as described the completeness check misses nothing but an        *)
(* __init__ without class and function, and fails only for names outside    *)
(* that block (generate_file_index.py, checks_docs.py, checks_coverage.py). *)
THEOREM GeneratorsTakeHold == CheckoutSpec => GeneratorTakesHold
<1> DEFINE Good(t) ==
      LET at   == FirstBlock(index')
          refs == tool[t].refs
      IN  /\ at[1] # 0
          /\ Listed(SubSeq(index', at[1], at[2])) = refs
          /\ refs = Described(OnDisk) =>
               /\ \A f \in Unlisted(index') :
                    IsInit(f) /\ disk[f].body \in {"constant", "broken"}
               /\ CheckFileIndex(index') = "FAIL" => Listed(index') \ refs # {}
<1>1. ASSUME IndexInv, DocInv, NEW t \in Tools,
             tool[t].at = "injecting" /\ index' = tool[t].doc /\ MarkersOk(index') /\ SameMarkers(index')
      PROVE  Good(t)
  <2> DEFINE text == index'
             refs == tool[t].refs
             at   == FirstBlock(text)
  <2>1. PICK doc \in Doc : text = Inject(doc, refs)
    BY <1>1 DEF DocInv, Generates
  <2>2. refs \in SUBSET Files
    BY <1>1 DEF DocInv, Generates
  <2>3. at[1] # 0 /\ Listed(SubSeq(text, at[1], at[2])) = refs /\ refs \subseteq Listed(text)
    BY <1>1, <2>1, <2>2, InjectTakes
  <2> HIDE DEF refs, text, at
  <2>4. ASSUME refs = Described(OnDisk), NEW f \in Unlisted(text)
        PROVE  IsInit(f) /\ disk[f].body \in {"constant", "broken"}
    <3>1. f \in OnDisk /\ Significant(f) /\ f \notin Listed(text)
      BY DEF Unlisted, Mentions
    <3>2. IsInit(f) /\ ~ParseFile(disk[f]).defs
      BY <2>3, <2>4, <3>1 DEF Described
    <3>3. disk[f].body \in Bodies
      BY <1>1, <3>1, OnDiskIs DEF Source
    <3>4. disk[f].body # "thin"
      BY <3>1, <3>2 DEF Significant
    <3>5. disk[f].body # "defs"
      BY <3>2 DEF ParseFile
    <3> QED BY <3>2, <3>3, <3>4, <3>5 DEF Bodies
  <2>5. ASSUME refs = Described(OnDisk), CheckFileIndex(text) = "FAIL"
         PROVE  Listed(text) \ refs # {}
    <3>1. PICK g : g \in Ghosts(text)
      BY <2>5 DEF CheckFileIndex
    <3>2. g \in Listed(text) /\ g \notin OnDisk
      BY <3>1 DEF Ghosts
    <3> QED BY <2>5, <3>2 DEF Described
  <2> QED BY <2>3, <2>4, <2>5 DEF at, refs, text
<1>2. IndexInv /\ DocInv =>
        \A t \in Tools :
          tool[t].at = "injecting" /\ index' = tool[t].doc /\ MarkersOk(index') /\ SameMarkers(index') => Good(t)
  BY <1>1
<1>3. IndexInv /\ DocInv /\ [CheckoutNext]_checkoutVars =>
        [\A t \in Tools :
           tool[t].at = "injecting" /\ index' = tool[t].doc /\ MarkersOk(index') /\ SameMarkers(index') => Good(t)]_repoVars
  BY <1>2
<1> QED BY <1>3, IndexInvariant, IndexDocument, PTL DEF CheckoutSpec, GeneratorTakesHold
=============================================================================
