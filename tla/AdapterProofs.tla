--------------------------- MODULE AdapterProofs ----------------------------
(***************************************************************************)
(* Proofs about the two adapters that talk to the outside: Downloads, for  *)
(* any set of task slots and any bounds, and MpvLink, for any number of    *)
(* callers, properties and calls.  Neither sees the other.                 *)
(*                                                                         *)
(* Downloads: the invariant says what the flag, the thread and the reports *)
(* on their way to the loop have to do with each other: a report belongs   *)
(* to the one job that is fetching, and an outcome is the last report      *)
(* there is.                                                               *)
(*                                                                         *)
(* MpvLink: whatever mpv answers late, never or after its death, an answer *)
(* reaches the request it belongs to, and the table of futures holds       *)
(* nothing that nobody waits for.  Both rest on the request numbers: each  *)
(* is given out once, so no line on its way can carry the number of a      *)
(* later request.                                                          *)
(***************************************************************************)
EXTENDS Downloads, MpvLink, SequenceTheorems, TLAPS


-----------------------------------------------------------------------------
(***************************************************************************)
(* The download manager.                                                   *)
(***************************************************************************)

Types ==
    /\ pc \in [Job -> Pcs]
    /\ scheduled \in BOOLEAN
    /\ progress \in {"none", "zero", "part"}
    /\ cancelled \in BOOLEAN
    /\ thread \subseteq Job
    /\ callbacks \in Seq(Reports)
    /\ asked \in BOOLEAN
    /\ cmds \in 0 .. MaxCmds

(* At most one task, and the flag knows.                                    *)
Single == \A i, j \in Job : pc[i] # "idle" /\ pc[j] # "idle" => i = j
Flag == scheduled <=> \E j \in Job : pc[j] # "idle"
Threads == \A j \in thread : pc[j] = "fetching"

(* A report on its way belongs to the job that fetches; after its outcome   *)
(* there is neither a thread nor another report.                            *)
Reporting ==
    \A i \in 1 .. Len(callbacks) :
        /\ pc[callbacks[i].job] = "fetching"
        /\ callbacks[i].kind \in Outcomes => thread = {} /\ i = Len(callbacks)

Bounded == /\ Len(callbacks) <= MaxCallbacks + 1
           /\ thread # {} => Len(callbacks) <= MaxCallbacks

Aborts == /\ CancelsOnlyItsOwn
          /\ cancelled /\ thread # {} => asked

Inv == /\ Types /\ Single /\ Flag /\ Threads /\ Reporting /\ Bounded
       /\ Aborts /\ ProgressIsLive

LEMMA KindsDiffer == "progress" \notin Outcomes
BY DEF Outcomes

LEMMA IsReport ==
    ASSUME Types, NEW i \in 1 .. Len(callbacks)
    PROVE  callbacks[i] \in Reports /\ callbacks[i].job \in Job
           /\ callbacks[i].kind \in Outcomes \cup {"progress"}
<1>1. callbacks \in Seq(Reports)
  BY DEF Types
<1>2. callbacks[i] \in Reports
  BY <1>1
<1>3. QED BY <1>2 DEF Reports

(* While a task is queued or has just begun nothing is on its way.          *)
LEMMA NothingOnItsWay ==
    ASSUME Inv, NEW j \in Job, pc[j] # "idle", pc[j] # "fetching"
    PROVE  callbacks = <<>> /\ thread = {}
<1>1. \A i \in Job : i # j => pc[i] = "idle"
  BY DEF Inv, Single
<1>2. thread = {}
  BY <1>1 DEF Inv, Types, Threads
<1>3. \A i \in 1 .. Len(callbacks) : callbacks[i].job \in Job
  BY IsReport DEF Inv
<1>4. Len(callbacks) = 0
  <2>1. SUFFICES ASSUME Len(callbacks) # 0 PROVE FALSE
    OBVIOUS
  <2>2. 1 \in 1 .. Len(callbacks)
    BY <2>1 DEF Inv, Types
  <2>3. QED BY <1>1, <1>3, <2>2 DEF Inv, Reporting
<1>5. QED BY <1>2, <1>4 DEF Inv, Types

(* With nothing on its way there is nothing to say about it.                *)
LEMMA Quiet ==
    ASSUME callbacks = <<>>, thread = {}
    PROVE  Threads /\ Reporting /\ Bounded
<1>1. Len(callbacks) = 0
  OBVIOUS
<1>2. \A i \in 1 .. Len(callbacks) : FALSE
  BY <1>1
<1>3. QED BY <1>1, <1>2, DownloadsAssumption DEF Threads, Reporting, Bounded

LEMMA QuietNext ==
    ASSUME callbacks' = <<>>, thread' = {}
    PROVE  Threads' /\ Reporting' /\ Bounded'
<1>1. Len(callbacks') = 0
  OBVIOUS
<1>2. \A i \in 1 .. Len(callbacks') : FALSE
  BY <1>1
<1>3. QED BY <1>1, <1>2, DownloadsAssumption DEF Threads, Reporting, Bounded

LEMMA Initially == Init => Inv
<1>1. SUFFICES ASSUME Init PROVE Inv
  OBVIOUS
<1>2. Types /\ Single /\ Flag
  <2>1. <<>> \in Seq(Reports) /\ 0 \in 0 .. MaxCmds
    BY DownloadsAssumption
  <2>2. QED BY <1>1, <2>1 DEF Init, Types, Single, Flag, Pcs
<1>4. Threads /\ Reporting /\ Bounded
  BY <1>1, Quiet DEF Init
<1>3. Aborts /\ ProgressIsLive
  BY <1>1 DEF Init, Aborts, CancelsOnlyItsOwn, ProgressIsLive, Outcomes
<1>5. QED BY <1>2, <1>3, <1>4 DEF Inv

-----------------------------------------------------------------------------
(* Commands.                                                                *)

LEMMA OnDownloadStep == ASSUME Inv, OnDownload PROVE Inv'
<1> USE DEF Inv, Goto
<1>0. cmds' \in 0 .. MaxCmds
  BY DownloadsAssumption DEF OnDownload, Receive, Types
<1>1. CASE UNCHANGED <<pc, scheduled>>
  BY <1>0, <1>1 DEF OnDownload, Types, Single, Flag, Threads, Reporting, Bounded, Aborts,
                    CancelsOnlyItsOwn, ProgressIsLive
<1>2. CASE ~Busy /\ (\E j \in Job : pc[j] = "idle" /\ Goto(j, "queued")) /\ scheduled' = TRUE
  <2>1. PICK j \in Job : pc[j] = "idle" /\ Goto(j, "queued")
    BY <1>2
  <2>2. \A i \in Job : pc[i] = "idle"
    BY <1>2 DEF Busy, Flag
  <2>3. Types'
    BY <1>0, <1>2, <2>1 DEF OnDownload, Types, Pcs
  <2>4. pc' = [pc EXCEPT ![j] = "queued"] /\ pc'[j] = "queued" /\ pc \in [Job -> Pcs]
    BY <2>1 DEF Types
  <2>5. Single' /\ Flag'
    BY <1>2, <2>2, <2>4 DEF Single, Flag
  <2>6. thread = {} /\ \A i \in 1 .. Len(callbacks) : FALSE
    BY <2>2, IsReport DEF Threads, Reporting, Types
  <2>7. Threads' /\ Reporting' /\ Bounded'
    BY <2>6 DEF OnDownload, Threads, Reporting, Bounded
  <2>8. Aborts' /\ ProgressIsLive'
    BY <2>2, <2>4, <2>6 DEF OnDownload, Aborts, CancelsOnlyItsOwn, ProgressIsLive, Outcomes
  <2>9. QED BY <2>3, <2>5, <2>7, <2>8
<1>3. QED BY <1>1, <1>2 DEF OnDownload

LEMMA OnCancelStep == ASSUME Inv, OnCancel PROVE Inv'
<1>1. cmds' \in 0 .. MaxCmds
  BY DownloadsAssumption DEF OnCancel, Receive, Inv, Types
<1>2. Types' /\ Single' /\ Flag' /\ Threads' /\ Reporting' /\ Bounded' /\ ProgressIsLive'
  BY <1>1 DEF Inv, OnCancel, Types, Single, Flag, Threads, Reporting, Bounded, ProgressIsLive
<1>3. Aborts'
  BY DEF Inv, OnCancel, Types, Aborts, CancelsOnlyItsOwn
<1>4. QED BY <1>2, <1>3 DEF Inv

-----------------------------------------------------------------------------
(* A step of the task: apart from Fetch, none is taken with anything on its *)
(* way.                                                                     *)

LEMMA Stepping ==
    ASSUME Inv, NEW j \in Job, pc[j] # "idle",
           NEW label \in Pcs, label # "idle", Goto(j, label), UNCHANGED scheduled
    PROVE  pc' \in [Job -> Pcs] /\ pc'[j] = label /\ Single' /\ Flag'
           /\ \A i \in Job : i # j => pc'[i] = "idle"
BY DEF Inv, Types, Single, Flag, Goto

LEMMA BeginStep == ASSUME Inv, NEW j \in Job, Begin(j) PROVE Inv'
<1>1. callbacks = <<>> /\ thread = {}
  BY NothingOnItsWay DEF Begin
<1>2. pc' \in [Job -> Pcs] /\ pc'[j] = "begun" /\ Single' /\ Flag'
      /\ \A i \in Job : i # j => pc'[i] = "idle"
  BY Stepping DEF Begin, Pcs
<1>3. Types'
  BY <1>2 DEF Inv, Begin, Types
<1>6. Threads' /\ Reporting' /\ Bounded'
  BY <1>1, QuietNext DEF Begin
<1>4. Aborts' /\ ProgressIsLive'
  BY <1>1, <1>2 DEF Begin, Aborts, CancelsOnlyItsOwn, ProgressIsLive, Outcomes
<1>5. QED BY <1>2, <1>3, <1>4, <1>6 DEF Inv

LEMMA FetchStep == ASSUME Inv, NEW j \in Job, Fetch(j) PROVE Inv'
<1>1. callbacks = <<>> /\ thread = {}
  BY NothingOnItsWay DEF Fetch
<1>2. PICK label \in {"fetching", "failed"} :
        Goto(j, label) /\ (label = "failed" => thread' = thread) /\ thread' \subseteq thread \cup {j}
  BY DEF Fetch
<1>3. pc' \in [Job -> Pcs] /\ pc'[j] = label /\ Single' /\ Flag'
      /\ \A i \in Job : i # j => pc'[i] = "idle"
  BY <1>2, Stepping DEF Fetch, Pcs, Outcomes
<1>4. Types' /\ Threads'
  BY <1>1, <1>2, <1>3 DEF Inv, Fetch, Types, Threads
<1>7. Reporting' /\ Bounded'
  <2>1. callbacks' = <<>> /\ Len(callbacks') = 0
    BY <1>1 DEF Fetch
  <2>2. \A i \in 1 .. Len(callbacks') : FALSE
    BY <2>1
  <2>3. QED BY <2>1, <2>2, DownloadsAssumption DEF Reporting, Bounded
<1>5. Aborts' /\ ProgressIsLive'
  BY <1>1, <1>2, <1>3 DEF Inv, Types, Fetch, Aborts, CancelsOnlyItsOwn, ProgressIsLive, Outcomes
<1>6. QED BY <1>3, <1>4, <1>5, <1>7 DEF Inv

LEMMA ConcludeStep == ASSUME Inv, NEW j \in Job, Conclude(j) PROVE Inv'
<1>1. callbacks = <<>> /\ thread = {}
  BY NothingOnItsWay DEF Conclude, Outcomes
<1>2. pc' \in [Job -> Pcs] /\ pc'[j] = "closing" /\ Single' /\ Flag'
      /\ \A i \in Job : i # j => pc'[i] = "idle"
  BY Stepping DEF Conclude, Pcs, Outcomes
<1>3. Types' /\ Threads' /\ Reporting' /\ Bounded'
  BY <1>1, <1>2 DEF Inv, Conclude, Types, Threads, Reporting, Bounded
<1>4. Aborts' /\ ProgressIsLive'
  BY <1>1, <1>2 DEF Conclude, Aborts, CancelsOnlyItsOwn, ProgressIsLive, Outcomes
<1>5. QED BY <1>2, <1>3, <1>4 DEF Inv

LEMMA ReleaseStep == ASSUME Inv, NEW j \in Job, Release(j) PROVE Inv'
<1>1. callbacks = <<>> /\ thread = {}
  BY NothingOnItsWay DEF Release
<1>2. pc' \in [Job -> Pcs] /\ \A i \in Job : pc'[i] = "idle"
  BY DEF Inv, Types, Single, Release, Goto, Pcs
<1>3. Types' /\ Single' /\ Flag'
  BY <1>2 DEF Inv, Release, Types, Single, Flag
<1>7. Threads' /\ Reporting' /\ Bounded'
  BY <1>1, QuietNext DEF Release
<1>4. progress = "none"
  BY DEF Inv, Release, Single, ProgressIsLive, Outcomes
<1>5. Aborts' /\ ProgressIsLive'
  BY <1>1, <1>2, <1>4 DEF Release, Aborts, CancelsOnlyItsOwn, ProgressIsLive, Outcomes
<1>6. QED BY <1>3, <1>5, <1>7 DEF Inv

-----------------------------------------------------------------------------
(* A step of the thread: whoever posts is the job that fetches, and no      *)
(* outcome has been posted yet.                                             *)

LEMMA Posting ==
    ASSUME Inv, NEW j \in thread, NEW kind \in Outcomes \cup {"progress"}, Post(j, kind)
    PROVE  /\ callbacks' \in Seq(Reports)
           /\ Len(callbacks') = Len(callbacks) + 1
           /\ \A i \in 1 .. Len(callbacks) : callbacks'[i] = callbacks[i]
                                            /\ callbacks[i].kind = "progress"
           /\ callbacks'[Len(callbacks) + 1] = Report(j, kind)
           /\ pc[j] = "fetching"
<1>1. j \in Job /\ callbacks \in Seq(Reports)
  BY DEF Inv, Types
<1>2. Report(j, kind) \in Reports
  BY <1>1 DEF Report, Reports
<1>3. \A i \in 1 .. Len(callbacks) : callbacks[i].kind = "progress"
  BY IsReport DEF Inv, Reporting
<1>4. QED BY <1>1, <1>2, <1>3 DEF Post, Inv, Threads

LEMMA HookProgressStep == ASSUME Inv, NEW j \in Job, HookProgress(j) PROVE Inv'
<1>1. /\ callbacks' \in Seq(Reports)
      /\ Len(callbacks') = Len(callbacks) + 1
      /\ \A i \in 1 .. Len(callbacks) : callbacks'[i] = callbacks[i]
                                       /\ callbacks[i].kind = "progress"
      /\ callbacks'[Len(callbacks) + 1] = Report(j, "progress")
      /\ pc[j] = "fetching"
  BY Posting DEF HookProgress
<1>2. Types' /\ Single' /\ Flag' /\ Threads' /\ ProgressIsLive'
  BY <1>1 DEF Inv, HookProgress, Types, Single, Flag, Threads, ProgressIsLive
<1>3. Len(callbacks) \in Nat /\ MaxCallbacks \in Nat
  BY DownloadsAssumption DEF Inv, Types
<1>4. Bounded'
  BY <1>1, <1>3 DEF HookProgress, Bounded
<1>5. \A i \in 1 .. Len(callbacks') : callbacks'[i].kind = "progress"
                                    /\ pc[callbacks'[i].job] = "fetching"
  BY <1>1, <1>3 DEF Inv, Reporting, Report
<1>6. Reporting'
  BY <1>5, KindsDiffer DEF Reporting, HookProgress
<1>7. Aborts'
  BY <1>5 DEF Inv, HookProgress, Aborts, CancelsOnlyItsOwn
<1>8. QED BY <1>2, <1>4, <1>6, <1>7 DEF Inv

(* The thread is gone with its outcome, whatever that is.                   *)
LEMMA Ending ==
    ASSUME Inv, NEW j \in thread, NEW kind \in Outcomes, Post(j, kind),
           thread' = thread \ {j}, kind = "aborted" => cancelled,
           UNCHANGED <<pc, scheduled, progress, cancelled, asked, cmds>>
    PROVE  Inv'
<1>1. /\ callbacks' \in Seq(Reports)
      /\ Len(callbacks') = Len(callbacks) + 1
      /\ \A i \in 1 .. Len(callbacks) : callbacks'[i] = callbacks[i]
                                       /\ callbacks[i].kind = "progress"
      /\ callbacks'[Len(callbacks) + 1] = Report(j, kind)
      /\ pc[j] = "fetching"
  BY Posting
<1>2. thread' = {}
  BY DEF Inv, Types, Threads, Single
<1>3. Types' /\ Single' /\ Flag' /\ Threads' /\ ProgressIsLive'
  BY <1>1, <1>2 DEF Inv, Types, Single, Flag, Threads, ProgressIsLive
<1>4. Len(callbacks) \in Nat /\ MaxCallbacks \in Nat
  BY DownloadsAssumption DEF Inv, Types
<1>5. Bounded'
  BY <1>1, <1>2, <1>4 DEF Inv, Bounded
<1>6. \A i \in 1 .. Len(callbacks') :
        \/ i # Len(callbacks') /\ callbacks'[i] = callbacks[i] /\ i \in 1 .. Len(callbacks)
        \/ i = Len(callbacks') /\ callbacks'[i] = Report(j, kind)
  BY <1>1, <1>4
<1>7. Reporting'
  BY <1>1, <1>2, <1>6, KindsDiffer DEF Inv, Reporting, Report
<1>8. Aborts'
  BY <1>1, <1>2, <1>6 DEF Inv, Aborts, CancelsOnlyItsOwn, Report
<1>9. QED BY <1>3, <1>5, <1>7, <1>8 DEF Inv

LEMMA HookCancelledStep == ASSUME Inv, NEW j \in Job, HookCancelled(j) PROVE Inv'
BY Ending DEF HookCancelled, Outcomes

LEMMA ThreadEndsStep == ASSUME Inv, NEW j \in Job, ThreadEnds(j) PROVE Inv'
<1>1. PICK kind \in {"done", "failed"} : Post(j, kind)
  BY DEF ThreadEnds
<1>2. QED BY <1>1, Ending DEF ThreadEnds, Outcomes

-----------------------------------------------------------------------------
(* A callback: because an outcome comes last, nothing is left behind it.    *)

LEMMA RunCallbackStep == ASSUME Inv, RunCallback PROVE Inv'
<1> DEFINE r == Head(callbacks)
           n == Len(callbacks)
<1>1. /\ callbacks \in Seq(Reports) /\ callbacks # <<>>
      /\ n \in Nat /\ n >= 1 /\ r = callbacks[1] /\ 1 \in 1 .. n
  BY DEF Inv, Types, RunCallback
<1>2. /\ callbacks' \in Seq(Reports)
      /\ Len(callbacks') = n - 1
      /\ \A i \in 1 .. n - 1 : callbacks'[i] = callbacks[i + 1] /\ i + 1 \in 1 .. n
  BY <1>1 DEF RunCallback
<1>3. r.job \in Job /\ r.kind \in Outcomes \cup {"progress"} /\ pc[r.job] = "fetching"
  BY <1>1, IsReport DEF Inv, Reporting
<1>4. CASE r.kind = "progress"
  <2>1. progress' = "part" /\ UNCHANGED <<pc, scheduled, cancelled, thread, asked, cmds>>
    BY <1>4 DEF RunCallback
  <2>2. Types' /\ Single' /\ Flag' /\ Threads'
    BY <1>2, <2>1 DEF Inv, Types, Single, Flag, Threads
  <2>3. MaxCallbacks \in Nat
    BY DownloadsAssumption
  <2>4. Bounded'
    BY <1>1, <1>2, <2>1, <2>3 DEF Inv, Bounded
  <2>5. \A i \in 1 .. n - 1 : callbacks[i + 1].kind \in Outcomes => i + 1 = n
    BY <1>2 DEF Inv, Reporting
  <2>6. Reporting'
    <3>1. SUFFICES ASSUME NEW i \in 1 .. Len(callbacks')
                   PROVE  /\ pc'[callbacks'[i].job] = "fetching"
                          /\ callbacks'[i].kind \in Outcomes
                               => thread' = {} /\ i = Len(callbacks')
      BY DEF Reporting
    <3>2. i \in 1 .. n - 1 /\ callbacks'[i] = callbacks[i + 1] /\ i + 1 \in 1 .. n
      BY <1>2
    <3>3. pc[callbacks[i + 1].job] = "fetching"
          /\ (callbacks[i + 1].kind \in Outcomes => thread = {} /\ i + 1 = n)
      BY <3>2 DEF Inv, Reporting
    <3>4. i + 1 = n => i = Len(callbacks')
      BY <1>1, <1>2, <3>2
    <3>5. QED BY <2>1, <3>2, <3>3, <3>4
  <2>7. Aborts'
    BY <1>2, <2>1 DEF Inv, Aborts, CancelsOnlyItsOwn
  <2>8. ProgressIsLive'
    BY <1>3, <2>1 DEF ProgressIsLive
  <2>9. QED BY <2>2, <2>4, <2>6, <2>7, <2>8 DEF Inv
<1>5. CASE r.kind \in Outcomes
  <2>1. n = 1 /\ thread = {}
    BY <1>1, <1>5 DEF Inv, Reporting
  <2>2. Goto(r.job, r.kind) /\ UNCHANGED <<progress, scheduled, cancelled, thread, asked, cmds>>
    BY <1>5, KindsDiffer DEF RunCallback
  <2>3. callbacks' = <<>> /\ thread' = {}
    BY <1>2, <2>1, <2>2
  <2>4. pc' \in [Job -> Pcs] /\ pc'[r.job] = r.kind /\ Single' /\ Flag'
        /\ \A i \in Job : i # r.job => pc'[i] = "idle"
    BY <1>3, <1>5, <2>2, Stepping DEF Pcs, Outcomes
  <2>5. Types'
    BY <1>2, <2>2, <2>4 DEF Inv, Types
  <2>6. Threads' /\ Reporting' /\ Bounded'
    BY <2>3, QuietNext
  <2>7. progress # "none"
    BY <1>3 DEF Inv, ProgressIsLive
  <2>8. ProgressIsLive'
    BY <1>3, <1>5, <2>2, <2>4, <2>7 DEF ProgressIsLive
  <2>9. r.kind = "aborted" => asked
    BY <1>1 DEF Inv, Aborts, CancelsOnlyItsOwn
  <2>10. Aborts'
    BY <1>3, <2>2, <2>3, <2>4, <2>9 DEF Aborts, CancelsOnlyItsOwn
  <2>11. QED BY <2>4, <2>5, <2>6, <2>8, <2>10 DEF Inv
<1>6. QED BY <1>3, <1>4, <1>5

-----------------------------------------------------------------------------
LEMMA Stutter == ASSUME Inv, UNCHANGED vars PROVE Inv'
BY DEF Inv, vars, Types, Single, Flag, Threads, Reporting, Bounded, Aborts,
       CancelsOnlyItsOwn, ProgressIsLive

(* Every step of the manager, its thread and its clients keeps the          *)
(* invariant.                                                               *)
THEOREM DownloadsInvariant == Spec => []Inv
<1>1. ASSUME Inv, [Next]_vars PROVE Inv'
  <2>1. CASE OnDownload
    BY <1>1, <2>1, OnDownloadStep
  <2>2. CASE OnCancel
    BY <1>1, <2>2, OnCancelStep
  <2>3. CASE RunCallback
    BY <1>1, <2>3, RunCallbackStep
  <2>4. CASE AtRest \/ UNCHANGED vars
    BY <1>1, <2>4, Stutter DEF AtRest
  <2>5. ASSUME NEW j \in Job, TaskStep(j) PROVE Inv'
    BY <1>1, <2>5, BeginStep, FetchStep, ConcludeStep, ReleaseStep DEF TaskStep
  <2>6. ASSUME NEW j \in Job, ThreadStep(j) PROVE Inv'
    BY <1>1, <2>6, HookProgressStep, HookCancelledStep, ThreadEndsStep DEF ThreadStep
  <2>7. QED BY <1>1, <2>1, <2>2, <2>3, <2>4, <2>5, <2>6 DEF Next
<1>2. QED BY <1>1, Initially, PTL DEF Spec

(* Two requests never leave two downloads, whatever the number of tasks the *)
(* loop could run (the flag of download_manager.py:54-66 does its work).    *)
THEOREM OnlyOneDownload == Spec => []OneDownload
<1>1. Inv => OneDownload
  BY DEF Inv, Single, Flag, Threads, OneDownload
<1>2. QED BY <1>1, DownloadsInvariant, PTL

(* The progress shown is that of the download underway, and None without    *)
(* one.                                                                     *)
THEOREM ProgressStaysLive == Spec => []ProgressIsLive
<1>1. Inv => ProgressIsLive
  BY DEF Inv
<1>2. QED BY <1>1, DownloadsInvariant, PTL

(* No download is aborted by a cancel that was not accepted for it.         *)
THEOREM CancelsAreOwn == Spec => []CancelsOnlyItsOwn
<1>1. Inv => CancelsOnlyItsOwn
  BY DEF Inv, Aborts
<1>2. QED BY <1>1, DownloadsInvariant, PTL

(* The variables of Downloads keep their types and the reports their bound. *)
THEOREM DownloadsTyped == Spec => []TypeOK
<1>1. Inv => TypeOK
  BY DEF Inv, Types, Bounded, TypeOK
<1>2. QED BY <1>1, DownloadsInvariant, PTL

-----------------------------------------------------------------------------
(***************************************************************************)
(* The link to mpv.                                                        *)
(***************************************************************************)

Value == Prop \cup {None}
CallType == [pc : CallPcs, id : Nat, asked : Value, got : Value]
Typed == nextId \in Nat /\ call \in [Caller -> CallType]

(* The numbers given out so far, and the callers that wait for one of them. *)
Numbered == \A c \in Caller : call[c].pc = "wait" => call[c].id \in 1 .. nextId

(* A line that carries a number given out, and the property that whoever    *)
(* waits for that number has asked for.                                     *)
Faithful(m) ==
    /\ m.id \in 1 .. nextId
    /\ \A c \in Caller : call[c].pc = "wait" /\ call[c].id = m.id => m.prop = call[c].asked
Faithfuls == {m \in [id : Nat, prop : Value] : Faithful(m)}
Wire == requests \in Seq(Faithfuls) /\ lines \in Seq(Faithfuls)

Owned == \A e \in pending : e.owner \in Caller

LinkInv == Typed /\ Numbered /\ Wire /\ Owned /\ PendingIsWaited /\ AnswerIsOwn

-----------------------------------------------------------------------------
LEMMA LargerSeq ==
    ASSUME NEW S, NEW T, S \subseteq T, NEW s \in Seq(S)
    PROVE  s \in Seq(T)
<1>1. Len(s) \in Nat /\ s \in [1 .. Len(s) -> S]
  BY LenProperties
<1>2. s \in [1 .. Len(s) -> T]
  BY <1>1
<1> QED BY <1>1, <1>2, IsASeq

(* What a step leaves on the wire stays faithful when waiting callers only   *)
(* stop waiting or wait for a number that has just been given out.          *)
LEMMA FaithfulStays ==
    ASSUME LinkInv, nextId' \in {nextId, nextId + 1},
           \A c \in Caller : call'[c].pc = "wait" =>
             call'[c] = call[c] \/ (call'[c].id = nextId + 1 /\ nextId' = nextId + 1)
    PROVE  Faithfuls \subseteq Faithfuls' /\ Numbered'
<1>1. nextId \in Nat
  BY DEF LinkInv, Typed
<1>2. Numbered'
  BY <1>1 DEF LinkInv, Numbered
<1>3. ASSUME NEW m \in Faithfuls PROVE Faithful(m)'
  <2>1. m.id \in 1 .. nextId
    BY DEF Faithfuls, Faithful
  <2>2. m.id \in 1 .. nextId'
    BY <1>1, <2>1
  <2>3. ASSUME NEW c \in Caller, call'[c].pc = "wait", call'[c].id = m.id
        PROVE  m.prop = call'[c].asked
    <3>1. call'[c] = call[c]
      BY <1>1, <2>1, <2>3
    <3> QED BY <2>3, <3>1 DEF Faithfuls, Faithful
  <2> QED BY <2>2, <2>3 DEF Faithful
<1> QED BY <1>2, <1>3 DEF Faithfuls

(* One caller goes on; the others, and what they wait for, are as before.   *)
LEMMA OneCaller ==
    ASSUME LinkInv, NEW c \in Caller, NEW s \in CallType, Become(c, s),
           nextId' \in {nextId, nextId + 1},
           s.pc = "wait" => s.id = nextId + 1 /\ nextId' = nextId + 1,
           s.got \in {s.asked, None}
    PROVE  /\ Typed' /\ Numbered' /\ AnswerIsOwn'
           /\ Faithfuls \subseteq Faithfuls'
           /\ call'[c] = s /\ \A x \in Caller : x # c => call'[x] = call[x]
<1>1. call'[c] = s /\ \A x \in Caller : x # c => call'[x] = call[x]
  BY DEF Become, LinkInv, Typed
<1>2. Typed'
  BY DEF Become, LinkInv, Typed
<1>3. Faithfuls \subseteq Faithfuls' /\ Numbered'
  BY <1>1, FaithfulStays
<1>4. AnswerIsOwn'
  BY <1>1 DEF LinkInv, AnswerIsOwn
<1> QED BY <1>1, <1>2, <1>3, <1>4

(* A caller that does not wait has no entry.                                *)
LEMMA NoEntry ==
    ASSUME LinkInv, NEW c \in Caller, call[c].pc # "wait", NEW e \in pending
    PROVE  e.owner # c
BY DEF LinkInv, PendingIsWaited

LEMMA CallIs ==
    ASSUME NEW at \in CallPcs, NEW id \in Nat, NEW prop \in Value, NEW got \in Value
    PROVE  LET s == Call(at, id, prop, got)
           IN  s \in CallType /\ s.pc = at /\ s.id = id /\ s.asked = prop /\ s.got = got
BY DEF Call, CallType

(* A caller without an entry goes on, and does not wait for an answer.       *)
LEMMA MovesOn ==
    ASSUME LinkInv, NEW c \in Caller, call[c].pc # "wait", UNCHANGED <<pending, wire>>,
           nextId' \in {nextId, nextId + 1},
           NEW s \in CallType, s.pc # "wait", s.got \in {s.asked, None}, Become(c, s)
    PROVE  LinkInv'
<1>1. /\ Typed' /\ Numbered' /\ AnswerIsOwn'
      /\ Faithfuls \subseteq Faithfuls'
      /\ call'[c] = s /\ \A x \in Caller : x # c => call'[x] = call[x]
  BY OneCaller
<1>2. Wire'
  BY <1>1, LargerSeq DEF LinkInv, Wire, wire
<1>3. PendingIsWaited' /\ Owned'
  BY <1>1, NoEntry DEF LinkInv, PendingIsWaited, Owned
<1> QED BY <1>1, <1>2, <1>3 DEF LinkInv

LEMMA BeginsKeeps ==
    ASSUME LinkInv, NEW c \in Caller, NEW at \in {"ask", "send"}, NEW prop \in Value, Begins(c, at, prop)
    PROVE  LinkInv'
<1> DEFINE s == Call(IF connected THEN at ELSE "idle", 0, prop, None)
<1>1. s \in CallType /\ s.pc # "wait" /\ s.got = None
  BY CallIs DEF CallPcs, Value
<1>2. Become(c, s) /\ call[c].pc # "wait" /\ UNCHANGED <<pending, wire, nextId>>
  BY DEF Begins, ipcVars
<1> HIDE DEF s
<1> QED BY <1>1, <1>2, MovesOn

LEMMA DrainedWakesKeeps ==
    ASSUME LinkInv, NEW c \in Caller, Drained(c) \/ Wakes(c)
    PROVE  LinkInv'
<1>1. PICK got \in {call[c].got, None} : Returns(c, got)
  BY DEF Drained, Wakes
<1>2. call[c].asked \in Value /\ got \in Value /\ got \in {call[c].asked, None}
  BY <1>1 DEF LinkInv, Typed, CallType, AnswerIsOwn, Value
<1> DEFINE s == Call("idle", 0, call[c].asked, got)
<1>3. s \in CallType /\ s.pc # "wait" /\ s.got \in {s.asked, None}
  BY <1>2, CallIs DEF CallPcs
<1>4. Become(c, s) /\ call[c].pc # "wait" /\ UNCHANGED <<pending, wire, nextId>>
  BY <1>1 DEF Returns, Drained, Wakes, ipcVars
<1> HIDE DEF s
<1> QED BY <1>3, <1>4, MovesOn

(* The line that is written is faithful: its number is new.                 *)
LEMMA WriteKeeps ==
    ASSUME NEW prop \in Value, LinkInv, Write(nextId + 1, prop), nextId' = nextId + 1,
           Faithfuls \subseteq Faithfuls', lines' = lines,
           \A x \in Caller : call'[x].pc = "wait" /\ call'[x].id = nextId + 1 => call'[x].asked = prop
    PROVE  Wire'
<1> DEFINE m == Message(nextId + 1, prop)
<1>1. m.id = nextId + 1 /\ m.prop = prop /\ m \in [id : Nat, prop : Value]
  BY DEF Message, LinkInv, Typed
<1>2. m \in Faithfuls'
  BY <1>1 DEF Faithfuls, Faithful, LinkInv, Typed
<1>3. requests \in Seq(Faithfuls') /\ lines \in Seq(Faithfuls')
  BY LargerSeq DEF LinkInv, Wire
<1>4. requests' \in {requests, Append(requests, m)}
  BY DEF Write
<1> HIDE DEF m
<1>5. requests' \in Seq(Faithfuls')
  BY <1>2, <1>3, <1>4, AppendProperties
<1> QED BY <1>3, <1>5 DEF Wire

LEMMA SendKeeps ==
    ASSUME LinkInv, NEW c \in Caller, Send(c)
    PROVE  LinkInv'
<1> DEFINE s == Call("drain", nextId + 1, None, None)
<1>1. s \in CallType /\ s.pc = "drain" /\ s.got = None
  BY CallIs DEF CallPcs, Value, LinkInv, Typed
<1>2. /\ Become(c, s) /\ call[c].pc # "wait" /\ nextId' = nextId + 1
      /\ pending' = pending /\ Write(nextId + 1, None) /\ lines' = lines
  BY DEF Send
<1> HIDE DEF s
<1>3. /\ Typed' /\ Numbered' /\ AnswerIsOwn' /\ Faithfuls \subseteq Faithfuls'
      /\ call'[c] = s /\ \A x \in Caller : x # c => call'[x] = call[x]
  BY <1>1, <1>2, OneCaller
<1>4. \A x \in Caller : call'[x].pc = "wait" => call'[x].id # nextId + 1
  BY <1>1, <1>3 DEF LinkInv, Numbered, Typed
<1>5. Wire' /\ None \in Value
  BY <1>2, <1>3, <1>4, WriteKeeps DEF Value
<1>6. PendingIsWaited' /\ Owned'
  BY <1>2, <1>3, NoEntry DEF LinkInv, PendingIsWaited, Owned
<1> QED BY <1>3, <1>5, <1>6 DEF LinkInv

LEMMA AskKeeps ==
    ASSUME LinkInv, NEW c \in Caller, Ask(c)
    PROVE  LinkInv'
<1>1. call[c].asked \in Value /\ nextId \in Nat /\ call[c].pc # "wait" /\ nextId' = nextId + 1
      /\ Write(nextId + 1, call[c].asked) /\ lines' = lines
  BY DEF Ask, LinkInv, Typed, CallType
<1>2. \A x \in Caller : call[x].pc = "wait" => call[x].id # nextId + 1
  BY <1>1 DEF LinkInv, Numbered
<1>3. CASE Become(c, Call("wait", nextId + 1, call[c].asked, None))
           /\ pending' = pending \cup {Entry(nextId + 1, c)}
  <2> DEFINE s == Call("wait", nextId + 1, call[c].asked, None)
  <2>1. s \in CallType /\ s.pc = "wait" /\ s.id = nextId + 1 /\ s.got = None /\ s.asked = call[c].asked
    BY <1>1, CallIs DEF CallPcs, Value
  <2>2. Become(c, s)
    BY <1>3
  <2> HIDE DEF s
  <2>3. /\ Typed' /\ Numbered' /\ AnswerIsOwn' /\ Faithfuls \subseteq Faithfuls'
        /\ call'[c] = s /\ \A x \in Caller : x # c => call'[x] = call[x]
    BY <1>1, <2>1, <2>2, OneCaller
  <2>4. Wire'
    BY <1>1, <1>2, <2>1, <2>3, WriteKeeps
  <2>5. PendingIsWaited' /\ Owned'
    BY <1>1, <1>3, <2>1, <2>3, NoEntry DEF LinkInv, PendingIsWaited, Owned, Entry
  <2> QED BY <2>3, <2>4, <2>5 DEF LinkInv
<1>4. CASE Returns(c, None) /\ pending' = pending
  <2> DEFINE s == Call("idle", 0, call[c].asked, None)
  <2>1. s \in CallType /\ s.pc = "idle" /\ s.got = None
    BY <1>1, CallIs DEF CallPcs, Value
  <2>2. Become(c, s)
    BY <1>4 DEF Returns
  <2> HIDE DEF s
  <2>3. /\ Typed' /\ Numbered' /\ AnswerIsOwn' /\ Faithfuls \subseteq Faithfuls'
        /\ call'[c] = s /\ \A x \in Caller : x # c => call'[x] = call[x]
    BY <1>1, <2>1, <2>2, OneCaller
  <2>4. Wire'
    BY <1>1, <1>2, <2>1, <2>3, WriteKeeps
  <2>5. PendingIsWaited' /\ Owned'
    BY <1>1, <1>4, <2>3, NoEntry DEF LinkInv, PendingIsWaited, Owned
  <2> QED BY <2>3, <2>4, <2>5 DEF LinkInv
<1> QED BY <1>3, <1>4 DEF Ask

(* Whoever gives up takes its entry along.                                  *)
LEMMA TimesOutKeeps ==
    ASSUME LinkInv, NEW c \in Caller, TimesOut(c)
    PROVE  LinkInv'
<1> DEFINE s == Call("idle", 0, call[c].asked, None)
<1>1. call[c].asked \in Value
  BY DEF LinkInv, Typed, CallType
<1>2. s \in CallType /\ s.pc = "idle" /\ s.got = None
  BY <1>1, CallIs DEF CallPcs, Value
<1>3. Become(c, s) /\ pending' = WithoutId(call[c].id) /\ UNCHANGED <<nextId, wire>>
  BY DEF TimesOut, Returns
<1> HIDE DEF s
<1>4. /\ Typed' /\ Numbered' /\ AnswerIsOwn' /\ Faithfuls \subseteq Faithfuls'
      /\ call'[c] = s /\ \A x \in Caller : x # c => call'[x] = call[x]
  BY <1>2, <1>3, OneCaller
<1>5. Wire'
  BY <1>3, <1>4, LargerSeq DEF LinkInv, Wire, wire
<1>6. PendingIsWaited' /\ Owned'
  BY <1>3, <1>4 DEF LinkInv, PendingIsWaited, Owned, WithoutId
<1> QED BY <1>4, <1>5, <1>6 DEF LinkInv

-----------------------------------------------------------------------------
(* The observer hands the answer to the one that waits for its number.      *)
LEMMA ReadLineKeeps ==
    ASSUME LinkInv, ReadLine
    PROVE  LinkInv'
<1> DEFINE m == Head(lines)
<1>1. m \in Faithfuls /\ lines' \in Seq(Faithfuls) /\ requests' = requests /\ nextId' = nextId
  BY HeadTailProperties DEF ReadLine, LinkInv, Wire
<1>2. /\ pending' = WithoutId(m.id)
      /\ call' = [c \in Caller |-> IF Entry(m.id, c) \in pending /\ call[c].pc = "wait"
                                   THEN Call("answered", m.id, call[c].asked, m.prop)
                                   ELSE call[c]]
  BY DEF ReadLine
<1>3. m \in [id : Nat, prop : Value] /\ Faithful(m)
  BY <1>1 DEF Faithfuls
<1> HIDE DEF m
<1>4. ASSUME NEW c \in Caller
      PROVE  \/ call'[c] = call[c] /\ ~(Entry(m.id, c) \in pending)
             \/ /\ call'[c] \in CallType /\ call'[c].pc = "answered"
                /\ call'[c].got = call'[c].asked
                /\ call[c].id = m.id
  <2>1. CASE Entry(m.id, c) \in pending
    <3>1. call[c].pc = "wait" /\ call[c].id = m.id
      BY <2>1 DEF LinkInv, PendingIsWaited, Entry
    <3>2. m.prop = call[c].asked /\ call[c].asked \in Value
      BY <1>3, <3>1 DEF Faithful, LinkInv, Typed, CallType
    <3>3. call'[c] = Call("answered", m.id, call[c].asked, m.prop)
      BY <1>2, <2>1, <3>1
    <3> QED BY <1>3, <3>1, <3>2, <3>3, CallIs DEF CallPcs
  <2>2. CASE Entry(m.id, c) \notin pending
    BY <1>2, <2>2
  <2> QED BY <2>1, <2>2
<1>5. Typed'
  <2>1. \A c \in Caller : call'[c] \in CallType
    BY <1>4 DEF LinkInv, Typed
  <2> QED BY <1>1, <1>2, <2>1 DEF LinkInv, Typed
<1>6. Faithfuls \subseteq Faithfuls' /\ Numbered'
  BY <1>1, <1>4, FaithfulStays
<1>7. Wire'
  BY <1>1, <1>6, LargerSeq DEF LinkInv, Wire
<1>8. AnswerIsOwn'
  BY <1>4 DEF LinkInv, AnswerIsOwn
<1>9. PendingIsWaited' /\ Owned'
  BY <1>2, <1>4 DEF LinkInv, PendingIsWaited, Owned, WithoutId
<1> QED BY <1>5, <1>6, <1>7, <1>8, <1>9 DEF LinkInv

(* The loop is over: all futures are cancelled, and nothing is pending.     *)
LEMMA OverKeeps ==
    ASSUME LinkInv, Over, nextId' = nextId, lines' = lines, requests' \in {requests, <<>>}
    PROVE  LinkInv'
<1>1. \A c \in Caller :
        \/ call'[c] = call[c]
        \/ call'[c] = Call("idle", 0, call[c].asked, None)
  BY DEF Over
<1>2. \A c \in Caller :
        LET s == Call("idle", 0, call[c].asked, None)
        IN  s \in CallType /\ s.pc = "idle" /\ s.got = None
  <2>1. \A c \in Caller : call[c].asked \in Value
    BY DEF LinkInv, Typed, CallType
  <2>2. "idle" \in CallPcs /\ None \in Value
    BY DEF CallPcs, Value
  <2> QED BY <2>1, <2>2, CallIs
<1>3. Typed'
  <2>1. \A c \in Caller : call'[c] \in CallType
    BY <1>1, <1>2 DEF LinkInv, Typed
  <2> QED BY <2>1 DEF Over, LinkInv, Typed
<1>4. Faithfuls \subseteq Faithfuls' /\ Numbered'
  BY <1>1, <1>2, FaithfulStays
<1>5. AnswerIsOwn'
  BY <1>1, <1>2 DEF LinkInv, AnswerIsOwn
<1>6. Wire'
  BY <1>4, LargerSeq, EmptySeq DEF LinkInv, Wire
<1> QED BY <1>3, <1>4, <1>5, <1>6 DEF Over, LinkInv, PendingIsWaited, Owned

(* mpv answers in order, or dies with what it has not handled.              *)
LEMMA MpvKeeps ==
    ASSUME LinkInv, MpvAnswers \/ MpvDies
    PROVE  LinkInv'
<1>1. UNCHANGED <<nextId, call, pending>>
  BY DEF MpvAnswers, MpvDies, ipcVars
<1>2. requests' \in Seq(Faithfuls) /\ lines' \in Seq(Faithfuls)
  <2>1. CASE MpvAnswers
    <3>1. Head(requests) \in Faithfuls /\ Tail(requests) \in Seq(Faithfuls)
      BY <2>1, HeadTailProperties DEF MpvAnswers, LinkInv, Wire
    <3> QED BY <2>1, <3>1, AppendProperties DEF MpvAnswers, LinkInv, Wire
  <2>2. CASE MpvDies
    BY <2>2, EmptySeq DEF MpvDies, LinkInv, Wire
  <2> QED BY <2>1, <2>2
<1>3. Faithfuls' = Faithfuls
  BY <1>1 DEF Faithfuls, Faithful
<1> QED BY <1>1, <1>2, <1>3 DEF LinkInv, Typed, Numbered, Wire, Owned, PendingIsWaited, AnswerIsOwn

LEMMA SameKeeps ==
    ASSUME LinkInv, UNCHANGED <<nextId, pending, call, wire>>
    PROVE  LinkInv'
<1>1. Faithfuls' = Faithfuls
  BY DEF Faithfuls, Faithful
<1> QED BY <1>1 DEF LinkInv, Typed, Numbered, Wire, Owned, PendingIsWaited, AnswerIsOwn, wire

-----------------------------------------------------------------------------
LEMMA InitInv == LinkInit => LinkInv
<1> SUFFICES ASSUME LinkInit PROVE LinkInv
  OBVIOUS
<1>1. Idle \in CallType /\ Idle.pc = "idle" /\ Idle.got = None
  BY CallIs DEF Idle, CallPcs, Value
<1>2. \A c \in Caller : call[c] = Idle
  BY DEF LinkInit
<1> QED BY <1>1, <1>2, EmptySeq
        DEF LinkInit, LinkInv, Typed, Numbered, Wire, Owned, PendingIsWaited, AnswerIsOwn

LEMMA StepInv == LinkInv /\ [LinkNext]_mpvVars => LinkInv'
<1> SUFFICES ASSUME LinkInv, [LinkNext]_mpvVars PROVE LinkInv'
  OBVIOUS
<1>1. CASE StartStep \/ Handled \/ ReadEof \/ Subscribe \/ Announce \/ ReadEvent \/ LinkAtRest
           \/ UNCHANGED mpvVars
  <2>1. UNCHANGED <<nextId, pending, call, wire>>
    BY <1>1 DEF StartStep, InitMpv, Spawn, TryConnect, Resume, Handled, ReadEof, Subscribe,
                Announce, ReadEvent, LinkAtRest, mpvVars, ipcVars
  <2> QED BY <2>1, SameKeeps
<1>2. CASE Reconnect
  <2>1. UNCHANGED <<pending, call>> \/ Over
    BY <1>2 DEF Reconnect
  <2>2. UNCHANGED <<nextId, wire, requests, lines>>
    BY <1>2 DEF Reconnect, wire
  <2> QED BY <2>1, <2>2, OverKeeps, SameKeeps
<1>3. CASE Close
  BY <1>3, OverKeeps DEF Close
<1>4. ASSUME NEW c \in Caller, CallerStep(c) \/ TimesOut(c) PROVE LinkInv'
  BY <1>4, AskKeeps, SendKeeps, DrainedWakesKeeps, TimesOutKeeps DEF CallerStep
<1>5. ASSUME NEW c \in Caller, SendCommand(c) \/ \E p \in Prop : GetProperty(c, p) PROVE LinkInv'
  BY <1>5, BeginsKeeps DEF SendCommand, GetProperty, Value
<1> QED BY <1>1, <1>2, <1>3, <1>4, <1>5, ReadLineKeeps, MpvKeeps DEF LinkNext, ObserverStep

(* The inductive invariant: it holds of every reachable state.              *)
THEOREM LinkInvariant == LinkSpec => []LinkInv
BY InitInv, StepInv, PTL DEF LinkSpec

(* A caller gets the value of the property it asked for or nothing, for any *)
(* number of callers and however late an answer is.                         *)
THEOREM AnswersReachTheirOwn == LinkSpec => []AnswerIsOwn
<1>1. LinkInv => AnswerIsOwn
  BY DEF LinkInv
<1> QED BY <1>1, LinkInvariant, PTL

(* The table of futures never holds one that nobody waits for, also when    *)
(* mpv never answers, dies or is closed.                                    *)
THEOREM TableHoldsNoDead == LinkSpec => []PendingIsWaited
<1>1. LinkInv => PendingIsWaited
  BY DEF LinkInv
<1> QED BY <1>1, LinkInvariant, PTL
=============================================================================
