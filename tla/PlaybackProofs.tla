--------------------------- MODULE PlaybackProofs ---------------------------
(***************************************************************************)
(* Theorems about Playback for every number of clients, slots and tracks,  *)
(* every queue, batch and breaker threshold, in three parts:               *)
(*   1. Inv: types, what a task may be doing at each place it waits        *)
(*      (Fits), who holds which lock and who can be cancelled;             *)
(*   2. Safe: what the locks are for.  The track shown and the file mpv    *)
(*      has are those of the attempt in progress, _loading is up while it  *)
(*      loads, the breaker bounds a run of failures, QUEUE mode never      *)
(*      rests in LOADING.  Each follows from one task at a time being      *)
(*      inside play_track and from what the others leave alone meanwhile;  *)
(*   3. that Playback implements SerialPlayer.                             *)
(***************************************************************************)
EXTENDS PlaybackSerial, SequenceTheorems, TLAPS


RadioOps == {"start", "standby", "backfill"}
PlayOps == {"play", "next", "prev", "select", "advance", "start", "standby", "initial"}

(* Which tasks may wait where, and that a task on its way to a play_track    *)
(* has a track for it.                                                      *)
Fits(j) ==
    /\ j \in JobType
    /\ j.pc = "idle" => j = Idle
    /\ j.pc \in {"want"} \cup PlayPhases => j.op \in PlayOps /\ j.arg \in Track
    /\ j.pc = "lock" => j.op \in ClientOps
    /\ j.op = "play" => j.arg \in Track
    /\ j.pc = "pausing" => j.op \in {"radio_off", "randomize"}
    /\ j.pc = "refill" => j.op \in {"next", "advance"}
    /\ j.pc \in {"eof", "errwait"} => j.op = "next"
    /\ j.pc = "stopwait" => j.op = "stopped"
    /\ j.pc = "advance" => j.op = "advance"
    /\ j.pc = "activate" => j.op = "radio_on"
    /\ j.pc = "stopping" => j.op = "stop"
    /\ j.pc = "backfill" => j.op = "backfill"
    /\ j.pc = "fetch" => j.op \in {"start", "initial"}

(* One task and the two locks and the tracked set, as LockDiscipline and     *)
(* TrackedAreRadio have them.                                               *)
HoldsPlay(j) == j.pc \in PlayPhases
HoldsLock(j) == \/ j.pc = "pausing"
                \/ j.op \in LockedOps /\ j.pc \in {"want", "refill"} \cup PlayPhases
Good(x) ==
    /\ Fits(task[x])
    /\ playLock = x <=> HoldsPlay(task[x])
    /\ lock = x <=> HoldsLock(task[x])
    /\ x \in tracked <=> task[x].op \in RadioOps

Data ==
    /\ lock \in Task \cup {NoTask} /\ playLock \in Task \cup {NoTask}
    /\ tracked \subseteq Bg
    /\ current \in MaybeTrack
    /\ status \in {"IDLE", "LOADING", "PLAYING", "ERROR"}
    /\ mode \in {"QUEUE", "RADIO"} /\ loop \in Loops
    /\ queue \in Seq(Track) /\ radioQueue \in Seq(Track) /\ history \in Seq(Track)
    /\ loading \in BOOLEAN
    /\ failures \in 0..(Threshold - 1) /\ streak \in Nat
    /\ mpvTrack \in MaybeTrack /\ mpvPaused \in BOOLEAN
    /\ mpvEnds \in Seq(EndType)
    /\ cmds \in Nat /\ ends \in Nat

IsTasks == task = [x \in Task |-> task[x]]

Inv == Data /\ IsTasks /\ \A x \in Task : Good(x)

-----------------------------------------------------------------------------
LEMMA InvStatesProperties == Inv => TypeOK /\ LockDiscipline /\ TrackedAreRadio
<1> SUFFICES ASSUME Inv PROVE TypeOK /\ LockDiscipline /\ TrackedAreRadio
  OBVIOUS
<1>1. task \in [Task -> JobType]
  BY DEF Inv, IsTasks, Good, Fits
<1>2. TypeOK
  BY <1>1 DEF Inv, Data, TypeOK
<1>3. LockDiscipline
  BY DEF Inv, Good, LockDiscipline, HoldsPlay, HoldsLock, InPlay
<1>4. TrackedAreRadio
  BY DEF Inv, Good, TrackedAreRadio, RadioOps
<1> QED BY <1>2, <1>3, <1>4

(* A task that only moves to another place keeps everything else.           *)
LEMMA MovedJob ==
    ASSUME NEW j \in JobType, NEW p \in Pcs
    PROVE  /\ [j EXCEPT !.pc = p] \in JobType
           /\ [j EXCEPT !.pc = p].pc = p
           /\ [j EXCEPT !.pc = p].op = j.op
           /\ [j EXCEPT !.pc = p].arg = j.arg
BY DEF JobType

LEMMA GotoTask ==
    ASSUME Inv, NEW t \in Task, NEW p \in Pcs, Goto(t, p)
    PROVE  /\ IsTasks'
           /\ \A x \in Task : x # t => task'[x] = task[x]
           /\ task'[t] \in JobType
           /\ task'[t].pc = p
           /\ task'[t].op = task[t].op
           /\ task'[t].arg = task[t].arg
<1>1. task[t] \in JobType
  BY DEF Inv, Good, Fits
<1>2. IsTasks' /\ task'[t] = [task[t] EXCEPT !.pc = p] /\ \A x \in Task : x # t => task'[x] = task[x]
  BY DEF Goto, Inv, IsTasks
<1> QED BY <1>1, <1>2, MovedJob

(* A task whose record, locks and tracking do not change stays as it is.    *)
LEMMA Untouched ==
    ASSUME Inv, NEW x \in Task,
           task'[x] = task[x],
           playLock' = x <=> playLock = x,
           lock' = x <=> lock = x,
           x \in tracked' <=> x \in tracked
    PROVE  Good(x)'
BY DEF Inv, Good

LEMMA PlayBeginKeeps ==
    ASSUME Inv, NEW t \in Task, PlayBegin(t)
    PROVE  Inv'
<1>1. task[t].pc = "want" /\ task[t].arg \in Track /\ task[t].op \in PlayOps /\ Good(t)
  BY DEF Inv, Good, Fits, PlayBegin
<1>2. history' \in Seq(Track)
  BY <1>1, PlaybackAssumption, AppendProperties, HeadTailProperties
  DEF PlayBegin, Remember, Inv, Data, MaybeTrack, PlaybackAssumption
<1>3. Data'
  BY <1>1, <1>2 DEF PlayBegin, Inv, Data, taskVars, mpvVars, breakerVars, budget, MaybeTrack, Task
<1>4. Goto(t, "load") /\ "load" \in Pcs
  BY DEF PlayBegin, Pcs, PlayPhases
<1>5. ASSUME NEW x \in Task, x # t PROVE Good(x)'
  <2>1. task'[x] = task[x]
    BY <1>4, <1>5, GotoTask
  <2> QED BY <1>5, <2>1, Untouched, PlaybackAssumption DEF PlayBegin, PlayLockFree, PlaybackAssumption
<1>6. Good(t)'
  BY <1>1, <1>4, GotoTask DEF PlayBegin, Good, Fits, HoldsPlay, HoldsLock, PlayPhases
<1> QED BY <1>3, <1>4, <1>5, <1>6, GotoTask DEF Inv

(* A phase of play_track is followed by another one.                        *)
LEMMA PhaseKeeps ==
    ASSUME Inv, NEW t \in Task, NEW p \in PlayPhases,
           task[t].pc \in PlayPhases, Goto(t, p), UNCHANGED <<lock, playLock, tracked>>
    PROVE  IsTasks' /\ \A x \in Task : Good(x)'
<1>1. p \in Pcs
  BY DEF Pcs
<1>2. ASSUME NEW x \in Task, x # t PROVE Good(x)'
  BY <1>1, <1>2, GotoTask, Untouched
<1>3. Good(t)'
  BY <1>1, GotoTask DEF Inv, Good, Fits, HoldsPlay, HoldsLock, PlayPhases
<1> QED BY <1>1, <1>2, <1>3, GotoTask

LEMMA PlayLoadKeeps ==
    ASSUME Inv, NEW t \in Task, PlayLoad(t) \/ PlayResume(t) \/ PlayFail(t)
    PROVE  Inv'
<1>1. PICK p \in PlayPhases : Goto(t, p) /\ task[t].pc \in PlayPhases
  BY DEF PlayLoad, PlayResume, PlayFail, PlayPhases
<1>2. UNCHANGED <<lock, playLock, tracked>>
  BY DEF PlayLoad, PlayResume, PlayFail
<1>3. CASE PlayLoad(t)
  <2>1. task[t].arg \in Track
    BY <1>1 DEF Inv, Good, Fits
  <2>2. mpvTrack # NoTrack => [trk |-> mpvTrack, reason |-> "stop"] \in EndType
    BY DEF Inv, Data, EndType, MaybeTrack
  <2>3. mpvEnds' \in Seq(EndType)
    BY <1>3, <2>2, AppendProperties DEF PlayLoad, Inv, Data
  <2> QED BY <1>1, <1>2, <1>3, <2>1, <2>3, PhaseKeeps
          DEF PlayLoad, Inv, Data, listVars, breakerVars, budget, MaybeTrack
<1>4. CASE PlayResume(t) \/ PlayFail(t)
  BY <1>1, <1>2, <1>4, PhaseKeeps
  DEF PlayResume, PlayFail, Inv, Data, listVars, breakerVars, mpvVars, budget
<1> QED BY <1>3, <1>4

(* What LeavePlay does to the task that leaves, and to the others.          *)
LEMMA LeaveKeeps ==
    ASSUME Inv, NEW t \in Task, task[t].pc \in PlayPhases, LeavePlay(t)
    PROVE  /\ playLock' = NoTask /\ lock' \in Task \cup {NoTask} /\ tracked' \subseteq Bg
           /\ task'[t] = AfterPlay(t) => Good(t)'
           /\ \A x \in Task : x # t /\ task'[x] = task[x] => Good(x)'
           /\ \A x \in Task : x # t => playLock' # x /\ (lock' = x <=> lock = x)
                                       /\ (x \in tracked' <=> x \in tracked)
<1>1. playLock = t /\ NoTask \notin Task
  BY PlaybackAssumption DEF Inv, Good, HoldsPlay, PlaybackAssumption
<1>2. \A x \in Task : x # t => playLock' # x /\ playLock # x /\ (lock' = x <=> lock = x)
                               /\ (x \in tracked' <=> x \in tracked)
  BY <1>1 DEF LeavePlay, Without
<1>3. \A x \in Task : x # t /\ task'[x] = task[x] => Good(x)'
  BY <1>2, Untouched
<1>4. ASSUME task'[t] = AfterPlay(t) PROVE Good(t)'
  <2>1. lock' # t /\ playLock' # t
    BY <1>1 DEF LeavePlay, Without
  <2>2. NoTrack \in MaybeTrack
    BY DEF MaybeTrack
  <2>3. CASE task[t].op = "start"
    <3>1. task'[t] = Job("backfill", "backfill", NoTrack, NoTrack) /\ t \in tracked'
      BY <1>4, <2>3 DEF AfterPlay, LeavePlay, Inv, Good, RadioOps
    <3> QED BY <2>1, <2>2, <3>1
            DEF Good, Fits, HoldsPlay, HoldsLock, PlayPhases, Job, JobType, Pcs, TaskOps,
                LockedOps, RadioOps
  <2>4. CASE task[t].op # "start"
    <3>1. task'[t] = Idle /\ t \notin tracked'
      BY <1>4, <2>4 DEF AfterPlay, LeavePlay
    <3> QED BY <2>1, <2>2, <3>1
            DEF Good, Fits, HoldsPlay, HoldsLock, PlayPhases, Idle, Job, JobType, Pcs, TaskOps,
                LockedOps, RadioOps
  <2> QED BY <2>3, <2>4
<1>5. lock' \in Task \cup {NoTask} /\ tracked' \subseteq Bg
  BY DEF LeavePlay, Without, Inv, Data
<1> QED BY <1>2, <1>3, <1>4, <1>5 DEF LeavePlay

LEMMA PlayFinalKeeps ==
    ASSUME Inv, NEW t \in Task, PlayFinal(t)
    PROVE  Inv'
<1>1. task[t].pc \in PlayPhases /\ LeavePlay(t)
  BY DEF PlayFinal, PlayPhases
<1>2. IsTasks' /\ task'[t] = AfterPlay(t) /\ \A x \in Task : x # t => task'[x] = task[x]
  BY DEF PlayFinal, Inv, IsTasks
<1>3. \A x \in Task : Good(x)'
  BY <1>1, <1>2, LeaveKeeps
<1>4. playLock' \in Task \cup {NoTask} /\ lock' \in Task \cup {NoTask} /\ tracked' \subseteq Bg
  BY <1>1, LeaveKeeps
<1>5. failures' \in 0..(Threshold - 1) /\ streak' \in Nat
  BY PlaybackAssumption DEF PlayFinal, PlaybackAssumption
<1>6. Data'
  BY <1>4, <1>5 DEF PlayFinal, Inv, Data, listVars, mpvVars, budget
<1> QED BY <1>2, <1>3, <1>6 DEF Inv

(* A failed track that is still the current one makes a task that advances. *)
LEMMA GiveUpKeeps ==
    ASSUME Inv, NEW t \in Task, task[t].pc \in PlayPhases, GiveUp(t)
    PROVE  /\ IsTasks' /\ \A x \in Task : Good(x)'
           /\ playLock' \in Task \cup {NoTask} /\ lock' \in Task \cup {NoTask}
           /\ tracked' \subseteq Bg
           /\ streak' \in Nat
<1>1. LeavePlay(t)
  BY DEF GiveUp
<1>2. streak' \in Nat
  BY DEF GiveUp, Inv, Data
<1>3. CASE current # task[t].arg
  <2>1. IsTasks' /\ task'[t] = AfterPlay(t) /\ \A x \in Task : x # t => task'[x] = task[x]
    BY <1>3 DEF GiveUp, Inv, IsTasks
  <2> QED BY <1>1, <1>2, <2>1, LeaveKeeps
<1>4. CASE current = task[t].arg
  <2>1. PICK b \in FreeBg :
          task' = [task EXCEPT ![t] = AfterPlay(t),
                               ![b] = Job("advance", "advance", task[t].arg, NoTrack)]
    BY <1>4 DEF GiveUp
  <2>2. b \in Task /\ b # t /\ task[b] = Idle
    BY DEF FreeBg, Task, Idle, Job, PlayPhases
  <2>3. /\ IsTasks' /\ task'[t] = AfterPlay(t)
        /\ task'[b] = Job("advance", "advance", task[t].arg, NoTrack)
        /\ \A x \in Task : x # t /\ x # b => task'[x] = task[x]
    BY <2>1, <2>2 DEF Inv, IsTasks
  <2>4. lock # b /\ b \notin tracked
    BY <2>2 DEF Inv, Good, HoldsLock, Idle, Job, LockedOps, RadioOps
  <2>5. playLock' # b /\ lock' # b /\ b \notin tracked'
    BY <1>1, <2>2, <2>4, LeaveKeeps
  <2>6. task[t].arg \in MaybeTrack /\ NoTrack \in MaybeTrack
    BY DEF Inv, Good, Fits, JobType, MaybeTrack
  <2>7. Good(b)'
    BY <2>3, <2>5, <2>6
    DEF Good, Fits, HoldsPlay, HoldsLock, PlayPhases, Job, JobType, Pcs, TaskOps,
        LockedOps, RadioOps
  <2> QED BY <1>1, <1>2, <2>2, <2>3, <2>7, LeaveKeeps
<1> QED BY <1>3, <1>4

LEMMA FailureKeeps ==
    ASSUME Inv, NEW t \in Task, RecordFailure(t) \/ BackoffEnd(t)
    PROVE  Inv'
<1> USE PlaybackAssumption DEF PlaybackAssumption
<1>1. task[t].pc \in PlayPhases
  BY DEF RecordFailure, BackoffEnd, PlayPhases
<1>2. CASE RecordFailure(t) /\ Trips
  <2>1. LeavePlay(t) /\ task' = [task EXCEPT ![t] = AfterPlay(t)]
    BY <1>2 DEF RecordFailure
  <2>2. IsTasks' /\ task'[t] = AfterPlay(t) /\ \A x \in Task : x # t => task'[x] = task[x]
    BY <2>1 DEF Inv, IsTasks
  <2>3. \A x \in Task : Good(x)'
    BY <1>1, <2>1, <2>2, LeaveKeeps
  <2>4. Data'
    BY <1>1, <1>2, <2>1, LeaveKeeps DEF RecordFailure, Inv, Data, listVars, mpvVars, budget
  <2> QED BY <2>2, <2>3, <2>4 DEF Inv
<1>3. CASE RecordFailure(t) /\ ~Trips /\ task[t].pc = "failed"
  <2>1. Goto(t, "backoff") /\ UNCHANGED <<lock, playLock, tracked>> /\ "backoff" \in PlayPhases
    BY <1>3 DEF RecordFailure, PlayPhases
  <2>2. IsTasks' /\ \A x \in Task : Good(x)'
    BY <1>1, <2>1, PhaseKeeps
  <2>3. Data'
    BY <1>3 DEF RecordFailure, Trips, Inv, Data, listVars, mpvVars, budget
  <2> QED BY <2>2, <2>3 DEF Inv
<1>4. CASE RecordFailure(t) /\ ~Trips /\ task[t].pc # "failed"
  <2>1. GiveUp(t)
    BY <1>4 DEF RecordFailure
  <2>2. Data'
    BY <1>1, <1>4, <2>1, GiveUpKeeps DEF RecordFailure, Trips, Inv, Data, listVars, mpvVars, budget
  <2> QED BY <1>1, <2>1, <2>2, GiveUpKeeps DEF Inv
<1>5. CASE BackoffEnd(t)
  <2>1. GiveUp(t)
    BY <1>5 DEF BackoffEnd
  <2>2. Data'
    BY <1>1, <1>5, <2>1, GiveUpKeeps DEF BackoffEnd, Inv, Data, listVars, mpvVars, budget
  <2> QED BY <1>1, <2>1, <2>2, GiveUpKeeps DEF Inv
<1> QED BY <1>2, <1>3, <1>4, <1>5


(* One task gets a new record, and nobody else's locks change hands.        *)
LEMMA SetJob ==
    ASSUME Inv, NEW t \in Task, NEW j,
           task' = [task EXCEPT ![t] = j],
           Fits(j),
           playLock' = t <=> HoldsPlay(j),
           lock' = t <=> HoldsLock(j),
           t \in tracked' <=> j.op \in RadioOps,
           \A x \in Task : x # t => /\ playLock' = x <=> playLock = x
                                    /\ lock' = x <=> lock = x
                                    /\ x \in tracked' <=> x \in tracked
    PROVE  IsTasks' /\ \A x \in Task : Good(x)'
<1>1. IsTasks' /\ task'[t] = j /\ \A x \in Task : x # t => task'[x] = task[x]
  BY DEF Inv, IsTasks
<1>2. Good(t)'
  BY <1>1 DEF Good
<1> QED BY <1>1, <1>2, Untouched

LEMMA IdleFits == Fits(Idle) /\ ~HoldsPlay(Idle) /\ ~HoldsLock(Idle) /\ Idle.op \notin RadioOps
BY DEF Fits, Idle, Job, JobType, Pcs, TaskOps, MaybeTrack, PlayPhases, HoldsPlay, HoldsLock,
       LockedOps, RadioOps

LEMMA WantFits ==
    ASSUME NEW j \in JobType, j.pc = "want", j.op \in PlayOps, j.arg \in Track
    PROVE  Fits(j) /\ ~HoldsPlay(j) /\ (HoldsLock(j) <=> j.op \in LockedOps)
BY DEF Fits, HoldsPlay, HoldsLock, PlayPhases

(* A task that ends without having held a lock or having been tracked.      *)
LEMMA EndsKeeps ==
    ASSUME Inv, NEW t \in Task, task' = [task EXCEPT ![t] = Idle],
           ~HoldsPlay(task[t]), ~HoldsLock(task[t]), task[t].op \notin RadioOps,
           UNCHANGED <<lock, playLock, tracked>>
    PROVE  IsTasks' /\ \A x \in Task : Good(x)'
<1>1. playLock # t /\ lock # t /\ t \notin tracked
  BY DEF Inv, Good
<1> QED BY <1>1, IdleFits, SetJob

(* A waiting task goes on to a play_track, and takes _lock if it keeps it.   *)
LEMMA WantKeeps ==
    ASSUME Inv, NEW t \in Task, NEW trk \in Track,
           task' = [task EXCEPT ![t].pc = "want", ![t].arg = trk],
           task[t].op \in PlayOps, ~HoldsPlay(task[t]),
           UNCHANGED <<playLock, tracked>>,
           IF task[t].op \in LockedOps THEN lock = NoTask /\ lock' = t ELSE lock' = lock
    PROVE  IsTasks' /\ \A x \in Task : Good(x)'
<1> DEFINE j == [task[t] EXCEPT !.pc = "want", !.arg = trk]
<1>1. task[t] \in JobType /\ (playLock = t <=> HoldsPlay(task[t]))
      /\ (t \in tracked <=> task[t].op \in RadioOps)
  BY DEF Inv, Good, Fits
<1>2. j \in JobType /\ j.pc = "want" /\ j.op = task[t].op /\ j.arg = trk
  BY <1>1 DEF JobType, Pcs, MaybeTrack
<1>3. task' = [task EXCEPT ![t] = j]
  BY DEF Inv, IsTasks
<1>4. Fits(j) /\ ~HoldsPlay(j) /\ (HoldsLock(j) <=> j.op \in LockedOps)
  BY <1>2, WantFits
<1>5. lock' = t <=> HoldsLock(j)
  <2>1. CASE task[t].op \in LockedOps
    BY <1>2, <1>4, <2>1
  <2>2. CASE task[t].op \notin LockedOps
    <3>1. lock # t
      <4>1. task[t].pc # "pausing"
        BY <2>2 DEF Inv, Good, Fits, PlayOps
      <4> QED BY <2>2, <4>1 DEF Inv, Good, HoldsLock
    <3> QED BY <1>2, <1>4, <2>2, <3>1
  <2> QED BY <2>1, <2>2
<1>6. \A x \in Task : x # t => (lock' = x <=> lock = x)
  BY PlaybackAssumption DEF PlaybackAssumption
<1> HIDE DEF j
<1> QED BY <1>1, <1>2, <1>3, <1>4, <1>5, <1>6, SetJob


-----------------------------------------------------------------------------
(* The queue and the radio give the next track.                             *)
LEMMA AdvanceToNextKeeps ==
    ASSUME Inv, NEW t \in Task, NEW l, AdvanceToNext(t, l),
           \/ task[t].op = "next" /\ task[t].pc = "lock" /\ lock = NoTask /\ l = t
           \/ task[t].op = "advance" /\ task[t].pc = "advance" /\ l = lock
    PROVE  Inv'
<1>1. /\ ~HoldsPlay(task[t]) /\ ~HoldsLock(task[t]) /\ task[t].op \in PlayOps
      /\ task[t].op \notin RadioOps /\ task[t] \in JobType
      /\ (task[t].op \in LockedOps <=> task[t].op = "next")
  BY DEF HoldsPlay, HoldsLock, PlayPhases, LockedOps, PlayOps, RadioOps, Inv, Good, Fits
<1>2. l \in Task \cup {NoTask}
  BY DEF Inv, Data
<1>3. /\ UNCHANGED <<playLock, mode, loop, history, loading, failures, streak,
                     mpvTrack, mpvPaused, mpvEnds, cmds, ends>>
      /\ QueueNext(t, l) \/ RadioNext(t, l)
  BY DEF AdvanceToNext, breakerVars, mpvVars, budget
<1>4. ASSUME NEW trk \in Track,
             task' = [task EXCEPT ![t].pc = "want", ![t].arg = trk],
             lock' = l, tracked' = tracked
      PROVE  IsTasks' /\ \A x \in Task : Good(x)'
  BY <1>1, <1>3, <1>4, WantKeeps
<1>5. CASE /\ lock' = l
           /\ loop = "track" /\ current # NoTrack
           /\ task' = [task EXCEPT ![t].pc = "want", ![t].arg = current]
           /\ UNCHANGED <<tracked, queue, radioQueue, status, current>>
  <2>1. current \in Track
    BY <1>5 DEF Inv, Data, MaybeTrack
  <2> QED BY <1>2, <1>3, <1>4, <1>5, <2>1 DEF Inv, Data
<1>6. CASE /\ queue = <<>> /\ status' = "IDLE" /\ current' = NoTrack
           /\ task' = [task EXCEPT ![t] = Idle]
           /\ UNCHANGED <<lock, tracked, queue, radioQueue>>
  <2>1. IsTasks' /\ \A x \in Task : Good(x)'
    BY <1>1, <1>3, <1>6, EndsKeeps
  <2> QED BY <1>3, <1>6, <2>1 DEF Inv, Data, MaybeTrack
<1>7. CASE /\ queue # <<>>
           /\ queue' = IF loop = "queue" THEN Append(Tail(queue), Head(queue)) ELSE Tail(queue)
           /\ task' = [task EXCEPT ![t].pc = "want", ![t].arg = Head(queue)]
           /\ lock' = l
           /\ UNCHANGED <<tracked, radioQueue, status, current>>
  <2>1. Head(queue) \in Track /\ Tail(queue) \in Seq(Track)
    BY <1>7, HeadTailProperties DEF Inv, Data
  <2>2. queue' \in Seq(Track)
    BY <1>7, <2>1, AppendProperties
  <2> QED BY <1>2, <1>3, <1>4, <1>7, <2>1, <2>2 DEF Inv, Data
<1>8. CASE /\ lock' = l /\ radioQueue # <<>>
           /\ radioQueue' = Tail(radioQueue)
           /\ task' = [task EXCEPT ![t].pc = "want", ![t].arg = Head(radioQueue)]
           /\ UNCHANGED <<tracked, queue, current, status>>
  <2>1. Head(radioQueue) \in Track /\ radioQueue' \in Seq(Track)
    BY <1>8, HeadTailProperties DEF Inv, Data
  <2> QED BY <1>2, <1>3, <1>4, <1>8, <2>1 DEF Inv, Data
<1>9. CASE /\ lock' = l /\ radioQueue = <<>>
           /\ status' = "LOADING" /\ Goto(t, "refill")
           /\ UNCHANGED <<radioQueue, tracked, queue, current>>
  <2>1. "refill" \in Pcs
    BY DEF Pcs
  <2>2. ASSUME NEW x \in Task, x # t PROVE Good(x)'
    BY <1>3, <1>9, <2>1, <2>2, GotoTask, Untouched, PlaybackAssumption DEF PlaybackAssumption
  <2>3. Good(t)'
    <3>1. playLock # t /\ t \notin tracked /\ lock # t
      BY <1>1 DEF Inv, Good
    <3>2. task'[t].op # "play"
      BY <1>9, <2>1, GotoTask
    <3> QED BY <1>1, <1>3, <1>9, <2>1, <3>1, <3>2, GotoTask
            DEF Good, Fits, HoldsPlay, HoldsLock, PlayPhases, LockedOps
  <2> QED BY <1>2, <1>3, <1>9, <2>1, <2>2, <2>3, GotoTask DEF Inv, Data
<1> QED BY <1>3, <1>5, <1>6, <1>7, <1>8, <1>9 DEF QueueNext, RadioNext

LEMMA IgnoredKeeps ==
    ASSUME Inv, NEW t \in Task, Ignored(t),
           ~HoldsPlay(task[t]), ~HoldsLock(task[t]), task[t].op \notin RadioOps
    PROVE  Inv'
<1>1. IsTasks' /\ \A x \in Task : Good(x)'
  BY EndsKeeps DEF Ignored
<1> QED BY <1>1 DEF Ignored, Inv, Data, listVars, breakerVars, mpvVars, budget

LEMMA WaitingHoldsNothing ==
    ASSUME Inv, NEW t \in Task, task[t].pc \in {"lock", "activate", "stopwait", "errwait", "eof"}
    PROVE  ~HoldsPlay(task[t]) /\ ~HoldsLock(task[t]) /\ task[t].op \notin RadioOps
BY DEF Inv, Good, Fits, HoldsPlay, HoldsLock, PlayPhases, RadioOps, ClientOps

LEMMA NextKeeps ==
    ASSUME Inv, NEW t \in Task, Next_(t) \/ Advance(t)
    PROVE  Inv'
<1>1. CASE Advance(t)
  <2>1. task[t].op = "advance"
    BY <1>1 DEF Advance, Inv, Good, Fits
  <2> QED BY <1>1, <2>1, AdvanceToNextKeeps DEF Advance
<1>2. CASE Next_(t) /\ Stale(t)
  BY <1>2, WaitingHoldsNothing, IgnoredKeeps DEF Next_, Waits
<1>3. CASE Next_(t) /\ ~Stale(t)
  BY <1>3, AdvanceToNextKeeps DEF Next_, Waits
<1> QED BY <1>1, <1>2, <1>3

LEMMA PrevKeeps ==
    ASSUME Inv, NEW t \in Task, Prev(t)
    PROVE  Inv'
<1>1. CASE Stale(t) \/ history = <<>>
  BY <1>1, WaitingHoldsNothing, IgnoredKeeps DEF Prev, Waits
<1>2. CASE ~(Stale(t) \/ history = <<>>)
  <2>1. history[Len(history)] \in Track /\ SubSeq(history, 1, Len(history) - 1) \in Seq(Track)
    BY <1>2, SubSeqProperties, EmptySeq, LenProperties DEF Inv, Data
  <2>2. IsTasks' /\ \A x \in Task : Good(x)'
    BY <1>2, <2>1, WaitingHoldsNothing, WantKeeps DEF Prev, Waits, LockedOps, PlayOps
  <2> QED BY <1>2, <2>1, <2>2 DEF Prev, Inv, Data, MaybeTrack, breakerVars, mpvVars, budget
<1> QED BY <1>1, <1>2


-----------------------------------------------------------------------------
(* Leaving the radio: the tracked tasks go, and what they held is free.     *)
LEMMA DeactivateKeeps ==
    ASSUME Inv, NEW t \in Task, NEW j, Deactivate(t, j),
           t \notin tracked, playLock # t,
           Fits(j), ~HoldsPlay(j), j.op \notin RadioOps,
           lock' = t <=> HoldsLock(j),
           \A x \in Task : x # t => (lock' = x <=> lock = x)
    PROVE  /\ IsTasks' /\ \A x \in Task : Good(x)'
           /\ playLock' \in Task \cup {NoTask} /\ tracked' = {} /\ radioQueue' = <<>>
<1>1. /\ playLock' = IF playLock \in tracked THEN NoTask ELSE playLock
      /\ tracked' = {} /\ radioQueue' = <<>>
      /\ \A x \in Task : task'[x] = IF x = t THEN j
                                    ELSE IF x \in tracked THEN Idle ELSE task[x]
      /\ IsTasks'
  BY DEF Deactivate, IsTasks
<1>2. NoTask \notin Task
  BY PlaybackAssumption DEF PlaybackAssumption
<1>3. ASSUME NEW x \in Task, x # t, x \notin tracked PROVE Good(x)'
  BY <1>1, <1>2, <1>3, Untouched
<1>4. ASSUME NEW x \in Task, x # t, x \in tracked PROVE Good(x)'
  <2>1. task[x].op \in RadioOps /\ Fits(task[x])
    BY <1>4 DEF Inv, Good
  <2>2. ~HoldsLock(task[x])
    BY <2>1 DEF RadioOps, HoldsLock, LockedOps, Fits
  <2>3. lock # x
    BY <2>2 DEF Inv, Good
  <2>4. playLock' # x
    BY <1>1, <1>2, <1>4
  <2> QED BY <1>1, <1>4, <2>3, <2>4, IdleFits DEF Good
<1>5. Good(t)'
  BY <1>1, <1>2 DEF Good
<1>6. playLock' \in Task \cup {NoTask}
  BY <1>1 DEF Inv, Data
<1> QED BY <1>1, <1>3, <1>4, <1>5, <1>6

LEMMA PlayTrackKeeps ==
    ASSUME Inv, NEW t \in Task, PlayTrack(t)
    PROVE  Inv'
<1> DEFINE j == [task[t] EXCEPT !.pc = "want"]
<1>1. /\ task[t] \in JobType /\ task[t].pc = "lock" /\ task[t].op = "play" /\ task[t].arg \in Track
      /\ lock = NoTask /\ lock' = t
  BY DEF PlayTrack, Waits, Inv, Good, Fits
<1>2. ~HoldsPlay(task[t]) /\ playLock # t /\ t \notin tracked
  BY <1>1, WaitingHoldsNothing DEF Inv, Good
<1>3. j \in JobType /\ j.pc = "want" /\ j.op = "play" /\ j.arg \in Track
  BY <1>1 DEF JobType, Pcs
<1>4. Fits(j) /\ ~HoldsPlay(j) /\ HoldsLock(j) /\ j.op \notin RadioOps
  BY <1>3, WantFits DEF PlayOps, LockedOps, RadioOps
<1>5. \A x \in Task : x # t => (lock' = x <=> lock = x)
  BY <1>1, PlaybackAssumption DEF PlaybackAssumption
<1>6. CASE mode = "RADIO"
  <2>1. Deactivate(t, j) /\ mode' = "QUEUE"
    BY <1>6 DEF PlayTrack
  <2> HIDE DEF j
  <2>2. /\ IsTasks' /\ \A x \in Task : Good(x)'
        /\ playLock' \in Task \cup {NoTask} /\ tracked' = {} /\ radioQueue' = <<>>
    BY <1>1, <1>2, <1>4, <1>5, <2>1, DeactivateKeeps
  <2> QED BY <1>1, <2>1, <2>2, EmptySeq DEF PlayTrack, Inv, Data, breakerVars, mpvVars, budget
<1>7. CASE mode # "RADIO"
  <2>1. task' = [task EXCEPT ![t] = j] /\ UNCHANGED <<tracked, playLock, radioQueue, mode>>
    BY <1>7 DEF PlayTrack
  <2> HIDE DEF j
  <2>2. IsTasks' /\ \A x \in Task : Good(x)'
    BY <1>1, <1>2, <1>4, <1>5, <2>1, SetJob
  <2> QED BY <1>1, <2>1, <2>2 DEF PlayTrack, Inv, Data, breakerVars, mpvVars, budget
<1> QED BY <1>6, <1>7

LEMMA SelectKeeps ==
    ASSUME Inv, NEW t \in Task, Select(t)
    PROVE  Inv'
<1>1. task[t] \in JobType /\ task[t].pc = "lock" /\ task[t].op = "select" /\ lock = NoTask
  BY DEF Select, Waits, Inv, Good, Fits
<1>2. /\ ~HoldsPlay(task[t]) /\ ~HoldsLock(task[t]) /\ task[t].op \notin RadioOps
      /\ playLock # t /\ t \notin tracked
  BY <1>1, WaitingHoldsNothing DEF Inv, Good
<1>3. CASE Ignored(t)
  BY <1>2, <1>3, IgnoredKeeps
<1>4. CASE ~Ignored(t)
  <2>1. PICK i \in 1..Len(queue) :
          /\ queue' = SubSeq(queue, i + 1, Len(queue))
          /\ LET job == [task[t] EXCEPT !.pc = "want", !.arg = queue[i]]
             IN  IF mode = "RADIO"
                 THEN Deactivate(t, job) /\ mode' = "QUEUE"
                 ELSE /\ task' = [task EXCEPT ![t] = job]
                      /\ UNCHANGED <<tracked, playLock, radioQueue, mode>>
          /\ UNCHANGED <<lock, current, status, loop, history, loading, breakerVars,
                         mpvVars, budget>>
    BY <1>4 DEF Select
  <2> DEFINE j == [task[t] EXCEPT !.pc = "want", !.arg = queue[i]]
  <2>2. queue[i] \in Track /\ queue' \in Seq(Track)
    BY <2>1, SubSeqProperties, ElementOfSeq, LenProperties DEF Inv, Data
  <2>3. j \in JobType /\ j.pc = "want" /\ j.op = "select" /\ j.arg \in Track
    <3>1. task[t] \in JobType /\ task[t].op = "select" /\ queue[i] \in MaybeTrack
      BY <1>1, <2>2 DEF MaybeTrack
    <3>2. "want" \in Pcs
      BY DEF Pcs
    <3> QED BY <2>2, <3>1, <3>2 DEF JobType
  <2>4. Fits(j) /\ ~HoldsPlay(j) /\ ~HoldsLock(j) /\ j.op \notin RadioOps
    BY <2>3, WantFits DEF PlayOps, LockedOps, RadioOps
  <2>5. lock' = lock /\ t # NoTask
    BY <2>1, PlaybackAssumption DEF PlaybackAssumption
  <2>6. CASE mode = "RADIO"
    <3>1. Deactivate(t, j) /\ mode' = "QUEUE"
      BY <2>1, <2>6
    <3> HIDE DEF j
    <3>2. /\ IsTasks' /\ \A x \in Task : Good(x)'
          /\ playLock' \in Task \cup {NoTask} /\ tracked' = {} /\ radioQueue' = <<>>
      BY <1>1, <1>2, <2>4, <2>5, <3>1, DeactivateKeeps
    <3> QED BY <2>1, <2>2, <3>1, <3>2, EmptySeq DEF Inv, Data, breakerVars, mpvVars, budget
  <2>7. CASE mode # "RADIO"
    <3>1. task' = [task EXCEPT ![t] = j] /\ UNCHANGED <<tracked, playLock, radioQueue, mode>>
      BY <2>1, <2>7
    <3> HIDE DEF j
    <3>2. IsTasks' /\ \A x \in Task : Good(x)'
      BY <1>1, <1>2, <2>4, <2>5, <3>1, SetJob
    <3> QED BY <2>1, <2>2, <3>1, <3>2 DEF Inv, Data, breakerVars, mpvVars, budget
  <2> QED BY <2>6, <2>7
<1> QED BY <1>3, <1>4


-----------------------------------------------------------------------------
(* A task ends and leaves a fetch behind, in a free slot or its own.        *)
LEMMA SpawnKeeps ==
    ASSUME Inv, NEW t \in Task, NEW s \in Slots(t), NEW op \in {"start", "initial"},
           task' = [task EXCEPT ![t] = Idle, ![s] = Job("fetch", op, NoTrack, NoTrack)],
           ~HoldsPlay(task[t]), task[t].op \notin RadioOps,
           tracked' = IF op = "start" THEN tracked \cup {s} ELSE tracked,
           playLock' = playLock, lock' # t,
           \A x \in Task : x # t => (lock' = x <=> lock = x)
    PROVE  IsTasks' /\ tracked' \subseteq Bg /\ \A x \in Task : Good(x)'
<1> DEFINE f == Job("fetch", op, NoTrack, NoTrack)
<1>1. Fits(f) /\ ~HoldsPlay(f) /\ ~HoldsLock(f) /\ (f.op \in RadioOps <=> op = "start")
  BY DEF Fits, HoldsPlay, HoldsLock, PlayPhases, Job, JobType, Pcs, TaskOps, MaybeTrack,
         LockedOps, RadioOps
<1>2. s \in Bg /\ s \in Task /\ (s # t => task[s] = Idle)
  BY DEF Slots, FreeBg, Task
<1>3. playLock # t /\ t \notin tracked
  BY DEF Inv, Good
<1>4. s # t => playLock # s /\ lock # s /\ s \notin tracked
  BY <1>2, IdleFits DEF Inv, Good
<1>5. IsTasks' /\ task'[s] = f /\ (s # t => task'[t] = Idle)
      /\ \A x \in Task : x # t /\ x # s => task'[x] = task[x]
  BY <1>2 DEF Inv, IsTasks
<1> HIDE DEF f
<1>6. Good(s)'
  BY <1>1, <1>2, <1>3, <1>4, <1>5 DEF Good
<1>7. s # t => Good(t)'
  BY <1>3, <1>5, IdleFits DEF Good
<1>8. ASSUME NEW x \in Task, x # t, x # s PROVE Good(x)'
  BY <1>5, <1>8, Untouched
<1>9. tracked' \subseteq Bg
  BY <1>2 DEF Inv, Data
<1> QED BY <1>5, <1>6, <1>7, <1>8, <1>9

LEMMA RefillKeeps ==
    ASSUME Inv, NEW t \in Task, Refill(t)
    PROVE  Inv'
<1>1. ~HoldsPlay(task[t]) /\ task[t].op \notin RadioOps
  BY DEF Refill, Inv, Good, Fits, HoldsPlay, PlayPhases, RadioOps
<1>2. lock' # t /\ lock' \in Task \cup {NoTask} /\ \A x \in Task : x # t => (lock' = x <=> lock = x)
  BY PlaybackAssumption DEF Refill, Without, Inv, Data, PlaybackAssumption
<1>3. PICK s \in Slots(t) :
        /\ task' = [task EXCEPT ![t] = Idle, ![s] = Job("fetch", "start", NoTrack, NoTrack)]
        /\ tracked' = tracked \cup {s}
  BY DEF Refill
<1>4. playLock' = playLock
  BY DEF Refill
<1>5. IsTasks' /\ tracked' \subseteq Bg /\ \A x \in Task : Good(x)'
  BY <1>1, <1>2, <1>3, <1>4, SpawnKeeps
<1> QED BY <1>2, <1>5 DEF Refill, Inv, Data, listVars, breakerVars, mpvVars, budget

LEMMA ActivateKeeps ==
    ASSUME Inv, NEW t \in Task, Activate(t)
    PROVE  Inv'
<1>1. ~HoldsPlay(task[t]) /\ ~HoldsLock(task[t]) /\ task[t].op \notin RadioOps
  BY WaitingHoldsNothing DEF Activate
<1>2. CASE Ignored(t)
  BY <1>1, <1>2, IgnoredKeeps
<1>3. CASE ~Ignored(t)
  <2>1. PICK s \in Slots(t) :
          /\ task' = [task EXCEPT ![t] = Idle, ![s] = Job("fetch", "start", NoTrack, NoTrack)]
          /\ tracked' = tracked \cup {s}
    BY <1>3 DEF Activate
  <2>2. lock' = lock /\ playLock' = playLock /\ lock' # t /\ radioQueue' = <<>>
    BY <1>1, <1>3 DEF Activate, Inv, Good
  <2>3. IsTasks' /\ tracked' \subseteq Bg /\ \A x \in Task : Good(x)'
    BY <1>1, <2>1, <2>2, SpawnKeeps
  <2> QED BY <1>3, <2>2, <2>3, EmptySeq DEF Activate, Inv, Data, breakerVars, mpvVars, budget
<1> QED BY <1>2, <1>3

LEMMA PauseEndKeeps ==
    ASSUME Inv, NEW t \in Task, PauseEnd(t)
    PROVE  Inv'
<1>1. /\ task[t].pc = "pausing" /\ task[t].op \in {"radio_off", "randomize"}
      /\ ~HoldsPlay(task[t]) /\ task[t].op \notin RadioOps /\ lock = t
      /\ playLock # t /\ t \notin tracked
  BY DEF PauseEnd, Inv, Good, Fits, HoldsPlay, HoldsLock, PlayPhases, RadioOps
<1>2. /\ lock' = NoTask /\ current' = NoTrack /\ lock' # t
      /\ \A x \in Task : x # t => (lock' = x <=> lock = x)
  BY <1>1, PlaybackAssumption DEF PauseEnd, PlaybackAssumption
<1>3. UNCHANGED <<playLock, tracked, mode, loop, queue, radioQueue, history, loading, failures,
                  streak, mpvTrack, mpvPaused, mpvEnds, cmds, ends>>
  BY DEF PauseEnd, listVars, breakerVars, mpvVars, budget
<1>4. CASE task[t].op = "radio_off"
  <2>1. status' = "IDLE" /\ task' = [task EXCEPT ![t] = Idle]
    BY <1>4 DEF PauseEnd
  <2>2. IsTasks' /\ \A x \in Task : Good(x)'
    BY <1>1, <1>2, <1>3, <2>1, IdleFits, SetJob
  <2> QED BY <1>2, <1>3, <2>1, <2>2 DEF Inv, Data, MaybeTrack
<1>5. CASE task[t].op # "radio_off"
  <2>1. PICK s \in Slots(t) :
          task' = [task EXCEPT ![t] = Idle, ![s] = Job("fetch", "initial", NoTrack, NoTrack)]
    BY <1>5 DEF PauseEnd
  <2>2. status' = "LOADING"
    BY <1>5 DEF PauseEnd
  <2>3. IsTasks' /\ \A x \in Task : Good(x)'
    BY <1>1, <1>2, <1>3, <2>1, SpawnKeeps
  <2> QED BY <1>2, <1>3, <2>2, <2>3 DEF Inv, Data, MaybeTrack
<1> QED BY <1>4, <1>5


(* A command moves on without playing.                                      *)
LEMMA MoveKeeps ==
    ASSUME Inv, NEW t \in Task, NEW p \in {"stopping", "activate", "pausing", "lock"}, Goto(t, p),
           task[t].pc \in {"lock", "eof", "errwait"},
           p = "stopping" => task[t].op = "stop",
           p = "activate" => task[t].op = "radio_on",
           p = "pausing" => task[t].op = "randomize",
           p = "lock" => task[t].op = "next",
           UNCHANGED <<playLock, tracked>>,
           IF p = "pausing" THEN lock = NoTask /\ lock' = t ELSE lock' = lock
    PROVE  IsTasks' /\ \A x \in Task : Good(x)'
<1>1. p \in Pcs
  BY DEF Pcs
<1>2. /\ ~HoldsPlay(task[t]) /\ ~HoldsLock(task[t]) /\ task[t].op \notin RadioOps
      /\ playLock # t /\ lock # t /\ t \notin tracked
  BY WaitingHoldsNothing DEF Inv, Good
<1>3. \A x \in Task : x # t => (lock' = x <=> lock = x)
  BY PlaybackAssumption DEF PlaybackAssumption
<1>4. ASSUME NEW x \in Task, x # t PROVE Good(x)'
  BY <1>1, <1>3, <1>4, GotoTask, Untouched
<1>5. Fits(task'[t])
  BY <1>1, GotoTask DEF Inv, Good, Fits, PlayPhases, ClientOps
<1>6. ~HoldsPlay(task'[t]) /\ (HoldsLock(task'[t]) <=> p = "pausing")
  BY <1>1, GotoTask DEF HoldsPlay, HoldsLock, PlayPhases
<1>7. Good(t)'
  BY <1>1, <1>2, <1>5, <1>6, GotoTask DEF Good, Fits, HoldsPlay, HoldsLock
<1> QED BY <1>1, <1>4, <1>7, GotoTask

LEMMA StopKeeps ==
    ASSUME Inv, NEW t \in Task, StopBegin(t) \/ StopEnd(t)
    PROVE  Inv'
<1>1. CASE StopBegin(t)
  <2>1. IsTasks' /\ \A x \in Task : Good(x)'
    BY <1>1, MoveKeeps DEF StopBegin
  <2> QED BY <1>1, <2>1, PlaybackAssumption
          DEF StopBegin, Inv, Data, listVars, budget, PlaybackAssumption
<1>2. CASE StopEnd(t)
  <2>1. ~HoldsPlay(task[t]) /\ ~HoldsLock(task[t]) /\ task[t].op \notin RadioOps
    BY <1>2 DEF StopEnd, Inv, Good, Fits, HoldsPlay, HoldsLock, PlayPhases, LockedOps, RadioOps
  <2>2. IsTasks' /\ \A x \in Task : Good(x)'
    BY <1>2, <2>1, EndsKeeps DEF StopEnd
  <2> QED BY <1>2, <2>2, EmptySeq DEF StopEnd, Inv, Data, MaybeTrack, breakerVars, mpvVars, budget
<1> QED BY <1>1, <1>2

LEMMA ModeKeeps ==
    ASSUME Inv, NEW t \in Task, RadioOn(t) \/ RadioOff(t) \/ Randomize(t)
    PROVE  Inv'
<1>1. task[t].pc = "lock" /\ lock = NoTask
  BY DEF RadioOn, RadioOff, Randomize, Waits
<1>2. /\ ~HoldsPlay(task[t]) /\ ~HoldsLock(task[t]) /\ task[t].op \notin RadioOps
      /\ playLock # t /\ lock # t /\ t \notin tracked /\ task[t] \in JobType
  BY <1>1, WaitingHoldsNothing DEF Inv, Good, Fits
<1>3. CASE Ignored(t)
  BY <1>2, <1>3, IgnoredKeeps
<1>4. CASE RadioOn(t) /\ ~Ignored(t)
  <2>1. IsTasks' /\ \A x \in Task : Good(x)'
    BY <1>4, MoveKeeps DEF RadioOn, Waits
  <2> QED BY <1>4, <2>1 DEF RadioOn, Inv, Data, listVars, breakerVars, mpvVars, budget
<1>5. CASE Randomize(t) /\ ~Ignored(t)
  <2>1. IsTasks' /\ \A x \in Task : Good(x)'
    BY <1>5, MoveKeeps DEF Randomize, Waits
  <2> QED BY <1>5, <2>1, EmptySeq DEF Randomize, Inv, Data, breakerVars, mpvVars, budget
<1>6. CASE RadioOff(t) /\ ~Ignored(t)
  <2> DEFINE j == [task[t] EXCEPT !.pc = "pausing"]
  <2>1. Deactivate(t, j) /\ lock' = t /\ mode' = "QUEUE" /\ task[t].op = "radio_off"
    BY <1>6 DEF RadioOff, Waits
  <2>2. j \in JobType /\ j.pc = "pausing" /\ j.op = "radio_off"
    BY <1>2, <2>1 DEF JobType, Pcs
  <2> HIDE DEF j
  <2>3. Fits(j) /\ ~HoldsPlay(j) /\ HoldsLock(j) /\ j.op \notin RadioOps
    BY <2>2 DEF Fits, HoldsPlay, HoldsLock, PlayPhases, RadioOps
  <2>4. \A x \in Task : x # t => (lock' = x <=> lock = x)
    BY <1>1, <2>1, PlaybackAssumption DEF PlaybackAssumption
  <2>5. /\ IsTasks' /\ \A x \in Task : Good(x)'
        /\ playLock' \in Task \cup {NoTask} /\ tracked' = {} /\ radioQueue' = <<>>
    BY <1>2, <2>1, <2>3, <2>4, DeactivateKeeps
  <2> QED BY <1>6, <2>1, <2>5, EmptySeq DEF RadioOff, Inv, Data, breakerVars, budget
<1> QED BY <1>3, <1>4, <1>5, <1>6

LEMMA FetchKeeps ==
    ASSUME Inv, NEW t \in Task, Fetch(t)
    PROVE  Inv'
<1>1. /\ task[t].pc = "fetch" /\ task[t].op \in {"start", "initial"}
      /\ ~HoldsPlay(task[t]) /\ ~HoldsLock(task[t])
      /\ playLock # t /\ lock # t /\ (t \in tracked <=> task[t].op \in RadioOps)
  BY DEF Fetch, Inv, Good, Fits, HoldsPlay, HoldsLock, PlayPhases, LockedOps
<1>2. UNCHANGED <<lock, playLock, current, status, mode, loop, queue, history, loading, failures,
                  streak, mpvTrack, mpvPaused, mpvEnds, cmds, ends>>
  BY DEF Fetch, breakerVars, mpvVars, budget
<1>3. CASE task' = [task EXCEPT ![t] = Idle] /\ tracked' = tracked \ {t} /\ UNCHANGED radioQueue
  <2>1. IsTasks' /\ \A x \in Task : Good(x)'
    BY <1>1, <1>2, <1>3, IdleFits, SetJob
  <2> QED BY <1>2, <1>3, <2>1 DEF Inv, Data
<1>4. CASE \E b \in Batch, op \in {task[t].op} \cup (IF task[t].op = "start" THEN {"standby"} ELSE {}) :
             /\ b # <<>>
             /\ radioQueue' = Tail(b)
             /\ task' = [task EXCEPT ![t] = Job("want", op, Head(b), NoTrack)]
             /\ UNCHANGED tracked
  <2>1. PICK b \in Batch, op \in {task[t].op} \cup (IF task[t].op = "start" THEN {"standby"} ELSE {}) :
             /\ b # <<>>
             /\ radioQueue' = Tail(b)
             /\ task' = [task EXCEPT ![t] = Job("want", op, Head(b), NoTrack)]
             /\ UNCHANGED tracked
    BY <1>4
  <2>2. Head(b) \in Track /\ Tail(b) \in Seq(Track)
    BY <2>1, HeadTailProperties, PlaybackAssumption DEF PlaybackAssumption
  <2> DEFINE j == Job("want", op, Head(b), NoTrack)
  <2>3. op \in {"start", "standby", "initial"} /\ (op \in RadioOps <=> task[t].op \in RadioOps)
    BY <1>1, <2>1 DEF RadioOps
  <2>4. j \in JobType /\ j.pc = "want" /\ j.op = op /\ j.arg \in Track
    BY <2>2, <2>3 DEF Job, JobType, Pcs, TaskOps, MaybeTrack
  <2> HIDE DEF j
  <2>5. Fits(j) /\ ~HoldsPlay(j) /\ ~HoldsLock(j)
    BY <2>3, <2>4, WantFits DEF PlayOps, LockedOps
  <2>6. task' = [task EXCEPT ![t] = j]
    BY <2>1 DEF j
  <2>7. IsTasks' /\ \A x \in Task : Good(x)'
    BY <1>1, <1>2, <2>1, <2>3, <2>4, <2>5, <2>6, SetJob
  <2> QED BY <1>2, <2>1, <2>2, <2>7 DEF Inv, Data
<1> QED BY <1>3, <1>4 DEF Fetch

LEMMA BackfillKeeps ==
    ASSUME Inv, NEW t \in Task, Backfill(t)
    PROVE  Inv'
<1>1. /\ ~HoldsPlay(task[t]) /\ ~HoldsLock(task[t]) /\ playLock # t /\ lock # t
  BY DEF Backfill, Inv, Good, Fits, HoldsPlay, HoldsLock, PlayPhases, LockedOps
<1>2. radioQueue' \in Seq(Track)
  <2>1. ASSUME NEW b \in Batch,
               radioQueue' = SubSeq(radioQueue \o b, 1,
                                    IF Len(radioQueue \o b) > RadioCap THEN RadioCap
                                    ELSE Len(radioQueue \o b))
        PROVE  radioQueue' \in Seq(Track)
    <3>1. radioQueue \o b \in Seq(Track)
      BY ConcatProperties, PlaybackAssumption DEF Inv, Data, PlaybackAssumption
    <3> QED BY <2>1, <3>1, SubSeqProperties, LenProperties, PlaybackAssumption DEF PlaybackAssumption
  <2> QED BY <2>1 DEF Backfill, Inv, Data
<1>3. IsTasks' /\ \A x \in Task : Good(x)'
  BY <1>1, IdleFits, SetJob DEF Backfill
<1> QED BY <1>2, <1>3 DEF Backfill, Inv, Data, breakerVars, mpvVars, budget


-----------------------------------------------------------------------------
LEMMA EndedKeeps ==
    ASSUME Inv, NEW t \in Task, Ended(t)
    PROVE  Inv'
<1>1. CASE EofWake(t)
  <2>1. task[t].op = "next"
    BY <1>1 DEF EofWake, Inv, Good, Fits
  <2>2. IsTasks' /\ \A x \in Task : Good(x)'
    BY <1>1, <2>1, MoveKeeps DEF EofWake
  <2> QED BY <1>1, <2>2 DEF EofWake, Inv, Data, listVars, breakerVars, mpvVars, budget
<1>2. CASE StopWake(t)
  <2>1. IsTasks' /\ \A x \in Task : Good(x)'
    BY <1>2, WaitingHoldsNothing, EndsKeeps DEF StopWake
  <2> QED BY <1>2, <2>1 DEF StopWake, Inv, Data, listVars, breakerVars, mpvVars, budget
<1>3. CASE ErrorWake(t)
  <2>1. task[t].op = "next" /\ task[t].pc = "errwait"
    BY <1>3 DEF ErrorWake, Inv, Good, Fits
  <2>2. UNCHANGED <<lock, playLock, tracked>>
    BY <1>3 DEF ErrorWake
  <2>3. \/ task' = [task EXCEPT ![t] = Idle]
        \/ Goto(t, "lock")
    BY <1>3 DEF ErrorWake, Goto
  <2>4. IsTasks' /\ \A x \in Task : Good(x)'
    <3>1. CASE task' = [task EXCEPT ![t] = Idle]
      BY <2>1, <2>2, <3>1, WaitingHoldsNothing, EndsKeeps
    <3>2. CASE Goto(t, "lock")
      BY <2>1, <2>2, <3>2, MoveKeeps
    <3> QED BY <2>3, <3>1, <3>2
  <2> QED BY <1>3, <2>4 DEF ErrorWake, Inv, Data, listVars, breakerVars, mpvVars, budget
<1> QED BY <1>1, <1>2, <1>3 DEF Ended

(* A task that starts waiting in an idle client or slot.                    *)
LEMMA NewJobKeeps ==
    ASSUME Inv, NEW t \in Task, NEW j, task[t] = Idle, task' = [task EXCEPT ![t] = j],
           Fits(j), j.pc \in {"lock", "eof", "errwait", "stopwait"},
           UNCHANGED <<lock, playLock, tracked>>
    PROVE  IsTasks' /\ \A x \in Task : Good(x)'
<1>1. playLock # t /\ lock # t /\ t \notin tracked
  BY IdleFits DEF Inv, Good
<1>2. ~HoldsPlay(j) /\ ~HoldsLock(j) /\ j.op \notin RadioOps
  BY DEF Fits, HoldsPlay, HoldsLock, PlayPhases, RadioOps, ClientOps
<1> QED BY <1>1, <1>2, SetJob

LEMMA TrackEndedKeeps ==
    ASSUME Inv, NEW b \in Bg, TrackEnded(b)
    PROVE  Inv'
<1>1. b \in Task /\ task[b] = Idle
  BY DEF TrackEnded, Task
<1>2. mpvEnds # <<>> /\ Head(mpvEnds) \in EndType /\ mpvEnds' \in Seq(EndType)
  BY HeadTailProperties DEF TrackEnded, Inv, Data
<1>3. current \in MaybeTrack /\ Head(mpvEnds).trk \in MaybeTrack /\ NoTrack \in MaybeTrack
  BY <1>2 DEF Inv, Data, EndType, MaybeTrack
<1>4. /\ Fits(Job("eof", "next", current, Head(mpvEnds).trk))
      /\ Fits(Job("errwait", "next", current, Head(mpvEnds).trk))
      /\ Fits(Job("stopwait", "stopped", NoTrack, NoTrack))
  BY <1>3 DEF Fits, Job, JobType, Pcs, PlayPhases, TaskOps, ClientOps
<1>5. Job("eof", "next", current, Head(mpvEnds).trk).pc = "eof"
      /\ Job("errwait", "next", current, Head(mpvEnds).trk).pc = "errwait"
      /\ Job("stopwait", "stopped", NoTrack, NoTrack).pc = "stopwait"
  BY DEF Job
<1>6. UNCHANGED <<lock, playLock, tracked, current, mode, loop, queue, radioQueue, history,
                  loading, failures, streak, mpvTrack, mpvPaused, cmds, ends>>
      /\ status' \in {"IDLE", "LOADING", "PLAYING", "ERROR"}
  BY DEF TrackEnded, listVars, breakerVars, budget, Inv, Data
<1>7. \/ task' = [task EXCEPT ![b] = Job("eof", "next", current, Head(mpvEnds).trk)]
      \/ task' = [task EXCEPT ![b] = Job("errwait", "next", current, Head(mpvEnds).trk)]
      \/ task' = [task EXCEPT ![b] = Job("stopwait", "stopped", NoTrack, NoTrack)]
      \/ task' = task
  BY DEF TrackEnded
<1>8. IsTasks' /\ \A x \in Task : Good(x)'
  <2>1. CASE task' = task
    BY <1>6, <2>1, Untouched DEF Inv, IsTasks
  <2>2. CASE task' # task
    BY <1>1, <1>4, <1>5, <1>6, <1>7, <2>2, NewJobKeeps
  <2> QED BY <2>1, <2>2
<1> QED BY <1>2, <1>6, <1>8 DEF Inv, Data

LEMMA SubmitKeeps ==
    ASSUME Inv, NEW c \in Client, Submit(c)
    PROVE  Inv'
<1>1. c \in Task /\ task[c] = Idle
  BY DEF Submit, Task
<1>2. PICK op \in ClientOps, arg \in MaybeTrack :
        task' = [task EXCEPT ![c] = Job("lock", op, arg, NoTrack)] /\ (op = "play" => arg \in Track)
  <2>1. PICK op \in Ops \cap {"play", "next", "prev", "select", "stop", "radio_on",
                              "radio_off", "randomize"} :
          \E arg \in CASE op = "play" -> Track
                       [] op \in {"next", "prev"} -> {current, NoTrack}
                       [] OTHER -> {NoTrack} :
            task' = [task EXCEPT ![c] = Job("lock", op, arg, NoTrack)]
    BY DEF Submit
  <2>2. current \in MaybeTrack
    BY DEF Inv, Data
  <2>3. CASE op = "play"
    BY <2>1, <2>3 DEF ClientOps, MaybeTrack
  <2>4. CASE op \in {"next", "prev"}
    BY <2>1, <2>2, <2>4 DEF ClientOps, MaybeTrack
  <2>5. CASE op \notin {"play", "next", "prev"}
    BY <2>1, <2>5 DEF ClientOps, MaybeTrack
  <2> QED BY <2>3, <2>4, <2>5
<1> DEFINE j == Job("lock", op, arg, NoTrack)
<1>3. Fits(j) /\ j.pc = "lock"
  BY <1>2 DEF Fits, Job, JobType, Pcs, PlayPhases, TaskOps, MaybeTrack
<1>4. UNCHANGED <<lock, playLock, tracked>>
  BY DEF Submit
<1> HIDE DEF j
<1>5. task' = [task EXCEPT ![c] = j]
  BY <1>2 DEF j
<1>6. IsTasks' /\ \A x \in Task : Good(x)'
  BY <1>1, <1>3, <1>4, <1>5, NewJobKeeps
<1> QED BY <1>6 DEF Submit, Inv, Data, listVars, breakerVars, mpvVars

LEMMA SubSeqOf ==
    ASSUME NEW s \in Seq(Track), NEW m \in Int, NEW n \in Int, 1 <= m, n <= Len(s)
    PROVE  SubSeq(s, m, n) \in Seq(Track) /\ Len(SubSeq(s, m, n)) = IF m <= n THEN n - m + 1 ELSE 0
<1>1. \A i \in m..n : s[i] \in Track
  BY ElementOfSeq, LenProperties
<1> QED BY <1>1, SubSeqProperties

LEMMA QueueEditKeeps ==
    ASSUME Inv, NEW c \in Client, QueueEdit(c)
    PROVE  Inv'
<1>1. queue \in Seq(Track)
  BY DEF Inv, Data
<1>2. \A m, n \in Int : 1 <= m /\ n <= Len(queue) => SubSeq(queue, m, n) \in Seq(Track)
  BY <1>1, SubSeqOf
<1>3. \A i \in 1..Len(queue) :
        SubSeq(queue, 1, i - 1) \o SubSeq(queue, i + 1, Len(queue)) \in Seq(Track)
  BY <1>1, <1>2, ConcatProperties, LenProperties
<1>4. queue' \in Seq(Track)
  <2>1. ASSUME NEW trk \in Track, queue' = Append(queue, trk) PROVE queue' \in Seq(Track)
    BY <1>1, <2>1, AppendProperties
  <2>2. ASSUME NEW n \in 0..QueueCap, queue' \in [1..n -> Track] PROVE queue' \in Seq(Track)
    BY <2>2, IsASeq, PlaybackAssumption DEF PlaybackAssumption
  <2>3. ASSUME NEW i \in 1..Len(queue), NEW j \in 1..Len(queue), NEW rest,
               rest = SubSeq(queue, 1, i - 1) \o SubSeq(queue, i + 1, Len(queue)),
               queue' = SubSeq(rest, 1, j - 1) \o <<queue[i]>> \o SubSeq(rest, j, Len(rest))
        PROVE  queue' \in Seq(Track)
    <3>1. rest \in Seq(Track) /\ Len(rest) = Len(queue) - 1
      <4>1. Len(queue) \in Nat /\ i \in 1..Len(queue)
        BY <1>1, LenProperties
      <4>2. SubSeq(queue, 1, i - 1) \in Seq(Track) /\ Len(SubSeq(queue, 1, i - 1)) = i - 1
        <5>1. 1 \in Int /\ i - 1 \in Int /\ 1 <= 1 /\ i - 1 <= Len(queue)
          BY <4>1
        <5>2. /\ SubSeq(queue, 1, i - 1) \in Seq(Track)
              /\ Len(SubSeq(queue, 1, i - 1)) = IF 1 <= i - 1 THEN (i - 1) - 1 + 1 ELSE 0
          BY <1>1, <5>1, SubSeqOf
        <5> QED BY <4>1, <5>2
      <4>3. /\ SubSeq(queue, i + 1, Len(queue)) \in Seq(Track)
            /\ Len(SubSeq(queue, i + 1, Len(queue))) = Len(queue) - i
        <5>1. i + 1 \in Int /\ Len(queue) \in Int /\ 1 <= i + 1 /\ Len(queue) <= Len(queue)
          BY <4>1
        <5>2. /\ SubSeq(queue, i + 1, Len(queue)) \in Seq(Track)
              /\ Len(SubSeq(queue, i + 1, Len(queue))) =
                   IF i + 1 <= Len(queue) THEN Len(queue) - (i + 1) + 1 ELSE 0
          BY <1>1, <5>1, SubSeqOf
        <5> QED BY <4>1, <5>2
      <4> DEFINE u == SubSeq(queue, 1, i - 1)
      <4> DEFINE v == SubSeq(queue, i + 1, Len(queue))
      <4>4. /\ u \in Seq(Track) /\ v \in Seq(Track) /\ rest = u \o v
            /\ Len(u) = i - 1 /\ Len(v) = Len(queue) - i
        BY <2>3, <4>2, <4>3
      <4> HIDE DEF u, v
      <4>5. rest \in Seq(Track) /\ Len(rest) = Len(u) + Len(v)
        BY <4>4, ConcatProperties
      <4> QED BY <4>1, <4>4, <4>5
    <3>2. SubSeq(rest, 1, j - 1) \in Seq(Track) /\ SubSeq(rest, j, Len(rest)) \in Seq(Track)
      BY <1>1, <3>1, SubSeqOf, LenProperties
    <3>3. <<queue[i]>> \in Seq(Track)
      BY <1>1, <2>3, ElementOfSeq
    <3>4. SubSeq(rest, 1, j - 1) \o <<queue[i]>> \in Seq(Track)
      BY <3>2, <3>3, ConcatProperties
    <3> QED BY <2>3, <3>2, <3>4, ConcatProperties
  <2> QED BY <1>3, <2>1, <2>2, <2>3 DEF QueueEdit
<1>5. IsTasks' /\ \A x \in Task : Good(x)'
  BY Untouched DEF QueueEdit, taskVars, Inv, IsTasks
<1> QED BY <1>4, <1>5 DEF QueueEdit, taskVars, Inv, Data, breakerVars, mpvVars

LEMMA OutsideKeeps ==
    ASSUME Inv, TrackProgress \/ MpvEnds \/ Rest \/ (\E c \in Client : SetLoop(c)) \/ UNCHANGED vars
    PROVE  Inv'
<1>1. UNCHANGED taskVars
  BY DEF TrackProgress, MpvEnds, Rest, SetLoop, vars
<1>2. IsTasks' /\ \A x \in Task : Good(x)'
  BY <1>1, Untouched DEF taskVars, Inv, IsTasks
<1>3. CASE MpvEnds
  <2>1. PICK r \in {"eof", "error"} : mpvEnds' = Append(mpvEnds, [trk |-> mpvTrack, reason |-> r])
    BY <1>3 DEF MpvEnds
  <2>2. [trk |-> mpvTrack, reason |-> r] \in EndType
    BY <1>3, <2>1 DEF MpvEnds, Inv, Data, EndType, MaybeTrack
  <2>3. mpvEnds' \in Seq(EndType)
    BY <2>1, <2>2, AppendProperties DEF Inv, Data
  <2> QED BY <1>1, <1>2, <1>3, <2>3 DEF MpvEnds, taskVars, Inv, Data, listVars, breakerVars, MaybeTrack
<1>4. CASE \E c \in Client : SetLoop(c)
  BY <1>1, <1>2, <1>4, PlaybackAssumption
  DEF SetLoop, taskVars, Inv, Data, listVars, breakerVars, mpvVars, PlaybackAssumption
<1>5. CASE TrackProgress
  BY <1>1, <1>2, <1>5 DEF TrackProgress, taskVars, Inv, Data, listVars, breakerVars, mpvVars, budget
<1>6. CASE UNCHANGED vars
  BY <1>1, <1>2, <1>6 DEF vars, taskVars, Inv, Data, listVars, breakerVars, mpvVars, budget
<1> QED BY <1>3, <1>4, <1>5, <1>6 DEF Rest

-----------------------------------------------------------------------------
LEMMA InitInv == Init => Inv
<1> SUFFICES ASSUME Init PROVE Inv
  OBVIOUS
<1>1. Data
  <2>1. <<>> \in Seq(Track) /\ <<>> \in Seq(EndType)
    BY EmptySeq
  <2>2. 0 \in 0..(Threshold - 1)
    BY PlaybackAssumption DEF PlaybackAssumption
  <2> QED BY <2>1, <2>2 DEF Init, Data, MaybeTrack, Loops
<1>2. \A x \in Task : Good(x)
  BY IdleFits, PlaybackAssumption DEF Init, Good, PlaybackAssumption
<1>3. IsTasks
  BY DEF Init, IsTasks
<1> QED BY <1>1, <1>2, <1>3 DEF Inv

LEMMA StepInv == Inv /\ [Next]_vars => Inv'
<1> SUFFICES ASSUME Inv, [Next]_vars PROVE Inv'
  OBVIOUS
<1>1. ASSUME NEW t \in Task, Play(t) PROVE Inv'
  BY <1>1, PlayBeginKeeps, PlayLoadKeeps, PlayFinalKeeps, FailureKeeps DEF Play
<1>2. ASSUME NEW t \in Task, Commands(t) PROVE Inv'
  BY <1>2, NextKeeps, PrevKeeps, PlayTrackKeeps, SelectKeeps, RefillKeeps DEF Commands
<1>3. ASSUME NEW t \in Task, Radio(t) PROVE Inv'
  BY <1>3, StopKeeps, ModeKeeps, ActivateKeeps, PauseEndKeeps, FetchKeeps, BackfillKeeps DEF Radio
<1>4. ASSUME NEW t \in Task, TaskStep(t) PROVE Inv'
  BY <1>1, <1>2, <1>3, <1>4, EndedKeeps DEF TaskStep
<1>5. ASSUME NEW c \in Client, Submit(c) \/ QueueEdit(c) \/ SetLoop(c) PROVE Inv'
  BY <1>5, SubmitKeeps, QueueEditKeeps, OutsideKeeps
<1> QED BY <1>4, <1>5, TrackEndedKeeps, OutsideKeeps DEF Next

(* The inductive invariant: it holds of every reachable state.              *)
THEOREM Invariant == Spec => []Inv
BY InitInv, StepInv, PTL DEF Spec

(* The variables of the playback controller keep their types.               *)
THEOREM TypeCorrect == Spec => []TypeOK
BY Invariant, InvStatesProperties, PTL

(* For any number of clients and tasks, play_track runs once at a time, and  *)
(* both locks are held exactly where the code means them to be held: none    *)
(* is lost when a task is cancelled or fails.                               *)
THEOREM LocksAreKept == Spec => []LockDiscipline
BY Invariant, InvStatesProperties, PTL

(* Leaving the radio never cancels a command of a user, nor the task that    *)
(* follows a failed track.                                                   *)
THEOREM OnlyRadioIsCancelled == Spec => []TrackedAreRadio
BY Invariant, InvStatesProperties, PTL

-----------------------------------------------------------------------------
(* 2. What the locks are for.                                                *)

(* A task inside play_track: the track, mpv and _loading are in its hands;  *)
(* a task that backs off has a failure that no advance has answered yet.    *)
InHand(x) ==
    /\ InPlay(x) => current \in {task[x].arg, NoTrack}
    /\ task[x].pc \in {"resume", "final"} => mpvTrack \in {task[x].arg, NoTrack}
    /\ task[x].pc \in {"load", "resume", "final"} => loading
    /\ task[x].pc = "backoff" => streak <= failures

(* Outside of the sleep an advance may be one ahead of the failures: a stop  *)
(* that resets the breaker during the sleep does not take the advance back. *)
OneAhead == streak <= failures + 1

(* The tasks that will change a LOADING that is shown in QUEUE mode.         *)
Clears(x) ==
    \/ task[x].pc \in {"want", "load", "resume", "final", "stopping"}
    \/ task[x].pc = "pausing" /\ task[x].op = "radio_off"
LoadingIsCleared == mode = "QUEUE" /\ status = "LOADING" => \E x \in Task : Clears(x)

(* The shuffle button works in RADIO mode, and _lock keeps it that way.      *)
ShufflesRadio(x) == task[x].pc = "pausing" /\ task[x].op = "randomize" => mode = "RADIO"

Safe ==
    /\ \A x \in Task : InHand(x)
    /\ OneAhead
    /\ LoadingIsCleared
    /\ \A x \in Task : ShufflesRadio(x)

-----------------------------------------------------------------------------
(* A step that leaves every attempt in progress alone: no task enters or     *)
(* moves inside play_track, a request in hand is not altered, and the shown  *)
(* track can only be cleared.  A task that is cancelled simply stops.        *)
Pending(j) == j.pc \in {"want"} \cup PlayPhases
Spared(x) == \/ task'[x] = task[x]
             \/ ~HoldsPlay(task'[x]) /\ (Pending(task[x]) => task'[x].pc # "want")
Quiet ==
    /\ \A x \in Task : Spared(x)
    /\ current' \in {current, NoTrack}
    /\ UNCHANGED <<mpvTrack, loading>>
    /\ \/ UNCHANGED breakerVars
       \/ failures' = 0 /\ streak' = 0

(* One task gets a new record, and it was not about to play.                *)
LEMMA OneMoves ==
    ASSUME Inv, NEW t \in Task, NEW j, task' = [task EXCEPT ![t] = j],
           ~HoldsPlay(j), Pending(task[t]) => j.pc # "want"
    PROVE  \A x \in Task : Spared(x)
<1>1. task'[t] = j /\ \A x \in Task : x # t => task'[x] = task[x]
  BY DEF Inv, IsTasks
<1> QED BY <1>1 DEF Spared

LEMMA GotoSpares ==
    ASSUME Inv, NEW t \in Task, NEW p \in Pcs \ ({"want"} \cup PlayPhases), Goto(t, p)
    PROVE  \A x \in Task : Spared(x)
BY GotoTask DEF Spared, HoldsPlay

(* A task ends and leaves one behind in its own or a free slot.             *)
LEMMA TwoMove ==
    ASSUME Inv, NEW t \in Task, NEW s \in Slots(t), NEW op,
           task' = [task EXCEPT ![t] = Idle, ![s] = Job("fetch", op, NoTrack, NoTrack)]
    PROVE  \A x \in Task : Spared(x)
<1>1. s \in Task
  BY DEF Slots, FreeBg, Task
<1>2. \A x \in Task : \/ task'[x] = task[x]
                      \/ task'[x] = Idle
                      \/ task'[x] = Job("fetch", op, NoTrack, NoTrack)
  BY <1>1 DEF Inv, IsTasks
<1>3. Idle.pc = "idle" /\ Job("fetch", op, NoTrack, NoTrack).pc = "fetch"
  BY DEF Idle, Job
<1> QED BY <1>2, <1>3 DEF Spared, HoldsPlay, PlayPhases

LEMMA DeactivateSpares ==
    ASSUME Inv, NEW t \in Task, NEW j, Deactivate(t, j),
           ~HoldsPlay(j), Pending(task[t]) => j.pc # "want"
    PROVE  \A x \in Task : Spared(x)
BY DEF Deactivate, Spared, Idle, Job, HoldsPlay, PlayPhases

LEMMA WaitingIsNotPending ==
    ASSUME NEW t \in Task, task[t].pc \in {"lock", "advance", "refill", "fetch"}
    PROVE  ~Pending(task[t])
BY DEF Pending, PlayPhases

(* A request is taken up: by a command, an advance or a fetch.              *)
LEMMA WantSpares ==
    ASSUME Inv, NEW t \in Task, NEW trk,
           task' = [task EXCEPT ![t].pc = "want", ![t].arg = trk],
           ~Pending(task[t])
    PROVE  \A x \in Task : Spared(x)
<1>1. /\ \A x \in Task : x # t => task'[x] = task[x]
      /\ task[t] \in JobType
      /\ task'[t] = [task[t] EXCEPT !.pc = "want", !.arg = trk]
  BY DEF Inv, IsTasks, Good, Fits
<1>2. task'[t].pc = "want"
  BY <1>1 DEF JobType
<1> QED BY <1>1, <1>2 DEF Spared, HoldsPlay, PlayPhases

LEMMA IdleSpares ==
    ASSUME Inv, NEW t \in Task, task' = [task EXCEPT ![t] = Idle]
    PROVE  \A x \in Task : Spared(x)
BY OneMoves, IdleFits DEF Idle, Job

LEMMA IgnoredIsQuiet ==
    ASSUME Inv, NEW t \in Task, Ignored(t)
    PROVE  Quiet
<1>1. \A x \in Task : Spared(x)
  BY IdleSpares DEF Ignored
<1> QED BY <1>1 DEF Ignored, Quiet, mpvVars

LEMMA AdvanceIsQuiet ==
    ASSUME Inv, NEW t \in Task, NEW l, AdvanceToNext(t, l), task[t].pc \in {"lock", "advance"}
    PROVE  Quiet
<1>1. ~Pending(task[t])
  BY WaitingIsNotPending
<1>2. \/ \E trk : task' = [task EXCEPT ![t].pc = "want", ![t].arg = trk]
      \/ task' = [task EXCEPT ![t] = Idle]
      \/ Goto(t, "refill")
  BY DEF AdvanceToNext, QueueNext, RadioNext
<1>3. "refill" \in Pcs \ ({"want"} \cup PlayPhases)
  BY DEF Pcs, PlayPhases
<1>4. \A x \in Task : Spared(x)
  BY <1>1, <1>2, <1>3, WantSpares, IdleSpares, GotoSpares
<1>5. current' \in {current, NoTrack}
  BY DEF AdvanceToNext, QueueNext, RadioNext
<1> QED BY <1>4, <1>5 DEF AdvanceToNext, Quiet, mpvVars

LEMMA CommandsAreQuiet ==
    ASSUME Inv, NEW t \in Task, Commands(t)
    PROVE  Quiet
<1>1. CASE Next_(t) \/ Advance(t)
  BY <1>1, IgnoredIsQuiet, AdvanceIsQuiet DEF Next_, Advance, Waits
<1>2. CASE Prev(t)
  <2>1. CASE Ignored(t)
    BY <2>1, IgnoredIsQuiet
  <2>2. CASE ~Ignored(t)
    <3>1. \A x \in Task : Spared(x)
      BY <1>2, <2>2, WantSpares, WaitingIsNotPending DEF Prev, Waits
    <3> QED BY <1>2, <2>2, <3>1 DEF Prev, Quiet, mpvVars
  <2> QED BY <2>1, <2>2
<1>3. CASE PlayTrack(t)
  <2>1. ~Pending(task[t]) /\ task[t] \in JobType
    BY <1>3, WaitingIsNotPending DEF PlayTrack, Waits, Inv, Good, Fits
  <2>2. ~HoldsPlay([task[t] EXCEPT !.pc = "want"])
    BY <2>1 DEF HoldsPlay, PlayPhases, JobType
  <2>3. \A x \in Task : Spared(x)
    BY <1>3, <2>1, <2>2, DeactivateSpares, OneMoves DEF PlayTrack
  <2> QED BY <1>3, <2>3 DEF PlayTrack, Quiet, mpvVars
<1>4. CASE Select(t) /\ ~Ignored(t)
  <2>1. ~Pending(task[t]) /\ task[t] \in JobType
    BY <1>4, WaitingIsNotPending DEF Select, Waits, Inv, Good, Fits
  <2>2. PICK i \in 1..Len(queue) :
          LET job == [task[t] EXCEPT !.pc = "want", !.arg = queue[i]]
          IN  Deactivate(t, job) \/ task' = [task EXCEPT ![t] = job]
    BY <1>4 DEF Select
  <2>3. ~HoldsPlay([task[t] EXCEPT !.pc = "want", !.arg = queue[i]])
    BY <2>1 DEF HoldsPlay, PlayPhases, JobType
  <2>4. \A x \in Task : Spared(x)
    BY <2>1, <2>2, <2>3, DeactivateSpares, OneMoves
  <2> QED BY <1>4, <2>4 DEF Select, Quiet, mpvVars
<1>5. CASE Ignored(t)
  BY <1>5, IgnoredIsQuiet
<1>6. CASE Refill(t)
  <2>1. \A x \in Task : Spared(x)
    BY <1>6, TwoMove DEF Refill
  <2> QED BY <1>6, <2>1 DEF Refill, Quiet, mpvVars
<1> QED BY <1>1, <1>2, <1>3, <1>4, <1>5, <1>6 DEF Commands

LEMMA RadioIsQuiet ==
    ASSUME Inv, NEW t \in Task, Radio(t)
    PROVE  Quiet
<1>1. {"stopping", "pausing", "activate"} \subseteq Pcs \ ({"want"} \cup PlayPhases)
  BY DEF Pcs, PlayPhases
<1>2. CASE Ignored(t)
  BY <1>2, IgnoredIsQuiet
<1>3. CASE StopBegin(t)
  <2>1. \A x \in Task : Spared(x)
    BY <1>1, <1>3, GotoSpares DEF StopBegin
  <2> QED BY <1>3, <2>1 DEF StopBegin, Quiet, mpvVars
<1>4. CASE StopEnd(t)
  <2>1. \A x \in Task : Spared(x)
    BY <1>4, IdleSpares DEF StopEnd
  <2> QED BY <1>4, <2>1 DEF StopEnd, Quiet, mpvVars
<1>5. CASE RadioOn(t) /\ ~Ignored(t)
  <2>1. \A x \in Task : Spared(x)
    BY <1>1, <1>5, GotoSpares DEF RadioOn
  <2> QED BY <1>5, <2>1 DEF RadioOn, Quiet, mpvVars
<1>6. CASE Activate(t) /\ ~Ignored(t)
  <2>1. \A x \in Task : Spared(x)
    BY <1>6, TwoMove DEF Activate
  <2> QED BY <1>6, <2>1 DEF Activate, Quiet, mpvVars
<1>7. CASE RadioOff(t) /\ ~Ignored(t)
  <2>1. ~HoldsPlay([task[t] EXCEPT !.pc = "pausing"])
        /\ [task[t] EXCEPT !.pc = "pausing"].pc = "pausing"
    BY DEF HoldsPlay, PlayPhases, JobType, Inv, Good, Fits
  <2>2. \A x \in Task : Spared(x)
    BY <1>7, <2>1, DeactivateSpares DEF RadioOff
  <2> QED BY <1>7, <2>2 DEF RadioOff, Quiet
<1>8. CASE Randomize(t) /\ ~Ignored(t)
  <2>1. \A x \in Task : Spared(x)
    BY <1>1, <1>8, GotoSpares DEF Randomize
  <2> QED BY <1>8, <2>1 DEF Randomize, Quiet
<1>9. CASE PauseEnd(t)
  <2>1. \A x \in Task : Spared(x)
    BY <1>9, IdleSpares, TwoMove DEF PauseEnd
  <2> QED BY <1>9, <2>1 DEF PauseEnd, Quiet, mpvVars
<1>10. CASE Fetch(t)
  <2>1. ~Pending(task[t])
    BY <1>10, WaitingIsNotPending DEF Fetch
  <2>2. \/ task' = [task EXCEPT ![t] = Idle]
        \/ \E op, trk : task' = [task EXCEPT ![t] = Job("want", op, trk, NoTrack)]
    BY <1>10 DEF Fetch
  <2>3. \A op, trk : ~HoldsPlay(Job("want", op, trk, NoTrack))
    BY DEF Job, HoldsPlay, PlayPhases
  <2>4. \A x \in Task : Spared(x)
    BY <2>1, <2>2, <2>3, IdleSpares, OneMoves
  <2> QED BY <1>10, <2>4 DEF Fetch, Quiet, mpvVars
<1>11. CASE Backfill(t)
  <2>1. \A x \in Task : Spared(x)
    BY <1>11, IdleSpares DEF Backfill
  <2> QED BY <1>11, <2>1 DEF Backfill, Quiet, mpvVars
<1> QED BY <1>2, <1>3, <1>4, <1>5, <1>6, <1>7, <1>8, <1>9, <1>10, <1>11 DEF Radio

LEMMA EndedIsQuiet ==
    ASSUME Inv, NEW t \in Task, Ended(t)
    PROVE  Quiet
<1>1. "lock" \in Pcs \ ({"want"} \cup PlayPhases)
  BY DEF Pcs, PlayPhases
<1>2. task' = [task EXCEPT ![t] = Idle] \/ Goto(t, "lock")
  BY DEF Ended, EofWake, StopWake, ErrorWake, Goto
<1>3. \A x \in Task : Spared(x)
  BY <1>1, <1>2, IdleSpares, GotoSpares
<1> QED BY <1>3 DEF Ended, EofWake, StopWake, ErrorWake, Quiet, mpvVars

LEMMA OutsideIsQuiet ==
    ASSUME Inv,
           \/ \E c \in Client : Submit(c) \/ QueueEdit(c) \/ SetLoop(c)
           \/ \E b \in Bg : TrackEnded(b)
           \/ TrackProgress \/ Rest \/ UNCHANGED vars
    PROVE  Quiet
<1>1. CASE \E c \in Client : Submit(c)
  <2>1. PICK c \in Client : Submit(c)
    BY <1>1
  <2>2. c \in Task /\ \E op, arg : task' = [task EXCEPT ![c] = Job("lock", op, arg, NoTrack)]
    BY <2>1 DEF Submit, Task
  <2>3. \A op, arg : LET j == Job("lock", op, arg, NoTrack) IN ~HoldsPlay(j) /\ j.pc # "want"
    BY DEF Job, HoldsPlay, PlayPhases
  <2>4. \A x \in Task : Spared(x)
    BY <2>2, <2>3, OneMoves
  <2> QED BY <2>1, <2>4 DEF Submit, Quiet, mpvVars
<1>2. CASE \E b \in Bg : TrackEnded(b)
  <2>1. PICK b \in Bg : TrackEnded(b)
    BY <1>2
  <2>2. /\ b \in Task
        /\ \/ task' = task
           \/ \E pc \in {"eof", "errwait", "stopwait"} : \E op, arg, trk :
                task' = [task EXCEPT ![b] = Job(pc, op, arg, trk)]
    BY <2>1 DEF TrackEnded, Task
  <2>3. \A pc \in {"eof", "errwait", "stopwait"} : \A op, arg, trk :
          LET j == Job(pc, op, arg, trk) IN ~HoldsPlay(j) /\ j.pc # "want"
    BY DEF Job, HoldsPlay, PlayPhases
  <2>4. \A x \in Task : Spared(x)
    <3>1. CASE task' = task
      BY <3>1 DEF Spared
    <3>2. CASE task' # task
      BY <2>2, <2>3, <3>2, OneMoves
    <3> QED BY <3>1, <3>2
  <2> QED BY <2>1, <2>4 DEF TrackEnded, Quiet, mpvVars
<1>3. CASE \/ \E c \in Client : QueueEdit(c) \/ SetLoop(c)
           \/ TrackProgress \/ Rest \/ UNCHANGED vars
  <2>1. UNCHANGED <<task, mpvTrack, loading, failures, streak, current>>
    BY <1>3 DEF QueueEdit, SetLoop, TrackProgress, Rest, vars, taskVars, mpvVars, breakerVars
  <2> QED BY <2>1 DEF Quiet, Spared, breakerVars
<1> QED BY <1>1, <1>2, <1>3

(* Every step is a step of the attempt in progress, the end of mpv's file,   *)
(* or quiet.                                                                *)
LEMMA StepKinds ==
    ASSUME Inv, [Next]_vars
    PROVE  (\E t \in Task : Play(t)) \/ MpvEnds \/ Quiet
<1>1. ASSUME NEW t \in Task, TaskStep(t) PROVE Play(t) \/ Quiet
  BY <1>1, CommandsAreQuiet, RadioIsQuiet, EndedIsQuiet DEF TaskStep
<1> QED BY <1>1, OutsideIsQuiet DEF Next

-----------------------------------------------------------------------------
(* Who holds _play_lock has the track, mpv, _loading and the failures.      *)
Hands == OneAhead /\ \A x \in Task : InHand(x)

LEMMA QuietKeepsHands ==
    ASSUME Inv, Hands, Quiet
    PROVE  Hands'
<1>1. OneAhead'
  BY DEF Quiet, Hands, OneAhead, breakerVars
<1>2. ASSUME NEW x \in Task PROVE InHand(x)'
  <2>1. CASE task'[x] = task[x]
    BY <2>1 DEF Quiet, Hands, InHand, InPlay, breakerVars
  <2>2. CASE task'[x] # task[x]
    <3>1. task'[x].pc \notin PlayPhases
      BY <2>2 DEF Quiet, Spared, HoldsPlay
    <3> QED BY <3>1 DEF InHand, InPlay, PlayPhases
  <2> QED BY <2>1, <2>2
<1> QED BY <1>1, <1>2 DEF Hands

LEMMA MpvEndsKeepsHands ==
    ASSUME Hands, MpvEnds
    PROVE  Hands'
BY DEF MpvEnds, Hands, OneAhead, InHand, InPlay, taskVars, breakerVars

(* After a step with _play_lock held by t, or by nobody, the others are not *)
(* inside play_track and have nothing in hand.                              *)
LEMMA OthersHoldNothing ==
    ASSUME Inv', NEW x \in Task, playLock' # x
    PROVE  InHand(x)'
BY DEF Inv, Good, HoldsPlay, InHand, InPlay, PlayPhases

LEMMA PlayKeepsHands ==
    ASSUME Inv, Inv', Hands, NEW t \in Task, Play(t)
    PROVE  Hands'
<1>1. task[t] \in JobType /\ (InPlay(t) => playLock = t) /\ {"load", "resume", "final", "backoff", "failed", "dropped"} \subseteq Pcs
  BY DEF Inv, Good, Fits, HoldsPlay, InPlay, Pcs, PlayPhases
<1>2. failures \in Nat /\ streak \in Nat /\ NoTask \notin Task
  BY PlaybackAssumption DEF Inv, Data, PlaybackAssumption
<1>3. ASSUME NEW p \in {"load", "resume", "final", "failed", "dropped", "backoff"}, Goto(t, p), playLock' = t
      PROVE  /\ task'[t].pc = p /\ task'[t].arg = task[t].arg
             /\ \A x \in Task : x # t => InHand(x)'
  BY <1>1, <1>3, GotoTask, OthersHoldNothing
<1>4. CASE PlayBegin(t)
  BY <1>3, <1>4 DEF PlayBegin, Hands, InHand, InPlay, OneAhead, breakerVars
<1>5. CASE PlayLoad(t)
  BY <1>1, <1>3, <1>5 DEF PlayLoad, Hands, InHand, InPlay, OneAhead, breakerVars, PlayPhases
<1>6. CASE PlayResume(t)
  BY <1>1, <1>3, <1>6 DEF PlayResume, Hands, InHand, InPlay, OneAhead, breakerVars, PlayPhases
<1>7. CASE PlayFinal(t)
  <2>1. playLock' = NoTask /\ OneAhead'
    BY <1>7 DEF PlayFinal, LeavePlay, OneAhead
  <2> QED BY <1>2, <2>1, OthersHoldNothing DEF Hands
<1>8. CASE PlayFail(t)
  BY <1>1, <1>3, <1>8 DEF PlayFail, Hands, InHand, InPlay, OneAhead, breakerVars, PlayPhases
<1>9. CASE RecordFailure(t)
  <2>1. CASE Trips
    <3>1. playLock' = NoTask /\ OneAhead'
      BY <1>9, <2>1 DEF RecordFailure, LeavePlay, OneAhead
    <3> QED BY <1>2, <3>1, OthersHoldNothing DEF Hands
  <2>2. CASE ~Trips /\ task[t].pc = "failed"
    <3>1. /\ failures' = failures + 1 /\ streak' = streak /\ current' = current
          /\ Goto(t, "backoff") /\ playLock' = t
      BY <1>1, <1>9, <2>2 DEF RecordFailure, InPlay, PlayPhases
    <3>2. OneAhead' /\ streak' <= failures'
      BY <1>2, <3>1 DEF Hands, OneAhead
    <3>3. InHand(t)'
      BY <1>3, <1>9, <2>2, <3>1, <3>2 DEF Hands, InHand, InPlay, PlayPhases
    <3> QED BY <1>3, <3>1, <3>2, <3>3 DEF Hands
  <2>3. CASE ~Trips /\ task[t].pc # "failed"
    <3>1. playLock' = NoTask /\ failures' = failures + 1 /\ streak' \in {streak, streak + 1}
      BY <1>9, <2>3 DEF RecordFailure, GiveUp, LeavePlay
    <3>2. OneAhead'
      BY <1>2, <3>1 DEF Hands, OneAhead
    <3> QED BY <1>2, <3>1, <3>2, OthersHoldNothing DEF Hands
  <2> QED BY <2>1, <2>2, <2>3
<1>10. CASE BackoffEnd(t)
  <2>1. playLock' = NoTask /\ failures' = failures /\ streak' \in {streak, streak + 1}
    BY <1>10 DEF BackoffEnd, GiveUp, LeavePlay
  <2>2. streak <= failures
    BY <1>10 DEF BackoffEnd, Hands, InHand
  <2>3. OneAhead'
    BY <1>2, <2>1, <2>2 DEF OneAhead
  <2> QED BY <1>2, <2>1, <2>3, OthersHoldNothing DEF Hands
<1> QED BY <1>4, <1>5, <1>6, <1>7, <1>8, <1>9, <1>10 DEF Play

LEMMA StepKeepsHands ==
    ASSUME Inv, Inv', Hands, [Next]_vars
    PROVE  Hands'
BY StepKinds, QuietKeepsHands, MpvEndsKeepsHands, PlayKeepsHands

-----------------------------------------------------------------------------
(* A LOADING shown in QUEUE mode: three kinds of steps keep its promise.    *)
Settling == LoadingIsCleared /\ \A x \in Task : ShufflesRadio(x)

(* The tasks that move had nothing to clear.                                *)
LEMMA CalmStep ==
    ASSUME Settling, mode' = mode, status' = "LOADING" => status = "LOADING",
           \A x \in Task : \/ task'[x] = task[x]
                           \/ ~Clears(x) /\ task'[x].pc # "pausing"
    PROVE  Settling'
BY DEF Settling, LoadingIsCleared, Clears, ShufflesRadio

(* The task that moves will clear it; a change of the mode needs _lock.     *)
LEMMA ClearingStep ==
    ASSUME Inv, Settling, NEW t \in Task, Clears(t)',
           task'[t].pc = "pausing" => task'[t].op = "radio_off",
           mode' = mode \/ lock = NoTask,
           \A x \in Task : x # t => task'[x] \in {task[x], Idle}
    PROVE  Settling'
<1>1. LoadingIsCleared'
  BY DEF LoadingIsCleared
<1>2. ASSUME NEW x \in Task, x # t PROVE ShufflesRadio(x)'
  <2>1. Idle.pc # "pausing"
    BY DEF Idle, Job
  <2>2. lock = NoTask => task[x].pc # "pausing"
    BY PlaybackAssumption DEF Inv, Good, HoldsLock, PlaybackAssumption
  <2> QED BY <1>2, <2>1, <2>2 DEF Settling, ShufflesRadio
<1>3. ShufflesRadio(t)'
  BY DEF ShufflesRadio
<1> QED BY <1>1, <1>2, <1>3 DEF Settling

(* Nothing is LOADING any more, or it is the radio that loads.              *)
LEMMA ShownStep ==
    ASSUME Settling, mode' = mode, mode = "RADIO" \/ status' # "LOADING",
           \A x \in Task : \/ task'[x] = task[x]
                           \/ task'[x].pc # "pausing"
                           \/ mode = "RADIO"
    PROVE  Settling'
BY DEF Settling, LoadingIsCleared, ShufflesRadio

LEMMA NothingToClear ==
    ASSUME NEW x \in Task,
           task[x].pc \in {"idle", "lock", "activate", "refill", "fetch", "backfill", "advance",
                           "eof", "stopwait", "errwait", "failed", "dropped", "backoff"}
    PROVE  ~Clears(x)
BY DEF Clears

LEMMA IdlePc == Idle.pc = "idle"
BY DEF Idle, Job

(* A step that moves one task, or one and the one it makes.                 *)
LEMMA OneMoved ==
    ASSUME Inv, NEW t \in Task, NEW j, task' = [task EXCEPT ![t] = j]
    PROVE  task'[t] = j /\ \A x \in Task : x # t => task'[x] = task[x]
BY DEF Inv, IsTasks

LEMMA TwoMoved ==
    ASSUME Inv, NEW t \in Task, NEW s \in Slots(t), NEW j,
           task' = [task EXCEPT ![t] = Idle, ![s] = j]
    PROVE  \A x \in Task : \/ task'[x] = task[x]
                           \/ x = t /\ task'[x] \in {Idle, j}
                           \/ task[x] = Idle /\ task'[x] = j
<1>1. s \in Task /\ (s = t \/ task[s] = Idle)
  BY DEF Slots, FreeBg, Task
<1> QED BY <1>1 DEF Inv, IsTasks

LEMMA SpawnIsCalm ==
    ASSUME Inv, NEW t \in Task, NEW s \in Slots(t), NEW op,
           task' = [task EXCEPT ![t] = Idle, ![s] = Job("fetch", op, NoTrack, NoTrack)],
           task[t].pc \in {"activate", "refill"}
    PROVE  \A x \in Task : \/ task'[x] = task[x]
                           \/ ~Clears(x) /\ task'[x].pc # "pausing"
<1> DEFINE j == Job("fetch", op, NoTrack, NoTrack)
<1>1. j.pc = "fetch"
  BY DEF Job
<1> HIDE DEF j
<1>2. ASSUME NEW x \in Task, task'[x] # task[x]
      PROVE  ~Clears(x) /\ task'[x].pc # "pausing"
  <2>1. \/ x = t /\ task'[x] \in {Idle, j}
        \/ task[x] = Idle /\ task'[x] = j
    BY ZenonT(30), <1>2, TwoMoved DEF j
  <2>2. ~Clears(x)
    BY <2>1, IdlePc, NothingToClear
  <2> QED BY <1>1, <2>1, <2>2, IdlePc
<1> QED BY <1>2

LEMMA IgnoredSettles ==
    ASSUME Inv, Settling, NEW t \in Task, Ignored(t), ~Clears(t)
    PROVE  Settling'
<1>1. task'[t] = Idle /\ \A x \in Task : x # t => task'[x] = task[x]
  BY OneMoved DEF Ignored
<1> QED BY <1>1, IdlePc, CalmStep DEF Ignored

LEMMA WantSettles ==
    ASSUME Inv, Settling, NEW t \in Task, task'[t].pc = "want",
           mode' = mode \/ lock = NoTask,
           \A x \in Task : x # t => task'[x] \in {task[x], Idle}
    PROVE  Settling'
BY ClearingStep DEF Clears

LEMMA AdvanceSettles ==
    ASSUME Inv, Settling, NEW t \in Task, NEW l, AdvanceToNext(t, l)
    PROVE  Settling'
<1>1. mode' = mode /\ task[t] \in JobType
  BY DEF AdvanceToNext, Inv, Good, Fits
<1>2. CASE \E trk : task' = [task EXCEPT ![t].pc = "want", ![t].arg = trk]
  <2>1. task'[t].pc = "want" /\ \A x \in Task : x # t => task'[x] = task[x]
    BY <1>1, <1>2 DEF Inv, IsTasks, JobType
  <2> QED BY <1>1, <2>1, WantSettles
<1>3. CASE task' = [task EXCEPT ![t] = Idle] /\ status' = "IDLE"
  <2>1. task'[t].pc # "pausing" /\ \A x \in Task : x # t => task'[x] = task[x]
    BY <1>3, IdlePc, OneMoved
  <2> QED BY <1>1, <1>3, <2>1, ShownStep
<1>4. CASE Goto(t, "refill") /\ mode = "RADIO"
  BY <1>1, <1>4, ShownStep
<1> QED BY <1>2, <1>3, <1>4 DEF AdvanceToNext, QueueNext, RadioNext, Inv, Data

LEMMA DeactivateMoved ==
    ASSUME Inv, NEW t \in Task, NEW j, Deactivate(t, j)
    PROVE  task'[t] = j /\ \A x \in Task : x # t => task'[x] \in {task[x], Idle}
BY DEF Deactivate

LEMMA CommandsSettle ==
    ASSUME Inv, Settling, NEW t \in Task, Commands(t)
    PROVE  Settling'
<1>1. task[t] \in JobType
  BY DEF Inv, Good, Fits
<1>2. CASE Ignored(t) /\ task[t].pc = "lock"
  BY <1>2, IgnoredSettles, NothingToClear
<1>3. CASE \E l : AdvanceToNext(t, l)
  BY <1>3, AdvanceSettles
<1>4. CASE Prev(t) /\ ~Ignored(t)
  <2>1. PICK trk : task' = [task EXCEPT ![t].pc = "want", ![t].arg = trk] /\ mode' = mode
    BY <1>4 DEF Prev
  <2>2. task'[t].pc = "want" /\ \A x \in Task : x # t => task'[x] = task[x]
    BY <1>1, <2>1 DEF Inv, IsTasks, JobType
  <2> QED BY <2>1, <2>2, WantSettles
<1>5. CASE PlayTrack(t)
  <2> DEFINE j == [task[t] EXCEPT !.pc = "want"]
  <2>1. j.pc = "want" /\ (Deactivate(t, j) \/ task' = [task EXCEPT ![t] = j])
    BY <1>1, <1>5 DEF PlayTrack, JobType
  <2> HIDE DEF j
  <2>2. task'[t].pc = "want" /\ \A x \in Task : x # t => task'[x] \in {task[x], Idle}
    BY <2>1, DeactivateMoved, OneMoved
  <2> QED BY <1>5, <2>2, WantSettles DEF PlayTrack, Waits
<1>6. CASE Select(t) /\ ~Ignored(t)
  <2>1. PICK trk : LET j == [task[t] EXCEPT !.pc = "want", !.arg = trk]
                   IN  Deactivate(t, j) \/ task' = [task EXCEPT ![t] = j]
    BY <1>6 DEF Select
  <2>2. [task[t] EXCEPT !.pc = "want", !.arg = trk].pc = "want"
    BY <1>1 DEF JobType
  <2> DEFINE j == [task[t] EXCEPT !.pc = "want", !.arg = trk]
  <2> HIDE DEF j
  <2>3. task'[t].pc = "want" /\ \A x \in Task : x # t => task'[x] \in {task[x], Idle}
    <3>1. j.pc = "want" /\ (Deactivate(t, j) \/ task' = [task EXCEPT ![t] = j])
      BY <2>1, <2>2 DEF j
    <3> QED BY <3>1, DeactivateMoved, OneMoved
  <2> QED BY <1>6, <2>3, WantSettles DEF Select, Waits
<1>7. CASE Refill(t)
  <2>1. PICK s \in Slots(t) :
          task' = [task EXCEPT ![t] = Idle, ![s] = Job("fetch", "start", NoTrack, NoTrack)]
    BY <1>7 DEF Refill
  <2> QED BY <1>7, <2>1, SpawnIsCalm, CalmStep DEF Refill
<1> QED BY <1>2, <1>3, <1>4, <1>5, <1>6, <1>7 DEF Commands, Next_, Advance, Prev, Select, Waits

LEMMA RadioSettles ==
    ASSUME Inv, Settling, NEW t \in Task, Radio(t)
    PROVE  Settling'
<1>1. task[t] \in JobType
  BY DEF Inv, Good, Fits
<1>2. CASE Ignored(t) /\ task[t].pc \in {"lock", "activate"}
  BY <1>2, IgnoredSettles, NothingToClear
<1>3. CASE StopBegin(t)
  <2>1. "stopping" \in Pcs /\ Goto(t, "stopping") /\ mode' = mode
    BY <1>3 DEF StopBegin, Pcs
  <2>2. task'[t].pc = "stopping" /\ \A x \in Task : x # t => task'[x] = task[x]
    BY <2>1, GotoTask
  <2>3. Clears(t)'
    BY <2>2 DEF Clears
  <2> QED BY <2>1, <2>2, <2>3, ClearingStep
<1>4. CASE StopEnd(t)
  <2>1. task'[t] = Idle /\ \A x \in Task : x # t => task'[x] = task[x]
    BY <1>4, OneMoved DEF StopEnd
  <2> QED BY <1>4, <2>1, IdlePc, ShownStep DEF StopEnd
<1>5. CASE RadioOn(t) /\ ~Ignored(t)
  <2>1. mode' = "RADIO"
    BY <1>5 DEF RadioOn
  <2> QED BY <2>1 DEF Settling, LoadingIsCleared, ShufflesRadio
<1>6. CASE Activate(t) /\ ~Ignored(t)
  <2>1. PICK s \in Slots(t) :
          task' = [task EXCEPT ![t] = Idle, ![s] = Job("fetch", "start", NoTrack, NoTrack)]
    BY <1>6 DEF Activate
  <2> QED BY <1>6, <2>1, SpawnIsCalm, CalmStep DEF Activate
<1>7. CASE RadioOff(t) /\ ~Ignored(t)
  <2>1. /\ [task[t] EXCEPT !.pc = "pausing"].pc = "pausing"
        /\ [task[t] EXCEPT !.pc = "pausing"].op = "radio_off"
    BY <1>1, <1>7 DEF RadioOff, Waits, JobType
  <2>2. /\ task'[t].pc = "pausing" /\ task'[t].op = "radio_off"
        /\ \A x \in Task : x # t => task'[x] \in {task[x], Idle}
    BY <1>7, <2>1, DeactivateMoved DEF RadioOff
  <2>3. Clears(t)'
    BY <2>2 DEF Clears
  <2> QED BY <1>7, <2>2, <2>3, ClearingStep DEF RadioOff, Waits
<1>8. CASE Randomize(t) /\ ~Ignored(t)
  <2>1. mode' = "RADIO"
    BY <1>8 DEF Randomize, Inv, Data
  <2> QED BY <2>1 DEF Settling, LoadingIsCleared, ShufflesRadio
<1>9. CASE PauseEnd(t)
  <2>1. mode' = mode /\ (mode = "RADIO" \/ status' # "LOADING")
    BY <1>9 DEF PauseEnd, Settling, ShufflesRadio, Inv, Good, Fits
  <2>2. CASE task[t].op = "radio_off"
    <3>1. task'[t] = Idle /\ \A x \in Task : x # t => task'[x] = task[x]
      BY <1>9, <2>2, OneMoved DEF PauseEnd
    <3> QED BY <2>1, <3>1, IdlePc, ShownStep
  <2>3. CASE task[t].op # "radio_off"
    <3>1. mode = "RADIO"
      BY <1>9, <2>3 DEF PauseEnd, Settling, ShufflesRadio, Inv, Good, Fits
    <3> QED BY <2>1, <3>1, ShownStep
  <2> QED BY <2>2, <2>3
<1>10. CASE Fetch(t) \/ Backfill(t)
  <2>1. task[t].pc \in {"fetch", "backfill"} /\ mode' = mode /\ status' = status
    BY <1>10 DEF Fetch, Backfill
  <2>2. PICK j : task' = [task EXCEPT ![t] = j] /\ j.pc # "pausing"
    <3>1. CASE task' = [task EXCEPT ![t] = Idle]
      BY <3>1, IdlePc
    <3>2. CASE \E op, trk : task' = [task EXCEPT ![t] = Job("want", op, trk, NoTrack)]
      <4>1. PICK op, trk : task' = [task EXCEPT ![t] = Job("want", op, trk, NoTrack)]
        BY <3>2
      <4>2. Job("want", op, trk, NoTrack).pc # "pausing"
        BY DEF Job
      <4> QED BY <4>1, <4>2
    <3> QED BY <1>10, <3>1, <3>2 DEF Fetch, Backfill
  <2>3. task'[t] = j /\ \A x \in Task : x # t => task'[x] = task[x]
    BY <2>2, OneMoved
  <2> QED BY <2>1, <2>2, <2>3, NothingToClear, CalmStep
<1> QED BY <1>2, <1>3, <1>4, <1>5, <1>6, <1>7, <1>8, <1>9, <1>10
        DEF Radio, RadioOn, RadioOff, Randomize, Activate, Waits

LEMMA EndedSettles ==
    ASSUME Inv, Settling, NEW t \in Task, Ended(t)
    PROVE  Settling'
<1>1. /\ task[t].pc \in {"eof", "stopwait", "errwait"} /\ mode' = mode
      /\ status' = "LOADING" => status = "LOADING"
      /\ task' = [task EXCEPT ![t] = Idle] \/ Goto(t, "lock")
  BY DEF Ended, EofWake, StopWake, ErrorWake, Goto
<1>2. "lock" \in Pcs
  BY DEF Pcs
<1>3. task'[t].pc # "pausing" /\ \A x \in Task : x # t => task'[x] = task[x]
  BY <1>1, <1>2, IdlePc, OneMoved, GotoTask
<1> QED BY <1>1, <1>3, NothingToClear, CalmStep

LEMMA PlaySettles ==
    ASSUME Inv, Settling, NEW t \in Task, Play(t)
    PROVE  Settling'
<1>1. mode' = mode
  BY DEF Play, PlayBegin, PlayLoad, PlayResume, PlayFinal, PlayFail, RecordFailure, BackoffEnd
<1>2. CASE PlayBegin(t) \/ PlayLoad(t) \/ PlayResume(t)
  <2>1. PICK p \in {"load", "resume", "final"} : Goto(t, p)
    BY <1>2 DEF PlayBegin, PlayLoad, PlayResume
  <2>2. task'[t].pc = p /\ \A x \in Task : x # t => task'[x] = task[x]
    BY <2>1, GotoTask DEF Pcs, PlayPhases
  <2>3. Clears(t)'
    BY <2>2 DEF Clears
  <2> QED BY <1>1, <2>2, <2>3, ClearingStep
<1>3. AfterPlay(t).pc \in {"idle", "backfill"}
  BY DEF AfterPlay, Idle, Job
<1>4. CASE PlayFinal(t)
  <2>1. task'[t] = AfterPlay(t) /\ \A x \in Task : x # t => task'[x] = task[x]
    BY <1>4, OneMoved DEF PlayFinal
  <2> QED BY <1>1, <1>3, <1>4, <2>1, ShownStep DEF PlayFinal
<1>5. CASE PlayFail(t)
  <2>1. PICK p \in {"failed", "dropped"} : Goto(t, p)
    BY <1>5 DEF PlayFail
  <2>2. task'[t].pc = p /\ \A x \in Task : x # t => task'[x] = task[x]
    BY <2>1, GotoTask DEF Pcs, PlayPhases
  <2> QED BY <1>1, <1>5, <2>2, ShownStep DEF PlayFail
<1>6. CASE RecordFailure(t) \/ BackoffEnd(t)
  <2>1. task[t].pc \in {"failed", "dropped", "backoff"} /\ status' = status
    BY <1>6 DEF RecordFailure, BackoffEnd
  <2>2. ASSUME NEW x \in Task, task'[x] # task[x]
        PROVE  ~Clears(x) /\ task'[x].pc # "pausing"
    <3>1. CASE Goto(t, "backoff")
      <4>1. x = t /\ task'[x].pc = "backoff"
        BY <2>2, <3>1, GotoTask DEF Pcs, PlayPhases
      <4> QED BY <2>1, <4>1, NothingToClear
    <3>2. CASE task' = [task EXCEPT ![t] = AfterPlay(t)]
      <4>1. x = t /\ task'[x] = AfterPlay(t)
        BY <2>2, <3>2, OneMoved
      <4> QED BY <1>3, <2>1, <4>1, NothingToClear
    <3>3. CASE \E b \in FreeBg :
                 task' = [task EXCEPT ![t] = AfterPlay(t),
                                      ![b] = Job("advance", "advance", task[t].arg, NoTrack)]
      <4>1. PICK b \in FreeBg :
              task' = [task EXCEPT ![t] = AfterPlay(t),
                                   ![b] = Job("advance", "advance", task[t].arg, NoTrack)]
        BY <3>3
      <4>2. b \in Task /\ task[b].pc = "idle"
        BY IdlePc DEF FreeBg, Task
      <4>3. /\ x \in {t, b}
            /\ task'[x] \in {AfterPlay(t), Job("advance", "advance", task[t].arg, NoTrack)}
        BY <2>2, <4>1, <4>2 DEF Inv, IsTasks
      <4>4. task'[x].pc # "pausing"
        BY <1>3, <4>3 DEF Job
      <4> QED BY <2>1, <4>2, <4>3, <4>4, NothingToClear
    <3> QED BY <1>6, <3>1, <3>2, <3>3 DEF RecordFailure, BackoffEnd, GiveUp
  <2> QED BY <1>1, <2>1, <2>2, CalmStep
<1> QED BY <1>2, <1>4, <1>5, <1>6 DEF Play

LEMMA OutsideSettles ==
    ASSUME Inv, Settling,
           \/ \E c \in Client : Submit(c) \/ QueueEdit(c) \/ SetLoop(c)
           \/ \E b \in Bg : TrackEnded(b)
           \/ TrackProgress \/ MpvEnds \/ Rest \/ UNCHANGED vars
    PROVE  Settling'
<1>1. mode' = mode /\ (status' = "LOADING" => status = "LOADING")
  BY DEF Submit, QueueEdit, SetLoop, TrackEnded, TrackProgress, MpvEnds, Rest, vars
<1>2. ASSUME NEW x \in Task, task'[x] # task[x]
      PROVE  ~Clears(x) /\ task'[x].pc # "pausing"
  <2>1. PICK t \in Task : \E pc \in {"lock", "eof", "errwait", "stopwait"} : \E op, arg, trk :
          task[t] = Idle /\ task' = [task EXCEPT ![t] = Job(pc, op, arg, trk)]
    <3>1. CASE \E c \in Client : Submit(c)
      <4>1. PICK c \in Client : \E op, arg :
              task[c] = Idle /\ task' = [task EXCEPT ![c] = Job("lock", op, arg, NoTrack)]
        BY <3>1 DEF Submit
      <4> QED BY <4>1 DEF Task
    <3>2. CASE \E b \in Bg : TrackEnded(b)
      BY <1>2, <3>2 DEF TrackEnded, Task
    <3>3. task' # task
      BY <1>2
    <3> QED BY <3>1, <3>2, <3>3
            DEF QueueEdit, SetLoop, TrackProgress, MpvEnds, Rest, vars, taskVars
  <2>2. PICK pc \in {"lock", "eof", "errwait", "stopwait"} : \E op, arg, trk :
          task[t] = Idle /\ task' = [task EXCEPT ![t] = Job(pc, op, arg, trk)]
    BY <2>1
  <2>3. PICK op, arg, trk : task[t] = Idle /\ task' = [task EXCEPT ![t] = Job(pc, op, arg, trk)]
    BY <2>2
  <2>4. x = t /\ task'[x] = Job(pc, op, arg, trk)
    BY <1>2, <2>3, OneMoved
  <2>5. ~Clears(x)
    BY <2>3, <2>4, IdlePc, NothingToClear
  <2> QED BY <2>4, <2>5 DEF Job
<1> QED BY <1>1, <1>2, CalmStep

LEMMA StepSettles ==
    ASSUME Inv, Settling, [Next]_vars
    PROVE  Settling'
<1>1. ASSUME NEW t \in Task, TaskStep(t) PROVE Settling'
  BY <1>1, PlaySettles, CommandsSettle, RadioSettles, EndedSettles DEF TaskStep
<1> QED BY <1>1, OutsideSettles DEF Next

-----------------------------------------------------------------------------
LEMMA InitSafe == Init => Safe
<1> SUFFICES ASSUME Init PROVE Safe
  OBVIOUS
<1>1. \A x \in Task : task[x].pc = "idle"
  BY IdlePc DEF Init
<1>2. Hands
  BY <1>1 DEF Init, Hands, OneAhead, InHand, InPlay, PlayPhases
<1>3. Settling
  BY <1>1 DEF Init, Settling, LoadingIsCleared, ShufflesRadio
<1> QED BY <1>2, <1>3 DEF Safe, Hands, Settling

(* Beside Inv this one is inductive too.                                     *)
THEOREM SafetyInvariant == Spec => []Safe
<1>1. Inv /\ Inv' /\ Safe /\ [Next]_vars => Safe'
  BY StepKeepsHands, StepSettles DEF Safe, Hands, Settling
<1> QED BY <1>1, InitSafe, Invariant, PTL DEF Spec

(* For any number of clients, tasks and tracks: what is shown belongs to the *)
(* attempt in progress, and from loadfile on so does the file mpv has.      *)
THEOREM ShownIsPlayed == Spec => []NowPlayingIsOurs
<1>1. Safe => NowPlayingIsOurs
  BY DEF Safe, InHand, NowPlayingIsOurs
<1> QED BY <1>1, SafetyInvariant, PTL

(* No stop, failure or cancellation takes _loading down under a load.       *)
THEOREM LoadsAreGuarded == Spec => []LoadIsGuarded
<1>1. Safe => LoadIsGuarded
  BY DEF Safe, InHand, LoadIsGuarded
<1> QED BY <1>1, SafetyInvariant, PTL

(* For any threshold, a run of failures advances at most Threshold times.   *)
THEOREM FailuresEnd == Spec => []BreakerBudget
<1>1. Inv /\ Safe => BreakerBudget
  BY PlaybackAssumption DEF Inv, Data, Safe, OneAhead, BreakerBudget, PlaybackAssumption
<1> QED BY <1>1, Invariant, SafetyInvariant, PTL

(* Whatever is cancelled in which order, QUEUE mode never rests in LOADING.  *)
THEOREM QueueModeNeverHangs == Spec => []QueueModeSettles
<1>1. Safe => QueueModeSettles
  BY IdlePc DEF Safe, LoadingIsCleared, Clears, QueueModeSettles, AtRest
<1> QED BY <1>1, SafetyInvariant, PTL

-----------------------------------------------------------------------------
(* 3. Playback implements SerialPlayer for every value of the constants.    *)
(* Initial states map to initial states, and a step of Playback maps to     *)
(* Begin (PlayBegin), Load (PlayLoad), FileEnds (MpvEnds), Requests (all    *)
(* the quiet steps and the ends of an attempt) or a stutter.                *)

(* What a task wants, in the words of the proofs.                           *)
LEMMA WantedOf ==
    ASSUME Inv, NEW x \in Task
    PROVE  /\ wanted[x] = IF Pending(task[x]) THEN task[x].arg ELSE NoTrack
           /\ Pending(task[x]) => task[x].arg \in Track /\ wanted[x] # NoTrack
           /\ wanted[x] \in Track \cup {NoTrack}
           /\ playLock = x => Pending(task[x])
<1>1. Pending(task[x]) <=> task[x].pc = "want" \/ InPlay(x)
  BY DEF Pending, InPlay, PlayPhases
<1>2. wanted[x] = IF Pending(task[x]) THEN task[x].arg ELSE NoTrack
  BY <1>1 DEF wanted
<1>3. Pending(task[x]) => task[x].arg \in Track
  BY DEF Pending, Inv, Good, Fits
<1>4. playLock = x => Pending(task[x])
  BY DEF Inv, Good, HoldsPlay, Pending
<1> QED BY <1>2, <1>3, <1>4, PlaybackAssumption DEF PlaybackAssumption

LEMMA WantedOfNext ==
    ASSUME Inv', NEW x \in Task
    PROVE  /\ wanted'[x] = IF Pending(task'[x]) THEN task'[x].arg ELSE NoTrack
           /\ Pending(task'[x]) => task'[x].arg \in Track /\ wanted'[x] # NoTrack
           /\ wanted'[x] \in Track \cup {NoTrack}
           /\ playLock' = x => Pending(task'[x])
<1>1. Pending(task'[x]) <=> task'[x].pc = "want" \/ InPlay(x)'
  BY DEF Pending, InPlay, PlayPhases
<1>2. wanted'[x] = IF Pending(task'[x]) THEN task'[x].arg ELSE NoTrack
  BY <1>1 DEF wanted
<1>3. Pending(task'[x]) => task'[x].arg \in Track
  BY DEF Pending, Inv, Good, Fits
<1>4. playLock' = x => Pending(task'[x])
  BY DEF Inv, Good, HoldsPlay, Pending
<1> QED BY <1>2, <1>3, <1>4, PlaybackAssumption DEF PlaybackAssumption

(* Requests, from what it says of each task.                                *)
LEMMA RequestsFrom ==
    ASSUME Inv', current' \in {current, NoTrack}, mpvTrack' = mpvTrack,
           \A x \in Task : wanted[x] # NoTrack => wanted'[x] \in {wanted[x], NoTrack},
           playLock' = IF playLock # NoTask /\ wanted'[playLock] = NoTrack THEN NoTask
                       ELSE playLock
    PROVE  Serial!Requests
<1>1. wanted' = [x \in Task |-> wanted'[x]]
  BY DEF wanted
<1>2. wanted' \in [Task -> Track \cup {NoTrack}]
  BY <1>1, WantedOfNext
<1> QED BY <1>2 DEF Serial!Requests

LEMMA QuietMaps ==
    ASSUME Inv, Inv', Quiet
    PROVE  Serial!Requests
<1>1. ASSUME NEW x \in Task
      PROVE  /\ wanted'[x] # NoTrack /\ wanted[x] # NoTrack => task'[x] = task[x]
             /\ HoldsPlay(task'[x]) => task'[x] = task[x]
  BY WantedOf, WantedOfNext DEF Quiet, Spared, Pending, HoldsPlay
<1>2. \A x \in Task : task'[x] = task[x] => wanted'[x] = wanted[x]
  BY WantedOf, WantedOfNext
<1>3. \A x \in Task : playLock' = x <=> HoldsPlay(task'[x])
  BY DEF Inv, Good
<1>4. \A x \in Task : playLock = x <=> HoldsPlay(task[x])
  BY DEF Inv, Good
<1>5. playLock \in Task \cup {NoTask} /\ playLock' \in Task \cup {NoTask} /\ NoTask \notin Task
  BY PlaybackAssumption DEF Inv, Data, PlaybackAssumption
<1>6. \A x \in Task : playLock' = x => playLock = x /\ wanted'[x] # NoTrack
  BY <1>1, <1>3, <1>4, WantedOfNext
<1>7. ASSUME playLock # NoTask, wanted'[playLock] # NoTrack
      PROVE  playLock' = playLock
  <2>1. playLock \in Task /\ wanted[playLock] # NoTrack
    BY <1>5, <1>7, WantedOf
  <2>2. task'[playLock] = task[playLock]
    BY <1>1, <1>7, <2>1
  <2> QED BY <1>3, <1>4, <2>1, <2>2
<1>8. playLock' = IF playLock # NoTask /\ wanted'[playLock] = NoTrack THEN NoTask ELSE playLock
  BY <1>5, <1>6, <1>7
<1>9. \A x \in Task : wanted[x] # NoTrack => wanted'[x] \in {wanted[x], NoTrack}
  BY <1>1, <1>2
<1> QED BY <1>8, <1>9, RequestsFrom DEF Quiet

(* The attempt in progress ends: its request goes, and the player is free.   *)
LEMMA LeavingMaps ==
    ASSUME Inv, Inv', NEW t \in Task, HoldsPlay(task[t]),
           LeavePlay(t), current' = current, mpvTrack' = mpvTrack,
           task'[t] = AfterPlay(t),
           \A x \in Task : x # t => \/ task'[x] = task[x]
                                    \/ ~Pending(task[x]) /\ ~Pending(task'[x])
    PROVE  Serial!Requests
<1>1. playLock = t /\ playLock' = NoTask /\ t # NoTask
  BY PlaybackAssumption DEF Inv, Good, LeavePlay, PlaybackAssumption
<1>2. ~Pending(task'[t])
  <2>1. AfterPlay(t).pc \in {"idle", "backfill"}
    BY DEF AfterPlay, Idle, Job
  <2> QED BY <2>1 DEF Pending, PlayPhases
<1>3. wanted'[t] = NoTrack
  BY <1>2, WantedOfNext
<1>4. \A x \in Task : x # t => wanted'[x] = wanted[x]
  BY WantedOf, WantedOfNext
<1> QED BY <1>1, <1>3, <1>4, RequestsFrom

(* Within an attempt nothing that SerialPlayer shows changes but the file.   *)
LEMMA PhaseStutters ==
    ASSUME Inv, Inv', NEW t \in Task, NEW p \in PlayPhases, Goto(t, p), Pending(task[t])
    PROVE  wanted' = wanted
<1>1. p \in Pcs
  BY DEF Pcs
<1>2. /\ Pending(task'[t]) /\ task'[t].arg = task[t].arg
      /\ \A x \in Task : x # t => task'[x] = task[x]
  BY <1>1, GotoTask DEF Pending
<1>3. \A x \in Task : wanted'[x] = wanted[x]
  BY <1>2, WantedOf, WantedOfNext
<1> QED BY <1>3 DEF wanted

LEMMA PlayMaps ==
    ASSUME Inv, Inv', NEW t \in Task, Play(t)
    PROVE  [Serial!Next]_Serial!vars
<1>1. Pending(task[t]) /\ NoTask \notin Task
  BY PlaybackAssumption
  DEF Play, PlayBegin, PlayLoad, PlayResume, PlayFinal, PlayFail, RecordFailure, BackoffEnd,
      Pending, PlayPhases, PlaybackAssumption
<1>2. wanted[t] = task[t].arg /\ wanted[t] # NoTrack
  BY <1>1, WantedOf
<1>3. CASE PlayBegin(t)
  <2>1. wanted' = wanted
    BY <1>1, <1>3, PhaseStutters DEF PlayBegin, PlayPhases
  <2>2. Serial!Begin
    BY <1>2, <1>3, <2>1 DEF PlayBegin, PlayLockFree, mpvVars, Serial!Begin
  <2> QED BY <2>2 DEF Serial!Next
<1>4. CASE PlayLoad(t)
  <2>1. wanted' = wanted
    BY <1>1, <1>4, PhaseStutters DEF PlayLoad, PlayPhases
  <2>2. playLock = t
    BY <1>4 DEF PlayLoad, Inv, Good, HoldsPlay, PlayPhases
  <2>3. Serial!Load
    BY <1>1, <1>2, <1>4, <2>1, <2>2 DEF PlayLoad, Serial!Load
  <2> QED BY <2>3 DEF Serial!Next
<1>5. CASE PlayResume(t) \/ PlayFail(t) \/ (RecordFailure(t) /\ Goto(t, "backoff"))
  <2>1. PICK p \in PlayPhases : Goto(t, p)
    BY <1>5 DEF PlayResume, PlayFail, PlayPhases
  <2>2. wanted' = wanted
    BY <1>1, <2>1, PhaseStutters
  <2>3. UNCHANGED <<playLock, current, mpvTrack>>
    <3>1. CASE PlayResume(t) \/ PlayFail(t)
      BY <3>1 DEF PlayResume, PlayFail, mpvVars
    <3>2. CASE RecordFailure(t) /\ Goto(t, "backoff")
      <4>1. task'[t].pc = "backoff" /\ AfterPlay(t).pc \in {"idle", "backfill"}
        BY <3>2, GotoTask DEF Pcs, PlayPhases, AfterPlay, Idle, Job
      <4>2. ~LeavePlay(t)
        <5>1. HoldsPlay(task'[t]) /\ t # NoTask
          BY <1>1, <4>1 DEF HoldsPlay, PlayPhases
        <5> QED BY <5>1 DEF LeavePlay, Inv, Good
      <4> QED BY <3>2, <4>2 DEF RecordFailure, GiveUp, mpvVars
    <3> QED BY <1>5, <3>1, <3>2
  <2> QED BY <2>2, <2>3 DEF Serial!vars
<1>6. CASE PlayFinal(t) \/ BackoffEnd(t) \/ (RecordFailure(t) /\ ~Goto(t, "backoff"))
  <2>1. HoldsPlay(task[t]) /\ LeavePlay(t) /\ UNCHANGED <<current, mpvTrack>>
    BY <1>6 DEF PlayFinal, BackoffEnd, RecordFailure, GiveUp, HoldsPlay, PlayPhases, mpvVars
  <2>2. CASE task' = [task EXCEPT ![t] = AfterPlay(t)]
    <3>1. task'[t] = AfterPlay(t) /\ \A x \in Task : x # t => task'[x] = task[x]
      BY <2>2, OneMoved
    <3>2. Serial!Requests
      BY <2>1, <3>1, LeavingMaps
    <3> QED BY <3>2 DEF Serial!Next
  <2>3. CASE \E b \in FreeBg :
               task' = [task EXCEPT ![t] = AfterPlay(t),
                                    ![b] = Job("advance", "advance", task[t].arg, NoTrack)]
    <3>1. PICK b \in FreeBg :
            task' = [task EXCEPT ![t] = AfterPlay(t),
                                 ![b] = Job("advance", "advance", task[t].arg, NoTrack)]
      BY <2>3
    <3>2. b \in Task /\ task[b].pc = "idle" /\ b # t
      BY <2>1, IdlePc DEF FreeBg, Task, HoldsPlay, PlayPhases
    <3>3. /\ task'[t] = AfterPlay(t) /\ task'[b] = Job("advance", "advance", task[t].arg, NoTrack)
          /\ \A x \in Task : x # t /\ x # b => task'[x] = task[x]
      BY <3>1, <3>2 DEF Inv, IsTasks
    <3>4. task'[b].pc = "advance"
      BY <3>3 DEF Job
    <3>5. ~Pending(task[b]) /\ ~Pending(task'[b])
      BY <3>2, <3>4 DEF Pending, PlayPhases
    <3>6. Serial!Requests
      BY <2>1, <3>2, <3>3, <3>5, LeavingMaps
    <3> QED BY <3>6 DEF Serial!Next
  <2> QED BY <1>6, <2>2, <2>3 DEF PlayFinal, BackoffEnd, RecordFailure, GiveUp
<1> QED BY <1>3, <1>4, <1>5, <1>6 DEF Play

LEMMA MpvEndsMaps ==
    ASSUME MpvEnds
    PROVE  Serial!FileEnds
<1>1. wanted' = wanted
  BY DEF MpvEnds, taskVars, wanted, InPlay
<1> QED BY <1>1 DEF MpvEnds, taskVars, Serial!FileEnds

LEMMA InitMaps == Init => Serial!Init
<1> SUFFICES ASSUME Init PROVE Serial!Init
  OBVIOUS
<1>1. wanted = [x \in Task |-> NoTrack]
  BY IdlePc DEF Init, wanted, InPlay, PlayPhases
<1> QED BY <1>1 DEF Init, Serial!Init

LEMMA StepMaps == Inv /\ Inv' /\ [Next]_vars => [Serial!Next]_Serial!vars
<1> SUFFICES ASSUME Inv, Inv', [Next]_vars PROVE [Serial!Next]_Serial!vars
  OBVIOUS
<1>1. CASE Quiet
  BY <1>1, QuietMaps DEF Serial!Next
<1>2. CASE MpvEnds
  BY <1>2, MpvEndsMaps DEF Serial!Next
<1> QED BY <1>1, <1>2, PlayMaps, StepKinds

(* Whatever is cancelled, stopped or skipped: for any number of clients and  *)
(* tasks the controller plays one attempt at a time, each request at most   *)
(* once, and gives mpv only the track of the attempt in progress.           *)
THEOREM PlaybackIsSerial == Spec => PlaysSerially
BY InitMaps, StepMaps, Invariant, PTL DEF Spec, PlaysSerially, Serial!Spec
=============================================================================
