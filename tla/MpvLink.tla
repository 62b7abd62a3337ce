------------------------------ MODULE MpvLink -------------------------------
(***************************************************************************)
(* The link between LunaWave and the mpv process (adapters/mpv): MpvIPC    *)
(* numbers the requests and keeps a future for each get_property,          *)
(* MpvObserver reads the socket, hands answers to those futures and owns   *)
(* reconnecting, MpvConnection owns the socket and the process.  Tasks of  *)
(* the event loop call get_property and send_command at any time, also     *)
(* while the start-up tasks (bootstrap) still wait for the first connect.  *)
(***************************************************************************)
EXTENDS Naturals, Sequences, FiniteSets

CONSTANTS
    Caller,     \* bound: tasks that talk to mpv
    NoCaller,   \* nobody holds _req_lock
    Prop,       \* properties that are asked for (time-pos, duration)
    None,       \* what get_property returns without an answer
    Retries,    \* RECONNECT_MAX_ATTEMPTS
    Tries,      \* attempts of _do_connect on the socket of a new process
    MaxCalls    \* bound: calls made

ASSUME MpvLinkAssumption ==
    /\ IsFiniteSet(Caller) /\ NoCaller \notin Caller
    /\ None \notin Prop
    /\ Retries \in Nat \ {0} /\ Tries \in Nat \ {0}
    /\ MaxCalls \in Nat

VARIABLES
    connected,  \* MpvConnection.is_connected
    link,       \* the socket and the process behind it: up or down
    fresh,      \* history variable: mpv was started since the last loss was seen
    observer,   \* where _observe_loop stands
    attempt,    \* attempt of _reconnect_with_retries
    nextId,     \* MpvIPC._request_id
    pending,    \* MpvIPC._pending: request id -> the caller whose future it is
    reqLock,    \* holder of MpvIPC._req_lock
    call,       \* what each caller is doing
    requests,   \* lines written to mpv and not yet handled by it
    lines,      \* lines from mpv and not yet read
    ended,      \* TrackEndedEvent(error) was published: reconnecting was given up
    calls,      \* counter of the bound MaxCalls
    start,      \* where _init_mpv stands
    tries,      \* the attempt of its _do_connect
    ready,      \* context.mpv_ready_event
    resume      \* _resume_last_track: waiting for the event, or done

startVars == <<start, tries, ready, resume>>
linkVars == <<connected, link, fresh, observer, attempt, ended>>
ipcVars == <<nextId, pending, reqLock>>
wire == <<requests, lines>>
mpvVars == <<linkVars, ipcVars, wire, call, calls, startVars>>

(* A caller waits for the lock to ask or to send, for the writer to drain,  *)
(* or for its future; asked and got are what its last get_property named    *)
(* and returned.                                                            *)
CallPcs == {"idle", "ask", "send", "drain", "wait", "answered"}
Call(pc, id, asked, got) == [pc |-> pc, id |-> id, asked |-> asked, got |-> got]
Idle == Call("idle", 0, None, None)
ObserverPcs == {"none", "starting", "reading", "handling", "reconnecting", "subscribing", "announcing", "over"}
Ids == 0 .. MaxCalls
Message(id, prop) == [id |-> id, prop |-> prop]

LinkInit ==
    /\ connected = FALSE /\ link = "down" /\ fresh = FALSE
    /\ observer = "none" /\ attempt = 1 /\ ended = FALSE
    /\ nextId = 0 /\ pending = {} /\ reqLock = NoCaller
    /\ call = [c \in Caller |-> Idle]
    /\ requests = <<>> /\ lines = <<>>
    /\ calls = 0
    /\ start = "which" /\ tries = 1 /\ ready = FALSE /\ resume = "waiting"

Become(c, state) == call' = [call EXCEPT ![c] = state]
Returns(c, value) == Become(c, Call("idle", 0, call[c].asked, value))

(* _pending as a set of pairs: the entry of an id.                          *)
Entry(id, c) == [id |-> id, owner |-> c]
WithoutId(id) == {e \in pending : e.id # id}

-----------------------------------------------------------------------------
(* Callers.  Without a connection a call returns at once.                   *)

Begins(c, pc, prop) ==
    /\ calls < MaxCalls
    /\ calls' = calls + 1
    /\ call[c].pc = "idle"
    /\ Become(c, Call(IF connected THEN pc ELSE "idle", 0, prop, None))
    /\ UNCHANGED <<linkVars, ipcVars, wire, startVars>>

GetProperty(c, prop) == Begins(c, "ask", prop)
SendCommand(c) == Begins(c, "send", None)

(* A line is written: mpv gets it while the link is up.                     *)
Write(id, prop) == requests' = IF link = "up" THEN Append(requests, Message(id, prop))
                                              ELSE requests

(* Mutant of Ask: the number is taken from the entries, not counted up.     *)
AskReusesId(c) ==
    /\ call[c].pc = "ask"
    /\ reqLock = NoCaller
    /\ LET id == Cardinality(pending) + 1
       IN /\ nextId' = id
          /\ pending' = WithoutId(id) \cup {Entry(id, c)}
          /\ Become(c, Call("wait", id, call[c].asked, None))
          /\ Write(id, call[c].asked)
    /\ UNCHANGED <<linkVars, reqLock, lines, calls, startVars>>

(* get_property has the lock: it registers a future and writes; on a dead   *)
(* link the write may fail, which takes the future back.                    *)
Ask(c) ==
    /\ call[c].pc = "ask"
    /\ reqLock = NoCaller
    /\ nextId' = nextId + 1
    /\ \/ /\ pending' = pending \cup {Entry(nextId + 1, c)}
          /\ Become(c, Call("wait", nextId + 1, call[c].asked, None))
       \/ /\ link = "down"
          /\ pending' = pending
          /\ Returns(c, None)
    /\ Write(nextId + 1, call[c].asked)
    /\ UNCHANGED <<linkVars, reqLock, lines, calls, startVars>>

(* send_command keeps the lock while the writer drains, then forgets the    *)
(* answer; a failed write is swallowed.                                     *)
Send(c) ==
    /\ call[c].pc = "send"
    /\ reqLock = NoCaller
    /\ reqLock' = c
    /\ nextId' = nextId + 1
    /\ Become(c, Call("drain", nextId + 1, None, None))
    /\ Write(nextId + 1, None)
    /\ UNCHANGED <<linkVars, pending, lines, calls, startVars>>

Drained(c) ==
    /\ call[c].pc = "drain"
    /\ reqLock' = NoCaller
    /\ Returns(c, None)
    /\ UNCHANGED <<linkVars, nextId, pending, wire, calls, startVars>>

(* The future has its answer and the caller goes on with it.                *)
Wakes(c) ==
    /\ call[c].pc = "answered"
    /\ Returns(c, call[c].got)
    /\ UNCHANGED <<linkVars, ipcVars, wire, calls, startVars>>

(* Mutant of TimesOut: the future of an abandoned request is not taken back.*)
TimesOutLeaks(c) ==
    /\ call[c].pc \in {"wait", "answered"}
    /\ Returns(c, None)
    /\ UNCHANGED <<linkVars, ipcVars, wire, calls, startVars>>

(* Mutant of TimesOut: the answer is awaited without a timeout.             *)
TimesOutNever(c) == call[c].pc \in {} /\ UNCHANGED mpvVars

(* wait_for gives up after two seconds, even when the answer has just come. *)
TimesOut(c) ==
    /\ call[c].pc \in {"wait", "answered"}
    /\ Returns(c, None)
    /\ pending' = WithoutId(call[c].id)
    /\ UNCHANGED <<linkVars, nextId, reqLock, wire, calls, startVars>>

-----------------------------------------------------------------------------
(* mpv (external): it answers requests in order, and it may die, with what  *)
(* it has not handled lost and what it has answered still readable.         *)

MpvAnswers ==
    /\ link = "up" /\ requests # <<>>
    /\ lines' = Append(lines, Head(requests))
    /\ requests' = Tail(requests)
    /\ UNCHANGED <<linkVars, ipcVars, call, calls, startVars>>

MpvDies ==
    /\ link = "up"
    /\ link' = "down"
    /\ requests' = <<>>
    /\ UNCHANGED <<connected, fresh, observer, attempt, ended, ipcVars, lines, call, calls, startVars>>

-----------------------------------------------------------------------------
(* The observer.  _handle_event: the answer goes to the future of its id,   *)
(* if there still is one.                                                   *)
ReadLine ==
    /\ observer = "reading" /\ lines # <<>>
    /\ LET m == Head(lines)
       IN /\ call' = [c \in Caller |->
                        IF Entry(m.id, c) \in pending /\ call[c].pc = "wait"
                        THEN Call("answered", m.id, call[c].asked, m.prop)
                        ELSE call[c]]
          /\ pending' = WithoutId(m.id)
    /\ lines' = Tail(lines)
    /\ UNCHANGED <<linkVars, nextId, reqLock, requests, calls, startVars>>

(* An event instead of an answer (end-file, time-pos, pause): the observer  *)
(* publishes it and waits for those of its handlers that are coroutines     *)
(* (broadcasts, SponsorBlock's seek), and reads no answer until they ended. *)
ReadEvent ==
    /\ observer = "reading" /\ link = "up"
    /\ observer' = "handling"
    /\ UNCHANGED <<connected, link, fresh, attempt, ended, ipcVars, wire, call, calls, startVars>>

Handled ==
    /\ observer = "handling"
    /\ observer' = "reading"
    /\ UNCHANGED <<connected, link, fresh, attempt, ended, ipcVars, wire, call, calls, startVars>>

(* End of file: the loss is noticed, and is_connected stays TRUE.           *)
ReadEof ==
    /\ observer = "reading" /\ lines = <<>> /\ link = "down"
    /\ observer' = "reconnecting"
    /\ attempt' = 1
    /\ fresh' = FALSE
    /\ UNCHANGED <<connected, link, ended, ipcVars, wire, call, calls, startVars>>

(* cancel_all_pending: every waiting caller is cancelled.                   *)
Over ==
    /\ observer' = "over"
    /\ connected' = FALSE
    /\ pending' = {}
    /\ call' = [c \in Caller |-> IF \E e \in pending : e.owner = c /\ call[c].pc = "wait"
                                 THEN Call("idle", 0, call[c].asked, None) ELSE call[c]]

(* MpvConnection.reconnect, attempt by attempt: nothing to do when          *)
(* is_connected, else a new process; after the last failure the track ends  *)
(* with an error and the loop is over.                                      *)
Reconnect ==
    /\ observer = "reconnecting"
    /\ \E works \in {connected, TRUE} :
         IF works
         THEN /\ observer' = "subscribing"
              /\ connected' = TRUE
              /\ link' = IF connected THEN link ELSE "up"
              /\ fresh' = IF connected THEN fresh ELSE TRUE
              /\ UNCHANGED <<attempt, ended, pending, call, startVars>>
         ELSE IF attempt < Retries
         THEN /\ attempt' = attempt + 1
              /\ UNCHANGED <<connected, link, fresh, observer, ended, pending, call, startVars>>
         ELSE /\ Over
              /\ ended' = TRUE
              /\ UNCHANGED <<link, fresh, attempt, startVars>>
    /\ UNCHANGED <<nextId, reqLock, wire, calls, startVars>>

(* observe_property three times: no answer is waited for, but the lock is.  *)
Subscribe ==
    /\ observer \in {"starting", "subscribing"}
    /\ reqLock = NoCaller
    /\ observer' = IF observer = "starting" THEN "reading" ELSE "announcing"
    /\ UNCHANGED <<connected, link, fresh, attempt, ended, ipcVars, wire, call, calls, startVars>>

(* MpvReconnectedEvent is published and the loop reads on.                  *)
Announce ==
    /\ observer = "announcing"
    /\ observer' = "reading"
    /\ UNCHANGED <<connected, link, fresh, attempt, ended, ipcVars, wire, call, calls, startVars>>

(* Shutdown: the start-up tasks and the observer are cancelled wherever     *)
(* they are, then the process is terminated.                                *)
Close ==
    /\ observer # "over"
    /\ Over
    /\ link' = "down"
    /\ requests' = <<>>
    /\ start' = "over" /\ resume' = "over"
    /\ UNCHANGED <<fresh, attempt, ended, nextId, reqLock, lines, calls, tries, ready>>

-----------------------------------------------------------------------------
(* Start-up.                                                                *)

(* Mutant of Fails: only the error is shown.                                *)
FailsSilently == start' = "over" /\ UNCHANGED ready

(* The end of a start without mpv: the player shows an error, and the event *)
(* is set nevertheless.                                                     *)
Fails == start' = "over" /\ ready' = TRUE

(* _init_mpv looks for the executable.                                      *)
InitMpv ==
    /\ start = "which"
    /\ \/ Fails
       \/ start' = "spawning" /\ UNCHANGED ready
    /\ UNCHANGED <<linkVars, ipcVars, wire, call, calls, tries, resume>>

(* _do_connect spawns the process, which may fail (the error is logged),    *)
(* and polls until its socket is there or five seconds are over.            *)
Spawn ==
    /\ start = "spawning"
    /\ start' = "trying"
    /\ link' \in {"up", "down"}
    /\ UNCHANGED <<connected, fresh, observer, attempt, ended, ipcVars, wire, call, calls,
                   tries, ready, resume>>

(* One attempt on the socket: with the connection the observer is started;  *)
(* the last failure raises MpvConnectionError.                              *)
TryConnect ==
    /\ start = "trying"
    /\ \/ /\ link = "up"
          /\ connected' = TRUE /\ fresh' = TRUE
          /\ observer' = "starting"
          /\ start' = "over" /\ ready' = TRUE
          /\ UNCHANGED tries
       \/ /\ tries < Tries
          /\ tries' = tries + 1
          /\ UNCHANGED <<connected, fresh, observer, start, ready>>
       \/ /\ tries = Tries
          /\ Fails
          /\ UNCHANGED <<connected, fresh, observer, tries>>
    /\ UNCHANGED <<link, attempt, ended, ipcVars, wire, call, calls, resume>>

(* _resume_last_track goes on, to load the last track unless the player     *)
(* shows an error; what it calls of mpv are calls like those of any task.   *)
Resume ==
    /\ resume = "waiting" /\ ready
    /\ resume' = "over"
    /\ UNCHANGED <<linkVars, ipcVars, wire, call, calls, start, tries, ready>>

StartStep == InitMpv \/ Spawn \/ TryConnect \/ Resume

CallerStep(c) == Ask(c) \/ Send(c) \/ Drained(c) \/ Wakes(c)
ObserverStep == ReadLine \/ Handled \/ ReadEof \/ Reconnect \/ Subscribe \/ Announce

(* Closed, and every call made and answered.                                *)
LinkAtRest ==
    /\ observer = "over" /\ calls = MaxCalls
    /\ \A c \in Caller : call[c].pc = "idle"
    /\ UNCHANGED mpvVars

LinkNext ==
    \/ LinkAtRest \/ StartStep \/ ObserverStep \/ ReadEvent \/ MpvAnswers \/ MpvDies \/ Close
    \/ \E c \in Caller : \/ CallerStep(c) \/ TimesOut(c) \/ SendCommand(c)
                         \/ \E p \in Prop : GetProperty(c, p)

LinkSpec == LinkInit /\ [][LinkNext]_mpvVars

(* The event loop runs what is ready and its timers fire.  _req_lock is     *)
(* held only while the writer drains, so a caller that waits for it gets it *)
(* (asyncio.Lock is fair).                                                  *)
LinkFairness ==
    /\ WF_mpvVars(ObserverStep) /\ WF_mpvVars(StartStep)
    /\ \A c \in Caller : SF_mpvVars(CallerStep(c)) /\ WF_mpvVars(TimesOut(c))

LinkFairSpec == LinkSpec /\ LinkFairness

-----------------------------------------------------------------------------
(* Types; a request number is never 0, which send_command returns for       *)
(* "not sent" (ipc.py:44).                                                  *)
LinkTypeOK ==
    /\ connected \in BOOLEAN /\ link \in {"up", "down"} /\ fresh \in BOOLEAN
    /\ observer \in ObserverPcs /\ attempt \in 1 .. Retries /\ ended \in BOOLEAN
    /\ nextId \in Ids /\ reqLock \in Caller \cup {NoCaller} /\ calls \in Ids
    /\ pending \subseteq [id : 1 .. nextId, owner : Caller]
    /\ call \in [Caller -> [pc : CallPcs, id : Ids, asked : Prop \cup {None},
                            got : Prop \cup {None}]]
    /\ start \in {"which", "spawning", "trying", "over"} /\ tries \in 1 .. Tries /\ ready \in BOOLEAN
    /\ resume \in {"waiting", "over"}
    /\ \A m \in {requests[i] : i \in DOMAIN requests} \cup {lines[i] : i \in DOMAIN lines} :
         m \in [id : 1 .. nextId, prop : Prop \cup {None}]

(* get_property returns the value of the property it asked for or nothing:  *)
(* an answer that comes after its caller gave up is not taken for the next  *)
(* one (the position shown for the duration, ipc.py:61-77).                 *)
AnswerIsOwn == \A c \in Caller : call[c].got \in {call[c].asked, None}

(* Every entry of _pending has a caller waiting for it and no caller has    *)
(* two, so the table cannot grow when mpv does not answer.                  *)
PendingIsWaited ==
    \A e \in pending : call[e.owner].pc = "wait" /\ call[e.owner].id = e.id

(* When a reconnect is announced, mpv has been started since its loss was   *)
(* seen: "the underlying process is fresh/idle" (controller.py:163-165, of  *)
(* _on_mpv_reconnected, which reloads the track on the strength of it).     *)
ReconnectedIsFresh == observer = "announcing" => fresh

(* Every call to mpv returns, also when mpv dies or the link is closed with *)
(* requests unanswered.                                                     *)
CallsReturn == \A c \in Caller : call[c].pc # "idle" ~> call[c].pc = "idle"

(* Resuming the last track never hangs waiting for mpv, whether mpv is      *)
(* missing, does not start, never opens its socket or dies on the way       *)
(* (services.py:119-153, startup_tasks.py:88-95).                           *)
ResumeGoesOn == resume = "waiting" ~> resume = "over"
=============================================================================
