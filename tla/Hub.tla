-------------------------------- MODULE Hub --------------------------------
(***************************************************************************)
(* The websocket side of LunaWave: ConnectionManager and the connection     *)
(* handlers of core/routing (login, sessions, initial setup), the           *)
(* dispatcher of the music commands with its rate limits, the publishing of *)
(* a changed player state to every client, chat and the live log.           *)
(*                                                                          *)
(* Each connection has one handler, which serves its messages one after the *)
(* other; all handlers, the broadcasts and the log tails are tasks of one   *)
(* event loop.  An action is one turn of a task between two awaits.  A send *)
(* is two of them: the frame is written at once, and the sender goes on at  *)
(* any later time, when the client has read enough of what it was sent, or  *)
(* finds the peer lost, which raises.  A statement takes effect when it is  *)
(* issued and its task goes on at any later time.                           *)
(***************************************************************************)
EXTENDS Naturals, Sequences, FiniteSets, SequencesExt

CONSTANTS
    Conn,          \* bound: websocket connections
    Player,        \* the tasks of the player, as a publisher of events
    Username,      \* names the form of the initial setup may hold
    Uid,           \* chat identities of browsers
    None,          \* no identity, nobody
    MaxAttempts,   \* failed logins or setups of one address in 300 s: 5
    MaxCommands,   \* commands of one address in 60 s: 30
    MaxChats,      \* chat messages of one identity in 60 s: 10
    MaxEvents      \* bound: messages of clients, peers lost and events of the player

ASSUME HubAssumption ==
    /\ IsFiniteSet(Conn) /\ Player \notin Conn /\ None \notin Conn \cup Uid
    /\ MaxAttempts \in Nat \ {0} /\ MaxCommands \in Nat /\ MaxChats \in Nat
    /\ MaxEvents \in Nat

VARIABLES
    active,     \* ConnectionManager.active_connections
    authed,     \* ConnectionManager.authenticated_connections
    uid,        \* ConnectionManager.client_uids
    tail,       \* _log_tail_tasks, and the tails that were cancelled
    rlLock,     \* the handler that holds ConnectionManager.rl_lock, or None
    tries,      \* login_attempts, setup_attempts, command_history of the one address
    chats,      \* ConnectionManager.chat_history, by identity or, for None, address
    sessions,   \* whether table sessions holds a token: tokens are numbered as made
    accounts,   \* the usernames of table admin_account, by rowid
    handler,    \* what each connection's handler is doing
    lost,       \* the connections whose peer is gone
    version,    \* number of the latest state of the player
    view,       \* number of the last state written to each client
    publisher,  \* the broadcast a handler or the player waits for
    happened    \* counter of the bound MaxEvents

auth == <<rlLock, tries, sessions, accounts>>
conns == <<active, authed, uid, tail>>
news == <<version, view, publisher>>
vars == <<auth, conns, news, chats, handler, lost, happened>>

Pcs == {"new", "loop", "reply", "ended", "auth", "verified", "extended", "compare", "hashed",
        "admit", "created", "setup", "exists", "insert", "taken", "setupdone", "logout",
        "logoutall", "limit", "chatlimit", "dispatch", "publish", "chat", "stored", "history"}
New == [pc |-> "new", kind |-> "none", token |-> 0, ok |-> FALSE,
        admin |-> FALSE, to |-> None, at |-> 1]
Loop == [New EXCEPT !.pc = "loop"]
NoNews == [pc |-> "none", to |-> {}, dead |-> {}]
Commands == {"play", "tail", "untail"}    \* play: any command but the log's
Chats == {"chat", "history"}

Init ==
    /\ active = <<>> /\ authed = {}
    /\ uid = [c \in Conn |-> None]
    /\ tail = [c \in Conn |-> [on |-> FALSE, dying |-> 0]]
    /\ rlLock = None
    /\ tries = [login |-> 0, setup |-> 0, command |-> 0]
    /\ chats = [k \in Uid \cup {None} |-> 0]
    /\ sessions = <<>>
    /\ accounts \in {<<>>} \cup {<<u>> : u \in Username}
    /\ handler = [c \in Conn |-> New]
    /\ lost = {} /\ version = 0
    /\ view = [c \in Conn |-> 0]
    /\ publisher = [p \in Conn \cup {Player} |-> NoNews]
    /\ happened = 0

At(c, pc) == handler[c].pc = pc
Goto(c, pc) == handler' = [handler EXCEPT ![c].pc = pc]
Serve(c) == handler' = [handler EXCEPT ![c] = Loop]
Respond(c) == handler' = [handler EXCEPT ![c] = [Loop EXCEPT !.pc = "reply"]]
Acquire(c) == rlLock = None /\ rlLock' = c
Happens == happened < MaxEvents /\ happened' = happened + 1
WhileFree == rlLock = None /\ UNCHANGED rlLock    \* taken and released in one turn

-----------------------------------------------------------------------------
(* Connections.                                                              *)

(* connect and on_ws_connect: no await divides the registration from the     *)
(* snapshot the client is sent.                                              *)
Open(c) ==
    /\ At(c, "new")
    /\ active' = Append(active, c)
    /\ view' = [view EXCEPT ![c] = version]
    /\ Respond(c)
    /\ UNCHANGED <<auth, authed, uid, tail, version, publisher, chats, lost, happened>>

CancelTail(c) ==
    IF tail[c].on THEN [on |-> FALSE, dying |-> tail[c].dying + 1] ELSE tail[c]

(* What list.remove leaves of a list, one entry after the other.             *)
Without(s, gone) ==
    LET kept[n \in 0 .. Len(s)] ==
          IF n = 0 THEN <<>>
          ELSE IF s[n] \in gone THEN kept[n - 1] ELSE Append(kept[n - 1], s[n])
    IN  kept[Len(s)]

DisconnectOnce(gone) ==    \* a mutant: only who is registered is cleaned up
    LET G == gone \cap Range(active)
    IN  /\ active' = Without(active, G)
        /\ authed' = authed \ G
        /\ uid' = [c \in Conn |-> IF c \in G THEN None ELSE uid[c]]
        /\ tail' = [c \in Conn |-> IF c \in G THEN CancelTail(c) ELSE tail[c]]
Disconnect(gone) ==
    /\ active' = Without(active, gone)
    /\ authed' = authed \ gone
    /\ uid' = [c \in Conn |-> IF c \in gone THEN None ELSE uid[c]]
    /\ tail' = [c \in Conn |-> IF c \in gone THEN CancelTail(c) ELSE tail[c]]

(* The reply is out, and rl_lock is given back if it was sent under it.      *)
Replied(c) ==
    /\ At(c, "reply") /\ c \notin lost
    /\ rlLock' = IF rlLock = c THEN None ELSE rlLock
    /\ Serve(c)
    /\ UNCHANGED <<tries, sessions, accounts, conns, news, chats, lost, happened>>

(* The loop over the messages ends, or a send raised out of it.              *)
Hangup(c) ==
    /\ handler[c].pc \in {"loop", "reply"} /\ c \in lost
    /\ Disconnect({c})
    /\ rlLock' = IF rlLock = c THEN None ELSE rlLock
    /\ handler' = [handler EXCEPT ![c] = [New EXCEPT !.pc = "ended"]]
    /\ view' = [view EXCEPT ![c] = 0]
    /\ UNCHANGED <<tries, sessions, accounts, version, publisher, chats, lost,
                   happened>>

(* The peer closes, or its host goes away.                                   *)
Lose(c) ==
    /\ handler[c].pc \notin {"new", "ended"} /\ c \notin lost
    /\ Happens
    /\ lost' = lost \cup {c}
    /\ UNCHANGED <<auth, conns, news, chats, handler>>

(* A message arrives, and handle_ws_message sends it on its way.             *)
Message(c, pc, kind) ==
    /\ At(c, "loop") /\ Happens
    /\ handler' = [handler EXCEPT ![c].pc = pc, ![c].kind = kind, ![c].admin = c \in authed]
    /\ UNCHANGED <<auth, conns, news, chats, lost>>

-----------------------------------------------------------------------------
(* handle_auth: with a token, with a password, or with both.                 *)

AskAuth(c, t) ==
    /\ At(c, "loop") /\ Happens
    /\ handler' = [handler EXCEPT ![c].pc = "auth", ![c].token = t]
    /\ UNCHANGED <<auth, conns, news, chats, lost>>

VerifySession(c, expired) ==
    /\ At(c, "auth") /\ handler[c].token # 0
    /\ Acquire(c)
    /\ handler' = [handler EXCEPT ![c].pc = "verified",
                                  ![c].ok = sessions[handler[c].token] /\ ~expired]
    /\ UNCHANGED <<tries, sessions, accounts, conns, news, chats, lost, happened>>

ExtendSession(c) ==
    /\ At(c, "verified") /\ handler[c].ok
    /\ Goto(c, "extended")
    /\ UNCHANGED <<auth, conns, news, chats, lost, happened>>

TokenAccepted(c) ==
    /\ At(c, "extended")
    /\ authed' = authed \cup {c}
    /\ Respond(c)
    /\ UNCHANGED <<auth, active, uid, tail, news, chats, lost, happened>>

(* The failures of the last 300 s are counted, the older ones forgotten: too *)
(* many are refused under rl_lock, otherwise the lock is released and the    *)
(* account is read.  password says whether the client gave the username and  *)
(* the password of its row.                                                  *)
Keep(what, n) == n <= tries[what] /\ tries' = [tries EXCEPT ![what] = n]
Count(what, n) == n <= tries[what] /\ tries' = [tries EXCEPT ![what] = n + 1]
WithinAny(c, n, password) ==    \* a mutant: the number of failures is not looked at
    /\ rlLock' = None
    /\ (password => accounts # <<>>)
    /\ handler' = [handler EXCEPT ![c] = [Loop EXCEPT !.pc = "compare", !.ok = password]]
Within(c, n, password) ==
    /\ n < MaxAttempts
    /\ rlLock' = None
    /\ (password => accounts # <<>>)
    /\ handler' = [handler EXCEPT ![c] = [Loop EXCEPT !.pc = "compare", !.ok = password]]

GetAdminAccount(c, n) ==
    /\ \/ At(c, "auth") /\ handler[c].token = 0 /\ rlLock = None /\ UNCHANGED sessions
       \/ /\ At(c, "verified") /\ ~handler[c].ok
          /\ sessions' = [sessions EXCEPT ![handler[c].token] = FALSE]
    /\ Keep("login", n)
    /\ \/ n >= MaxAttempts /\ rlLock' = c /\ Respond(c)
       \/ \E password \in BOOLEAN : Within(c, n, password)
    /\ UNCHANGED <<accounts, conns, news, chats, lost, happened>>

(* The password was compared in the executor.                                *)
Reject(c, n) ==
    /\ At(c, "compare") /\ ~handler[c].ok
    /\ Acquire(c)
    /\ Count("login", n)
    /\ Respond(c)
    /\ UNCHANGED <<sessions, accounts, conns, news, chats, lost, happened>>

(* A hash of an old format is made anew from the password that was given,    *)
(* and stored; a failure to do so is only logged.  Which format a hash has   *)
(* is left open.                                                             *)
Rehash(c) ==
    /\ At(c, "compare") /\ handler[c].ok
    /\ Acquire(c)
    /\ Goto(c, "hashed")
    /\ UNCHANGED <<tries, sessions, accounts, conns, news, chats, lost, happened>>

UpdatePassword(c) ==
    /\ At(c, "hashed")
    /\ Goto(c, "admit")
    /\ UNCHANGED <<rlLock, tries, sessions, accounts, conns, news, chats, lost, happened>>

CreateSession(c) ==
    /\ \/ At(c, "compare") /\ handler[c].ok /\ Acquire(c)
       \/ At(c, "admit") /\ UNCHANGED rlLock
    /\ sessions' = Append(sessions, TRUE)
    /\ Goto(c, "created")
    /\ UNCHANGED <<tries, accounts, conns, news, chats, lost, happened>>

LoginSucceeded(c) ==
    /\ At(c, "created")
    /\ authed' = authed \cup {c}
    /\ tries' = [tries EXCEPT !.login = 0]
    /\ Respond(c)
    /\ UNCHANGED <<rlLock, sessions, accounts, active, uid, tail, news, chats,
                   lost, happened>>

(* logout deletes the session it names, if any, then forgets the connection; *)
(* logout_all deletes every session, then forgets every connection.          *)
Logout(c) ==
    /\ At(c, "loop") /\ Happens
    /\ \/ \E t \in DOMAIN sessions : sessions' = [sessions EXCEPT ![t] = FALSE]
       \/ UNCHANGED sessions
    /\ Goto(c, "logout")
    /\ UNCHANGED <<rlLock, tries, accounts, conns, news, chats, lost>>

LoggedOut(c) ==
    /\ At(c, "logout")
    /\ authed' = authed \ {c}
    /\ Serve(c)
    /\ UNCHANGED <<auth, active, uid, tail, news, chats, lost, happened>>

LogoutAll(c) ==
    /\ At(c, "loop") /\ Happens
    /\ IF c \in authed
       THEN sessions' = [t \in DOMAIN sessions |-> FALSE] /\ Goto(c, "logoutall")
       ELSE Respond(c) /\ UNCHANGED sessions
    /\ UNCHANGED <<rlLock, tries, accounts, conns, news, chats, lost>>

AllLoggedOut(c) ==
    /\ At(c, "logoutall")
    /\ authed' = {}
    /\ Serve(c)
    /\ UNCHANGED <<auth, active, uid, tail, news, chats, lost, happened>>

-----------------------------------------------------------------------------
(* handle_setup_admin.                                                       *)

(* Under rl_lock: the limit, the form, and whether there is an account.      *)
CheckSetup(c, n) ==
    /\ At(c, "setup")
    /\ Acquire(c)
    /\ \/ n >= MaxAttempts /\ Keep("setup", n) /\ Respond(c)
       \/ n < MaxAttempts /\ Count("setup", n) /\ Respond(c)
       \/ /\ n < MaxAttempts /\ Keep("setup", n)
          /\ handler' = [handler EXCEPT ![c].pc = "exists", ![c].ok = accounts = <<>>]
    /\ UNCHANGED <<sessions, accounts, conns, news, chats, lost, happened>>

AccountExists(c) ==
    /\ At(c, "exists")
    /\ \/ Count("setup", tries.setup) /\ Respond(c) /\ UNCHANGED rlLock
       \/ handler[c].ok /\ rlLock' = None /\ Goto(c, "insert") /\ UNCHANGED tries
    /\ UNCHANGED <<sessions, accounts, conns, news, chats, lost, happened>>

(* The password was hashed; the table takes one row of each username.        *)
CreateAdminAccount(c, u) ==
    /\ At(c, "insert")
    /\ \/ u \in Range(accounts) /\ Goto(c, "taken") /\ UNCHANGED accounts
       \/ u \notin Range(accounts) /\ accounts' = Append(accounts, u) /\ Goto(c, "setupdone")
       \/ Respond(c) /\ UNCHANGED accounts
    /\ UNCHANGED <<rlLock, tries, sessions, conns, news, chats, lost, happened>>

FinishSetup(c, n) ==
    /\ WhileFree
    /\ \/ At(c, "taken") /\ Count("setup", n)
       \/ At(c, "setupdone") /\ n = 0 /\ Keep("setup", n)
    /\ Respond(c)
    /\ UNCHANGED <<sessions, accounts, conns, news, chats, lost, happened>>

-----------------------------------------------------------------------------
(* music_ws_dispatcher.  Whether the sender is the admin is settled as the   *)
(* message arrives, before its handler may have to wait for rl_lock.         *)

CheckRateLimit(c, n) ==
    /\ At(c, "limit")
    /\ LET h == handler[c] IN
       IF h.kind \in Commands /\ ~h.admin THEN Respond(c) /\ UNCHANGED <<rlLock, tries>>
       ELSE /\ WhileFree
            /\ IF n >= MaxCommands THEN Keep("command", n) /\ Respond(c)
               ELSE Count("command", n)
                    /\ Goto(c, IF h.kind = "chat" THEN "chatlimit" ELSE "dispatch")
    /\ UNCHANGED <<sessions, accounts, conns, news, chats, lost, happened>>

CheckChatRateLimit(c, n) ==
    /\ At(c, "chatlimit")
    /\ WhileFree
    /\ n <= chats[uid[c]]
    /\ IF n >= MaxChats THEN chats' = [chats EXCEPT ![uid[c]] = n] /\ Respond(c)
       ELSE chats' = [chats EXCEPT ![uid[c]] = n + 1] /\ Goto(c, "dispatch")
    /\ UNCHANGED <<tries, sessions, accounts, conns, news, lost, happened>>

(* handle_playback_command: the command changes the state of the player and  *)
(* publishes an event, whose handlers are tasks it waits for.                *)
Publish(p) == publisher' = [publisher EXCEPT ![p] = [NoNews EXCEPT !.pc = "made"]]
Execute(c) ==
    /\ At(c, "dispatch") /\ handler[c].kind = "play"
    /\ version' = version + 1
    /\ Publish(c)
    /\ Goto(c, "publish")
    /\ UNCHANGED <<auth, conns, view, chats, lost, happened>>

(* Searches, downloads, the cache and commands that fail answer the sender.  *)
Answer(c) ==
    /\ At(c, "dispatch") /\ handler[c].kind = "play"
    /\ Respond(c)
    /\ UNCHANGED <<auth, conns, news, chats, lost, happened>>

PlayerPublishes ==
    /\ publisher[Player].pc = "none" /\ Happens
    /\ version' = version + 1
    /\ Publish(Player)
    /\ UNCHANGED <<auth, conns, view, chats, handler, lost>>

(* The task of the event's handler runs: the state is read now, not when the *)
(* event was published, and goes to who is connected now.                    *)
ReceiversLoggedIn == authed    \* a mutant: only who logged in is told
Receivers == Range(active)
Broadcast(p) ==
    /\ publisher[p].pc = "made"
    /\ view' = [c \in Conn |-> IF c \in Receivers \ lost THEN version ELSE view[c]]
    /\ publisher' = [publisher EXCEPT ![p] =
                        [pc |-> "sent", to |-> Receivers \ lost, dead |-> Receivers \cap lost]]
    /\ UNCHANGED <<auth, conns, version, chats, handler, lost, happened>>

(* All sends are over; who was lost before or in the meantime is             *)
(* disconnected, also when its handler is in the middle of a message.        *)
BroadcastDone(p) ==
    /\ publisher[p].pc = "sent"
    /\ \E late \in SUBSET (publisher[p].to \cap lost) :
          Disconnect(publisher[p].dead \cup late)
    /\ publisher' = [publisher EXCEPT ![p] = NoNews]
    /\ UNCHANGED <<auth, version, view, chats, handler, lost, happened>>

Executed(c) ==
    /\ At(c, "publish") /\ publisher[c].pc = "none"
    /\ Serve(c)
    /\ UNCHANGED <<auth, conns, news, chats, lost, happened>>

-----------------------------------------------------------------------------
(* handle_chat_command: a browser names its identity, which a connection     *)
(* keeps; the admin names the thread.                                        *)

Binds(c, u) == u = None \/ uid[c] \in {None, u}
Bind(c, u) == uid' = IF u = None THEN uid ELSE [uid EXCEPT ![c] = u]
Thread(c, u, target) ==
    IF handler[c].admin THEN target ELSE IF u # None THEN u ELSE uid[c]

Chat(c, u, target) ==
    /\ At(c, "dispatch") /\ handler[c].kind \in Chats
    /\ IF ~Binds(c, u) THEN Respond(c) /\ UNCHANGED uid
       ELSE /\ Bind(c, u)
            /\ IF /\ Thread(c, u, target) = None
                  /\ ~(handler[c].kind = "history" /\ handler[c].admin)
               THEN Serve(c)
               ELSE handler' = [handler EXCEPT ![c] =
                       [Loop EXCEPT !.pc = handler[c].kind, !.to = Thread(c, u, target)]]
    /\ UNCHANGED <<auth, active, authed, tail, news, chats, lost, happened>>

GetRecentMessages(c) ==
    /\ At(c, "history")
    /\ Respond(c)
    /\ UNCHANGED <<auth, conns, news, chats, lost, happened>>

AddMessage(c) ==
    /\ At(c, "chat")
    /\ Goto(c, "stored")
    /\ UNCHANGED <<auth, conns, news, chats, lost, happened>>

(* The message that was stored goes to the admins and the browser of its       *)
(* thread, one after the other, along the list as it is at each of them.     *)
Gets(d, u) == d \in authed \/ uid[d] = u
SendChat(c) ==
    /\ At(c, "stored")
    /\ LET next == {i \in handler[c].at .. Len(active) : Gets(active[i], handler[c].to)} IN
       IF next = {} THEN Serve(c)
       ELSE handler' = [handler EXCEPT ![c].at = 1 + CHOOSE i \in next : \A j \in next : i <= j]
    /\ UNCHANGED <<auth, conns, news, chats, lost, happened>>

-----------------------------------------------------------------------------
(* handle_log_stream_command.  A tail that ends, of itself or cancelled,     *)
(* takes whatever entry its connection has then out of _log_tail_tasks; one  *)
(* that was cancelled before its first turn does not.                        *)

LogTail(c) ==
    /\ At(c, "dispatch") /\ handler[c].kind \in {"tail", "untail"}
    /\ tail' = [tail EXCEPT ![c] =
                  IF handler[c].kind = "tail" THEN [@ EXCEPT !.on = TRUE] ELSE CancelTail(c)]
    /\ Serve(c)
    /\ UNCHANGED <<auth, active, authed, uid, news, chats, lost, happened>>

TailEnds(c) ==
    /\ \/ tail[c].on /\ tail' = [tail EXCEPT ![c].on = FALSE]
       \/ /\ tail[c].dying > 0
          /\ \/ tail' = [tail EXCEPT ![c].dying = @ - 1]
             \/ tail' = [tail EXCEPT ![c] = [CancelTail(c) EXCEPT !.dying = @ - 1]]
    /\ UNCHANGED <<auth, active, authed, uid, news, chats, handler, lost, happened>>

-----------------------------------------------------------------------------
Counts == 0 .. MaxAttempts + MaxCommands + MaxChats + Cardinality(Conn)
HandlerStep(c) ==
    \/ Replied(c) \/ ExtendSession(c) \/ TokenAccepted(c)
    \/ \E expired \in BOOLEAN : VerifySession(c, expired)
    \/ Rehash(c) \/ UpdatePassword(c) \/ CreateSession(c) \/ LoginSucceeded(c)
    \/ LoggedOut(c) \/ AllLoggedOut(c) \/ AccountExists(c)
    \/ \E n \in Counts : \/ GetAdminAccount(c, n) \/ Reject(c, n)
                         \/ CheckSetup(c, n) \/ FinishSetup(c, n)
                         \/ CheckRateLimit(c, n) \/ CheckChatRateLimit(c, n)
    \/ \E u \in Username : CreateAdminAccount(c, u)
    \/ Execute(c) \/ Answer(c) \/ Executed(c)
    \/ \E u, target \in Uid \cup {None} : Chat(c, u, target)
    \/ GetRecentMessages(c) \/ AddMessage(c) \/ SendChat(c) \/ LogTail(c)

Request(c) ==
    \/ \E t \in 0 .. Len(sessions) : AskAuth(c, t)
    \/ Logout(c) \/ LogoutAll(c)
    \/ Message(c, "setup", "none")
    \/ \E kind \in Commands \cup Chats : Message(c, "limit", kind)

Next ==
    \/ \E c \in Conn : Open(c) \/ Lose(c) \/ Hangup(c) \/ Request(c) \/ HandlerStep(c)
                         \/ TailEnds(c)
    \/ \E p \in Conn \cup {Player} : Broadcast(p) \/ BroadcastDone(p)
    \/ PlayerPublishes

Spec == Init /\ [][Next]_vars

-----------------------------------------------------------------------------
(* The variables keep to what the code lets them hold.  Logins that were let *)
(* past the limit before a failure of another was counted may exceed it, by  *)
(* one for each further connection and no more.  Of the accounts the table   *)
(* only sees to it that no two have one name.                                *)
TypeOK ==
    /\ Range(active) \subseteq Conn /\ authed \subseteq Conn
    /\ IsInjective(active)
    /\ uid \in [Conn -> Uid \cup {None}]
    /\ tail \in [Conn -> [on : BOOLEAN, dying : 0 .. MaxEvents]]
    /\ rlLock \in Conn \cup {None}
    /\ tries.login \in 0 .. MaxAttempts + Cardinality(Conn) - 1
    /\ tries.setup \in 0 .. MaxAttempts + Cardinality(Conn) - 1
    /\ tries.command \in 0 .. MaxCommands
    /\ chats \in [Uid \cup {None} -> 0 .. MaxChats]
    /\ sessions \in Seq(BOOLEAN)
    /\ IsInjective(accounts) /\ Range(accounts) \subseteq Username
    /\ handler \in [Conn -> [pc : Pcs, kind : Commands \cup Chats \cup {"none"}, ok : BOOLEAN,
                             token : DOMAIN sessions \cup {0}, admin : BOOLEAN,
                             to : Uid \cup {None}, at : 1 .. Cardinality(Conn) + 1]]
    /\ lost \subseteq Conn /\ version \in 0 .. MaxEvents
    /\ view \in [Conn -> 0 .. MaxEvents]
    /\ publisher \in [Conn \cup {Player} -> [pc : {"none", "made", "sent"},
                                             to : SUBSET Conn, dead : SUBSET Conn]]
    /\ happened \in 0 .. MaxEvents

(* There is one administrator: "single row, enforced by UNIQUE on username"  *)
(* (admin_account_repo.py), "the single admin_account row" (setup.py).       *)
OneAdmin == Len(accounts) <= 1

(* A connection whose handler has ended is in none of the manager's maps and *)
(* has no log tail left running, although a broadcast may have disconnected  *)
(* it while its handler was logging in, binding an identity or subscribing   *)
(* to the log (disconnect, in the finally of ws_handler).                    *)
NothingLeaks ==
    \A c \in Conn : At(c, "ended") =>
        c \notin Range(active) \cup authed /\ uid[c] = None /\ ~tail[c].on

(* When no broadcast is underway, every client that is connected has been    *)
(* sent the latest state of the player, whatever the order in which clients  *)
(* came and went and several publishers' broadcasts ran (on_ws_connect,      *)
(* EventBus.publish, ConnectionManager.broadcast).                           *)
ViewConverges ==
    (\A p \in DOMAIN publisher : publisher[p].pc # "made") =>
        \A c \in Range(active) \ lost : view[c] = version
=============================================================================
