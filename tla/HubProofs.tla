------------------------------ MODULE HubProofs -----------------------------
(***************************************************************************)
(* Proofs about Hub for any number of connections, names and identities:   *)
(* what the maps of the connection manager hold, what a client has seen,   *)
(* and how far the counters of the rate limits can be overrun.             *)
(***************************************************************************)
EXTENDS Hub, FiniteSetTheorems, SequenceTheorems, TLAPS

-----------------------------------------------------------------------------
(* What list.remove leaves.  Induction over the numbers comes from the      *)
(* well-foundedness of the order of finite sets by inclusion: the least     *)
(* initial segment whose end is not in S would have a smaller one.          *)

LEMMA Induct ==
    ASSUME NEW S \in SUBSET Nat, 0 \in S, \A n \in S : n + 1 \in S
    PROVE  S = Nat
<1> DEFINE R == StrictSubsetOrdering(Nat)
           T == {A \in FiniteSubsetsOf(Nat) : \E m \in Nat \ S : A = 0 .. m - 1}
<1>1. SUFFICES ASSUME NEW k \in Nat \ S PROVE FALSE
  OBVIOUS
<1>2. \A m \in Nat : 0 .. m - 1 \in FiniteSubsetsOf(Nat)
  BY FS_Interval DEF FiniteSubsetsOf
<1>3. T \subseteq FiniteSubsetsOf(Nat) /\ T # {}
  BY <1>1, <1>2
<1>4. IsWellFoundedOn(R, FiniteSubsetsOf(Nat))
  BY FS_StrictSubsetOrderingWellFounded
<1>5. PICK A \in T : \A B \in T : <<B, A>> \notin R
  <2> HIDE DEF R, T
  <2>1. QED BY <1>3, <1>4, WFMin
<1>6. PICK m \in Nat \ S : A = 0 .. m - 1
  BY <1>5
<1>7. m - 1 \in Nat \ S
  BY <1>6
<1>8. 0 .. (m - 1) - 1 \in T
  BY <1>2, <1>7
<1>9. <<0 .. (m - 1) - 1, A>> \in R
  BY <1>6, <1>7 DEF StrictSubsetOrdering
<1>10. QED BY <1>5, <1>8, <1>9
Filter(s, gone, g, n) ==
  IF n = 0 THEN <<>> ELSE IF s[n] \in gone THEN g[n - 1] ELSE Append(g[n - 1], s[n])
Filters(s, gone, g, n) == g = [i \in 0 .. n |-> Filter(s, gone, g, i)]

LEMMA FilterExists ==
    ASSUME NEW s, NEW gone, NEW n \in Nat
    PROVE  \E g : Filters(s, gone, g, n)
<1> DEFINE S == {m \in Nat : \E g : Filters(s, gone, g, m)}
<1>1. 0 \in S
  <2> DEFINE g == [i \in 0 .. 0 |-> <<>>]
  <2>1. Filters(s, gone, g, 0)
    BY DEF Filters, Filter
  <2>2. QED BY <2>1
<1>2. ASSUME NEW m \in S PROVE m + 1 \in S
  <2>1. PICK g : Filters(s, gone, g, m)
    OBVIOUS
  <2> DEFINE h == [i \in 0 .. m + 1 |-> IF i = m + 1 THEN Filter(s, gone, g, i) ELSE g[i]]
  <2>2. \A i \in 0 .. m : h[i] = g[i]
    BY <1>2
  <2>3. ASSUME NEW i \in 0 .. m + 1 PROVE h[i] = Filter(s, gone, h, i)
    <3>1. i = 0 \/ i - 1 \in 0 .. m
      BY <1>2
    <3>2. Filter(s, gone, h, i) = Filter(s, gone, g, i)
      BY <2>2, <3>1 DEF Filter
    <3>3. CASE i = m + 1
      BY <3>2, <3>3
    <3>4. CASE i # m + 1
      <4>1. i \in 0 .. m
        BY <1>2, <3>4
      <4>2. g[i] = Filter(s, gone, g, i)
        BY <2>1, <4>1 DEF Filters
      <4>3. QED BY <2>2, <3>2, <4>1, <4>2
    <3>5. QED BY <3>3, <3>4
  <2>4. DOMAIN h = 0 .. m + 1 /\ h = [i \in DOMAIN h |-> h[i]]
    OBVIOUS
  <2> HIDE DEF h
  <2>5. Filters(s, gone, h, m + 1)
    BY <2>3, <2>4, Zenon DEF Filters
  <2>6. QED BY <1>2, <2>5
<1>3. S = Nat
  <2> HIDE DEF S
  <2>1. S \in SUBSET Nat
    BY DEF S
  <2>2. QED BY <1>1, <1>2, <2>1, Induct
<1>4. QED BY <1>3

LEMMA WithoutIsFilter ==
    ASSUME NEW S, NEW s \in Seq(S), NEW gone
    PROVE  \E g : Filters(s, gone, g, Len(s)) /\ Without(s, gone) = g[Len(s)]
<1> DEFINE f == CHOOSE g : Filters(s, gone, g, Len(s))
<1>1. Filters(s, gone, f, Len(s))
  BY FilterExists
<1>2. Without(s, gone) = f[Len(s)]
  BY DEF Without, Filters, Filter
<1> HIDE DEF f
<1>3. QED BY <1>1, <1>2

Upto(s, n) == {s[i] : i \in 1 .. n}

LEMMA AppendOne ==
    ASSUME NEW S, NEW t \in Seq(S), NEW e \in S
    PROVE  /\ Append(t, e) \in Seq(S)
           /\ Range(Append(t, e)) = Range(t) \cup {e}
           /\ IsInjective(t) /\ e \notin Range(t) => IsInjective(Append(t, e))
<1> DEFINE u == Append(t, e)
<1>1. /\ u \in Seq(S) /\ Len(u) = Len(t) + 1 /\ u[Len(t) + 1] = e
      /\ \A i \in 1 .. Len(t) : u[i] = t[i]
      /\ DOMAIN u = 1 .. Len(u) /\ DOMAIN t = 1 .. Len(t) /\ Len(t) \in Nat
  OBVIOUS
<1> HIDE DEF u
<1>2. DOMAIN u = DOMAIN t \cup {Len(t) + 1}
  BY <1>1
<1>3. \A i \in DOMAIN t : u[i] = t[i]
  BY <1>1
<1>4. Range(u) = Range(t) \cup {e}
  BY <1>1, <1>2, <1>3 DEF Range
<1>5. ASSUME IsInjective(t), e \notin Range(t) PROVE IsInjective(u)
  <2>1. \A i \in DOMAIN t : t[i] # e
    BY <1>5 DEF Range
  <2>2. u[Len(t) + 1] = e
    BY <1>1
  <2>3. ASSUME NEW a \in DOMAIN u, NEW b \in DOMAIN u, u[a] = u[b] PROVE a = b
    <3>1. CASE a \in DOMAIN t /\ b \in DOMAIN t
      BY <1>3, <1>5, <2>3, <3>1 DEF IsInjective
    <3>2. CASE a = Len(t) + 1 /\ b \in DOMAIN t
      BY <1>3, <2>1, <2>2, <2>3, <3>2
    <3>3. CASE b = Len(t) + 1 /\ a \in DOMAIN t
      BY <1>3, <2>1, <2>2, <2>3, <3>3
    <3>4. QED BY <1>2, <3>1, <3>2, <3>3
  <2>4. QED BY <2>3 DEF IsInjective
<1>6. QED BY <1>1, <1>4, <1>5 DEF u

LEMMA WithoutIs ==
    ASSUME NEW S, NEW s \in Seq(S), NEW gone
    PROVE  /\ Without(s, gone) \in Seq(S)
           /\ Range(Without(s, gone)) = Range(s) \ gone
           /\ IsInjective(s) => IsInjective(Without(s, gone))
<1>1. PICK g : Filters(s, gone, g, Len(s)) /\ Without(s, gone) = g[Len(s)]
  BY WithoutIsFilter
<1> DEFINE Good(n) == /\ g[n] \in Seq(S) /\ Range(g[n]) = Upto(s, n) \ gone
                      /\ IsInjective(s) => IsInjective(g[n])
           N == {n \in Nat : n <= Len(s) => Good(n)}
<1>2. \A n \in 0 .. Len(s) : g[n] = Filter(s, gone, g, n)
  BY <1>1 DEF Filters
<1>3. Good(0)
  <2>1. g[0] = <<>>
    BY <1>2 DEF Filter
  <2>2. Range(<<>>) = {} /\ IsInjective(<<>>) /\ <<>> \in Seq(S) /\ Upto(s, 0) = {}
    BY DEF Range, IsInjective, Upto
  <2>3. QED BY <2>1, <2>2
<1>4. ASSUME NEW n \in Nat, n + 1 <= Len(s), Good(n) PROVE Good(n + 1)
  <2>1. g[n + 1] = IF s[n + 1] \in gone THEN g[n] ELSE Append(g[n], s[n + 1])
    BY <1>2, <1>4 DEF Filter
  <2>2. Upto(s, n + 1) = Upto(s, n) \cup {s[n + 1]}
    <3>1. 1 .. n + 1 = (1 .. n) \cup {n + 1}
      BY <1>4
    <3>2. QED BY <3>1 DEF Upto
  <2>3. CASE s[n + 1] \in gone
    <3>1. g[n + 1] = g[n] /\ Upto(s, n + 1) \ gone = Upto(s, n) \ gone
      BY <2>1, <2>2, <2>3
    <3>2. QED BY <1>4, <3>1
  <2>4. CASE s[n + 1] \notin gone
    <3>1. g[n + 1] = Append(g[n], s[n + 1]) /\ s[n + 1] \in S
      BY <1>4, <2>1, <2>4
    <3>2. Range(g[n + 1]) = Upto(s, n + 1) \ gone /\ g[n + 1] \in Seq(S)
      BY <1>4, <2>2, <2>4, <3>1, AppendOne
    <3>3. IsInjective(s) => s[n + 1] \notin Upto(s, n)
      BY <1>4 DEF Upto, IsInjective
    <3>4. IsInjective(s) => IsInjective(g[n + 1])
      BY <1>4, <3>1, <3>3, AppendOne
    <3>5. QED BY <3>2, <3>4
  <2>5. QED BY <2>3, <2>4
<1>5. N = Nat
  <2>1. 0 \in N
    BY <1>3
  <2>2. ASSUME NEW n \in N PROVE n + 1 \in N
    BY <1>4
  <2> HIDE DEF N
  <2>3. N \in SUBSET Nat
    BY DEF N
  <2>4. QED BY <2>1, <2>2, <2>3, Induct
<1>6. Good(Len(s))
  BY <1>5
<1>7. Upto(s, Len(s)) = Range(s)
  BY DEF Upto, Range
<1> HIDE DEF Good
<1>8. QED BY <1>1, <1>6, <1>7 DEF Good
-----------------------------------------------------------------------------
(* The invariant.                                                           *)

Handler(tokens) ==
    [pc : Pcs, kind : Commands \cup Chats \cup {"none"}, ok : BOOLEAN, token : 0 .. tokens,
     admin : BOOLEAN, to : Uid \cup {None}, at : 1 .. Cardinality(Conn) + 1]
LogTails == [on : BOOLEAN, dying : Nat]
Broadcasts == [pc : {"none", "made", "sent"}, to : SUBSET Conn, dead : SUBSET Conn]

ConnTypes ==
    /\ active \in Seq(Conn) /\ IsInjective(active) /\ authed \subseteq Conn
    /\ uid \in [Conn -> Uid \cup {None}] /\ tail \in [Conn -> LogTails] /\ lost \subseteq Conn
AuthTypes ==
    /\ rlLock \in Conn \cup {None}
    /\ tries \in [login : Nat, setup : Nat, command : 0 .. MaxCommands]
    /\ chats \in [Uid \cup {None} -> 0 .. MaxChats]
    /\ sessions \in Seq(BOOLEAN)
    /\ accounts \in Seq(Username) /\ IsInjective(accounts)
HandlerTypes == handler \in [Conn -> Handler(Len(sessions))]
NewsTypes ==
    /\ version \in Nat /\ happened \in 0 .. MaxEvents
    /\ view \in [Conn -> Nat] /\ \A c \in Conn : view[c] <= version
    /\ publisher \in [Conn \cup {Player} -> Broadcasts]
Types == ConnTypes /\ AuthTypes /\ HandlerTypes /\ NewsTypes

(* Who is registered has a handler that has begun and not ended.            *)
Fresh == \A c \in Conn : At(c, "new") => c \notin Range(active)

(* What is still to come of a handler: a failure of a login or of a setup   *)
(* that was let past the limit, a change of the player, a log tail.         *)
Fails(h) == h.pc = "compare" /\ ~h.ok
Sets(h) == h.pc \in {"exists", "insert", "taken"}
Pending(h, kinds) == h.pc \in {"limit", "chatlimit", "dispatch"} /\ h.kind \in kinds
Plays(h) == Pending(h, {"play"})
Tails(h) == Pending(h, {"tail", "untail"})

Failing == {c \in Conn : Fails(handler[c])}
Setting == {c \in Conn : Sets(handler[c])}
Playing == {c \in Conn : Plays(handler[c])}

Num(b) == IF b THEN 1 ELSE 0
Used(c) == tail[c].dying + Num(tail[c].on)

(* A counter and what may still be added to it keep below a bound.          *)
LoginQuota == tries.login + Cardinality(Failing) <= MaxAttempts - 1 + Cardinality(Conn)
SetupQuota == tries.setup + Cardinality(Setting) <= MaxAttempts - 1 + Cardinality(Conn)
NewsQuota == version + Cardinality(Playing) <= happened
TailQuota == \A c \in Conn : Used(c) + Num(Tails(handler[c])) <= happened
Quotas == LoginQuota /\ SetupQuota /\ NewsQuota /\ TailQuota

Inv == Types /\ Fresh /\ Quotas /\ NothingLeaks /\ ViewConverges

-----------------------------------------------------------------------------
(* Counting.                                                                *)

LEMMA NumIs == \A b : Num(b) \in 0 .. 1 /\ (b => Num(b) = 1) /\ (~b => Num(b) = 0)
BY DEF Num

LEMMA ConnIsFinite ==
    ASSUME NEW S \in SUBSET Conn
    PROVE  IsFiniteSet(S) /\ Cardinality(S) \in Nat /\ Cardinality(S) <= Cardinality(Conn)
           /\ Cardinality(Conn) \in Nat
BY HubAssumption, FS_Subset, FS_CardinalityType

(* One member more or one less.                                             *)
LEMMA CountOne ==
    ASSUME NEW S \in SUBSET Conn, NEW T \in SUBSET Conn, NEW c \in Conn,
           \A d \in Conn \ {c} : d \in T <=> d \in S
    PROVE  /\ c \in S /\ c \in T => Cardinality(T) = Cardinality(S)
           /\ c \notin S /\ c \notin T => Cardinality(T) = Cardinality(S)
           /\ c \in S /\ c \notin T => Cardinality(T) = Cardinality(S) - 1
           /\ c \notin S /\ c \in T => Cardinality(T) = Cardinality(S) + 1
<1>1. IsFiniteSet(S) /\ IsFiniteSet(T)
  BY ConnIsFinite
<1>2. CASE c \in S <=> c \in T
  <2>1. S = T
    BY <1>2
  <2>2. QED BY <1>2, <2>1
<1>3. CASE c \in S /\ c \notin T
  <2>1. T = S \ {c}
    BY <1>3
  <2>2. QED BY <1>1, <1>3, <2>1, FS_RemoveElement
<1>4. CASE c \notin S /\ c \in T
  <2>1. T = S \cup {c}
    BY <1>4
  <2>2. QED BY <1>1, <1>4, <2>1, FS_AddElement
<1>5. QED BY <1>2, <1>3, <1>4

LEMMA NotAll ==
    ASSUME NEW S \in SUBSET Conn, NEW c \in Conn, c \notin S
    PROVE  Cardinality(S) <= Cardinality(Conn) - 1
<1>1. S \cup {c} \in SUBSET Conn /\ IsFiniteSet(S)
  BY ConnIsFinite
<1>2. Cardinality(S \cup {c}) = Cardinality(S) + 1
  BY <1>1, FS_AddElement
<1>3. QED BY <1>1, <1>2, ConnIsFinite

(* A list of connections without doubles is no longer than there are any.   *)
LEMMA ActiveIsShort ==
    ASSUME ConnTypes PROVE Len(active) <= Cardinality(Conn)
<1>1. active \in Injection(1 .. Len(active), Conn)
  <2>1. active \in [1 .. Len(active) -> Conn]
    BY DEF ConnTypes
  <2>2. IsInjective(active)
    BY DEF ConnTypes
  <2>3. QED BY <2>1, <2>2, Zenon DEF Injection
<1>2. Cardinality(1 .. Len(active)) <= Cardinality(Conn)
  BY <1>1, HubAssumption, FS_Injection
<1>3. Len(active) \in Nat
  BY DEF ConnTypes
<1>4. Cardinality(1 .. Len(active)) = Len(active)
  <2>1. ASSUME NEW n \in Nat PROVE Cardinality(1 .. n) = n
    BY FS_Interval
  <2>2. QED BY <1>3, <2>1
<1>5. QED BY <1>2, <1>4
-----------------------------------------------------------------------------
(* The handler of c goes on with h: what it may change, and how it pays for *)
(* what is still to come of it.                                             *)

GoesOn(c, h) ==
    /\ handler' = [handler EXCEPT ![c] = h]
    /\ h \in Handler(Len(sessions'))
    /\ Len(sessions) <= Len(sessions')
    /\ {handler[c].pc, h.pc} \cap {"new", "ended"} = {}

ConnsOf(c) ==
    /\ active' = active /\ lost' = lost /\ authed' \subseteq authed \cup {c}
    /\ uid' \in [Conn -> Uid \cup {None}] /\ \A d \in Conn \ {c} : uid'[d] = uid[d]
    /\ tail' \in [Conn -> LogTails] /\ \A d \in Conn \ {c} : tail'[d] = tail[d]

NewsOf(c) ==
    /\ view' = view /\ version' \in Nat /\ version <= version'
    /\ happened' \in 0 .. MaxEvents /\ happened <= happened'
    /\ publisher' \in [Conn \cup {Player} -> Broadcasts]
    /\ \/ /\ version' = version
          /\ \A p \in Conn \cup {Player} : publisher[p].pc = "made" => publisher'[p].pc = "made"
       \/ \E p \in Conn \cup {Player} : publisher'[p].pc = "made"

LoginPaid(c, h) ==
    \/ tries'.login + Num(Fails(h)) <= tries.login + Num(Fails(handler[c]))
    \/ tries'.login <= MaxAttempts - 1
SetupPaid(c, h) ==
    \/ tries'.setup + Num(Sets(h)) <= tries.setup + Num(Sets(handler[c]))
    \/ tries'.setup <= MaxAttempts - 1
    \/ tries'.setup <= MaxAttempts /\ ~Sets(h)
NewsPaid(c, h) ==
    version' + Num(Plays(h)) + happened <= version + Num(Plays(handler[c])) + happened'
TailPaid(c, h) ==
    Used(c)' + Num(Tails(h)) + happened <= Used(c) + Num(Tails(handler[c])) + happened'
Pays(c, h) == LoginPaid(c, h) /\ SetupPaid(c, h) /\ NewsPaid(c, h) /\ TailPaid(c, h)

LEMMA HandlersAre ==
    ASSUME Inv, NEW c \in Conn, NEW h, GoesOn(c, h)
    PROVE  /\ HandlerTypes' /\ handler'[c] = h
           /\ \A d \in Conn \ {c} : handler'[d] = handler[d]
           /\ At(c, "new") = FALSE /\ At(c, "ended") = FALSE
           /\ At(c, "new")' = FALSE /\ At(c, "ended")' = FALSE
<1>1. handler \in [Conn -> Handler(Len(sessions))] /\ Len(sessions) \in Nat
  BY DEF Inv, Types, HandlerTypes, AuthTypes
<1>2. handler'[c] = h /\ \A d \in Conn \ {c} : handler'[d] = handler[d]
  BY <1>1 DEF GoesOn
<1>3. Handler(Len(sessions)) \subseteq Handler(Len(sessions'))
  <2>1. 0 .. Len(sessions) \subseteq 0 .. Len(sessions')
    BY <1>1 DEF GoesOn
  <2>2. QED BY <2>1 DEF Handler
<1>4. HandlerTypes'
  BY <1>1, <1>3 DEF HandlerTypes, GoesOn
<1>5. QED BY <1>2, <1>4 DEF At, GoesOn

LEMMA Counted ==
    ASSUME Inv, NEW c \in Conn, NEW h, GoesOn(c, h)
    PROVE  /\ Cardinality(Failing') = Cardinality(Failing) + Num(Fails(h)) - Num(Fails(handler[c]))
           /\ Cardinality(Setting') = Cardinality(Setting) + Num(Sets(h)) - Num(Sets(handler[c]))
           /\ Cardinality(Playing') = Cardinality(Playing) + Num(Plays(h)) - Num(Plays(handler[c]))
<1>1. handler'[c] = h /\ \A d \in Conn \ {c} : handler'[d] = handler[d]
  BY HandlersAre
<1>2. Cardinality(Failing') = Cardinality(Failing) + Num(Fails(h)) - Num(Fails(handler[c]))
  <2>1. \A d \in Conn \ {c} : d \in Failing' <=> d \in Failing
    BY <1>1 DEF Failing
  <2>2. (c \in Failing <=> Fails(handler[c])) /\ (c \in Failing' <=> Fails(h))
    BY <1>1 DEF Failing
  <2>3. Failing \in SUBSET Conn /\ Failing' \in SUBSET Conn
    BY DEF Failing
  <2> HIDE DEF Failing
  <2>4. QED BY <2>1, <2>2, <2>3, NumIs, CountOne, ConnIsFinite
<1>3. Cardinality(Setting') = Cardinality(Setting) + Num(Sets(h)) - Num(Sets(handler[c]))
  <2>1. \A d \in Conn \ {c} : d \in Setting' <=> d \in Setting
    BY <1>1 DEF Setting
  <2>2. (c \in Setting <=> Sets(handler[c])) /\ (c \in Setting' <=> Sets(h))
    BY <1>1 DEF Setting
  <2>3. Setting \in SUBSET Conn /\ Setting' \in SUBSET Conn
    BY DEF Setting
  <2>4. QED BY <2>1, <2>2, <2>3, NumIs, CountOne, ConnIsFinite
<1>4. Cardinality(Playing') = Cardinality(Playing) + Num(Plays(h)) - Num(Plays(handler[c]))
  <2>1. \A d \in Conn \ {c} : d \in Playing' <=> d \in Playing
    BY <1>1 DEF Playing
  <2>2. (c \in Playing <=> Plays(handler[c])) /\ (c \in Playing' <=> Plays(h))
    BY <1>1 DEF Playing
  <2>3. Playing \in SUBSET Conn /\ Playing' \in SUBSET Conn
    BY DEF Playing
  <2>4. QED BY <2>1, <2>2, <2>3, NumIs, CountOne, ConnIsFinite
<1>5. QED BY <1>2, <1>3, <1>4

LEMMA SetsAre ==
    /\ Failing \in SUBSET Conn /\ Setting \in SUBSET Conn /\ Playing \in SUBSET Conn
    /\ Failing' \in SUBSET Conn /\ Setting' \in SUBSET Conn /\ Playing' \in SUBSET Conn
BY DEF Failing, Setting, Playing

LEMMA QuotasLast ==
    ASSUME Inv, NEW c \in Conn, NEW h, GoesOn(c, h), ConnsOf(c), NewsOf(c), AuthTypes', Pays(c, h)
    PROVE  Quotas'
<1>1. /\ MaxAttempts \in Nat \ {0} /\ Cardinality(Conn) \in Nat
      /\ Cardinality(Failing) \in Nat /\ Cardinality(Setting) \in Nat /\ Cardinality(Playing) \in Nat
      /\ Cardinality(Failing') \in Nat /\ Cardinality(Setting') \in Nat
      /\ Cardinality(Playing') \in Nat
      /\ Cardinality(Failing') <= Cardinality(Conn) /\ Cardinality(Setting') <= Cardinality(Conn)
  BY SetsAre, ConnIsFinite, HubAssumption
<1>2. /\ tries.login \in Nat /\ tries'.login \in Nat /\ tries.setup \in Nat /\ tries'.setup \in Nat
      /\ version \in Nat /\ version' \in Nat /\ happened \in Nat /\ happened' \in Nat
  BY DEF Inv, Types, AuthTypes, NewsTypes, NewsOf
<1>3. LoginQuota'
  <2>1. \/ Cardinality(Failing') + tries'.login <= Cardinality(Failing) + tries.login
        \/ tries'.login <= MaxAttempts - 1
    BY <1>1, <1>2, Counted, NumIs DEF Pays, LoginPaid
  <2>2. QED BY <1>1, <1>2, <2>1 DEF LoginQuota, Inv, Quotas
<1>4. SetupQuota'
  <2>1. ~Sets(h) => Cardinality(Setting') <= Cardinality(Conn) - 1
    <3>1. ~Sets(h) => c \notin Setting'
      BY HandlersAre DEF Setting
    <3>2. QED BY <3>1, SetsAre, NotAll
  <2>2. \/ Cardinality(Setting') + tries'.setup <= Cardinality(Setting) + tries.setup
        \/ tries'.setup <= MaxAttempts - 1
        \/ tries'.setup <= MaxAttempts /\ ~Sets(h)
    BY <1>1, <1>2, Counted, NumIs DEF Pays, SetupPaid
  <2>3. QED BY <1>1, <1>2, <2>1, <2>2 DEF SetupQuota, Inv, Quotas
<1>5. NewsQuota'
  <2>1. version' + Cardinality(Playing') + happened <= version + Cardinality(Playing) + happened'
    BY <1>1, <1>2, Counted, NumIs DEF Pays, NewsPaid
  <2>2. QED BY <1>1, <1>2, <2>1 DEF NewsQuota, Inv, Quotas
<1>6. TailQuota'
  <2>1. SUFFICES ASSUME NEW d \in Conn PROVE Used(d)' + Num(Tails(handler'[d])) <= happened'
    BY DEF TailQuota
  <2>2. Used(d) + Num(Tails(handler[d])) <= happened
    BY DEF Inv, Quotas, TailQuota
  <2>3. Used(d) \in Nat /\ Used(d)' \in Nat
    <3>1. tail[d] \in LogTails /\ tail'[d] \in LogTails
      BY DEF Inv, Types, ConnTypes, ConnsOf
    <3>2. QED BY <3>1, NumIs DEF Used, LogTails
  <2>4. CASE d = c
    <3>1. Used(d)' + Num(Tails(h)) + happened <= Used(d) + Num(Tails(handler[d])) + happened'
      BY <2>4 DEF Pays, TailPaid
    <3>2. handler'[d] = h
      BY <2>4, HandlersAre
    <3>3. Num(Tails(h)) \in Nat /\ Num(Tails(handler[d])) \in Nat
      BY NumIs
    <3>4. QED BY <1>2, <2>2, <2>3, <3>1, <3>2, <3>3
  <2>5. CASE d # c
    <3>1. tail'[d] = tail[d] /\ handler'[d] = handler[d]
      BY <2>5, HandlersAre DEF ConnsOf
    <3>2. Used(d)' = Used(d)
      BY <3>1 DEF Used
    <3>3. QED BY <1>2, <2>2, <2>3, <3>1, <3>2, NumIs DEF NewsOf
  <2>6. QED BY <2>4, <2>5
<1>7. QED BY <1>3, <1>4, <1>5, <1>6 DEF Quotas

LEMMA GoingOnKeeps ==
    ASSUME Inv, NEW c \in Conn, NEW h, GoesOn(c, h), ConnsOf(c), NewsOf(c), AuthTypes', Pays(c, h)
    PROVE  Inv'
<1>1. ConnTypes'
  BY DEF Inv, Types, ConnTypes, ConnsOf
<1>2. NewsTypes'
  <2>1. \A d \in Conn : view[d] \in Nat /\ view[d] <= version
    BY DEF Inv, Types, NewsTypes
  <2>2. \A d \in Conn : view'[d] <= version'
    BY <2>1 DEF NewsOf, Inv, Types, NewsTypes
  <2>3. QED BY <2>2 DEF Inv, Types, NewsTypes, NewsOf
<1>3. Types'
  BY <1>1, <1>2, HandlersAre DEF Types
<1>4. Fresh'
  BY HandlersAre DEF Inv, Fresh, At, ConnsOf
<1>5. NothingLeaks'
  <2> SUFFICES ASSUME NEW d \in Conn, At(d, "ended")'
               PROVE  d \notin Range(active)' \cup authed' /\ uid'[d] = None /\ ~tail'[d].on
    BY DEF NothingLeaks
  <2>1. d # c
    BY HandlersAre
  <2>2. At(d, "ended")
    BY <2>1, HandlersAre DEF At
  <2>3. d \notin Range(active) \cup authed /\ uid[d] = None /\ ~tail[d].on
    BY <2>2 DEF Inv, NothingLeaks
  <2>4. uid'[d] = uid[d] /\ tail'[d] = tail[d] /\ authed' \subseteq authed \cup {c}
    BY <2>1 DEF ConnsOf
  <2>5. Range(active)' = Range(active)
    BY DEF ConnsOf, Range
  <2>6. QED BY <2>1, <2>3, <2>4, <2>5
<1>6. ViewConverges'
  <2>1. DOMAIN publisher = Conn \cup {Player} /\ DOMAIN publisher' = Conn \cup {Player}
    BY DEF Inv, Types, NewsTypes, NewsOf
  <2>2. QED BY <2>1 DEF Inv, ViewConverges, ConnsOf, NewsOf
<1>7. QED BY <1>3, <1>4, <1>5, <1>6, QuotasLast DEF Inv
-----------------------------------------------------------------------------
(* The forms in which the handlers go on, and the frames they keep.         *)

LEMMA HandlerIs ==
    ASSUME Inv, NEW c \in Conn
    PROVE  /\ handler[c] \in Handler(Len(sessions)) /\ Len(sessions) \in Nat
           /\ handler \in [Conn -> Handler(Len(sessions))]
           /\ tries.login \in Nat /\ tries.setup \in Nat /\ tries.command \in 0 .. MaxCommands
           /\ tries \in [login : Nat, setup : Nat, command : 0 .. MaxCommands]
           /\ MaxAttempts \in Nat \ {0} /\ version \in Nat /\ happened \in Nat
BY HubAssumption DEF Inv, Types, HandlerTypes, AuthTypes, NewsTypes

LEMMA FormsAreTyped ==
    ASSUME NEW n \in Nat
    PROVE  /\ New \in Handler(n) /\ Loop \in Handler(n)
           /\ \A pc \in Pcs : [Loop EXCEPT !.pc = pc] \in Handler(n)
           /\ \A h \in Handler(n), pc \in Pcs : [h EXCEPT !.pc = pc] \in Handler(n)
<1>1. Cardinality(Conn) \in Nat
  BY ConnIsFinite
<1>2. 0 \in 0 .. n /\ 1 \in 1 .. Cardinality(Conn) + 1 /\ FALSE \in BOOLEAN
      /\ "new" \in Pcs /\ "loop" \in Pcs
  BY <1>1 DEF Pcs
<1>3. \A h \in Handler(n), pc \in Pcs : [h EXCEPT !.pc = pc] \in Handler(n)
  BY DEF Handler
<1>4. New \in Handler(n)
  BY <1>2 DEF Handler, New
<1>5. QED BY <1>2, <1>3, <1>4 DEF Loop

Runs(c) == handler[c].pc \notin {"new", "ended"}
SessionsLast == sessions' \in Seq(BOOLEAN) /\ Len(sessions) <= Len(sessions')

LEMMA MovesTo ==
    ASSUME Inv, NEW c \in Conn, Runs(c), SessionsLast,
           NEW pc \in Pcs \ {"new", "ended"}, Goto(c, pc)
    PROVE  GoesOn(c, [handler[c] EXCEPT !.pc = pc])
<1> DEFINE h == [handler[c] EXCEPT !.pc = pc]
<1>1. handler' = [handler EXCEPT ![c] = h]
  BY DEF Goto
<1>2. /\ Len(sessions') \in Nat /\ Len(sessions) \in Nat
      /\ Handler(Len(sessions)) \subseteq Handler(Len(sessions'))
  BY HandlerIs DEF SessionsLast, Handler
<1>3. h \in Handler(Len(sessions)) /\ h.pc = pc
  BY HandlerIs DEF Handler
<1> HIDE DEF h
<1>4. GoesOn(c, h)
  BY <1>1, <1>2, <1>3 DEF GoesOn, SessionsLast, Runs
<1>5. QED BY <1>4 DEF h

LEMMA Replies ==
    ASSUME Inv, NEW c \in Conn, Runs(c), SessionsLast,
           NEW pc \in Pcs \ {"new", "ended"},
           handler' = [handler EXCEPT ![c] = [Loop EXCEPT !.pc = pc]]
    PROVE  GoesOn(c, [Loop EXCEPT !.pc = pc])
<1> DEFINE h == [Loop EXCEPT !.pc = pc]
<1>1. Len(sessions') \in Nat
  BY DEF SessionsLast
<1>2. h \in Handler(Len(sessions')) /\ h.pc = pc
  BY <1>1, FormsAreTyped DEF Loop, New
<1> HIDE DEF h
<1>3. QED BY <1>2 DEF GoesOn, SessionsLast, Runs, h

LEMMA Responds ==
    ASSUME Inv, NEW c \in Conn, Runs(c), SessionsLast, Respond(c)
    PROVE  GoesOn(c, [Loop EXCEPT !.pc = "reply"])
BY Replies DEF Respond, Pcs

LEMMA Serves ==
    ASSUME Inv, NEW c \in Conn, Runs(c), SessionsLast, Serve(c)
    PROVE  GoesOn(c, Loop)
<1>1. Loop = [Loop EXCEPT !.pc = "loop"]
  BY DEF Loop, New
<1>2. QED BY ZenonT(30), <1>1, Replies DEF Serve, Pcs

(* What is told to the clients does not change, and no log tail.            *)
Silent == UNCHANGED <<news, tail>> /\ happened' \in {happened, happened + 1} \cap 0 .. MaxEvents
Paid(c, h) == LoginPaid(c, h) /\ SetupPaid(c, h)
Calm(h) == ~Plays(h) /\ ~Tails(h)
MapsOf(c) ==
    /\ UNCHANGED <<active, lost>> /\ authed' \subseteq authed \cup {c}
    /\ uid' \in [Conn -> Uid \cup {None}] /\ \A d \in Conn \ {c} : uid'[d] = uid[d]

LEMMA CalmKeeps ==
    ASSUME Inv, NEW c \in Conn, NEW h, GoesOn(c, h), MapsOf(c), Silent, AuthTypes',
           Paid(c, h), Calm(h)
    PROVE  Inv'
<1>1. ConnsOf(c)
  BY DEF ConnsOf, MapsOf, Silent, Inv, Types, ConnTypes
<1>2. NewsOf(c)
  BY DEF NewsOf, Silent, news, Inv, Types, NewsTypes
<1>3. Used(c)' = Used(c) /\ version' = version
  BY DEF Used, Silent, news
<1>4. version \in Nat /\ happened \in Nat /\ happened' \in Nat /\ happened <= happened'
  BY DEF Inv, Types, NewsTypes, Silent
<1>5. Used(c) \in Nat
  <2>1. tail[c] \in LogTails
    BY DEF Inv, Types, ConnTypes
  <2>2. QED BY <2>1, NumIs DEF Used, LogTails
<1>6. /\ Num(Plays(h)) = 0 /\ Num(Tails(h)) = 0
      /\ Num(Plays(handler[c])) \in Nat /\ Num(Tails(handler[c])) \in Nat
  BY NumIs DEF Calm
<1>7. Pays(c, h)
  BY <1>3, <1>4, <1>5, <1>6 DEF Pays, NewsPaid, TailPaid, Paid
<1>8. QED BY <1>1, <1>2, <1>7, GoingOnKeeps

LEMMA TriesStay ==
    ASSUME Inv, NEW c \in Conn, NEW h, tries' = tries, ~Fails(h), Sets(h) => Sets(handler[c])
    PROVE  Paid(c, h)
<1>1. /\ Num(Fails(h)) = 0 /\ Num(Fails(handler[c])) \in Nat
      /\ Num(Sets(h)) <= Num(Sets(handler[c])) /\ Num(Sets(h)) \in Nat
      /\ Num(Sets(handler[c])) \in Nat
  BY NumIs
<1>2. QED BY <1>1, HandlerIs DEF Paid, LoginPaid, SetupPaid

LEMMA AuthStays ==
    ASSUME Inv, rlLock' \in Conn \cup {None}, UNCHANGED <<tries, chats, sessions, accounts>>
    PROVE  AuthTypes' /\ SessionsLast
<1>1. AuthTypes' /\ sessions' \in Seq(BOOLEAN) /\ sessions' = sessions
  BY DEF Inv, Types, AuthTypes
<1>2. QED BY <1>1 DEF SessionsLast

LEMMA MapsStay ==
    ASSUME Inv, NEW c \in Conn, UNCHANGED <<active, uid, lost>>, authed' \subseteq authed \cup {c}
    PROVE  MapsOf(c)
BY DEF Inv, Types, ConnTypes, MapsOf

LEMMA Silence ==
    ASSUME Inv, UNCHANGED <<news, tail>>, happened' = happened \/ Happens
    PROVE  Silent
BY HubAssumption DEF Silent, Happens, Inv, Types, NewsTypes
-----------------------------------------------------------------------------
(* The turns of a handler that write nothing down.                          *)

PlainFrame(c) ==
    /\ rlLock' \in Conn \cup {None} /\ UNCHANGED <<tries, chats, sessions, accounts>>
    /\ UNCHANGED <<active, uid, tail, lost, news>> /\ authed' \subseteq authed \cup {c}
    /\ happened' = happened \/ Happens
Safe(h) == ~Fails(h) /\ ~Sets(h) /\ ~Plays(h) /\ ~Tails(h)

LEMMA PlainKeeps ==
    ASSUME Inv, NEW c \in Conn, NEW h, PlainFrame(c), GoesOn(c, h),
           ~Fails(h), Sets(h) => Sets(handler[c]), Calm(h)
    PROVE  Inv'
<1>1. AuthTypes'
  BY AuthStays DEF PlainFrame
<1>2. MapsOf(c) /\ Silent
  BY MapsStay, Silence DEF PlainFrame
<1>3. Paid(c, h)
  BY TriesStay DEF PlainFrame
<1>4. QED BY <1>1, <1>2, <1>3, CalmKeeps

LEMMA FrameIs ==
    ASSUME Inv
    PROVE  /\ rlLock \in Conn \cup {None} /\ sessions \in Seq(BOOLEAN)
           /\ UNCHANGED sessions => SessionsLast
BY DEF Inv, Types, AuthTypes, SessionsLast

(* Loop and its like promise nothing.                                       *)
LEMMA SafeForms ==
    /\ Safe(Loop)
    /\ \A pc \in Pcs \ {"compare", "exists", "insert", "taken"} : Safe([Loop EXCEPT !.pc = pc])
BY DEF Safe, Fails, Sets, Plays, Tails, Pending, Loop, New

LEMMA MovesSafely ==
    ASSUME Inv, NEW c \in Conn,
           NEW pc \in Pcs \ {"compare", "exists", "insert", "taken", "limit", "chatlimit", "dispatch"}
    PROVE  Safe([handler[c] EXCEPT !.pc = pc])
<1>1. [handler[c] EXCEPT !.pc = pc].pc = pc
  BY HandlerIs DEF Handler
<1>2. QED BY <1>1 DEF Safe, Fails, Sets, Plays, Tails, Pending

LEMMA PlainMoves ==
    ASSUME Inv, NEW c \in Conn, Runs(c), PlainFrame(c),
           NEW pc \in Pcs \ {"new", "ended", "compare", "exists", "insert", "taken",
                             "limit", "chatlimit", "dispatch"},
           Goto(c, pc)
    PROVE  Inv'
<1>1. SessionsLast
  BY FrameIs DEF PlainFrame
<1>2. GoesOn(c, [handler[c] EXCEPT !.pc = pc])
  BY <1>1, MovesTo
<1>3. QED BY <1>2, MovesSafely, PlainKeeps DEF Safe, Calm

LEMMA PlainReplies ==
    ASSUME Inv, NEW c \in Conn, Runs(c), PlainFrame(c), Respond(c) \/ Serve(c)
    PROVE  Inv'
<1>1. SessionsLast
  BY FrameIs DEF PlainFrame
<1>2. CASE Respond(c)
  <2>1. GoesOn(c, [Loop EXCEPT !.pc = "reply"])
    BY <1>1, <1>2, Responds
  <2>2. Safe([Loop EXCEPT !.pc = "reply"])
    BY SafeForms DEF Pcs
  <2>3. QED BY <2>1, <2>2, PlainKeeps DEF Safe, Calm
<1>3. CASE Serve(c)
  <2>1. GoesOn(c, Loop)
    BY <1>1, <1>3, Serves
  <2>2. QED BY <2>1, SafeForms, PlainKeeps DEF Safe, Calm
<1>4. QED BY <1>2, <1>3

LEMMA PlainTurns ==
    ASSUME Inv, NEW c \in Conn,
           \/ Replied(c) \/ ExtendSession(c) \/ TokenAccepted(c) \/ Rehash(c)
           \/ UpdatePassword(c) \/ LoggedOut(c) \/ AllLoggedOut(c)
           \/ Answer(c) \/ Executed(c) \/ GetRecentMessages(c) \/ AddMessage(c)
    PROVE  Inv'
<1>1. rlLock \in Conn \cup {None} /\ authed \subseteq authed \cup {c}
  BY FrameIs
<1>2. CASE Replied(c)
  BY <1>1, <1>2, PlainReplies DEF Replied, At, Runs, PlainFrame, conns, news
<1>3. CASE ExtendSession(c)
  BY <1>1, <1>3, PlainMoves DEF ExtendSession, At, Runs, PlainFrame, conns, news, auth, Pcs
<1>4. CASE TokenAccepted(c)
  BY <1>1, <1>4, PlainReplies DEF TokenAccepted, At, Runs, PlainFrame, auth, news
<1>5. CASE Rehash(c)
  BY <1>1, <1>5, PlainMoves DEF Rehash, At, Runs, PlainFrame, conns, news, Acquire, Pcs
<1>6. CASE UpdatePassword(c)
  BY <1>1, <1>6, PlainMoves DEF UpdatePassword, At, Runs, PlainFrame, conns, news, Pcs
<1>7. CASE LoggedOut(c)
  BY <1>1, <1>7, PlainReplies DEF LoggedOut, At, Runs, PlainFrame, auth, news
<1>8. CASE AllLoggedOut(c)
  BY <1>1, <1>8, PlainReplies DEF AllLoggedOut, At, Runs, PlainFrame, auth, news
<1>9. CASE Answer(c)
  BY <1>1, <1>9, PlainReplies DEF Answer, At, Runs, PlainFrame, conns, news, auth
<1>10. CASE Executed(c)
  BY <1>1, <1>10, PlainReplies DEF Executed, At, Runs, PlainFrame, conns, news, auth
<1>11. CASE GetRecentMessages(c)
  BY <1>1, <1>11, PlainReplies DEF GetRecentMessages, At, Runs, PlainFrame, conns, news, auth
<1>12. CASE AddMessage(c)
  BY <1>1, <1>12, PlainMoves DEF AddMessage, At, Runs, PlainFrame, conns, news, auth, Pcs
<1>13. QED
  BY <1>2, <1>3, <1>4, <1>5, <1>6, <1>7, <1>8, <1>9, <1>10, <1>11, <1>12
LEMMA AskAuthKeeps ==
    ASSUME Inv, NEW c \in Conn, NEW t \in 0 .. Len(sessions), AskAuth(c, t)
    PROVE  Inv'
<1> DEFINE h == [handler[c] EXCEPT !.pc = "auth", !.token = t]
<1>1. PlainFrame(c)
  BY FrameIs DEF AskAuth, PlainFrame, auth, conns, news
<1>2. handler' = [handler EXCEPT ![c] = h] /\ Runs(c)
  BY DEF AskAuth, Runs, At
<1>3. h \in Handler(Len(sessions)) /\ h.pc = "auth"
  <2>1. handler[c] \in Handler(Len(sessions)) /\ t \in 0 .. Len(sessions)
    BY HandlerIs
  <2>2. "auth" \in Pcs
    BY DEF Pcs
  <2> QED BY <2>1, <2>2 DEF Handler
<1>4. sessions' = sessions
  BY DEF PlainFrame, AskAuth, auth
<1> HIDE DEF h
<1>5. GoesOn(c, h)
  BY <1>2, <1>3, <1>4, HandlerIs DEF GoesOn, Runs
<1>6. Safe(h)
  BY <1>3 DEF Safe, Fails, Sets, Plays, Tails, Pending
<1>7. QED BY <1>1, <1>5, <1>6, PlainKeeps DEF Safe, Calm

LEMMA VerifySessionKeeps ==
    ASSUME Inv, NEW c \in Conn, NEW expired \in BOOLEAN, VerifySession(c, expired)
    PROVE  Inv'
<1> DEFINE valid == sessions[handler[c].token] /\ ~expired
           h == [handler[c] EXCEPT !.pc = "verified", !.ok = valid]
<1>1. PlainFrame(c)
  BY FrameIs DEF VerifySession, PlainFrame, conns, news, Acquire
<1>2. handler' = [handler EXCEPT ![c] = h] /\ Runs(c)
  BY DEF VerifySession, Runs, At
<1>3. h \in Handler(Len(sessions)) /\ h.pc = "verified"
  <2>1. handler[c].token \in 1 .. Len(sessions) /\ sessions \in Seq(BOOLEAN)
    BY HandlerIs, FrameIs DEF Handler, VerifySession
  <2>2. sessions[handler[c].token] \in BOOLEAN
    BY <2>1
  <2>3. valid \in BOOLEAN
    BY <2>2
  <2> HIDE DEF valid
  <2>4. "verified" \in Pcs
    BY DEF Pcs
  <2>5. ASSUME NEW b \in BOOLEAN
        PROVE  [handler[c] EXCEPT !.pc = "verified", !.ok = b] \in Handler(Len(sessions))
               /\ [handler[c] EXCEPT !.pc = "verified", !.ok = b].pc = "verified"
    BY <2>4, HandlerIs DEF Handler
  <2>6. QED BY <2>3, <2>5
<1>4. sessions' = sessions
  BY DEF VerifySession
<1> HIDE DEF h
<1>5. GoesOn(c, h)
  BY <1>2, <1>3, <1>4, HandlerIs DEF GoesOn, Runs
<1>6. Safe(h)
  BY <1>3 DEF Safe, Fails, Sets, Plays, Tails, Pending
<1>7. QED BY <1>1, <1>5, <1>6, PlainKeeps DEF Safe, Calm

(* A message that arrives may be of any kind: it is one of the events.      *)
LEMMA MessageKeeps ==
    ASSUME Inv, NEW c \in Conn, NEW pc \in {"setup", "limit"},
           NEW kind \in Commands \cup Chats \cup {"none"}, Message(c, pc, kind)
    PROVE  Inv'
<1> DEFINE admin == c \in authed
           h == [handler[c] EXCEPT !.pc = pc, !.kind = kind, !.admin = admin]
<1>1. handler' = [handler EXCEPT ![c] = h] /\ Runs(c)
  BY DEF Message, Runs, At
<1>2. h \in Handler(Len(sessions)) /\ h.pc = pc
  <2>1. pc \in Pcs /\ admin \in BOOLEAN
    BY DEF Pcs
  <2> HIDE DEF admin
  <2>2. QED BY <2>1, HandlerIs DEF Handler
<1>3. UNCHANGED <<auth, conns, news, chats, lost>> /\ Happens
  BY DEF Message
<1> HIDE DEF h
<1>4. GoesOn(c, h)
  BY <1>1, <1>2, <1>3, HandlerIs DEF GoesOn, Runs, auth
<1>5. AuthTypes'
  BY <1>3, AuthStays, FrameIs DEF auth
<1>6. MapsOf(c) /\ Silent
  BY <1>3, MapsStay, Silence DEF conns, news
<1>7. happened' = happened + 1 /\ version' = version /\ Used(c)' = Used(c)
  BY <1>3 DEF Happens, news, conns, Used
<1>8. Paid(c, h)
  BY <1>2, <1>3, TriesStay DEF Fails, Sets, auth
<1>9. ConnsOf(c) /\ NewsOf(c)
  BY <1>6 DEF ConnsOf, NewsOf, MapsOf, Silent, news, Inv, Types, ConnTypes, NewsTypes
<1>10. Used(c) \in Nat
  <2>1. tail[c] \in LogTails
    BY DEF Inv, Types, ConnTypes
  <2>2. QED BY <2>1, NumIs DEF Used, LogTails
<1>11. NewsPaid(c, h)
  <2>1. Num(Plays(h)) \in 0 .. 1 /\ Num(Plays(handler[c])) \in 0 .. 1
    BY NumIs
  <2>2. QED BY <1>7, <2>1, HandlerIs DEF NewsPaid
<1>12. TailPaid(c, h)
  <2>1. Num(Tails(h)) \in 0 .. 1 /\ Num(Tails(handler[c])) \in 0 .. 1
    BY NumIs
  <2>2. QED BY <1>7, <1>10, <2>1, HandlerIs DEF TailPaid
<1>13. QED BY <1>4, <1>5, <1>8, <1>9, <1>11, <1>12, GoingOnKeeps DEF Pays, Paid
-----------------------------------------------------------------------------
(* Logging in and out.                                                      *)

LEMMA Calmly ==    \* a turn that only touches the tables of the sessions and the tries
    ASSUME Inv, NEW c \in Conn, NEW h, GoesOn(c, h), AuthTypes', Paid(c, h), Calm(h),
           UNCHANGED <<conns, news, lost>>, happened' = happened \/ Happens
    PROVE  Inv'
<1>1. MapsOf(c) /\ Silent
  BY MapsStay, Silence DEF conns, news
<1>2. QED BY <1>1, CalmKeeps

LEMMA KeepTypes ==
    ASSUME Inv, NEW n \in Nat, NEW what \in {"login", "setup"},
           Keep(what, n) \/ Count(what, n)
    PROVE  /\ tries' \in [login : Nat, setup : Nat, command : 0 .. MaxCommands]
           /\ tries'[what] = n \/ (tries'[what] = n + 1 /\ Count(what, n))
           /\ tries'[what] <= tries[what] + 1 /\ n <= tries[what]
           /\ what = "login" => tries'.setup = tries.setup
           /\ what = "setup" => tries'.login = tries.login
<1> DEFINE R == [login : Nat, setup : Nat, command : 0 .. MaxCommands]
<1>1. tries \in R /\ n <= tries[what]
  BY DEF Keep, Count, Inv, Types, AuthTypes
<1>2. PICK m \in Nat : /\ tries' = [tries EXCEPT ![what] = m]
                       /\ m = n \/ (m = n + 1 /\ Count(what, n))
  <2>1. CASE Keep(what, n)
    <3>1. tries' = [tries EXCEPT ![what] = n]
      BY <2>1 DEF Keep
    <3>2. QED BY <3>1
  <2>2. CASE Count(what, n)
    <3>1. tries' = [tries EXCEPT ![what] = n + 1] /\ n + 1 \in Nat
      BY <2>2 DEF Count
    <3>2. QED BY <2>2, <3>1
  <2>3. QED BY <2>1, <2>2
<1>3. CASE what = "login"
  <2>1. tries' = [tries EXCEPT !.login = m]
    BY <1>2, <1>3
  <2>2. tries' \in R /\ tries'.login = m /\ tries'.setup = tries.setup
    BY <1>1, <2>1
  <2>3. tries.login \in Nat
    BY <1>1
  <2>4. QED BY <1>1, <1>2, <1>3, <2>2, <2>3
<1>4. CASE what = "setup"
  <2>1. tries' = [tries EXCEPT !.setup = m]
    BY <1>2, <1>4
  <2>2. tries' \in R /\ tries'.setup = m /\ tries'.login = tries.login
    BY <1>1, <2>1
  <2>3. tries.setup \in Nat
    BY <1>1
  <2>4. QED BY <1>1, <1>2, <1>4, <2>2, <2>3
<1>5. QED BY <1>3, <1>4

LEMMA WithTries ==    \* who only counts, and may take or give back the lock
    ASSUME Inv, rlLock' \in Conn \cup {None}, UNCHANGED <<chats, sessions, accounts>>,
           tries' \in [login : Nat, setup : Nat, command : 0 .. MaxCommands]
    PROVE  AuthTypes' /\ SessionsLast
BY DEF Inv, Types, AuthTypes, SessionsLast

LEMMA LimitRespected ==    \* the failures were counted, and were few enough
    ASSUME Inv, NEW c \in Conn, NEW h, NEW n \in Nat, n < MaxAttempts, tries'.login = n,
           tries'.setup = tries.setup, Sets(h) => Sets(handler[c])
    PROVE  Paid(c, h)
<1>1. tries'.login <= MaxAttempts - 1
  BY HandlerIs
<1>2. /\ Num(Sets(h)) <= Num(Sets(handler[c])) /\ Num(Sets(h)) \in Nat
      /\ Num(Sets(handler[c])) \in Nat
  BY NumIs
<1>3. QED BY <1>1, <1>2, HandlerIs DEF Paid, LoginPaid, SetupPaid

LEMMA SomeEnd ==
    ASSUME NEW s \in Seq(BOOLEAN), NEW t, NEW u, u = [s EXCEPT ![t] = FALSE]
    PROVE  u \in Seq(BOOLEAN) /\ Len(u) = Len(s)
<1>1. CASE t \in 1 .. Len(s)
  BY <1>1, ExceptSeq
<1>2. CASE t \notin 1 .. Len(s)
  <2>1. DOMAIN s = 1 .. Len(s) /\ s = [i \in DOMAIN s |-> s[i]]
    OBVIOUS
  <2>2. u = s
    BY <1>2, <2>1
  <2>3. QED BY <2>2
<1>3. QED BY <1>1, <1>2

LEMMA GetAdminAccountKeeps ==
    ASSUME Inv, NEW c \in Conn, NEW n \in Nat, GetAdminAccount(c, n)
    PROVE  Inv'
<1>1. Keep("login", n) /\ UNCHANGED <<accounts, conns, news, chats, lost, happened>> /\ Runs(c)
  BY DEF GetAdminAccount, Runs, At
<1>2. /\ tries' \in [login : Nat, setup : Nat, command : 0 .. MaxCommands]
      /\ tries'.login <= tries.login /\ tries'.setup = tries.setup /\ tries'.login = n
  <2>1. tries'.login = n /\ n <= tries.login
    <3>1. tries' = [tries EXCEPT !.login = n] /\ n <= tries.login
      BY <1>1 DEF Keep
    <3>2. QED BY <3>1, HandlerIs
  <2>2. QED BY <1>1, <2>1, KeepTypes
<1>3. sessions' \in Seq(BOOLEAN) /\ Len(sessions') = Len(sessions)
  <2>1. sessions \in Seq(BOOLEAN)
    BY FrameIs
  <2>2. CASE sessions' = sessions
    BY <2>1, <2>2
  <2>3. CASE sessions' = [sessions EXCEPT ![handler[c].token] = FALSE]
    BY <2>1, <2>3, SomeEnd
  <2>4. QED BY <2>2, <2>3 DEF GetAdminAccount
<1>4. rlLock' \in Conn \cup {None}
  BY DEF GetAdminAccount, Within
<1>5. AuthTypes' /\ SessionsLast
  BY <1>1, <1>2, <1>3, <1>4, HandlerIs DEF AuthTypes, SessionsLast, Inv, Types
<1>6. CASE Respond(c)
  <2>1. GoesOn(c, [Loop EXCEPT !.pc = "reply"])
    BY <1>1, <1>5, <1>6, Responds
  <2>2. Safe([Loop EXCEPT !.pc = "reply"])
    BY SafeForms DEF Pcs
  <2>3. Paid(c, [Loop EXCEPT !.pc = "reply"])
    <3> DEFINE h == [Loop EXCEPT !.pc = "reply"]
    <3> HIDE DEF h
    <3>1. Num(Fails(h)) = 0 /\ Num(Sets(h)) = 0
          /\ Num(Fails(handler[c])) \in Nat /\ Num(Sets(handler[c])) \in Nat
      BY <2>2, NumIs DEF Safe, h
    <3>2. Paid(c, h)
      BY <1>2, <3>1, HandlerIs DEF Paid, LoginPaid, SetupPaid
    <3>3. QED BY <3>2 DEF h
  <2>4. QED BY <1>1, <1>5, <2>1, <2>2, <2>3, Calmly DEF Safe, Calm
<1>7. CASE n < MaxAttempts /\ \E password \in BOOLEAN : Within(c, n, password)
  <2>1. PICK password \in BOOLEAN : Within(c, n, password)
    BY <1>7
  <2> DEFINE h == [Loop EXCEPT !.pc = "compare", !.ok = password]
  <2>2. handler' = [handler EXCEPT ![c] = h]
    BY <2>1 DEF Within
  <2>3. h \in Handler(Len(sessions')) /\ h.pc = "compare"
    <3>1. Loop \in Handler(Len(sessions'))
      BY <1>3, FormsAreTyped
    <3>2. QED BY <3>1 DEF Handler, Pcs
  <2> HIDE DEF h
  <2>4. GoesOn(c, h)
    BY <1>1, <1>5, <2>2, <2>3 DEF GoesOn, SessionsLast, Runs
  <2>5. ~Sets(h) /\ Calm(h)
    BY <2>3 DEF Sets, Calm, Plays, Tails, Pending
  <2>6. Paid(c, h)
    BY <1>2, <1>7, <2>5, LimitRespected
  <2>7. QED BY <1>1, <1>5, <2>4, <2>5, <2>6, Calmly
<1>8. QED BY <1>6, <1>7 DEF GetAdminAccount, Within

LEMMA RejectKeeps ==
    ASSUME Inv, NEW c \in Conn, NEW n \in Nat, Reject(c, n)
    PROVE  Inv'
<1> DEFINE h == [Loop EXCEPT !.pc = "reply"]
<1>1. /\ Count("login", n) /\ UNCHANGED <<sessions, accounts, conns, news, chats, lost, happened>>
      /\ rlLock' \in Conn \cup {None} /\ Runs(c) /\ Fails(handler[c]) /\ Respond(c)
  BY DEF Reject, Runs, At, Acquire, Fails
<1>2. /\ tries' \in [login : Nat, setup : Nat, command : 0 .. MaxCommands]
      /\ tries'.login <= tries.login + 1 /\ tries'.setup = tries.setup
  BY <1>1, KeepTypes
<1>3. AuthTypes' /\ SessionsLast
  BY <1>1, <1>2, WithTries
<1>4. GoesOn(c, h)
  BY <1>1, <1>3, Responds
<1>5. Safe(h)
  BY SafeForms DEF Pcs
<1> HIDE DEF h
<1>6. Paid(c, h)
  <2>1. Num(Fails(h)) = 0 /\ Num(Sets(h)) = 0 /\ Num(Fails(handler[c])) = 1
        /\ Num(Sets(handler[c])) \in Nat
    BY <1>1, <1>5 DEF Safe, Num
  <2>2. tries'.login \in Nat /\ tries'.setup \in Nat
    BY <1>2
  <2>3. LoginPaid(c, h)
    BY <1>2, <2>1, <2>2, HandlerIs DEF LoginPaid
  <2>4. SetupPaid(c, h)
    BY <1>2, <2>1, <2>2, HandlerIs DEF SetupPaid
  <2>5. QED BY <2>3, <2>4 DEF Paid
<1>7. QED BY <1>1, <1>3, <1>4, <1>5, <1>6, Calmly DEF Safe, Calm

LEMMA CreateSessionKeeps ==
    ASSUME Inv, NEW c \in Conn, CreateSession(c)
    PROVE  Inv'
<1> DEFINE h == [handler[c] EXCEPT !.pc = "created"]
<1>1. /\ sessions' = Append(sessions, TRUE) /\ Goto(c, "created") /\ Runs(c)
      /\ rlLock' \in Conn \cup {None} /\ sessions \in Seq(BOOLEAN)
      /\ UNCHANGED <<tries, accounts, conns, news, chats, lost, happened>>
  BY FrameIs DEF CreateSession, Runs, At, Acquire
<1>2. sessions' \in Seq(BOOLEAN) /\ Len(sessions') = Len(sessions) + 1 /\ Len(sessions) \in Nat
  BY <1>1
<1>3. AuthTypes' /\ SessionsLast
  BY <1>1, <1>2 DEF AuthTypes, SessionsLast, Inv, Types
<1>4. GoesOn(c, h)
  BY <1>1, <1>3, MovesTo DEF Pcs
<1>5. Safe(h)
  BY MovesSafely DEF Pcs
<1> HIDE DEF h
<1>6. Paid(c, h)
  BY <1>1, <1>5, TriesStay DEF Safe
<1>7. QED BY <1>1, <1>3, <1>4, <1>5, <1>6, Calmly DEF Safe, Calm

LEMMA PaidBy ==
    ASSUME Inv, NEW c \in Conn, NEW h, ~Fails(h), tries'.login \in Nat, tries'.setup \in Nat,
           \/ tries'.login <= tries.login
           \/ tries'.login <= tries.login + 1 /\ Fails(handler[c]),
           \/ tries'.setup <= tries.setup /\ (Sets(h) => Sets(handler[c]))
           \/ tries'.setup <= tries.setup + 1 /\ Sets(handler[c]) /\ ~Sets(h)
           \/ tries'.setup <= MaxAttempts - 1
           \/ tries'.setup <= MaxAttempts /\ ~Sets(h)
    PROVE  Paid(c, h)
<1>1. LoginPaid(c, h)
  BY HandlerIs DEF LoginPaid, Num
<1>2. SetupPaid(c, h)
  BY HandlerIs DEF SetupPaid, Num
<1>3. QED BY <1>1, <1>2 DEF Paid

LEMMA LoginSucceededKeeps ==
    ASSUME Inv, NEW c \in Conn, LoginSucceeded(c)
    PROVE  Inv'
<1> DEFINE h == [Loop EXCEPT !.pc = "reply"]
<1>1. /\ authed' = authed \cup {c} /\ tries' = [tries EXCEPT !.login = 0] /\ Runs(c) /\ Respond(c)
      /\ UNCHANGED <<rlLock, sessions, accounts, active, uid, tail, news, chats, lost, happened>>
  BY DEF LoginSucceeded, Runs, At
<1>2. /\ tries' \in [login : Nat, setup : Nat, command : 0 .. MaxCommands]
      /\ tries'.login = 0 /\ tries'.setup = tries.setup
  BY <1>1, HandlerIs
<1>3. AuthTypes' /\ SessionsLast
  BY <1>1, <1>2, WithTries, FrameIs
<1>4. MapsOf(c) /\ Silent
  BY <1>1, MapsStay, Silence
<1>5. GoesOn(c, h) /\ Safe(h)
  BY <1>1, <1>3, Responds, SafeForms DEF Pcs
<1> HIDE DEF h
<1>6. Paid(c, h)
  BY <1>2, <1>5, HandlerIs, PaidBy DEF Safe
<1>7. QED BY <1>3, <1>4, <1>5, <1>6, CalmKeeps DEF Safe, Calm

LEMMA LogoutKeeps ==
    ASSUME Inv, NEW c \in Conn, Logout(c)
    PROVE  Inv'
<1> DEFINE h == [handler[c] EXCEPT !.pc = "logout"]
<1>1. /\ Goto(c, "logout") /\ Runs(c) /\ Happens
      /\ UNCHANGED <<rlLock, tries, accounts, conns, news, chats, lost>>
      /\ sessions \in Seq(BOOLEAN)
  BY FrameIs DEF Logout, Runs, At
<1>2. sessions' \in Seq(BOOLEAN) /\ Len(sessions') = Len(sessions) /\ Len(sessions) \in Nat
  <2>1. CASE \E t \in DOMAIN sessions : sessions' = [sessions EXCEPT ![t] = FALSE]
    BY <1>1, <2>1, SomeEnd
  <2>2. CASE sessions' = sessions
    BY <1>1, <2>2
  <2>3. QED BY <2>1, <2>2 DEF Logout
<1>3. AuthTypes' /\ SessionsLast
  BY <1>1, <1>2 DEF AuthTypes, SessionsLast, Inv, Types
<1>4. GoesOn(c, h) /\ Safe(h)
  BY <1>1, <1>3, MovesTo, MovesSafely DEF Pcs
<1> HIDE DEF h
<1>5. Paid(c, h)
  BY <1>1, <1>4, TriesStay DEF Safe
<1>6. QED BY <1>1, <1>3, <1>4, <1>5, Calmly DEF Safe, Calm

LEMMA LogoutAllKeeps ==
    ASSUME Inv, NEW c \in Conn, LogoutAll(c)
    PROVE  Inv'
<1>1. /\ Runs(c) /\ Happens
      /\ UNCHANGED <<rlLock, tries, accounts, conns, news, chats, lost>>
      /\ sessions \in Seq(BOOLEAN)
  BY FrameIs DEF LogoutAll, Runs, At
<1>2. sessions' \in Seq(BOOLEAN) /\ Len(sessions') = Len(sessions) /\ Len(sessions) \in Nat
  <2>1. CASE sessions' = [t \in DOMAIN sessions |-> FALSE]
    <3>1. sessions' = [t \in 1 .. Len(sessions) |-> FALSE] /\ Len(sessions) \in Nat
      BY <1>1, <2>1
    <3>2. QED BY <3>1
  <2>2. CASE sessions' = sessions
    BY <1>1, <2>2
  <2>3. QED BY <2>1, <2>2 DEF LogoutAll
<1>3. AuthTypes' /\ SessionsLast
  BY <1>1, <1>2 DEF AuthTypes, SessionsLast, Inv, Types
<1>4. ASSUME NEW h, GoesOn(c, h), Safe(h) PROVE Inv'
  <2>1. Paid(c, h)
    BY <1>1, <1>4, TriesStay DEF Safe
  <2>2. QED BY <1>1, <1>3, <1>4, <2>1, Calmly DEF Safe, Calm
<1>5. CASE Goto(c, "logoutall")
  BY <1>1, <1>3, <1>4, <1>5, MovesTo, MovesSafely DEF Pcs
<1>6. CASE Respond(c)
  BY <1>1, <1>3, <1>4, <1>6, Responds, SafeForms DEF Pcs
<1>7. QED BY <1>5, <1>6 DEF LogoutAll

-----------------------------------------------------------------------------
(* The initial setup.                                                       *)

LEMMA CheckSetupKeeps ==
    ASSUME Inv, NEW c \in Conn, NEW n \in Nat, CheckSetup(c, n)
    PROVE  Inv'
<1>1. /\ Runs(c) /\ rlLock' \in Conn \cup {None}
      /\ UNCHANGED <<sessions, accounts, conns, news, chats, lost, happened>>
      /\ Keep("setup", n) \/ Count("setup", n)
  BY DEF CheckSetup, Runs, At, Acquire
<1>2. /\ tries' \in [login : Nat, setup : Nat, command : 0 .. MaxCommands]
      /\ tries'.setup <= tries.setup + 1 /\ tries'.login = tries.login
      /\ tries'.login \in Nat /\ tries'.setup \in Nat
  BY <1>1, KeepTypes
<1>3. AuthTypes' /\ SessionsLast
  BY <1>1, <1>2, WithTries
<1>4. Keep("setup", n) => tries'.setup = n /\ n <= tries.setup
  BY HandlerIs DEF Keep
<1>5. Count("setup", n) => tries'.setup = n + 1
  BY HandlerIs DEF Count
<1>6. CASE Respond(c)
  <2> DEFINE h == [Loop EXCEPT !.pc = "reply"]
  <2>1. GoesOn(c, h) /\ Safe(h)
    BY <1>1, <1>3, <1>6, Responds, SafeForms DEF Pcs
  <2> HIDE DEF h
  <2>2. \/ tries'.setup <= tries.setup
        \/ tries'.setup <= MaxAttempts
    <3>1. CASE n >= MaxAttempts /\ Keep("setup", n)
      BY <1>4, <3>1
    <3>2. CASE n < MaxAttempts /\ (Count("setup", n) \/ Keep("setup", n))
      BY <1>4, <1>5, <3>2, HandlerIs
    <3>3. QED BY <3>1, <3>2 DEF CheckSetup
  <2>3. Paid(c, h)
    BY <1>2, <2>1, <2>2, HandlerIs, PaidBy DEF Safe
  <2>4. QED BY <1>1, <1>3, <2>1, <2>3, Calmly DEF Safe, Calm
<1>7. CASE /\ n < MaxAttempts /\ Keep("setup", n)
           /\ handler' = [handler EXCEPT ![c].pc = "exists", ![c].ok = accounts = <<>>]
  <2> DEFINE none == accounts = <<>>
             h == [handler[c] EXCEPT !.pc = "exists", !.ok = none]
  <2>1. handler' = [handler EXCEPT ![c] = h]
    BY <1>7
  <2>2. h \in Handler(Len(sessions)) /\ h.pc = "exists"
    <3>1. none \in BOOLEAN /\ "exists" \in Pcs
      BY DEF Pcs
    <3> HIDE DEF none
    <3>2. QED BY <3>1, HandlerIs DEF Handler
  <2> HIDE DEF h
  <2>3. GoesOn(c, h)
    BY <1>1, <1>3, <2>1, <2>2 DEF GoesOn, SessionsLast, Runs
  <2>4. ~Fails(h) /\ Calm(h)
    BY <2>2 DEF Fails, Calm, Plays, Tails, Pending
  <2>5. tries'.setup <= MaxAttempts - 1
    BY <1>4, <1>7, HandlerIs
  <2>6. Paid(c, h)
    BY <1>2, <2>4, <2>5, HandlerIs, PaidBy
  <2>7. QED BY <1>1, <1>3, <2>3, <2>4, <2>6, Calmly
<1>8. QED BY <1>6, <1>7 DEF CheckSetup

LEMMA AccountExistsKeeps ==
    ASSUME Inv, NEW c \in Conn, AccountExists(c)
    PROVE  Inv'
<1>1. /\ Runs(c) /\ rlLock' \in Conn \cup {None} /\ Sets(handler[c])
      /\ UNCHANGED <<sessions, accounts, conns, news, chats, lost, happened>>
  BY FrameIs DEF AccountExists, Runs, At, Sets
<1>2. CASE Count("setup", tries.setup) /\ Respond(c)
  <2> DEFINE h == [Loop EXCEPT !.pc = "reply"]
  <2>1. /\ tries' \in [login : Nat, setup : Nat, command : 0 .. MaxCommands]
        /\ tries'.setup <= tries.setup + 1 /\ tries'.login = tries.login
        /\ tries'.login \in Nat /\ tries'.setup \in Nat
    BY <1>2, HandlerIs, KeepTypes
  <2>2. AuthTypes' /\ SessionsLast
    BY <1>1, <2>1, WithTries
  <2>3. GoesOn(c, h) /\ Safe(h)
    BY <1>1, <1>2, <2>2, Responds, SafeForms DEF Pcs
  <2> HIDE DEF h
  <2>4. Paid(c, h)
    BY <1>1, <2>1, <2>3, HandlerIs, PaidBy DEF Safe
  <2>5. QED BY <1>1, <2>2, <2>3, <2>4, Calmly DEF Safe, Calm
<1>3. CASE tries' = tries /\ Goto(c, "insert")
  <2> DEFINE h == [handler[c] EXCEPT !.pc = "insert"]
  <2>1. AuthTypes' /\ SessionsLast
    BY <1>1, <1>3, AuthStays
  <2>2. GoesOn(c, h) /\ h.pc = "insert"
    BY <1>1, <1>3, <2>1, MovesTo, HandlerIs DEF Pcs, Handler
  <2> HIDE DEF h
  <2>3. ~Fails(h) /\ Calm(h)
    BY <2>2 DEF Fails, Calm, Plays, Tails, Pending
  <2>4. Paid(c, h)
    BY <1>1, <1>3, <2>3, TriesStay
  <2>5. QED BY <1>1, <2>1, <2>2, <2>3, <2>4, Calmly
<1>4. QED BY <1>2, <1>3 DEF AccountExists

LEMMA CreateAdminAccountKeeps ==
    ASSUME Inv, NEW c \in Conn, NEW u \in Username, CreateAdminAccount(c, u)
    PROVE  Inv'
<1>1. /\ Runs(c) /\ Sets(handler[c])
      /\ UNCHANGED <<rlLock, tries, sessions, conns, news, chats, lost, happened>>
      /\ accounts \in Seq(Username) /\ IsInjective(accounts)
  BY DEF CreateAdminAccount, Runs, At, Sets, Inv, Types, AuthTypes
<1>2. accounts' \in Seq(Username) /\ IsInjective(accounts')
  <2>1. CASE accounts' = accounts
    BY <1>1, <2>1
  <2>2. CASE u \notin Range(accounts) /\ accounts' = Append(accounts, u)
    BY <1>1, <2>2, AppendOne
  <2>3. QED BY <2>1, <2>2 DEF CreateAdminAccount
<1>3. AuthTypes' /\ SessionsLast
  BY <1>1, <1>2, FrameIs DEF AuthTypes, Inv, Types
<1>4. ASSUME NEW h, GoesOn(c, h), ~Fails(h), Calm(h) PROVE Inv'
  <2>1. Paid(c, h)
    BY <1>1, <1>4, TriesStay
  <2>2. QED BY <1>1, <1>3, <1>4, <2>1, Calmly
<1>5. CASE Respond(c)
  BY <1>1, <1>3, <1>4, <1>5, Responds, SafeForms DEF Pcs, Safe, Calm
<1>6. ASSUME NEW pc \in {"taken", "setupdone"}, Goto(c, pc) PROVE Inv'
  <2> DEFINE h == [handler[c] EXCEPT !.pc = pc]
  <2>1. GoesOn(c, h) /\ h.pc = pc
    BY <1>1, <1>3, <1>6, MovesTo, HandlerIs DEF Pcs, Handler
  <2> HIDE DEF h
  <2>2. ~Fails(h) /\ Calm(h)
    BY <2>1 DEF Fails, Calm, Plays, Tails, Pending
  <2>3. QED BY <1>4, <2>1, <2>2
<1>7. QED BY <1>5, <1>6 DEF CreateAdminAccount

LEMMA FinishSetupKeeps ==
    ASSUME Inv, NEW c \in Conn, NEW n \in Nat, FinishSetup(c, n)
    PROVE  Inv'
<1> DEFINE h == [Loop EXCEPT !.pc = "reply"]
<1>1. /\ Runs(c) /\ rlLock' \in Conn \cup {None} /\ Respond(c)
      /\ UNCHANGED <<sessions, accounts, conns, news, chats, lost, happened>>
      /\ Sets(handler[c]) \/ (n = 0 /\ Keep("setup", n))
      /\ Keep("setup", n) \/ Count("setup", n)
  BY FrameIs DEF FinishSetup, Runs, At, WhileFree, Sets
<1>2. /\ tries' \in [login : Nat, setup : Nat, command : 0 .. MaxCommands]
      /\ tries'.setup <= tries.setup + 1 /\ tries'.login = tries.login
      /\ tries'.login \in Nat /\ tries'.setup \in Nat
  BY <1>1, KeepTypes
<1>3. AuthTypes' /\ SessionsLast
  BY <1>1, <1>2, WithTries
<1>4. GoesOn(c, h) /\ Safe(h)
  BY <1>1, <1>3, Responds, SafeForms DEF Pcs
<1> HIDE DEF h
<1>5. Sets(handler[c]) \/ tries'.setup <= MaxAttempts - 1
  BY <1>1, HandlerIs DEF Keep
<1>6. Paid(c, h)
  BY <1>2, <1>4, <1>5, HandlerIs, PaidBy DEF Safe
<1>7. QED BY <1>1, <1>3, <1>4, <1>6, Calmly DEF Safe, Calm

-----------------------------------------------------------------------------
(* Commands, chat and the log.                                              *)

LEMMA UsedIs == ASSUME Inv, NEW c \in Conn PROVE Used(c) \in Nat /\ tail[c] \in LogTails
<1>1. tail[c] \in LogTails
  BY DEF Inv, Types, ConnTypes
<1>2. QED BY <1>1, NumIs DEF Used, LogTails

LEMMA PromisesNoMore ==
    ASSUME Inv, NEW c \in Conn, NEW h, GoesOn(c, h), UNCHANGED <<conns, news, lost, happened>>,
           AuthTypes', Paid(c, h), Plays(h) => Plays(handler[c]), Tails(h) => Tails(handler[c])
    PROVE  Inv'
<1>1. ConnsOf(c) /\ NewsOf(c)
  BY DEF ConnsOf, NewsOf, conns, news, Inv, Types, ConnTypes, NewsTypes
<1>2. NewsPaid(c, h)
  BY HandlerIs DEF NewsPaid, Num, news
<1>3. TailPaid(c, h)
  <2>1. Used(c)' = Used(c)
    BY DEF Used, conns
  <2>2. QED BY <2>1, UsedIs, HandlerIs DEF TailPaid, Num
<1>4. QED BY <1>1, <1>2, <1>3, GoingOnKeeps DEF Pays, Paid

LEMMA CheckRateLimitKeeps ==
    ASSUME Inv, NEW c \in Conn, NEW n \in Nat, CheckRateLimit(c, n)
    PROVE  Inv'
<1>1. /\ Runs(c) /\ UNCHANGED <<sessions, accounts, conns, news, chats, lost, happened>>
      /\ rlLock' \in Conn \cup {None} /\ handler[c].pc = "limit"
  BY FrameIs DEF CheckRateLimit, Runs, At, WhileFree
<1>2. tries' \in [login : Nat, setup : Nat, command : 0 .. MaxCommands]
      /\ tries'.login = tries.login /\ tries'.setup = tries.setup
  <2>1. CASE tries' = tries
    BY <2>1, HandlerIs
  <2>2. ASSUME NEW m \in 0 .. MaxCommands, tries' = [tries EXCEPT !.command = m]
        PROVE  tries' \in [login : Nat, setup : Nat, command : 0 .. MaxCommands]
               /\ tries'.login = tries.login /\ tries'.setup = tries.setup
    BY <2>2, HandlerIs
  <2>3. CASE Keep("command", n)
    <3>1. n <= tries.command /\ tries' = [tries EXCEPT !.command = n]
      BY <2>3 DEF Keep
    <3>2. n \in 0 .. MaxCommands
      BY <3>1, HandlerIs, HubAssumption
    <3>3. QED BY <2>2, <3>1, <3>2
  <2>4. CASE n < MaxCommands /\ Count("command", n)
    <3>1. tries' = [tries EXCEPT !.command = n + 1]
      BY <2>4 DEF Count
    <3>2. n + 1 \in 0 .. MaxCommands
      BY <2>4, HubAssumption
    <3>3. QED BY <2>2, <3>1, <3>2
  <2>5. QED BY <2>1, <2>3, <2>4, HubAssumption DEF CheckRateLimit
<1>3. AuthTypes' /\ SessionsLast
  BY <1>1, <1>2, WithTries
<1>4. ASSUME NEW h, GoesOn(c, h), ~Fails(h), ~Sets(h),
             Plays(h) => Plays(handler[c]), Tails(h) => Tails(handler[c])
      PROVE  Inv'
  <2>1. Paid(c, h)
    BY <1>2, <1>4, HandlerIs, PaidBy
  <2>2. QED BY <1>1, <1>3, <1>4, <2>1, PromisesNoMore
<1>5. CASE Respond(c)
  BY <1>1, <1>3, <1>4, <1>5, Responds, SafeForms DEF Pcs, Safe
<1>6. ASSUME NEW pc \in {"chatlimit", "dispatch"}, Goto(c, pc) PROVE Inv'
  <2> DEFINE h == [handler[c] EXCEPT !.pc = pc]
  <2>1. GoesOn(c, h) /\ h.pc = pc /\ h.kind = handler[c].kind
    BY <1>1, <1>3, <1>6, MovesTo, HandlerIs DEF Pcs, Handler
  <2> HIDE DEF h
  <2>2. /\ ~Fails(h) /\ ~Sets(h)
        /\ Plays(h) => Plays(handler[c])
        /\ Tails(h) => Tails(handler[c])
    BY <1>1, <2>1 DEF Fails, Sets, Plays, Tails, Pending
  <2>3. QED BY <1>4, <2>1, <2>2
<1>7. QED BY <1>5, <1>6 DEF CheckRateLimit

LEMMA CheckChatRateLimitKeeps ==
    ASSUME Inv, NEW c \in Conn, NEW n \in Nat, CheckChatRateLimit(c, n)
    PROVE  Inv'
<1>1. /\ Runs(c) /\ UNCHANGED <<tries, sessions, accounts, conns, news, lost, happened>>
      /\ rlLock' \in Conn \cup {None} /\ handler[c].pc = "chatlimit"
  BY FrameIs DEF CheckChatRateLimit, Runs, At, WhileFree
<1>2. chats' \in [Uid \cup {None} -> 0 .. MaxChats]
  <2>1. chats \in [Uid \cup {None} -> 0 .. MaxChats] /\ uid[c] \in Uid \cup {None}
    BY DEF Inv, Types, AuthTypes, ConnTypes
  <2>2. n <= MaxChats
    BY <2>1, HubAssumption DEF CheckChatRateLimit
  <2>3. QED BY <2>1, <2>2, HubAssumption DEF CheckChatRateLimit
<1>3. AuthTypes' /\ SessionsLast
  BY <1>1, <1>2, FrameIs DEF AuthTypes, Inv, Types
<1>4. ASSUME NEW h, GoesOn(c, h), ~Fails(h), ~Sets(h),
             Plays(h) => Plays(handler[c]), Tails(h) => Tails(handler[c])
      PROVE  Inv'
  <2>1. Paid(c, h)
    BY <1>1, <1>4, TriesStay
  <2>2. QED BY <1>1, <1>3, <1>4, <2>1, PromisesNoMore
<1>5. CASE Respond(c)
  BY <1>1, <1>3, <1>4, <1>5, Responds, SafeForms DEF Pcs, Safe
<1>6. CASE Goto(c, "dispatch")
  <2> DEFINE h == [handler[c] EXCEPT !.pc = "dispatch"]
  <2>1. GoesOn(c, h) /\ h.pc = "dispatch" /\ h.kind = handler[c].kind
    BY <1>1, <1>3, <1>6, MovesTo, HandlerIs DEF Pcs, Handler
  <2> HIDE DEF h
  <2>2. /\ ~Fails(h) /\ ~Sets(h)
        /\ Plays(h) => Plays(handler[c])
        /\ Tails(h) => Tails(handler[c])
    BY <1>1, <2>1 DEF Fails, Sets, Plays, Tails, Pending
  <2>3. QED BY <1>4, <2>1, <2>2
<1>7. QED BY <1>5, <1>6 DEF CheckChatRateLimit

LEMMA Publishes ==
    ASSUME Inv, NEW p \in Conn \cup {Player}, Publish(p)
    PROVE  publisher' \in [Conn \cup {Player} -> Broadcasts] /\ publisher'[p].pc = "made"
<1> DEFINE b == [NoNews EXCEPT !.pc = "made"]
<1>1. b \in Broadcasts /\ b.pc = "made"
  BY DEF NoNews, Broadcasts
<1>2. publisher' = [publisher EXCEPT ![p] = b]
  BY DEF Publish
<1> HIDE DEF b
<1>3. publisher \in [Conn \cup {Player} -> Broadcasts]
  BY DEF Inv, Types, NewsTypes
<1>4. QED BY <1>1, <1>2, <1>3

LEMMA ExecuteKeeps ==
    ASSUME Inv, NEW c \in Conn, Execute(c)
    PROVE  Inv'
<1> DEFINE h == [handler[c] EXCEPT !.pc = "publish"]
<1>1. /\ Runs(c) /\ Plays(handler[c]) /\ version' = version + 1 /\ Publish(c)
      /\ Goto(c, "publish") /\ UNCHANGED <<auth, conns, view, chats, lost, happened>>
  BY DEF Execute, Runs, At, Plays, Pending
<1>2. AuthTypes' /\ SessionsLast
  BY <1>1, AuthStays, FrameIs DEF auth
<1>3. GoesOn(c, h) /\ Safe(h)
  BY <1>1, <1>2, MovesTo, MovesSafely DEF Pcs
<1> HIDE DEF h
<1>4. Paid(c, h)
  BY <1>1, <1>3, TriesStay DEF Safe, auth
<1>5. NewsPaid(c, h) /\ TailPaid(c, h)
  <2>1. Used(c)' = Used(c)
    BY <1>1 DEF Used, conns
  <2>2. QED BY <1>1, <1>3, <2>1, UsedIs, HandlerIs DEF NewsPaid, TailPaid, Num, Safe
<1>6. ConnsOf(c)
  BY <1>1 DEF ConnsOf, conns, Inv, Types, ConnTypes
<1>7. NewsOf(c)
  BY <1>1, Publishes, HandlerIs DEF NewsOf, Inv, Types, NewsTypes
<1>8. QED BY <1>2, <1>3, <1>4, <1>5, <1>6, <1>7, GoingOnKeeps DEF Pays, Paid

LEMMA ChatKeeps ==
    ASSUME Inv, NEW c \in Conn, NEW u \in Uid \cup {None}, NEW target \in Uid \cup {None},
           Chat(c, u, target)
    PROVE  Inv'
<1>1. /\ Runs(c) /\ handler[c].kind \in Chats
      /\ UNCHANGED <<auth, active, authed, tail, news, chats, lost, happened>>
  BY DEF Chat, Runs, At
<1>2. uid \in [Conn -> Uid \cup {None}]
  BY DEF Inv, Types, ConnTypes
<1>3. uid' = uid \/ uid' = [uid EXCEPT ![c] = u]
  BY DEF Chat, Bind
<1>4. MapsOf(c) /\ Silent
  BY <1>1, <1>2, <1>3, Silence DEF MapsOf
<1>5. AuthTypes' /\ SessionsLast /\ sessions' = sessions
  BY <1>1, AuthStays, FrameIs DEF auth
<1>6. ASSUME NEW h, GoesOn(c, h), Safe(h) PROVE Inv'
  <2>1. Paid(c, h)
    BY <1>1, <1>6, TriesStay DEF Safe, auth
  <2>2. QED BY <1>4, <1>5, <1>6, <2>1, CalmKeeps DEF Safe, Calm
<1>7. CASE Respond(c)
  BY <1>1, <1>5, <1>6, <1>7, Responds, SafeForms DEF Pcs
<1>8. CASE Serve(c)
  BY <1>1, <1>5, <1>6, <1>8, Serves, SafeForms
<1>9. CASE handler' = [handler EXCEPT ![c] =
                [Loop EXCEPT !.pc = handler[c].kind, !.to = Thread(c, u, target)]]
  <2> DEFINE to == Thread(c, u, target)
             pc == handler[c].kind
             h == [Loop EXCEPT !.pc = pc, !.to = to]
  <2>1. to \in Uid \cup {None}
    BY <1>2 DEF Thread
  <2>2. pc \in {"chat", "history"}
    BY <1>1 DEF Chats
  <2>3. handler' = [handler EXCEPT ![c] = h]
    BY <1>9
  <2> HIDE DEF to, pc
  <2>4. h \in Handler(Len(sessions)) /\ h.pc = pc
    <3>1. Loop \in Handler(Len(sessions)) /\ pc \in Pcs
      BY <2>2, FormsAreTyped, HandlerIs DEF Pcs
    <3>2. QED BY <2>1, <3>1 DEF Handler
  <2> HIDE DEF h
  <2>5. GoesOn(c, h)
    BY <1>1, <1>5, <2>2, <2>3, <2>4 DEF GoesOn, SessionsLast, Runs
  <2>6. Safe(h)
    BY <2>2, <2>4 DEF Safe, Fails, Sets, Plays, Tails, Pending
  <2>7. QED BY <1>6, <2>5, <2>6
<1>10. QED BY <1>7, <1>8, <1>9 DEF Chat

LEMMA HasLeast ==
    ASSUME NEW N \in SUBSET Nat, N # {}
    PROVE  \E i \in N : \A j \in N : i <= j
<1> SUFFICES ASSUME ~ \E i \in N : \A j \in N : i <= j PROVE FALSE
  OBVIOUS
<1> DEFINE S == {n \in Nat : \A j \in N : n <= j}
<1>1. 0 \in S
  OBVIOUS
<1>2. ASSUME NEW n \in S PROVE n + 1 \in S
  <2>1. n \notin N
    OBVIOUS
  <2>2. \A j \in N : n + 1 <= j
    BY <2>1
  <2>3. QED BY <2>2
<1>3. S \in SUBSET Nat
  OBVIOUS
<1> HIDE DEF S
<1>4. S = Nat
  BY <1>1, <1>2, <1>3, Induct
<1>5. PICK j \in N : TRUE
  OBVIOUS
<1>6. j + 1 \in S
  BY <1>4
<1>7. QED BY <1>6 DEF S

(* A position past the one that was served last is within the list, and so  *)
(* within the number of connections.                                        *)
LEMMA SendChatKeeps ==
    ASSUME Inv, NEW c \in Conn, SendChat(c)
    PROVE  Inv'
<1> DEFINE next == {i \in handler[c].at .. Len(active) : Gets(active[i], handler[c].to)}
           least == CHOOSE i \in next : \A j \in next : i <= j
           at == 1 + least
           h == [handler[c] EXCEPT !.at = at]
<1>1. /\ Runs(c) /\ handler[c].pc = "stored"
      /\ UNCHANGED <<auth, conns, news, chats, lost, happened>>
  BY DEF SendChat, Runs, At
<1>2. PlainFrame(c) /\ SessionsLast
  BY <1>1, FrameIs DEF PlainFrame, auth, conns, news
<1>3. CASE Serve(c)
  BY <1>1, <1>2, <1>3, PlainReplies
<1>4. CASE next # {} /\ handler' = [handler EXCEPT ![c].at = at]
  <2>1. /\ handler[c].at \in 1 .. Cardinality(Conn) + 1
        /\ Len(active) \in Nat /\ Len(active) <= Cardinality(Conn) /\ Cardinality(Conn) \in Nat
    BY HandlerIs, ActiveIsShort, ConnIsFinite DEF Handler, Inv, Types, ConnTypes
  <2>2. next \in SUBSET Nat /\ \A i \in next : i \in 1 .. Cardinality(Conn)
    BY <2>1
  <2>3. at \in 1 .. Cardinality(Conn) + 1
    <3> HIDE DEF next
    <3>1. PICK i \in next : \A j \in next : i <= j
      BY <1>4, <2>2, HasLeast
    <3>2. least \in next
      BY <3>1
    <3> HIDE DEF least
    <3>3. least \in 1 .. Cardinality(Conn)
      BY <2>2, <3>2
    <3>4. QED BY <2>1, <3>3
  <2>4. handler' = [handler EXCEPT ![c] = h]
    BY <1>4
  <2> HIDE DEF at
  <2>5. h \in Handler(Len(sessions)) /\ h.pc = "stored"
    BY <1>1, <2>3, HandlerIs DEF Handler
  <2> HIDE DEF h
  <2>6. GoesOn(c, h)
    BY <1>1, <1>2, <2>4, <2>5 DEF GoesOn, Runs, SessionsLast, PlainFrame
  <2>7. Safe(h)
    BY <2>5 DEF Safe, Fails, Sets, Plays, Tails, Pending
  <2>8. QED BY <1>2, <2>6, <2>7, PlainKeeps DEF Safe, Calm
<1>5. QED BY <1>3, <1>4 DEF SendChat

LEMMA LogTailKeeps ==
    ASSUME Inv, NEW c \in Conn, LogTail(c)
    PROVE  Inv'
<1> DEFINE new == IF handler[c].kind = "tail" THEN [tail[c] EXCEPT !.on = TRUE] ELSE CancelTail(c)
<1>1. /\ Runs(c) /\ Tails(handler[c]) /\ tail' = [tail EXCEPT ![c] = new] /\ Serve(c)
      /\ UNCHANGED <<auth, active, authed, uid, news, chats, lost, happened>>
  BY DEF LogTail, Runs, At, Tails, Pending
<1>2. AuthTypes' /\ SessionsLast
  BY <1>1, AuthStays, FrameIs DEF auth
<1>3. GoesOn(c, Loop) /\ Safe(Loop)
  BY <1>1, <1>2, Serves, SafeForms
<1>4. Paid(c, Loop)
  BY <1>1, <1>3, TriesStay DEF Safe, auth
<1>5. /\ tail \in [Conn -> LogTails] /\ tail[c].on \in BOOLEAN /\ tail[c].dying \in Nat
  BY DEF Inv, Types, ConnTypes, LogTails
<1>6. new \in LogTails /\ new.dying + Num(new.on) <= Used(c) + 1
  <2>1. CASE handler[c].kind = "tail"
    <3>1. new = [tail[c] EXCEPT !.on = TRUE] /\ tail[c] \in LogTails
      BY <1>5, <2>1
    <3>2. TRUE \in BOOLEAN
      OBVIOUS
    <3>3. new \in LogTails /\ new.dying = tail[c].dying /\ Num(new.on) = 1
      BY <3>1, <3>2 DEF LogTails, Num
    <3>4. Used(c) \in Nat /\ Used(c) >= tail[c].dying
      BY <1>5, NumIs DEF Used
    <3> HIDE DEF new
    <3>5. QED BY <1>5, <3>3, <3>4
  <2>2. CASE handler[c].kind # "tail"
    <3>1. new = CancelTail(c)
      BY <2>2
    <3>2. CASE tail[c].on
      <4>1. new = [on |-> FALSE, dying |-> tail[c].dying + 1]
        BY <3>1, <3>2 DEF CancelTail
      <4>2. Used(c) = tail[c].dying + 1
        BY <3>2 DEF Used, Num
      <4>3. FALSE \in BOOLEAN /\ tail[c].dying + 1 \in Nat
        BY <1>5
      <4> HIDE DEF new
      <4>4. QED BY <1>5, <4>1, <4>2, <4>3 DEF LogTails, Num
    <3>3. CASE ~tail[c].on
      <4>1. new = tail[c] /\ tail[c] \in LogTails
        BY <1>5, <3>1, <3>3 DEF CancelTail
      <4>2. Used(c) = tail[c].dying
        BY <3>3, <1>5 DEF Used, Num
      <4> HIDE DEF new
      <4>3. QED BY <1>5, <3>3, <4>1, <4>2 DEF Num
    <3>4. QED BY <3>2, <3>3
  <2>3. QED BY <2>1, <2>2
<1> HIDE DEF new
<1>7. tail'[c] = new /\ tail' \in [Conn -> LogTails] /\ \A d \in Conn \ {c} : tail'[d] = tail[d]
  BY <1>1, <1>5, <1>6
<1>8. Used(c)' <= Used(c) + 1 /\ Used(c)' \in Nat
  <2>1. Used(c)' = new.dying + Num(new.on)
    BY <1>7 DEF Used
  <2>2. QED BY <1>6, <2>1, NumIs DEF LogTails
<1>9. NewsPaid(c, Loop) /\ TailPaid(c, Loop)
  BY <1>1, <1>3, <1>8, UsedIs, HandlerIs DEF NewsPaid, TailPaid, Num, Safe, news
<1>10. ConnsOf(c) /\ NewsOf(c)
  BY <1>1, <1>7 DEF ConnsOf, NewsOf, news, Inv, Types, ConnTypes, NewsTypes
<1>11. QED BY <1>2, <1>3, <1>4, <1>9, <1>10, GoingOnKeeps DEF Pays, Paid

-----------------------------------------------------------------------------
(* Connections that come and go, tails that end, and the broadcasts.        *)

SameHandlers ==
    /\ Failing' = Failing /\ Setting' = Setting /\ Playing' = Playing
    /\ \A d \in Conn : Tails(handler'[d]) <=> Tails(handler[d])

LEMMA QuotasStay ==
    ASSUME Inv, SameHandlers, tries' = tries, version' \in Nat, happened' \in Nat,
           version' + happened <= version + happened', happened <= happened',
           \A d \in Conn : Used(d)' \in Nat /\ Used(d)' <= Used(d)
    PROVE  Quotas'
<1>1. version \in Nat /\ happened \in Nat /\ Cardinality(Playing) \in Nat
  BY SetsAre, ConnIsFinite DEF Inv, Types, NewsTypes
<1>2. LoginQuota' /\ SetupQuota'
  BY DEF Inv, Quotas, LoginQuota, SetupQuota, SameHandlers
<1>3. NewsQuota'
  BY <1>1 DEF Inv, Quotas, NewsQuota, SameHandlers
<1>4. TailQuota'
  <2>1. SUFFICES ASSUME NEW d \in Conn PROVE Used(d)' + Num(Tails(handler'[d])) <= happened'
    BY DEF TailQuota
  <2>2. Used(d) + Num(Tails(handler[d])) <= happened
    BY DEF Inv, Quotas, TailQuota
  <2>3. QED BY <1>1, <2>2, UsedIs DEF SameHandlers, Num
<1>5. QED BY <1>2, <1>3, <1>4 DEF Quotas

LEMMA SafeTurns ==    \* a handler that promised nothing and promises nothing
    ASSUME Inv, NEW c \in Conn, NEW h, handler' = [handler EXCEPT ![c] = h],
           Safe(handler[c]), Safe(h)
    PROVE  SameHandlers
<1>1. handler'[c] = h /\ \A d \in Conn \ {c} : handler'[d] = handler[d]
  BY HandlerIs
<1>2. Failing' = Failing
  BY <1>1 DEF Failing, Safe
<1>3. Setting' = Setting
  BY <1>1 DEF Setting, Safe
<1>4. Playing' = Playing
  BY <1>1 DEF Playing, Safe
<1>5. \A d \in Conn : Tails(handler'[d]) <=> Tails(handler[d])
  BY <1>1 DEF Safe
<1>6. QED BY <1>2, <1>3, <1>4, <1>5 DEF SameHandlers

LEMMA NoTurn == handler' = handler => SameHandlers
BY DEF SameHandlers, Failing, Setting, Playing

LEMMA OpenKeeps ==
    ASSUME Inv, NEW c \in Conn, Open(c)
    PROVE  Inv'
<1> DEFINE h == [Loop EXCEPT !.pc = "reply"]
<1>1. /\ handler[c].pc = "new" /\ active' = Append(active, c)
      /\ view' = [view EXCEPT ![c] = version] /\ handler' = [handler EXCEPT ![c] = h]
      /\ UNCHANGED <<auth, authed, uid, tail, version, publisher, chats, lost, happened>>
  BY DEF Open, At, Respond
<1>2. h \in Handler(Len(sessions)) /\ h.pc = "reply" /\ Safe(h)
  BY FormsAreTyped, HandlerIs, SafeForms DEF Pcs, Loop, New
<1> HIDE DEF h
<1>3. handler'[c] = h /\ \A d \in Conn \ {c} : handler'[d] = handler[d]
  BY <1>1, HandlerIs
<1>4. active \in Seq(Conn) /\ IsInjective(active) /\ c \notin Range(active)
  BY <1>1 DEF Inv, Types, ConnTypes, Fresh, At
<1>5. /\ active' \in Seq(Conn) /\ IsInjective(active')
      /\ Range(active') = Range(active) \cup {c}
  BY <1>1, <1>4, AppendOne
<1>6. Types'
  <2>1. ConnTypes'
    BY <1>1, <1>5 DEF Inv, Types, ConnTypes
  <2>2. AuthTypes'
    BY <1>1, AuthStays, FrameIs DEF auth
  <2>3. HandlerTypes'
    BY <1>1, <1>2, HandlerIs DEF HandlerTypes, auth
  <2>4. NewsTypes'
    BY <1>1 DEF Inv, Types, NewsTypes
  <2>5. QED BY <2>1, <2>2, <2>3, <2>4 DEF Types
<1>7. Fresh'
  BY <1>1, <1>2, <1>3, <1>5 DEF Inv, Fresh, At
<1>8. NothingLeaks'
  BY <1>1, <1>2, <1>3, <1>5 DEF Inv, NothingLeaks, At
<1>9. ViewConverges'
  <2>1. view \in [Conn -> Nat]
    BY DEF Inv, Types, NewsTypes
  <2>2. QED BY <1>1, <1>5, <2>1 DEF Inv, ViewConverges, Types, ConnTypes
<1>10. Quotas'
  <2>1. Safe(handler[c])
    BY <1>1 DEF Safe, Fails, Sets, Plays, Tails, Pending
  <2>2. SameHandlers
    BY <1>1, <1>2, <2>1, SafeTurns
  <2>3. \A d \in Conn : Used(d)' = Used(d)
    BY <1>1 DEF Used
  <2>4. QED BY <1>1, <2>2, <2>3, UsedIs, HandlerIs, QuotasStay DEF auth
<1>11. QED BY <1>6, <1>7, <1>8, <1>9, <1>10 DEF Inv

LEMMA Disconnects ==
    ASSUME Inv, NEW gone, Disconnect(gone)
    PROVE  /\ active' \in Seq(Conn) /\ IsInjective(active') /\ Range(active') = Range(active) \ gone
           /\ authed' = authed \ gone /\ authed' \subseteq Conn
           /\ uid' \in [Conn -> Uid \cup {None}] /\ tail' \in [Conn -> LogTails]
           /\ \A d \in Conn : Used(d)' \in Nat /\ Used(d)' <= Used(d)
           /\ \A d \in Conn : IF d \in gone THEN uid'[d] = None /\ ~tail'[d].on
                              ELSE uid'[d] = uid[d] /\ tail'[d] = tail[d]
<1>1. /\ active \in Seq(Conn) /\ IsInjective(active) /\ authed \subseteq Conn
      /\ uid \in [Conn -> Uid \cup {None}] /\ tail \in [Conn -> LogTails]
  BY DEF Inv, Types, ConnTypes
<1>2. /\ active' \in Seq(Conn) /\ IsInjective(active') /\ Range(active') = Range(active) \ gone
      /\ authed' = authed \ gone /\ authed' \subseteq Conn
  BY <1>1, WithoutIs DEF Disconnect
<1>3. uid' \in [Conn -> Uid \cup {None}]
      /\ \A d \in Conn : uid'[d] = IF d \in gone THEN None ELSE uid[d]
  BY <1>1 DEF Disconnect
<1>4. ASSUME NEW d \in Conn
      PROVE  /\ CancelTail(d) \in LogTails /\ ~CancelTail(d).on
             /\ CancelTail(d).dying + Num(CancelTail(d).on) = Used(d)
  <2>1. tail[d].on \in BOOLEAN /\ tail[d].dying \in Nat /\ tail[d] \in LogTails
    BY <1>1 DEF LogTails
  <2>2. CASE tail[d].on
    <3>1. CancelTail(d) = [on |-> FALSE, dying |-> tail[d].dying + 1]
      BY <2>2 DEF CancelTail
    <3>2. FALSE \in BOOLEAN /\ tail[d].dying + 1 \in Nat
      BY <2>1
    <3>3. QED BY <2>1, <2>2, <3>1, <3>2 DEF LogTails, Used, Num
  <2>3. CASE ~tail[d].on
    BY <2>1, <2>3 DEF CancelTail, Used
  <2>4. QED BY <2>2, <2>3
<1>5. /\ tail' \in [Conn -> LogTails]
      /\ \A d \in Conn : tail'[d] = IF d \in gone THEN CancelTail(d) ELSE tail[d]
  BY <1>1, <1>4 DEF Disconnect
<1>6. ASSUME NEW d \in Conn PROVE Used(d)' \in Nat /\ Used(d)' <= Used(d)
  <2>1. Used(d)' = Used(d)
    BY <1>4, <1>5 DEF Used
  <2>2. QED BY <2>1, UsedIs
<1>7. QED BY <1>2, <1>3, <1>4, <1>5, <1>6

LEMMA HangupKeeps ==
    ASSUME Inv, NEW c \in Conn, Hangup(c)
    PROVE  Inv'
<1> DEFINE h == [New EXCEPT !.pc = "ended"]
<1>1. /\ handler[c].pc \in {"loop", "reply"} /\ Disconnect({c})
      /\ view' = [view EXCEPT ![c] = 0] /\ handler' = [handler EXCEPT ![c] = h]
      /\ rlLock' \in Conn \cup {None}
      /\ UNCHANGED <<tries, sessions, accounts, version, publisher, chats, lost, happened>>
  BY FrameIs DEF Hangup
<1>2. h \in Handler(Len(sessions)) /\ h.pc = "ended"
  <2>1. New \in Handler(Len(sessions)) /\ "ended" \in Pcs
    BY FormsAreTyped, HandlerIs DEF Pcs
  <2>2. QED BY <2>1 DEF Handler
<1> HIDE DEF h
<1>3. handler'[c] = h /\ \A d \in Conn \ {c} : handler'[d] = handler[d]
  BY <1>1, HandlerIs
<1>4. Types'
  <2>1. ConnTypes'
    BY <1>1, Disconnects DEF Inv, Types, ConnTypes
  <2>2. AuthTypes'
    BY <1>1, AuthStays
  <2>3. HandlerTypes'
    BY <1>1, <1>2, HandlerIs DEF HandlerTypes
  <2>4. NewsTypes'
    BY <1>1 DEF Inv, Types, NewsTypes
  <2>5. QED BY <2>1, <2>2, <2>3, <2>4 DEF Types
<1>5. Fresh'
  BY <1>1, <1>2, <1>3, Disconnects DEF Inv, Fresh, At
<1>6. NothingLeaks'
  BY <1>1, <1>3, Disconnects DEF Inv, NothingLeaks, At
<1>7. ViewConverges'
  <2>1. view \in [Conn -> Nat]
    BY DEF Inv, Types, NewsTypes
  <2>2. QED BY <1>1, <2>1, Disconnects DEF Inv, ViewConverges
<1>8. Quotas'
  <2>1. Safe(handler[c]) /\ Safe(h)
    BY <1>1, <1>2 DEF Safe, Fails, Sets, Plays, Tails, Pending
  <2>2. SameHandlers
    BY <1>1, <2>1, SafeTurns
  <2>3. QED BY <1>1, <2>2, Disconnects, HandlerIs, QuotasStay
<1>9. QED BY <1>4, <1>5, <1>6, <1>7, <1>8 DEF Inv

LEMMA LoseKeeps ==
    ASSUME Inv, NEW c \in Conn, Lose(c)
    PROVE  Inv'
<1>1. lost' = lost \cup {c} /\ UNCHANGED <<auth, conns, news, chats, handler>> /\ Happens
  BY DEF Lose
<1>2. happened' = happened + 1 /\ happened' \in 0 .. MaxEvents
  BY <1>1, HandlerIs, HubAssumption DEF Happens
<1>3. Types'
  <2>1. ConnTypes' /\ AuthTypes' /\ HandlerTypes'
    BY <1>1, AuthStays, FrameIs
    DEF conns, auth, Inv, Types, ConnTypes, HandlerTypes
  <2>2. NewsTypes'
    BY <1>1, <1>2 DEF news, Inv, Types, NewsTypes
  <2>3. QED BY <2>1, <2>2 DEF Types
<1>4. Fresh' /\ NothingLeaks' /\ ViewConverges'
  BY <1>1 DEF Inv, Fresh, NothingLeaks, ViewConverges, At, conns, news
<1>5. Quotas'
  <2>1. \A d \in Conn : Used(d)' = Used(d)
    BY <1>1 DEF Used, conns
  <2>2. QED BY <1>1, <1>2, <2>1, NoTurn, UsedIs, HandlerIs, QuotasStay DEF auth, news
<1>6. QED BY <1>3, <1>4, <1>5 DEF Inv

LEMMA TailEndsKeeps ==
    ASSUME Inv, NEW c \in Conn, TailEnds(c)
    PROVE  Inv'
<1>1. UNCHANGED <<auth, active, authed, uid, news, chats, handler, lost, happened>>
  BY DEF TailEnds
<1>2. tail \in [Conn -> LogTails] /\ tail[c].on \in BOOLEAN /\ tail[c].dying \in Nat
  BY DEF Inv, Types, ConnTypes, LogTails
<1>3. PICK new \in LogTails : /\ tail' = [tail EXCEPT ![c] = new]
                              /\ new.on => tail[c].on
                              /\ new.dying + Num(new.on) <= Used(c)
  <2>1. ASSUME NEW t \in LogTails, NEW b \in BOOLEAN
        PROVE  /\ [t EXCEPT !.on = b] \in LogTails
               /\ [t EXCEPT !.on = b].on = b /\ [t EXCEPT !.on = b].dying = t.dying
    BY DEF LogTails
  <2>2. CASE tail[c].on /\ tail' = [tail EXCEPT ![c].on = FALSE]
    <3> DEFINE new == [tail[c] EXCEPT !.on = FALSE]
    <3>1. tail' = [tail EXCEPT ![c] = new]
      BY <2>2
    <3>2. new \in LogTails /\ ~new.on /\ new.dying = tail[c].dying
      BY <1>2, <2>1
    <3> HIDE DEF new
    <3>3. new.dying + Num(new.on) <= Used(c)
      BY <1>2, <2>2, <3>2 DEF Used, Num
    <3>4. QED BY <3>1, <3>2, <3>3
  <2>3. CASE tail[c].dying > 0 /\ tail' = [tail EXCEPT ![c].dying = @ - 1]
    <3> DEFINE n == tail[c].dying - 1
               new == [tail[c] EXCEPT !.dying = n]
    <3>1. tail' = [tail EXCEPT ![c] = new]
      BY <2>3
    <3>2. n \in Nat /\ n <= tail[c].dying
      BY <1>2, <2>3
    <3> HIDE DEF n
    <3>3. new \in LogTails /\ new.on = tail[c].on /\ new.dying = n
      BY <1>2, <3>2 DEF LogTails
    <3> HIDE DEF new
    <3>4. new.dying + Num(new.on) <= Used(c)
      BY <1>2, <3>2, <3>3, NumIs DEF Used
    <3>5. QED BY <3>1, <3>3, <3>4
  <2>4. CASE tail[c].dying > 0 /\ tail' = [tail EXCEPT ![c] = [CancelTail(c) EXCEPT !.dying = @ - 1]]
    <3> DEFINE old == CancelTail(c)
               n == old.dying - 1
               new == [old EXCEPT !.dying = n]
    <3>1. tail' = [tail EXCEPT ![c] = new]
      BY <2>4
    <3>2. old \in LogTails /\ ~old.on /\ n \in Nat /\ n <= Used(c)
      <4>1. CASE tail[c].on
        <5>1. old = [on |-> FALSE, dying |-> tail[c].dying + 1]
          BY <4>1 DEF CancelTail
        <5>2. FALSE \in BOOLEAN /\ tail[c].dying + 1 \in Nat
          BY <1>2
        <5>3. old \in LogTails /\ ~old.on /\ old.dying = tail[c].dying + 1
          BY <5>1, <5>2 DEF LogTails
        <5>4. QED BY <1>2, <4>1, <5>3 DEF Used, Num
      <4>2. CASE ~tail[c].on
        <5>1. old = tail[c]
          BY <4>2 DEF CancelTail
        <5>2. QED BY <1>2, <2>4, <4>2, <5>1 DEF Used, Num
      <4>3. QED BY <4>1, <4>2
    <3> HIDE DEF old, n
    <3>3. new \in LogTails /\ ~new.on /\ new.dying = n
      BY <3>2 DEF LogTails
    <3> HIDE DEF new
    <3>4. new.dying + Num(new.on) <= Used(c)
      BY <3>2, <3>3 DEF Num
    <3>5. QED BY <3>1, <3>3, <3>4
  <2>5. QED BY <2>2, <2>3, <2>4 DEF TailEnds
<1>4. /\ tail' \in [Conn -> LogTails] /\ tail'[c] = new
      /\ \A d \in Conn \ {c} : tail'[d] = tail[d]
  BY <1>2, <1>3 DEF LogTails
<1>5. Types'
  BY <1>1, <1>4, AuthStays, FrameIs
  DEF Inv, Types, ConnTypes, HandlerTypes, NewsTypes, auth, news
<1>6. Fresh' /\ ViewConverges'
  BY <1>1 DEF Inv, Fresh, ViewConverges, At, news
<1>7. NothingLeaks'
  BY <1>1, <1>3, <1>4 DEF Inv, NothingLeaks, At
<1>8. Quotas'
  <2>1. \A d \in Conn : Used(d)' \in Nat /\ Used(d)' <= Used(d)
    <3>1. Used(c)' = new.dying + Num(new.on)
      BY <1>4 DEF Used
    <3>2. \A d \in Conn \ {c} : Used(d)' = Used(d)
      BY <1>4 DEF Used
    <3>3. new.dying + Num(new.on) \in Nat
      BY <1>3, NumIs DEF LogTails
    <3>4. QED BY <1>3, <3>1, <3>2, <3>3, UsedIs
  <2>2. QED BY <1>1, <2>1, NoTurn, HandlerIs, QuotasStay DEF auth, news
<1>9. QED BY <1>5, <1>6, <1>7, <1>8 DEF Inv

PublisherTypes == publisher \in [Conn \cup {Player} -> Broadcasts]

LEMMA BroadcastKeeps ==
    ASSUME Inv, NEW p \in Conn \cup {Player}, Broadcast(p)
    PROVE  Inv'
<1> DEFINE b == [pc |-> "sent", to |-> Receivers \ lost, dead |-> Receivers \cap lost]
<1>1. /\ view' = [c \in Conn |-> IF c \in Receivers \ lost THEN version ELSE view[c]]
      /\ publisher' = [publisher EXCEPT ![p] = b]
      /\ UNCHANGED <<auth, conns, version, chats, handler, lost, happened>>
  BY DEF Broadcast
<1>2. Receivers \subseteq Conn /\ Receivers = Range(active) /\ PublisherTypes
  BY DEF Receivers, Range, Inv, Types, ConnTypes, NewsTypes, PublisherTypes
<1>3. PublisherTypes'
  <2>1. b \in Broadcasts
    BY <1>2 DEF Broadcasts
  <2> HIDE DEF b
  <2>2. QED BY <1>1, <1>2, <2>1 DEF PublisherTypes
<1> HIDE DEF b
<1>4. Types'
  <2>1. ConnTypes' /\ AuthTypes' /\ HandlerTypes'
    BY <1>1, AuthStays, FrameIs
    DEF conns, auth, Inv, Types, ConnTypes, HandlerTypes
  <2>2. NewsTypes'
    <3>1. \A c \in Conn : view[c] \in Nat /\ view[c] <= version
      BY DEF Inv, Types, NewsTypes
    <3>2. version \in Nat
      BY DEF Inv, Types, NewsTypes
    <3>3. QED BY <1>1, <1>3, <3>1, <3>2 DEF Inv, Types, NewsTypes, PublisherTypes
  <2>3. QED BY <2>1, <2>2 DEF Types
<1>5. Fresh' /\ NothingLeaks'
  BY <1>1 DEF Inv, Fresh, NothingLeaks, At, conns
<1>6. ViewConverges'
  BY <1>1, <1>2 DEF ViewConverges, conns
<1>7. Quotas'
  <2>1. \A d \in Conn : Used(d)' = Used(d)
    BY <1>1 DEF Used, conns
  <2>2. version \in Nat /\ happened \in Nat
    BY DEF Inv, Types, NewsTypes
  <2>3. QED BY <1>1, <2>1, <2>2, NoTurn, UsedIs, QuotasStay DEF auth
<1>8. QED BY <1>4, <1>5, <1>6, <1>7 DEF Inv

LEMMA BroadcastDoneKeeps ==
    ASSUME Inv, NEW p \in Conn \cup {Player}, BroadcastDone(p)
    PROVE  Inv'
<1>1. PICK late \in SUBSET (publisher[p].to \cap lost) : Disconnect(publisher[p].dead \cup late)
  BY DEF BroadcastDone
<1> DEFINE gone == publisher[p].dead \cup late
<1>2. /\ publisher[p].pc = "sent" /\ Disconnect(gone)
      /\ publisher' = [publisher EXCEPT ![p] = NoNews]
      /\ UNCHANGED <<auth, version, view, chats, handler, lost, happened>>
  BY <1>1 DEF BroadcastDone
<1> HIDE DEF gone
<1>3. PublisherTypes
  BY DEF Inv, Types, NewsTypes, PublisherTypes
<1>4. NoNews \in Broadcasts /\ NoNews.pc = "none"
  BY DEF NoNews, Broadcasts
<1>5. PublisherTypes' /\ \A q \in Conn \cup {Player} :
          publisher[q].pc = "made" => publisher'[q].pc = "made"
  BY <1>2, <1>3, <1>4 DEF PublisherTypes
<1>6. Types'
  <2>1. ConnTypes'
    BY <1>2, Disconnects DEF Inv, Types, ConnTypes
  <2>2. AuthTypes' /\ HandlerTypes'
    BY <1>2, AuthStays, FrameIs DEF auth, Inv, Types, HandlerTypes
  <2>3. NewsTypes'
    BY <1>2, <1>5 DEF Inv, Types, NewsTypes, PublisherTypes
  <2>4. QED BY <2>1, <2>2, <2>3 DEF Types
<1>7. Fresh'
  BY <1>2, Disconnects DEF Inv, Fresh, At
<1>8. NothingLeaks'
  BY <1>2, Disconnects DEF Inv, NothingLeaks, At
<1>9. ViewConverges'
  <2>1. DOMAIN publisher = Conn \cup {Player} /\ DOMAIN publisher' = Conn \cup {Player}
    BY <1>3, <1>5 DEF PublisherTypes
  <2>2. QED BY <1>2, <1>5, <2>1, Disconnects DEF Inv, ViewConverges
<1>10. Quotas'
  <2>1. version \in Nat /\ happened \in Nat
    BY DEF Inv, Types, NewsTypes
  <2>2. QED BY <1>2, <2>1, Disconnects, NoTurn, QuotasStay DEF auth
<1>11. QED BY <1>6, <1>7, <1>8, <1>9, <1>10 DEF Inv

LEMMA PlayerPublishesKeeps ==
    ASSUME Inv, PlayerPublishes
    PROVE  Inv'
<1>1. /\ version' = version + 1 /\ Publish(Player) /\ Happens
      /\ UNCHANGED <<auth, conns, view, chats, handler, lost>>
  BY DEF PlayerPublishes
<1>2. /\ PublisherTypes' /\ publisher'[Player].pc = "made"
      /\ DOMAIN publisher' = Conn \cup {Player}
  BY <1>1, Publishes DEF PublisherTypes
<1>3. /\ version \in Nat /\ happened \in Nat
      /\ happened' = happened + 1 /\ happened' \in 0 .. MaxEvents
  BY <1>1, HubAssumption DEF Happens, Inv, Types, NewsTypes
<1>4. Types'
  <2>1. ConnTypes' /\ AuthTypes' /\ HandlerTypes'
    BY <1>1, AuthStays, FrameIs
    DEF conns, auth, Inv, Types, ConnTypes, HandlerTypes
  <2>2. NewsTypes'
    BY <1>1, <1>2, <1>3 DEF Inv, Types, NewsTypes, PublisherTypes
  <2>3. QED BY <2>1, <2>2 DEF Types
<1>5. Fresh' /\ NothingLeaks'
  BY <1>1 DEF Inv, Fresh, NothingLeaks, At, conns
<1>6. ViewConverges'
  BY <1>2 DEF ViewConverges
<1>7. Quotas'
  <2>1. \A d \in Conn : Used(d)' = Used(d)
    BY <1>1 DEF Used, conns
  <2>2. QED BY <1>1, <1>3, <2>1, NoTurn, UsedIs, QuotasStay DEF auth
<1>8. QED BY <1>4, <1>5, <1>6, <1>7 DEF Inv

-----------------------------------------------------------------------------
(* The theorems.                                                            *)

LEMMA InitInv == Init => Inv
<1> SUFFICES ASSUME Init PROVE Inv
  OBVIOUS
<1>1. \A c \in Conn : handler[c] = New
  BY DEF Init
<1>2. Range(<<>>) = {} /\ IsInjective(<<>>)
  BY DEF Range, IsInjective
<1>3. ConnTypes
  <2>1. [on |-> FALSE, dying |-> 0] \in LogTails
    BY DEF LogTails
  <2>2. QED BY <1>2, <2>1 DEF Init, ConnTypes
<1>4. AuthTypes
  <2>1. ASSUME NEW u \in Username PROVE <<u>> \in Seq(Username) /\ IsInjective(<<u>>)
    BY DEF IsInjective
  <2>2. accounts \in Seq(Username) /\ IsInjective(accounts)
    <3>1. accounts = <<>> \/ \E u \in Username : accounts = <<u>>
      BY DEF Init
    <3>2. <<>> \in Seq(Username)
      OBVIOUS
    <3>3. QED BY <1>2, <2>1, <3>1, <3>2
  <2>3. sessions \in Seq(BOOLEAN)
    BY DEF Init
  <2>4. QED BY <2>2, <2>3, HubAssumption DEF Init, AuthTypes
<1>5. HandlerTypes
  BY <1>4, FormsAreTyped DEF Init, HandlerTypes, AuthTypes
<1>6. NewsTypes
  <2>1. NoNews \in Broadcasts
    BY DEF NoNews, Broadcasts
  <2>2. QED BY <2>1, HubAssumption DEF Init, NewsTypes
<1>7. Fresh /\ NothingLeaks /\ ViewConverges
  BY <1>1, <1>2 DEF Init, Fresh, NothingLeaks, ViewConverges, At, New
<1>8. Quotas
  <2>1. Safe(New)
    BY DEF Safe, Fails, Sets, Plays, Tails, Pending, New
  <2>2. Failing = {} /\ Setting = {} /\ Playing = {}
    BY <1>1, <2>1 DEF Failing, Setting, Playing, Safe
  <2>3. Cardinality({}) = 0 /\ Cardinality(Conn) \in Nat
    BY FS_EmptySet, ConnIsFinite
  <2>4. LoginQuota /\ SetupQuota /\ NewsQuota
    BY <2>2, <2>3, HubAssumption DEF Init, LoginQuota, SetupQuota, NewsQuota
  <2>5. TailQuota
    BY <1>1, <2>1 DEF Init, TailQuota, Used, Num, Safe
  <2>6. QED BY <2>4, <2>5 DEF Quotas
<1>9. QED BY <1>3, <1>4, <1>5, <1>6, <1>7, <1>8 DEF Inv, Types

LEMMA HandlerStepKeeps ==
    ASSUME Inv, NEW c \in Conn, HandlerStep(c)
    PROVE  Inv'
<1>1. Counts \subseteq Nat
  BY DEF Counts
<1>2. CASE \/ Replied(c) \/ ExtendSession(c) \/ TokenAccepted(c) \/ Rehash(c)
           \/ UpdatePassword(c) \/ LoggedOut(c) \/ AllLoggedOut(c)
           \/ Answer(c) \/ Executed(c) \/ GetRecentMessages(c) \/ AddMessage(c)
  BY <1>2, PlainTurns
<1>3. CASE \E expired \in BOOLEAN : VerifySession(c, expired)
  BY <1>3, VerifySessionKeeps
<1>4. CASE CreateSession(c) \/ LoginSucceeded(c)
  BY <1>4, CreateSessionKeeps, LoginSucceededKeeps
<1>5. CASE \E n \in Counts : GetAdminAccount(c, n) \/ Reject(c, n)
  BY <1>1, <1>5, GetAdminAccountKeeps, RejectKeeps
<1>6. CASE \E n \in Counts : CheckSetup(c, n) \/ FinishSetup(c, n)
  BY <1>1, <1>6, CheckSetupKeeps, FinishSetupKeeps
<1>7. CASE \E n \in Counts : CheckRateLimit(c, n) \/ CheckChatRateLimit(c, n)
  BY <1>1, <1>7, CheckRateLimitKeeps, CheckChatRateLimitKeeps
<1>8. CASE AccountExists(c) \/ \E u \in Username : CreateAdminAccount(c, u)
  BY <1>8, AccountExistsKeeps, CreateAdminAccountKeeps
<1>9. CASE Execute(c) \/ SendChat(c) \/ LogTail(c)
  BY <1>9, ExecuteKeeps, SendChatKeeps, LogTailKeeps
<1>10. CASE \E u, target \in Uid \cup {None} : Chat(c, u, target)
  BY <1>10, ChatKeeps
<1>11. QED
  BY <1>2, <1>3, <1>4, <1>5, <1>6, <1>7, <1>8, <1>9, <1>10 DEF HandlerStep

LEMMA StutterKeeps == Inv /\ UNCHANGED vars => Inv'
<1> SUFFICES ASSUME Inv, UNCHANGED vars PROVE Inv'
  OBVIOUS
<1>1. /\ UNCHANGED <<rlLock, tries, sessions, accounts, active, authed, uid, tail>>
      /\ UNCHANGED <<version, view, publisher, chats, handler, lost, happened>>
  BY DEF vars, auth, conns, news
<1>2. Types'
  BY <1>1 DEF Inv, Types, ConnTypes, AuthTypes, HandlerTypes, NewsTypes
<1>3. Fresh' /\ NothingLeaks' /\ ViewConverges'
  BY <1>1 DEF Inv, Fresh, NothingLeaks, ViewConverges, At
<1>4. Quotas'
  <2>1. \A d \in Conn : Used(d)' = Used(d)
    BY <1>1 DEF Used
  <2>2. version \in Nat /\ happened \in Nat
    BY DEF Inv, Types, NewsTypes
  <2>3. QED BY <1>1, <2>1, <2>2, NoTurn, UsedIs, QuotasStay
<1>5. QED BY <1>2, <1>3, <1>4 DEF Inv

LEMMA NextKeeps == Inv /\ [Next]_vars => Inv'
<1> SUFFICES ASSUME Inv, [Next]_vars PROVE Inv'
  OBVIOUS
<1>1. ASSUME NEW c \in Conn, Request(c) PROVE Inv'
  <2>1. CASE \E t \in 0 .. Len(sessions) : AskAuth(c, t)
    BY <2>1, AskAuthKeeps
  <2>2. CASE Logout(c) \/ LogoutAll(c)
    BY <2>2, LogoutKeeps, LogoutAllKeeps
  <2>3. CASE Message(c, "setup", "none") \/ \E kind \in Commands \cup Chats : Message(c, "limit", kind)
    BY <2>3, MessageKeeps
  <2>4. QED BY <1>1, <2>1, <2>2, <2>3 DEF Request
<1>2. ASSUME NEW c \in Conn, Open(c) \/ Lose(c) \/ Hangup(c) \/ HandlerStep(c) \/ TailEnds(c)
      PROVE  Inv'
  BY <1>2, OpenKeeps, LoseKeeps, HangupKeeps, HandlerStepKeeps, TailEndsKeeps
<1>3. ASSUME NEW p \in Conn \cup {Player}, Broadcast(p) \/ BroadcastDone(p) PROVE Inv'
  BY <1>3, BroadcastKeeps, BroadcastDoneKeeps
<1>4. QED BY <1>1, <1>2, <1>3, PlayerPublishesKeeps, StutterKeeps DEF Next

(* Whatever the handlers, the broadcasts, the log tails and the peers do,   *)
(* and in whatever order, the maps of the manager, the tables and the       *)
(* counters stay as Inv says: what is still to come of each handler has its *)
(* place below every bound.                                                 *)
THEOREM HubInvariant == Spec => []Inv
BY InitInv, NextKeeps, PTL DEF Spec

(* Failed logins and setups never exceed the limit by more than one for     *)
(* each further connection (handle_auth and handle_setup_admin count a      *)
(* failure under rl_lock but decide on the limit before the password is     *)
(* looked at), the admin accounts keep different names, and every map keeps *)
(* to connections there are.                                                *)
THEOREM HubTypes == Spec => []TypeOK
<1>1. Inv => TypeOK
  <2> SUFFICES ASSUME Inv PROVE TypeOK
    OBVIOUS
  <2>1. /\ Cardinality(Conn) \in Nat /\ MaxAttempts \in Nat \ {0} /\ MaxEvents \in Nat
        /\ Cardinality(Failing) \in Nat /\ Cardinality(Setting) \in Nat
        /\ Cardinality(Playing) \in Nat
    BY SetsAre, ConnIsFinite, HubAssumption
  <2>2. /\ tries.login \in 0 .. MaxAttempts + Cardinality(Conn) - 1
        /\ tries.setup \in 0 .. MaxAttempts + Cardinality(Conn) - 1
        /\ tries.command \in 0 .. MaxCommands
    BY SMTT(30), <2>1 DEF Inv, Types, AuthTypes, Quotas, LoginQuota, SetupQuota
  <2>3. version \in 0 .. MaxEvents /\ view \in [Conn -> 0 .. MaxEvents]
    BY <2>1 DEF Inv, Types, NewsTypes, Quotas, NewsQuota
  <2>4. tail \in [Conn -> [on : BOOLEAN, dying : 0 .. MaxEvents]]
    <3>1. tail \in [Conn -> LogTails] /\ happened \in 0 .. MaxEvents
      BY DEF Inv, Types, ConnTypes, NewsTypes
    <3>2. ASSUME NEW c \in Conn PROVE tail[c] \in [on : BOOLEAN, dying : 0 .. MaxEvents]
      <4>1. tail[c] \in LogTails /\ tail[c].dying \in Nat
        BY <3>1 DEF LogTails
      <4>2. Used(c) + Num(Tails(handler[c])) <= happened
        BY DEF Inv, Quotas, TailQuota
      <4>3. tail[c].dying <= MaxEvents
        BY <2>1, <3>1, <4>1, <4>2 DEF Used, Num
      <4>4. QED BY <2>1, <4>1, <4>3 DEF LogTails
    <3>3. QED BY <3>1, <3>2
  <2>5. handler \in [Conn -> [pc : Pcs, kind : Commands \cup Chats \cup {"none"}, ok : BOOLEAN,
                              token : DOMAIN sessions \cup {0}, admin : BOOLEAN,
                              to : Uid \cup {None}, at : 1 .. Cardinality(Conn) + 1]]
    <3>1. DOMAIN sessions \cup {0} = 0 .. Len(sessions)
      BY DEF Inv, Types, AuthTypes
    <3>2. QED BY <3>1 DEF Inv, Types, HandlerTypes, Handler
  <2>6. Range(active) \subseteq Conn /\ Range(accounts) \subseteq Username
    BY DEF Inv, Types, ConnTypes, AuthTypes, Range
  <2>7. QED
    BY <2>2, <2>3, <2>4, <2>5, <2>6
    DEF TypeOK, Inv, Types, ConnTypes, AuthTypes, NewsTypes, Broadcasts
<1>2. QED BY <1>1, HubInvariant, PTL

(* disconnect leaves nothing behind, whoever calls it first and whatever    *)
(* the handler of the connection did in between.                            *)
THEOREM NothingIsLeaked == Spec => []NothingLeaks
<1>1. Inv => NothingLeaks
  BY DEF Inv
<1>2. QED BY <1>1, HubInvariant, PTL

(* Every client that is connected shows the latest state of the player once *)
(* the broadcasts that were owed are out.                                   *)
THEOREM ViewsConverge == Spec => []ViewConverges
<1>1. Inv => ViewConverges
  BY DEF Inv
<1>2. QED BY <1>1, HubInvariant, PTL
=============================================================================
