------------------------------ MODULE Patchlog ------------------------------
(***************************************************************************)
(* docs/PATCHLOG.md and the tool that keeps it, automation/patchlog.py:    *)
(* the parser of its entries, `add`, `verify`, and the check of the log    *)
(* that verify_docs makes on every commit.  The file is a front matter     *)
(* (latest, total) and a body of lines.  A line is kept only as far as the *)
(* tools tell lines apart: an entry's heading, a field, a lone "---" with  *)
(* or without a blank line after it, or prose.  Every `add` is a process   *)
(* of its own; people edit the file by hand as well, and any `add` may be  *)
(* killed between two steps.                                               *)
(***************************************************************************)
EXTENDS Naturals, Sequences, FiniteSets, SequencesExt

CONSTANTS Writers,      \* concurrent runs of `patchlog.py add`
          LastNumber,   \* the largest number three digits can write (999)
          MaxDay,       \* bound: the days that pass
          MaxEntries    \* bound: headings in the log

ASSUME LogBounds == /\ LastNumber \in Nat
                    /\ MaxDay \in Nat \ {0}
                    /\ MaxEntries \in Nat \ {0}

VARIABLES log,       \* docs/PATCHLOG.md
          today,     \* date.today()
          writer,    \* each run of `add`: its step and its local variables
          disturbed, \* the runs whose log somebody else wrote since they read it
          past,      \* history: the headings the log has ever held,
          raced,     \* those of them that came while another run was at work,
          torn       \* and whether a run was killed with the file emptied

fate    == <<past, raced, torn>>
logVars == <<log, today, writer, disturbed, fate>>

-----------------------------------------------------------------------------
(* The lines of the file *)

Rule      == [k |-> "rule", blank |-> TRUE]
TightRule == [k |-> "rule", blank |-> FALSE]
Prose     == [k |-> "prose"]
EntryHead(id)  == [k |-> "head", id |-> id]
Field(name, value) == [k |-> "field", name |-> name, value |-> value]

NoId  == [day |-> 0, n |-> 0]
Types == {"Feature", "Unclassified"}

\* IDs are compared as strings: the date first, then the three digits.
Newer(a, b) == a.day > b.day \/ (a.day = b.day /\ a.n > b.n)

\* write_text opens the file for writing, which empties it, before it writes; what
\* it writes is taken to replace the file as a whole.
Emptied == [front |-> FALSE, latest |-> NoId, total |-> 0, body |-> <<>>]

\* The n-th smallest of a set of places, and what a text has at some places.
Nth(places, n)    == CHOOSE i \in places : Cardinality({j \in places : j <= i}) = n
Only(seq, places) == [n \in 1..Cardinality(places) |-> seq[Nth(places, n)]]

\* ENTRY_HEADING_RE.findall: a number of four digits is no heading.
IsHeading(line) == line.k = "head" /\ line.id.n <= LastNumber
Headings(body)  == LET found == Only(body, {i \in DOMAIN body : IsHeading(body[i])})
                   IN [i \in DOMAIN found |-> found[i].id]
IdsIn(body)     == Range(Headings(body))

-----------------------------------------------------------------------------
(* Parsing *)

\* How many rules are above a line.
RulesAbove(body, i) == Cardinality({j \in 1..(i - 1) : body[j].k = "rule"})

SplitIntoChunks(body) ==
  [c \in 1..(1 + RulesAbove(body, Len(body) + 1)) |->
     Only(body, {i \in DOMAIN body : body[i].k # "rule" /\ RulesAbove(body, i) = c - 1})]

\* The values a chunk gives a field, the last of which parse_entry_fields keeps.
FieldLines(chunk, name) ==
  Only(chunk, {i \in DOMAIN chunk : chunk[i].k = "field" /\ chunk[i].name = name})
HasField(chunk, name)   == FieldLines(chunk, name) # <<>>
ValueOf(chunk, name)    == Last(FieldLines(chunk, name)).value

IsEntry(chunk) == /\ Headings(chunk) # <<>>
                  /\ HasField(chunk, "Tanggal")
                  /\ HasField(chunk, "Changed Files")

ParseEntries(body) ==
  LET all    == SplitIntoChunks(body)
      chunks == Only(all, {c \in DOMAIN all : IsEntry(all[c])})
  IN  [i \in DOMAIN chunks |-> [id    |-> Headings(chunks[i])[1],
                                files |-> ValueOf(chunks[i], "Changed Files")]]

ParsedIds(body) == {e.id : e \in Range(ParseEntries(body))}

\* verify(): every heading has a parsed entry, every enum field a legal value.
Unparsed(body) == IdsIn(body) \ ParsedIds(body)

InvalidEnum(body) ==
  {chunk \in Range(SplitIntoChunks(body)) :
     /\ Headings(chunk) # <<>>
     /\ HasField(chunk, "Type")
     /\ ValueOf(chunk, "Type") \notin Types}

VerifyOk(body) == Unparsed(body) = {} /\ InvalidEnum(body) = {}

-----------------------------------------------------------------------------
(* verify_docs: the state of the log as the commit hook sees it *)

Duplicates(ids) == {ids[i] : i \in {j \in DOMAIN ids : \E h \in 1..(j - 1) : ids[h] = ids[j]}}
Descending(ids) == \A i \in 1..(Len(ids) - 1) : ~Newer(ids[i + 1], ids[i])
Ascending(ids)  == \A i \in 1..(Len(ids) - 1) : ~Newer(ids[i], ids[i + 1])

CheckPatchlog(text) ==
  LET ids    == Headings(text.body)
      newest == IF Descending(ids) THEN ids[1] ELSE Last(ids)
  IN  IF ids = <<>> THEN "WARN"
      ELSE IF Duplicates(ids) # {} THEN "FAIL"
      ELSE IF ~VerifyOk(text.body)
           THEN IF Unparsed(text.body) # {} THEN "FAIL" ELSE "WARN"
      ELSE IF \/ ~Ascending(ids) /\ ~Descending(ids)
              \/ ~text.front
              \/ text.latest # newest
           THEN "WARN" ELSE "PASS"

-----------------------------------------------------------------------------
(* add *)

\* Mutant of NextNumber: the entries that could be parsed are counted.
NextByCount(body) == 1 + Len(ParseEntries(body))

\* The next number is one more than the largest of ALL headings, parsed or not.
NextNumber(body) == IF IdsIn(body) = {} THEN 1
                    ELSE 1 + CHOOSE n \in {id.n : id \in IdsIn(body)} :
                               \A id \in IdsIn(body) : id.n <= n

NextId(body) == [day |-> today, n |-> NextNumber(body)]

\* A long field is the author's text: it may hold a lone "---" itself.
Solution(ruled) == <<Field("Solution", "text")>> \o (IF ruled THEN <<Rule, Prose>> ELSE <<>>)

RenderEntry(id, e) ==
  <<EntryHead(id), Field("Tanggal", "date"), Field("Type", e.type)>>
    \o Solution(e.ruled)
    \o <<Field("Changed Files", e.files), Field("Notes", "text")>>

\* The first "---" with a blank line after it that follows the front matter.
Marker(body) == SelectInSeq(body, LAMBDA l: l = Rule)

\* Mutant of WithEntry: what follows the notice is taken from one line too low.
WithEntryTooLow(text, id, block) ==
  LET at   == Marker(text.body)
      body == SubSeq(text.body, 1, at) \o block \o <<Rule>>
                \o SubSeq(text.body, at + 2, Len(text.body))
  IN  [text EXCEPT !.body = body, !.latest = id, !.total = Len(Headings(body))]

\* The entry goes on top, right after the notice; the front matter follows.
WithEntry(text, id, block) ==
  LET at   == Marker(text.body)
      body == SubSeq(text.body, 1, at) \o block \o <<Rule>>
                \o SubSeq(text.body, at + 1, Len(text.body))
  IN  [text EXCEPT !.body = body, !.latest = id, !.total = Len(Headings(body))]

Entries == [type : {"Feature"}, ruled : BOOLEAN, files : {{"a"}}]
NotRunning    == [at |-> "idle"]

\* Everybody but w who is at work on the log finds it changed.
Others(w) == {v \in Writers \ {w} : writer[v] # NotRunning}
Wrote(w)  == disturbed' = disturbed \union Others(w)

\* History: what the log gets, and whether somebody was at work meanwhile.
Remember(others) ==
  /\ past' = past \union IdsIn(log'.body)
  /\ raced' = IF others = {} THEN raced ELSE raced \union (IdsIn(log'.body) \ past)
  /\ UNCHANGED torn

\* add_entry reads the log, ...
ReadLog(w, e) ==
  /\ writer[w] = NotRunning
  /\ Len(Headings(log.body)) < MaxEntries
  /\ writer' = [writer EXCEPT ![w] = [at |-> "read", text |-> log, entry |-> e]]
  /\ disturbed' = disturbed \ {w}
  /\ UNCHANGED <<log, today, fate>>

\* ... _next_id reads it again, before git is asked for branch and commit, ...
Number(w) ==
  /\ writer[w].at = "read"
  /\ writer' = [writer EXCEPT ![w] = [at |-> "numbered", text |-> @.text, entry |-> @.entry,
                                      id |-> NextId(log.body)]]
  /\ UNCHANGED <<log, today, disturbed, fate>>

\* ... a text without the marker ends the run in a ValueError, ...
NoMarker(w) ==
  /\ writer[w].at = "numbered"
  /\ Marker(writer[w].text.body) = 0
  /\ writer' = [writer EXCEPT ![w] = NotRunning]
  /\ UNCHANGED <<log, today, disturbed, fate>>

\* ... otherwise the file is emptied ...
OpenToWrite(w) ==
  LET me == writer[w] IN
  /\ me.at = "numbered"
  /\ Marker(me.text.body) # 0
  /\ log' = Emptied
  /\ writer' = [writer EXCEPT
       ![w] = [at |-> "writing", before |-> me.text, id |-> me.id, entry |-> me.entry,
               text |-> WithEntry(me.text, me.id, RenderEntry(me.id, me.entry))]]
  /\ Wrote(w)
  /\ UNCHANGED <<today, fate>>

\* ... and written.
WriteLog(w) ==
  /\ writer[w].at = "writing"
  /\ log' = writer[w].text
  /\ writer' = [writer EXCEPT ![w] = NotRunning]
  /\ Wrote(w)
  /\ Remember(Others(w))
  /\ UNCHANGED today

AddStep == \E w \in Writers : Number(w) \/ NoMarker(w) \/ OpenToWrite(w) \/ WriteLog(w)

\* A run of `add` is killed where it stands.
KillAdd(w) ==
  /\ writer[w] # NotRunning
  /\ writer' = [writer EXCEPT ![w] = NotRunning]
  /\ torn' = (torn \/ writer[w].at = "writing")
  /\ UNCHANGED <<log, today, disturbed, past, raced>>

-----------------------------------------------------------------------------
(* By hand, and the calendar *)

\* How people write an entry: as the tool does, with no blank line around the
\* rule, with no rule at all, without a field, or with a type of their own.
HandWritten(id, form) ==
  LET whole == RenderEntry(id, [type |-> IF form = "own type" THEN "Oops" ELSE "Feature",
                                ruled |-> FALSE, files |-> {"a"}])
  IN  CASE form = "tight"    -> whole \o <<TightRule>>
        [] form = "glued"    -> whole
        [] form = "no field" -> Only(whole, {i \in DOMAIN whole : whole[i] # Field("Changed Files", {"a"})})
                                  \o <<Rule>>
        [] OTHER             -> whole \o <<Rule>>

Forms == {"tight", "glued", "no field", "own type", "canonical"}

\* The author numbers the entry after the newest one and may forget the front matter.
EditByHand(form, updates) ==
  LET id   == NextId(log.body)
      at   == Marker(log.body)
      body == SubSeq(log.body, 1, at) \o HandWritten(id, form)
                \o SubSeq(log.body, at + 1, Len(log.body))
  IN  /\ at # 0
      /\ Len(Headings(log.body)) < MaxEntries
      /\ log' = IF updates THEN [log EXCEPT !.body = body, !.latest = id,
                                            !.total = Len(Headings(body))]
                ELSE [log EXCEPT !.body = body]
      /\ LET atWork == {v \in Writers : writer[v] # NotRunning}
         IN  disturbed' = disturbed \union atWork /\ Remember(atWork)
      /\ UNCHANGED <<today, writer>>

NextDay == /\ today < MaxDay
           /\ today' = today + 1
           /\ UNCHANGED <<log, writer, disturbed, fate>>

LogInit ==
  /\ log = [front |-> TRUE, latest |-> NoId, total |-> 0, body |-> <<Prose, Rule>>]
  /\ today = 1
  /\ writer = [w \in Writers |-> NotRunning]
  /\ disturbed = {}
  /\ past = {} /\ raced = {} /\ torn = FALSE

\* What somebody sets going, as opposed to a step of what is underway.
LogEvent ==
  \/ \E w \in Writers, e \in Entries : ReadLog(w, e)
  \/ \E w \in Writers : KillAdd(w)
  \/ \E form \in Forms, updates \in BOOLEAN : EditByHand(form, updates)
  \/ NextDay

-----------------------------------------------------------------------------
(* Properties *)

\* Type correctness of the log's variables.
LogTypeOK ==
  /\ log.front \in BOOLEAN /\ log.total \in 0..(MaxEntries + 1)
  /\ today \in 1..MaxDay
  /\ \A w \in Writers : writer[w].at \in {"idle", "read", "numbered", "writing"}
  /\ disturbed \subseteq Writers
  /\ raced \subseteq past /\ torn \in BOOLEAN

(* What overlapping runs of `add` can cost is bounded: a heading that came   *)
(* into the log while no other run was at work on it is never lost, however *)
(* many runs overlap afterwards, each writing back what it has read, and     *)
(* whoever edits by hand meanwhile -- it is in the log, or in what a run     *)
(* that has emptied the file is about to write.  Only what came while        *)
(* another run was underway, and everything when a run dies with the file    *)
(* emptied, may go (patchlog.py:409-410 and 449-456).                        *)
EntriesSurvive ==
  ~torn =>
    LET held == past \ raced
    IN  \/ held \subseteq IdsIn(log.body)
        \/ \E w \in Writers : /\ writer[w].at = "writing"
                             /\ held \subseteq IdsIn(writer[w].text.body)

(* An entry is "immutable once written" (patchlog.py:6-8) and the history is *)
(* "append-only" (docs/INDEX.md:168): when nobody is writing and the check   *)
(* of the log passes, it holds every heading it has ever held.  The code     *)
(* does otherwise: a run writes back the text it read before its number, its *)
(* branch and its commit were looked up, and the check has no memory.        *)
LogOnlyGrows ==
  CheckPatchlog(log) = "PASS" /\ (\A w \in Writers : writer[w].at # "writing")
    => past \subseteq IdsIn(log.body)

(* An `add` that had the log to itself gives its entry a number above every *)
(* heading, also above the entries the parser cannot read, puts it on top,  *)
(* brings latest_patch_id and total_entries into agreement with the body,   *)
(* and takes no other entry away from the readers; its own entry is         *)
(* readable unless the text of a long field holds a lone "---".  All this as *)
(* long as three digits can write the number: a heading with more is none   *)
(* (patchlog.py:90-92, 268-277 and 425-456).                                *)
AddAloneIsExact ==
  [][\A w \in Writers :
       writer[w].at = "writing" /\ writer[w].id.n <= LastNumber /\ w \notin disturbed
       /\ log' = writer[w].text /\ log' # log
         => LET before == writer[w].before.body
                after  == log'.body
                id     == writer[w].id
                own    == IF writer[w].entry.ruled THEN <<>>
                          ELSE <<[id |-> id, files |-> writer[w].entry.files]>>
            IN  /\ Headings(after) = <<id>> \o Headings(before)
                /\ \A other \in IdsIn(before) : other.n < id.n
                /\ log'.latest = id
                /\ log'.total = Len(Headings(after))
                /\ ParseEntries(after) = own \o ParseEntries(before)]_logVars

=============================================================================
