----------------------------- MODULE RepoIndex -----------------------------
(***************************************************************************)
(* The tools that read the source tree of a checkout while people edit it: *)
(* the cached index of its modules (automation/shared/repo_index.py), the  *)
(* generator of docs/FILE_INDEX.md with the checks of its result           *)
(* (generate_file_index.py, shared/generated_block.py, verify_docs), and   *)
(* the lint of the import boundaries (architecture_lint.py).  A file is    *)
(* what the tools extract from it: its time stamp, its imports and what    *)
(* kind of statements it has.  Each run of a tool is a process of its own  *)
(* and may be killed between two steps.                                    *)
(***************************************************************************)
EXTENDS Naturals, Sequences, FiniteSets, SequencesExt

CONSTANTS Files,        \* paths of the .py files the scanners walk over
          LayerOf,      \* the first directory of a path, "root" for none
          BaseName,     \* the last part of a path
          Known,        \* arch_rules.KNOWN_VIOLATIONS: <<file, imported layer>>
          Tools,        \* concurrent runs of the tools
          MaxEdits      \* bound: changes of the tree

ASSUME RepoBounds == /\ LayerOf \in [Files -> STRING]
                     /\ BaseName \in [Files -> STRING]
                     /\ Known \subseteq Files \X STRING
                     /\ MaxEdits \in Nat

VARIABLES disk,    \* the tree: what each path holds now
          edits,   \* changes so far; a file's time stamp is the change that wrote it
          cache,   \* .cache/repo_index.json
          index,   \* docs/FILE_INDEX.md
          tool     \* each run of a tool: its step and its local variables

repoVars == <<disk, edits, cache, index, tool>>

-----------------------------------------------------------------------------
(* The tree *)

Absent == [body |-> "absent"]
IsInit(f)   == BaseName[f] = "__init__.py"
BodiesOf(f) == IF IsInit(f) THEN {"thin", "constant", "defs", "broken"} ELSE {"defs", "broken"}
OnDisk      == {f \in Files : disk[f] # Absent}
Mtimes      == [f \in OnDisk |-> disk[f].mtime]

\* _parse_file: a SyntaxError leaves the entry without classes and imports.
ParseFile(c) ==
  IF c.body = "broken" THEN [imports |-> {}, defs |-> FALSE]
  ELSE [imports |-> c.imports, defs |-> c.body = "defs"]

-----------------------------------------------------------------------------
(* The cached index *)

NoCache == [state |-> "none"]
Torn    == [state |-> "torn"]      \* emptied by write_text and not written yet
Resting   == [at |-> "idle"]

\* _rebuild_reverse_deps looks for "a/b.py": a package has no reverse imports.
ReverseDeps(files) ==
  [f \in DOMAIN files |-> IF IsInit(f) THEN {} ELSE {g \in DOMAIN files : f \in files[g].imports}]

\* The files a load has to parse again.
ToParse(mtimes, force) ==
  IF force \/ cache = NoCache THEN DOMAIN mtimes
  ELSE {f \in DOMAIN mtimes : f \notin DOMAIN cache.mtimes \/ cache.mtimes[f] # mtimes[f]}

\* _load_or_build stats every file first, ...
Walked(force) == [at |-> "stat", mtimes |-> Mtimes, force |-> force]
Loaded(force, files) == [at |-> "loaded", force |-> force, known |-> DOMAIN files]

Stat(t) ==
  /\ tool[t] = Resting
  /\ tool' = [tool EXCEPT ![t] = Walked(FALSE)]
  /\ UNCHANGED <<disk, edits, cache, index>>

\* ... then reads the cache.  A torn one ends the run in a JSONDecodeError; one
\* that matches the tree is returned as it is.
ReadCache(t) ==
  LET me == tool[t]
      redo == ToParse(me.mtimes, me.force)
      kept == DOMAIN me.mtimes \ redo
      gone == cache # NoCache /\ DOMAIN cache.mtimes \ DOMAIN me.mtimes # {}
  IN
  /\ me.at = "stat"
  /\ tool' = [tool EXCEPT ![t] =
       IF ~me.force /\ cache = Torn THEN Resting
       ELSE IF ~me.force /\ cache # NoCache /\ redo = {} /\ ~gone
       THEN Loaded(FALSE, cache.files)
       ELSE [at |-> "parsing", mtimes |-> me.mtimes, force |-> me.force, redo |-> redo,
             files |-> [f \in kept |-> cache.files[f]]]]
  /\ UNCHANGED <<disk, edits, cache, index>>

\* ... and parses file by file what has changed; a file that has vanished since
\* ends the run in a FileNotFoundError.
Parse(t) ==
  LET me == tool[t] IN
  /\ me.at = "parsing"
  /\ \E f \in me.redo :
       tool' = [tool EXCEPT ![t] =
         IF disk[f] = Absent THEN Resting
         ELSE [me EXCEPT !.redo = @ \ {f},
                         !.files = [g \in DOMAIN @ \union {f} |->
                                      IF g = f THEN ParseFile(disk[f]) ELSE @[g]]]]
  /\ UNCHANGED <<disk, edits, cache, index>>

\* Mutant of Stamps: the files are stamped when the cache is saved.
StampsAtSave(me) == [f \in DOMAIN me.files |-> IF f \in OnDisk THEN disk[f].mtime ELSE 0]

\* The stamps the cache keeps are those of the walk at the start.
Stamps(me) == me.mtimes

\* The cache file is emptied ...
OpenCache(t) ==
  LET me == tool[t] IN
  /\ me.at = "parsing" /\ me.redo = {}
  /\ cache' = Torn
  /\ tool' = [tool EXCEPT ![t] = [at |-> "saving", force |-> me.force,
       data |-> [state |-> "saved", mtimes |-> Stamps(me), files |-> me.files,
                 reverse |-> ReverseDeps(me.files)]]]
  /\ UNCHANGED <<disk, edits, index>>

\* ... and written.  What a run writes is taken to replace the file as a whole, here
\* and in WriteIndex: of two that write at one time the longer text may keep its tail.
SaveCache(t) ==
  /\ tool[t].at = "saving"
  /\ cache' = tool[t].data
  /\ tool' = [tool EXCEPT ![t] = Loaded(tool[t].force, tool[t].data.files)]
  /\ UNCHANGED <<disk, edits, index>>

\* resolve_target: the query names a file that exists, or else a symbol of the index.
Targets(known) == OnDisk \union known

\* get_owner_info answers from the entry of its target; a target on disk that the
\* index misses makes it build the index anew, once.
Answer(t) ==
  LET me == tool[t] IN
  /\ me.at = "loaded"
  /\ \/ tool' = [tool EXCEPT ![t] = Resting]
     \/ /\ ~me.force
        /\ \E f \in Targets(me.known) : f \notin me.known
        /\ tool' = [tool EXCEPT ![t] = Walked(TRUE)]
  /\ UNCHANGED <<disk, edits, cache, index>>

-----------------------------------------------------------------------------
(* docs/FILE_INDEX.md: the markers, the references of the generated block,   *)
(* and what is written around them by hand.  The generator looks for its     *)
(* markers letter by letter, the check lets the white space in them vary.     *)

Begin == [k |-> "begin", exact |-> TRUE]
End   == [k |-> "end", exact |-> TRUE]
Refs(files) == [k |-> "refs", files |-> files]
IsMarker(line) == line.k \in {"begin", "end"}
Respelt(line)  == [line EXCEPT !.exact = ~@]    \* "<!--END:GENERATED-->" and back

FirstOf(line, doc)     == SelectInSeq(doc, LAMBDA l: l = line)
FirstOfKind(kind, doc) == SelectInSeq(doc, LAMBDA l: l.k = kind)
Listed(doc) == UNION {doc[i].files : i \in {j \in DOMAIN doc : doc[j].k = "refs"}}

\* build_generated_block: every module but the __init__ without class or function.
Described(files) == {f \in files : ~(IsInit(f) /\ ~ParseFile(disk[f]).defs)}

\* The first match of "BEGIN.*?END": from the first BEGIN to the next END.
FirstBlock(doc) ==
  LET b    == FirstOf(Begin, doc)
      ends == {j \in DOMAIN doc : b # 0 /\ j > b /\ doc[j] = End}
  IN  IF ends = {} THEN <<0, 0>> ELSE <<b, CHOOSE j \in ends : \A i \in ends : j <= i>>

\* replace_marker_block: every match is replaced, the rest of the text is kept.
ReplaceBlocks(doc, refs) ==
  LET last[n \in 0..Len(doc)] ==      \* what becomes of the last n lines
        LET text == SubSeq(doc, Len(doc) - n + 1, Len(doc))
            at   == FirstBlock(text)
        IN  IF at[1] = 0 THEN text
            ELSE SubSeq(text, 1, at[1]) \o <<Refs(refs), End>> \o last[n - at[2]]
  IN  last[Len(doc)]

\* inject_into_file: a document without the marker gets the block at its end.
Inject(doc, refs) ==
  IF FirstOf(Begin, doc) = 0 THEN doc \o <<Begin, Refs(refs), End>>
  ELSE ReplaceBlocks(doc, refs)

\* collect_py_files lists the tree ...
Collect(t) ==
  /\ tool[t] = Resting
  /\ tool' = [tool EXCEPT ![t] = [at |-> "collected", list |-> OnDisk]]
  /\ UNCHANGED <<disk, edits, cache, index>>

\* ... every file of the list is read; a missing one ends the run, ...
Describe(t) ==
  LET me == tool[t] IN
  /\ me.at = "collected"
  /\ tool' = [tool EXCEPT ![t] =
       IF me.list \subseteq OnDisk THEN [at |-> "described", refs |-> Described(me.list)]
       ELSE Resting]
  /\ UNCHANGED <<disk, edits, cache, index>>

\* ... the document is read and emptied ...
OpenIndex(t) ==
  LET me == tool[t] IN
  /\ me.at = "described"
  /\ index' = <<>>
  /\ tool' = [tool EXCEPT ![t] = [at |-> "injecting", refs |-> me.refs,
                                  doc |-> Inject(index, me.refs)]]
  /\ UNCHANGED <<disk, edits, cache>>

\* ... and written.
WriteIndex(t) ==
  /\ tool[t].at = "injecting"
  /\ index' = tool[t].doc
  /\ tool' = [tool EXCEPT ![t] = Resting]
  /\ UNCHANGED <<disk, edits, cache>>

-----------------------------------------------------------------------------
(* The checks *)

\* Mutant of MarkersOk: both or none, in whatever order.
MarkersPaired(doc) == (FirstOfKind("begin", doc) = 0) = (FirstOfKind("end", doc) = 0)

\* check_generated_blocks, with GENERATED_BEGIN_RE and GENERATED_END_RE
MarkersOk(doc) ==
  LET b == FirstOfKind("begin", doc)
      e == FirstOfKind("end", doc)
  IN  (b = 0 /\ e = 0) \/ (b # 0 /\ e # 0 /\ b < e)

\* is_significant_init: more than imports, __all__ and a docstring.
Significant(f) == ~IsInit(f) \/ disk[f].body # "thin"

\* check_file_index looks for the path or only the name of a file.
Mentions(doc, f) == \E g \in Listed(doc) : BaseName[g] = BaseName[f]
Unlisted(doc)    == {f \in OnDisk : Significant(f) /\ ~Mentions(doc, f)}
Ghosts(doc)      == {g \in Listed(doc) \ OnDisk : \A f \in OnDisk : BaseName[f] # BaseName[g]}
CheckFileIndex(doc) == IF Ghosts(doc) # {} THEN "FAIL"
                       ELSE IF Unlisted(doc) # {} THEN "WARN" ELSE "PASS"

\* arch_rules.ALLOWED: the layers without an entry and those with None are free.
Allowed(layer) ==
  CASE layer = "core"     -> {}
    [] layer = "engine"   -> {"core", "adapters", "persistence"}
    [] layer = "services" -> {"core", "persistence"}
    [] layer = "server"   -> {"core", "engine", "services", "persistence"}
    [] layer = "launcher" -> {"core", "server"}
    [] layer = "cache"    -> {"core", "persistence"}
    [] layer \in {"adapters", "persistence", "plugins"} -> {"core"}

Restricted == {"core", "engine", "services", "server", "launcher", "cache",
               "adapters", "persistence", "plugins"}
Layers     == Restricted \union {"data", "automation"}

\* The imports that are tolerated close no cycle with those that are allowed.
ASSUME KnownClosesNoCycle ==
  \A some \in SUBSET Restricted : some # {} =>
    \E l \in some : \A m \in some \ {l} :
      /\ m \notin Allowed(l)
      /\ \A k \in Known : LayerOf[k[1]] = l => k[2] # m

\* check_file: the imports a file of a restricted layer may not have.
Violations(f) ==
  IF disk[f] = Absent \/ LayerOf[f] \notin Restricted THEN {}
  ELSE {<<f, LayerOf[g]>> : g \in {h \in ParseFile(disk[f]).imports :
          /\ LayerOf[h] \in Layers \ {LayerOf[f]}
          /\ LayerOf[h] \notin Allowed(LayerOf[f])}}

\* Mutant of IsKnown: a file that is written down is tolerated altogether.
IsKnownFile(violation) == \E k \in Known : k[1] = violation[1]

IsKnown(violation) == violation \in Known

\* collect_results: only violations nobody has written down fail the lint.
LintStatus ==
  LET all == UNION {Violations(f) : f \in Files}
  IN  IF \E v \in all : ~IsKnown(v) THEN "FAIL" ELSE IF all # {} THEN "WARN" ELSE "PASS"

-----------------------------------------------------------------------------
(* Edits *)

Save(f, content) ==
  /\ edits < MaxEdits
  /\ edits' = edits + 1
  /\ disk' = [disk EXCEPT ![f] = content]
  /\ UNCHANGED <<cache, index, tool>>

CreateFile(f) == /\ disk[f] = Absent
             /\ Save(f, [body |-> "defs", imports |-> {}, mtime |-> edits + 1])

DeleteFile(f) == disk[f] # Absent /\ Save(f, Absent)

ChangeImport(f, g) ==
  /\ f # g /\ disk[f] # Absent
  /\ LET others == disk[f].imports IN
     Save(f, [disk[f] EXCEPT !.imports = IF g \in others THEN others \ {g} ELSE others \union {g},
                             !.mtime = edits + 1])

ChangeBody(f, body) == /\ disk[f] # Absent /\ disk[f].body # body
                       /\ Save(f, [disk[f] EXCEPT !.body = body, !.mtime = edits + 1])

\* A line of the index document is removed, two neighbours change places, or a
\* marker is written with other white space.
EditIndex ==
  /\ edits < MaxEdits /\ edits' = edits + 1
  /\ \E i \in DOMAIN index :
       \/ index' = RemoveAt(index, i)
       \/ /\ i < Len(index)
          /\ index' = [index EXCEPT ![i] = index[i + 1], ![i + 1] = index[i]]
       \/ IsMarker(index[i]) /\ index' = [index EXCEPT ![i] = Respelt(index[i])]
  /\ UNCHANGED <<disk, cache, tool>>

KillTool(t) ==
  /\ tool[t] # Resting
  /\ tool' = [tool EXCEPT ![t] = Resting]
  /\ UNCHANGED <<disk, edits, cache, index>>

RepoInit ==
  /\ disk = [f \in Files |-> [body |-> "defs", imports |-> {}, mtime |-> 0]]
  /\ edits = 0
  /\ cache = NoCache
  /\ index = <<Begin, End>>
  /\ tool = [t \in Tools |-> Resting]

ToolStep == \E t \in Tools :
  \/ ReadCache(t) \/ Parse(t) \/ OpenCache(t) \/ SaveCache(t) \/ Answer(t)
  \/ Describe(t) \/ OpenIndex(t) \/ WriteIndex(t)

TreeEvent ==
  \/ \E t \in Tools : KillTool(t)
  \/ \E f \in Files : CreateFile(f) \/ DeleteFile(f)
  \/ \E f, g \in Files : ChangeImport(f, g)
  \/ \E f \in Files : \E body \in BodiesOf(f) : ChangeBody(f, body)

LoadEvent  == \E t \in Tools : Stat(t)
IndexEvent == EditIndex \/ \E t \in Tools : Collect(t)

-----------------------------------------------------------------------------
(* Properties *)

\* Type correctness of the tree, its cache and its tools.
RepoTypeOK ==
  /\ \A f \in OnDisk : disk[f].body \in BodiesOf(f) /\ disk[f].imports \subseteq Files
  /\ edits \in 0..MaxEdits
  /\ cache.state \in {"none", "torn", "saved"}
  /\ Listed(index) \subseteq Files
  /\ \A t \in Tools : tool[t].at \in {"idle", "stat", "parsing", "saving", "loaded",
                                      "collected", "described", "injecting"}

(* The cache never answers for a file it has not read as it is: whenever the *)
(* stamp it keeps of a file is the file's own, its entry is what the parser  *)
(* makes of the file, and the reverse imports it keeps are those of its      *)
(* entries -- whichever edits fall between the walk and the parsing of a     *)
(* load, and whichever loads overlap or are killed (repo_index.py:116-139).  *)
CacheIsTruthful ==
  cache.state = "saved" =>
    /\ DOMAIN cache.files = DOMAIN cache.mtimes
    /\ \A f \in OnDisk \intersect DOMAIN cache.mtimes :
         cache.mtimes[f] = disk[f].mtime => cache.files[f] = ParseFile(disk[f])
    /\ \A f, g \in DOMAIN cache.files :
         ~IsInit(f) => (g \in cache.reverse[f] <=> f \in cache.files[g].imports)

(* A lint that does not fail leaves no way round between the layers: with    *)
(* the violations that are written down tolerated, file by file and layer by *)
(* layer, no chain of imports leads from a restricted layer through others   *)
(* back to itself (arch_rules.py:16-35, architecture_lint.py:76-126).        *)
ImportsBetweenLayers ==
  {<<LayerOf[p[1]], LayerOf[p[2]]>> : p \in
     {q \in OnDisk \X Files : /\ q[2] \in ParseFile(disk[q[1]]).imports
                              /\ LayerOf[q[1]] \in Restricted /\ LayerOf[q[2]] \in Restricted
                              /\ LayerOf[q[1]] # LayerOf[q[2]]}}

NoCycleGetsPast ==
  LintStatus # "FAIL" =>
    LET edges == ImportsBetweenLayers
    IN  \A some \in SUBSET {edge[1] : edge \in edges} :
          some # {} => \E l \in some : \A m \in some : <<l, m>> \notin edges

\* The markers the check finds first are the ones the generator finds.
SameMarkers(doc) == /\ FirstOfKind("begin", doc) = FirstOf(Begin, doc)
                    /\ FirstOfKind("end", doc) = FirstOf(End, doc)

(* A generator that reports success has taken hold: unless the check of the  *)
(* markers complains about the document it wrote, or somebody has written    *)
(* the first BEGIN or the first END with white space of their own, the first *)
(* generated block lists exactly the modules the run has described, whatever *)
(* else people did to the lines; and when the tree is still as described,    *)
(* check_file_index misses nothing but a package whose __init__ has neither  *)
(* class nor function (it holds constants or does not parse: the two filters *)
(* differ), and fails only for names outside what was described              *)
(* (generate_file_index.py:278-284 and 323-349, checks_docs.py:209-230,      *)
(* checks_coverage.py:48-88).                                                *)
GeneratorTakesHold ==
  [][\A t \in Tools :
       tool[t].at = "injecting" /\ index' = tool[t].doc /\ MarkersOk(index') /\ SameMarkers(index')
         => LET at   == FirstBlock(index')
                refs == tool[t].refs
            IN  /\ at[1] # 0
                /\ Listed(SubSeq(index', at[1], at[2])) = refs
                /\ refs = Described(OnDisk) =>
                     /\ \A f \in Unlisted(index') :
                          IsInit(f) /\ disk[f].body \in {"constant", "broken"}
                     /\ CheckFileIndex(index') = "FAIL" => Listed(index') \ refs # {}]_repoVars

(* What the generator writes above its block: a change by hand "will be      *)
(* overwritten when the script runs again" (generate_file_index.py:231). *)
(* Where the check of the markers is content with the document a run has     *)
(* written, the block between the markers it found lists what that run has   *)
(* described.  The code does otherwise: the generator's markers are literal  *)
(* strings (generated_block.py:54-62), the check's are patterns that let the *)
(* white space vary (doc_parsing_utils.py:44-45).                            *)
BlockIsOverwritten ==
  [][\A t \in Tools :
       tool[t].at = "injecting" /\ index' = tool[t].doc /\ MarkersOk(index')
         => Listed(SubSeq(index', FirstOfKind("begin", index'), FirstOfKind("end", index')))
              = tool[t].refs]_repoVars

=============================================================================
