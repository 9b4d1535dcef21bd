----------------------------- MODULE Segregation -----------------------------
(***************************************************************************)
(* GET /api/segregation (src/ui-server/segregation.ts): the module tree is *)
(* segregated on a worker thread, once without and once with the deps      *)
(* report, kept in memory per server and in the project database           *)
(* (src/projdb/seg-cache.ts) for the next one, while a page polls.         *)
(*                                                                         *)
(* Several servers may have the database open; the module files change     *)
(* under them.  Between two awaits a server runs alone in its process.     *)
(***************************************************************************)
EXTENDS Naturals, FiniteSets

CONSTANTS
  Servers,
  Trees,      \* contents the module directory may have
  NoModules,  \* ... and that of one without modules
  SizesOf,    \* what moduleTreeKey hashes: the names and sizes of the files
  Unset,      \* nothing cached yet
  Null,       \* no result: no modules, or the worker failed
  MaxEdits,   \* bound on the changes of the module files
  MaxStarts   \* bound on the server starts

\* What a run computes: from which tree, with a report or not, depsApplied.
Results == [tree : Trees, report : BOOLEAN, deps : BOOLEAN]

ASSUME SegregationAssumption ==
  /\ SizesOf \in [Trees \cup {NoModules} -> Nat]
  /\ NoModules \notin Trees
  /\ Unset # Null
  /\ {Unset, Null} \cap Results = {}

VARIABLES
  tree,       \* the module files
  hasDb,      \* is there a project.hbcproj?
  persisted,  \* seg_meta and seg_modules: the key and the result, or Null
  up,         \* the servers that run
  cache,      \* per server: Unset, Null or a result
  computing,  \* the servers whose base compute was started
  depsStarted,
  runs,       \* per server, the set of its asynchronous computations
  page,       \* per server, what its page was last told
  edits, starts,
  edited,     \* history: servers whose modules changed since they started
  raced,      \* history: modules changed between a worker's read and its landing
  depsLost    \* history: servers whose deps recompute came to nothing

memory == <<cache, computing, depsStarted, runs>>
files == <<tree, edits, raced, edited>>
vars == <<files, hasDb, persisted, up, memory, page, starts, depsLost>>

Runs ==
  [kind : {"base", "deps"}, step : {"report", "worker", "answered"},
   report : BOOLEAN, result : Results \cup {Null}]
Run(kind, step) == [kind |-> kind, step |-> step, report |-> FALSE, result |-> Null]

Init ==
  /\ tree \in Trees \cup {NoModules}
  /\ hasDb \in BOOLEAN
  /\ persisted = Null
  /\ up = {}
  /\ cache = [s \in Servers |-> Unset]
  /\ computing = {} /\ depsStarted = {}
  /\ runs = [s \in Servers |-> {}]
  /\ page = [s \in Servers |-> "closed"]
  /\ edits = 0 /\ starts = 0
  /\ edited = {} /\ raced = FALSE /\ depsLost = {}
-----------------------------------------------------------------------------
segCacheKey == SizesOf[tree]

ReadAnyKey == IF persisted = Null THEN Null ELSE persisted.result  \* a mutant of readSegCache

readSegCache ==
  IF persisted # Null /\ persisted.key = segCacheKey THEN persisted.result ELSE Null

\* Best effort: a write that fails is swallowed.
writeSegCache(result) ==
  persisted' \in {persisted} \cup IF hasDb THEN {[key |-> segCacheKey, result |-> result]} ELSE {}

\* The server's runs as they are after `mine`, and the deps run begun.
startDepsIfNeeded(s, mine) ==
  /\ depsStarted' = depsStarted \cup {s}
  /\ runs' = [runs EXCEPT ![s] =
       mine \cup IF s \in depsStarted THEN {} ELSE {Run("deps", "report")}]

\* segregation(), up to its answer to `who`: the page or another route.
Told(s, who, answer) ==
  page' = IF who = "page" THEN [page EXCEPT ![s] = answer] ELSE page

Shown(result) ==
  CASE result = Null -> "absent"
    [] result # Null /\ result.deps -> "final"
    [] OTHER -> "bare"

AskSettled(s, who) ==
  /\ cache[s] # Unset
  /\ startDepsIfNeeded(s, runs[s])
  /\ Told(s, who, Shown(cache[s]))
  /\ UNCHANGED <<cache, computing>>

AskWithoutModules(s, who) ==
  /\ cache[s] = Unset
  /\ tree = NoModules
  /\ cache' = [cache EXCEPT ![s] = Null]
  /\ Told(s, who, "absent")
  /\ UNCHANGED <<computing, depsStarted, runs>>

AskComputing(s, who) ==
  /\ cache[s] = Unset
  /\ tree # NoModules
  /\ s \in computing
  /\ Told(s, who, "computing")
  /\ UNCHANGED memory

\* computeBase up to its await: the persisted result, or a worker.
ComputeBaseAgain(s, who) ==  \* a mutant of ComputeBase: computing is not asked
  /\ cache[s] = Unset
  /\ tree # NoModules
  /\ computing' = computing \cup {s}
  /\ \/ /\ readSegCache # Null
        /\ cache' = [cache EXCEPT ![s] = readSegCache]
        /\ startDepsIfNeeded(s, runs[s])
     \/ /\ readSegCache = Null
        /\ runs' = [runs EXCEPT ![s] = @ \cup {Run("base", "worker")}]
        /\ UNCHANGED <<cache, depsStarted>>
  /\ Told(s, who, "computing")

ComputeBase(s, who) ==
  /\ cache[s] = Unset
  /\ tree # NoModules
  /\ s \notin computing
  /\ computing' = computing \cup {s}
  /\ \/ /\ readSegCache # Null
        /\ cache' = [cache EXCEPT ![s] = readSegCache]
        /\ startDepsIfNeeded(s, runs[s])
     \/ /\ readSegCache = Null
        /\ runs' = [runs EXCEPT ![s] = @ \cup {Run("base", "worker")}]
        /\ UNCHANGED <<cache, depsStarted>>
  /\ Told(s, who, "computing")

Ask(s, who) ==
  /\ s \in up
  /\ AskSettled(s, who) \/ AskWithoutModules(s, who) \/ AskComputing(s, who) \/ ComputeBase(s, who)
  /\ UNCHANGED <<files, hasDb, persisted, up, starts, depsLost>>

\* The page polls on until an answer is final, or that there is nothing.
Polling(s) == page[s] \in {"computing", "bare"}
Poll(s) == Polling(s) /\ Ask(s, "page")
Load(s) == Ask(s, "page")

\* The server as it listens, and GET /api/screens.
AskOther(s) == Ask(s, "other")
-----------------------------------------------------------------------------
\* The run r goes on as one of the runs in `next`, or is over.
Becomes(s, r, next) == runs' = [runs EXCEPT ![s] = (@ \ {r}) \cup next]

\* The worker reads the module files; what it answers is of that moment.
ResultOf(r) ==
  IF tree = NoModules THEN Null
  ELSE [tree |-> tree, report |-> r.report, deps |-> r.kind = "deps"]

WorkerReads(s, r) ==
  /\ r.step = "worker"
  /\ Becomes(s, r, {[r EXCEPT !.step = "answered", !.result = ResultOf(r)]})
  /\ UNCHANGED <<persisted, cache, depsStarted, depsLost>>

WorkerFails(s, r) ==
  /\ r.step = "worker"
  /\ Becomes(s, r, {[r EXCEPT !.step = "answered"]})
  /\ UNCHANGED <<persisted, cache, depsStarted, depsLost>>

BaseLandsUnchecked(s, r) ==  \* a mutant of BaseLands: null is written too
  /\ r.step = "answered" /\ r.kind = "base"
  /\ cache' = [cache EXCEPT ![s] = r.result]
  /\ writeSegCache(r.result)
  /\ startDepsIfNeeded(s, runs[s] \ {r})
  /\ UNCHANGED depsLost

\* computeBase after its await.
BaseLands(s, r) ==
  /\ r.step = "answered" /\ r.kind = "base"
  /\ cache' = [cache EXCEPT ![s] = r.result]
  /\ IF r.result = Null THEN UNCHANGED persisted ELSE writeSegCache(r.result)
  /\ startDepsIfNeeded(s, runs[s] \ {r})
  /\ UNCHANGED depsLost

ReportSettledOnlyWithReport(s, r) ==  \* a mutant of ReportSettled: no report, no recompute
  /\ r.step = "report"
  /\ \E report \in BOOLEAN :
       Becomes(s, r, IF cache[s] = Null \/ ~report THEN {}
                     ELSE {[r EXCEPT !.step = "worker", !.report = report]})
  /\ UNCHANGED <<persisted, cache, depsStarted, depsLost>>

\* applyDepsWhenReady after its first await: the report came, or there is
\* none (no bundle, or the deps run threw).
ReportSettled(s, r) ==
  /\ r.step = "report"
  /\ \E report \in BOOLEAN :
       Becomes(s, r, IF cache[s] = Null THEN {}
                     ELSE {[r EXCEPT !.step = "worker", !.report = report]})
  /\ UNCHANGED <<persisted, cache, depsStarted, depsLost>>

\* ... and after its second.
DepsLand(s, r) ==
  /\ r.step = "answered" /\ r.kind = "deps"
  /\ r.result # Null
  /\ cache' = [cache EXCEPT ![s] = r.result]
  /\ IF tree = NoModules THEN UNCHANGED persisted ELSE writeSegCache(r.result)
  /\ Becomes(s, r, {})
  /\ UNCHANGED <<depsStarted, depsLost>>

DepsComeToNothingCached(s, r) ==  \* a mutant of DepsComeToNothing: stored before it is checked
  /\ r.step = "answered" /\ r.kind = "deps"
  /\ r.result = Null
  /\ cache' = [cache EXCEPT ![s] = Null]
  /\ Becomes(s, r, {})
  /\ depsLost' = depsLost \cup {s}
  /\ UNCHANGED <<persisted, depsStarted>>

\* A recompute that failed leaves the cached result as it is.
DepsComeToNothing(s, r) ==
  /\ r.step = "answered" /\ r.kind = "deps"
  /\ r.result = Null
  /\ Becomes(s, r, {})
  /\ depsLost' = depsLost \cup {s}
  /\ UNCHANGED <<persisted, cache, depsStarted>>

RunStep(s) ==
  /\ \E r \in runs[s] :
       \/ WorkerReads(s, r) \/ WorkerFails(s, r) \/ BaseLands(s, r)
       \/ ReportSettled(s, r) \/ DepsLand(s, r) \/ DepsComeToNothing(s, r)
  /\ UNCHANGED <<files, hasDb, up, computing, page, starts>>
-----------------------------------------------------------------------------
\* The modules are decompiled again, or a tool rewrites one.
EditModules(t) ==
  /\ edits < MaxEdits
  /\ t # tree
  /\ tree' = t
  /\ edits' = edits + 1
  /\ edited' = up
  /\ raced' = (raced \/ \E s \in up : \E r \in runs[s] : r.step = "answered")
  /\ UNCHANGED <<hasDb, persisted, up, memory, page, starts, depsLost>>

Start(s) ==
  /\ s \notin up
  /\ starts < MaxStarts
  /\ starts' = starts + 1
  /\ up' = up \cup {s}
  /\ edited' = edited \ {s}
  /\ UNCHANGED <<tree, edits, raced, hasDb, persisted, memory, page, depsLost>>

\* A stop or a crash: the memory is gone, and the workers with it.
Stop(s) ==
  /\ s \in up
  /\ up' = up \ {s}
  /\ cache' = [cache EXCEPT ![s] = Unset]
  /\ computing' = computing \ {s}
  /\ depsStarted' = depsStarted \ {s}
  /\ runs' = [runs EXCEPT ![s] = {}]
  /\ depsLost' = depsLost \ {s}
  /\ UNCHANGED <<files, hasDb, persisted, page, starts>>

Next ==
  \/ \E s \in Servers : Load(s) \/ Poll(s) \/ AskOther(s) \/ RunStep(s) \/ Start(s) \/ Stop(s)
  \/ \E t \in Trees : EditModules(t)

Spec == Init /\ [][Next]_vars

\* Workers answer or fail, promises settle, and the page's timer fires.
FairSpec ==
  /\ Spec
  /\ \A s \in Servers : WF_vars(RunStep(s)) /\ WF_vars(Poll(s))
-----------------------------------------------------------------------------
TypeOK ==
  /\ tree \in Trees \cup {NoModules}
  /\ persisted # Null => persisted.key \in {SizesOf[t] : t \in Trees} /\ persisted.result \in Results
  /\ \A s \in Servers : cache[s] \in Results \cup {Unset, Null}
  /\ \A s \in Servers : runs[s] \subseteq Runs
  /\ computing \cup depsStarted \cup edited \cup depsLost \subseteq Servers
  /\ up \subseteq Servers

\* One server computes one thing at a time, however many requests come: the
\* base compute runs once, and the deps recompute begins after it has landed.
OneRun == \A s \in Servers : Cardinality(runs[s]) <= 1

\* What the next server is given is what this tree's files are keyed by: a
\* row set under a key was computed from files of these sizes, unless they
\* changed between the worker's reading and its landing.
KeyTellsResult ==
  persisted # Null /\ ~raced => SizesOf[persisted.result.tree] = persisted.key

\* A server whose modules have not changed since it started serves a result
\* of files with these sizes, be it computed or from an earlier server.
FreshAtStart ==
  \A s \in up \ edited :
    cache[s] \notin {Unset, Null} /\ ~raced => SizesOf[cache[s].tree] = SizesOf[tree]

\* A result that a server has settled stays while it runs, whatever its
\* workers do, and one with deps is never replaced by one without.
NeverRegresses ==
  [][\A s \in up \cap up' :
       /\ cache[s] # Unset => cache'[s] # Unset
       /\ cache[s] \in Results => cache'[s] \in Results /\ (cache[s].deps => cache'[s].deps)]_vars

\* The page's polling ends, with or without a report: unless its server
\* stops, or the deps recompute is lost.
PollEnds ==
  \A s \in Servers : Polling(s) ~> (~Polling(s) \/ s \notin up \/ s \in depsLost)
=============================================================================
