-------------------------- MODULE SegregationProofs --------------------------
(***************************************************************************)
(* For any servers, module trees and keys: a server computes one thing at  *)
(* a time, what it serves is of files like those it started with, and a    *)
(* settled result is never taken back.                                     *)
(*                                                                         *)
(* Both rest on the order of a server's computations: a base compute runs  *)
(* only while nothing is cached and the deps run has not begun; it ends    *)
(* with something cached, and begins the deps run.                         *)
(***************************************************************************)
EXTENDS Segregation, FiniteSetTheorems, TLAPS

Typed ==
  /\ TypeOK
  /\ cache \in [Servers -> Results \cup {Unset, Null}]
  /\ runs \in [Servers -> SUBSET Runs]

\* Where a server's computations are.
OrderlyAt(s) ==
  /\ s \notin up => runs[s] = {} /\ cache[s] = Unset /\ s \notin computing
  /\ s \notin computing /\ cache[s] = Unset => runs[s] = {}
  /\ cache[s] = Unset => s \notin depsStarted
  /\ \A r \in runs[s] :
       /\ runs[s] = {r}
       /\ r.kind = "base" => cache[s] = Unset
       /\ r.kind = "deps" => s \in depsStarted
       /\ r.step # "answered" => r.result = Null
       /\ r.step = "answered" /\ r.result # Null /\ r.kind = "deps" => r.result.deps

Orderly ==
  /\ \A s \in Servers : OrderlyAt(s)
  /\ tree = NoModules => computing = {}

\* What an answered worker read is still there.
AnswersFresh ==
  ~raced => \A s \in Servers : \A r \in runs[s] :
              r.step = "answered" /\ r.result # Null => r.result.tree = tree

IInv == Typed /\ Orderly /\ AnswersFresh /\ KeyTellsResult /\ FreshAtStart
-----------------------------------------------------------------------------
\* Server s moves on: it is in order afterwards, and what it then has
\* cached, has been answered, and has persisted is of files like these.
Moves(s) ==
  /\ UNCHANGED <<files, up>>
  /\ cache' \in [Servers -> Results \cup {Unset, Null}]
  /\ runs' \in [Servers -> SUBSET Runs]
  /\ \A x \in Servers \ {s} : cache'[x] = cache[x] /\ runs'[x] = runs[x]
  /\ \/ computing' = computing
     \/ computing' = computing \cup {s} /\ tree # NoModules
  /\ depsStarted' = depsStarted \/ depsStarted' = depsStarted \cup {s}
  /\ depsLost' \subseteq Servers
  /\ persisted' # persisted =>
       /\ tree # NoModules
       /\ persisted'.key = segCacheKey
       /\ persisted'.result \in Results
       /\ ~raced => SizesOf[persisted'.result.tree] = SizesOf[tree]
  /\ ~raced /\ s \notin edited /\ cache'[s] \in Results => SizesOf[cache'[s].tree] = SizesOf[tree]
  /\ ~raced => \A r \in runs'[s] : r.step = "answered" /\ r.result # Null => r.result.tree = tree
  /\ OrderlyAt(s)'

LEMMA ServerKeeps ==
  ASSUME IInv, NEW s \in up, Moves(s)
  PROVE  IInv'
<1> USE DEF Moves
<1>1. s \in Servers
  BY DEF IInv, Typed, TypeOK
<1>4. Typed'
  <2>1. tree # NoModules => segCacheKey \in {SizesOf[t] : t \in Trees}
    BY DEF IInv, Typed, TypeOK, segCacheKey
  <2>2. (persisted # Null => persisted.key \in {SizesOf[t] : t \in Trees} /\ persisted.result \in Results)'
    BY <2>1 DEF IInv, Typed, TypeOK
  <2> QED
    BY <1>1, <2>2 DEF IInv, Typed, TypeOK, files
<1>5. Orderly'
  <2>1. ASSUME NEW x \in Servers \ {s} PROVE OrderlyAt(x)'
    BY DEF IInv, Orderly, OrderlyAt
  <2> QED
    BY <2>1 DEF IInv, Orderly, files
<1>6. AnswersFresh'
  BY DEF IInv, AnswersFresh, files
<1>7. KeyTellsResult'
  BY DEF IInv, KeyTellsResult, segCacheKey, files
<1>8. FreshAtStart'
  BY SegregationAssumption DEF IInv, Typed, TypeOK, FreshAtStart, files
<1> QED
  BY <1>4, <1>5, <1>6, <1>7, <1>8 DEF IInv

\* Beginning the deps run of a server with nothing running.
LEMMA DepsBegin ==
  ASSUME NEW s \in Servers, s \notin depsStarted, startDepsIfNeeded(s, {})
  PROVE  /\ depsStarted' = depsStarted \cup {s}
         /\ runs' = [runs EXCEPT ![s] = {Run("deps", "report")}]
         /\ Run("deps", "report") \in Runs
         /\ Run("deps", "report").kind = "deps"
         /\ Run("deps", "report").step = "report"
         /\ Run("deps", "report").result = Null
BY DEF startDepsIfNeeded, Run, Runs

LEMMA InitEstablishes == Init => IInv
BY SegregationAssumption
DEF Init, IInv, Typed, TypeOK, Orderly, OrderlyAt, AnswersFresh, KeyTellsResult, FreshAtStart

\* Every way a request is answered.
LEMMA AskKeeps ==
  ASSUME IInv, NEW s \in Servers, NEW who, Ask(s, who)
  PROVE  IInv'
<1>1. /\ s \in up /\ OrderlyAt(s) /\ depsLost \subseteq Servers
      /\ cache[s] \in Results \cup {Unset, Null} /\ runs[s] \in SUBSET Runs
      /\ UNCHANGED <<files, up, depsLost, persisted>>
  BY DEF Ask, IInv, Typed, TypeOK, Orderly
<1>2. \A r \in runs[s] : r \in Runs
  BY <1>1
<1>3. /\ cache \in [Servers -> Results \cup {Unset, Null}]
      /\ runs \in [Servers -> SUBSET Runs]
  BY DEF IInv, Typed
<1>4. ~raced => \A r \in runs[s] : r.step = "answered" /\ r.result # Null => r.result.tree = tree
  BY DEF IInv, AnswersFresh
<1>5. ~raced /\ s \notin edited /\ cache[s] \in Results => SizesOf[cache[s].tree] = SizesOf[tree]
  BY <1>1, SegregationAssumption DEF IInv, FreshAtStart
<1>6. CASE AskSettled(s, who)
  <2>1. cache[s] # Unset /\ UNCHANGED <<cache, computing>> /\ startDepsIfNeeded(s, runs[s])
    BY <1>6 DEF AskSettled
  <2>2. CASE s \in depsStarted
    <3>1. UNCHANGED runs /\ depsStarted' = depsStarted
      BY <1>3, <2>1, <2>2 DEF startDepsIfNeeded
    <3>m. Moves(s)
      BY <1>1, <1>3, <1>4, <1>5, <2>1, <3>1 DEF Moves, OrderlyAt
    <3> QED
      BY <1>1, <3>m, ServerKeeps
  <2>3. CASE s \notin depsStarted
    <3>1. runs[s] = {}
      BY <1>1, <1>2, <2>1, <2>3 DEF OrderlyAt, Runs
    <3>2. /\ depsStarted' = depsStarted \cup {s}
          /\ runs' = [runs EXCEPT ![s] = {Run("deps", "report")}]
          /\ Run("deps", "report") \in Runs
          /\ Run("deps", "report").kind = "deps"
          /\ Run("deps", "report").step = "report" /\ Run("deps", "report").result = Null
      BY <2>1, <2>3, <3>1, DepsBegin
    <3>3. OrderlyAt(s)'
      BY <1>1, <2>1, <3>2 DEF OrderlyAt, IInv, Typed
    <3>m. Moves(s)
      BY <1>1, <1>3, <1>5, <2>1, <3>2, <3>3 DEF Moves
    <3> QED
      BY <1>1, <3>m, ServerKeeps
  <2> QED
    BY <2>2, <2>3
<1>7. CASE AskWithoutModules(s, who)
  <2>1. /\ cache[s] = Unset /\ computing = {} /\ cache' = [cache EXCEPT ![s] = Null]
        /\ UNCHANGED <<computing, depsStarted, runs>>
    BY <1>7 DEF AskWithoutModules, IInv, Orderly
  <2>2. runs[s] = {}
    BY <1>1, <2>1 DEF OrderlyAt
  <2>3. OrderlyAt(s)'
    BY <1>1, <2>1, <2>2 DEF OrderlyAt, IInv, Typed
  <2>m. Moves(s)
    BY <1>1, <1>3, <2>1, <2>2, <2>3, SegregationAssumption DEF Moves
  <2> QED
    BY <1>1, <2>m, ServerKeeps
<1>8. CASE AskComputing(s, who)
  <2>1. UNCHANGED memory
    BY <1>8 DEF AskComputing
  <2>m. Moves(s)
    BY <1>1, <1>3, <1>4, <1>5, <2>1 DEF Moves, OrderlyAt, memory
  <2> QED
    BY <1>1, <2>m, ServerKeeps
<1>9. CASE ComputeBase(s, who)
  <2>1. /\ cache[s] = Unset /\ tree # NoModules /\ s \notin computing
        /\ computing' = computing \cup {s} /\ s \notin depsStarted /\ runs[s] = {}
    BY <1>1, <1>9 DEF ComputeBase, OrderlyAt
  <2>2. CASE readSegCache # Null /\ cache' = [cache EXCEPT ![s] = readSegCache]
             /\ startDepsIfNeeded(s, runs[s])
    <3>1. /\ persisted # Null /\ persisted.key = SizesOf[tree] /\ readSegCache = persisted.result
          /\ persisted.result \in Results
      BY <2>2 DEF readSegCache, segCacheKey, IInv, Typed, TypeOK
    <3>2. /\ depsStarted' = depsStarted \cup {s}
          /\ runs' = [runs EXCEPT ![s] = {Run("deps", "report")}]
          /\ Run("deps", "report") \in Runs
          /\ Run("deps", "report").kind = "deps"
          /\ Run("deps", "report").step = "report" /\ Run("deps", "report").result = Null
      BY <2>1, <2>2, DepsBegin
    <3>3. OrderlyAt(s)'
      BY <1>1, <2>1, <2>2, <3>1, <3>2, SegregationAssumption DEF OrderlyAt, IInv, Typed
    <3>4. ~raced => SizesOf[readSegCache.tree] = SizesOf[tree]
      BY <3>1 DEF IInv, KeyTellsResult
    <3>m. Moves(s)
      BY <1>1, <1>3, <2>1, <2>2, <3>1, <3>2, <3>3, <3>4 DEF Moves
    <3> QED
      BY <1>1, <3>m, ServerKeeps
  <2>3. CASE runs' = [runs EXCEPT ![s] = @ \cup {Run("base", "worker")}] /\ UNCHANGED <<cache, depsStarted>>
    <3>1. /\ Run("base", "worker") \in Runs
          /\ Run("base", "worker").kind = "base" /\ Run("base", "worker").step = "worker"
          /\ Run("base", "worker").result = Null
      BY DEF Run, Runs
    <3>2. runs' = [runs EXCEPT ![s] = {Run("base", "worker")}]
      BY <2>1, <2>3
    <3>3. OrderlyAt(s)'
      BY <1>1, <2>1, <2>3, <3>1, <3>2 DEF OrderlyAt, IInv, Typed
    <3>m. Moves(s)
      BY <1>1, <1>3, <1>5, <2>1, <2>3, <3>1, <3>2, <3>3 DEF Moves
    <3> QED
      BY <1>1, <3>m, ServerKeeps
  <2> QED
    BY <1>9, <2>2, <2>3 DEF ComputeBase
<1> QED
  BY <1>6, <1>7, <1>8, <1>9 DEF Ask

\* What becomes of a run when it takes a step: nothing else of its server runs.
LEMMA RunGoesOn ==
  ASSUME IInv, NEW s \in Servers, NEW r \in runs[s], NEW next \in SUBSET Runs, Becomes(s, r, next)
  PROVE  runs' = [runs EXCEPT ![s] = next]
BY DEF Becomes, IInv, Orderly, OrderlyAt

\* Every step of a running computation.
LEMMA RunKeeps ==
  ASSUME IInv, NEW s \in Servers, RunStep(s)
  PROVE  IInv'
<1>1. PICK r \in runs[s] :
        \/ WorkerReads(s, r) \/ WorkerFails(s, r) \/ BaseLands(s, r)
        \/ ReportSettled(s, r) \/ DepsLand(s, r) \/ DepsComeToNothing(s, r)
  BY DEF RunStep
<1>2. /\ UNCHANGED <<files, up>> /\ computing' = computing /\ depsLost \subseteq Servers
      /\ cache \in [Servers -> Results \cup {Unset, Null}]
      /\ runs \in [Servers -> SUBSET Runs]
      /\ tree \in Trees \cup {NoModules}
      /\ tree = NoModules => computing = {}
  BY DEF RunStep, IInv, Typed, TypeOK, Orderly
<1>3. r \in Runs /\ runs[s] = {r}
  BY <1>2 DEF IInv, Orderly, OrderlyAt
<1>4. /\ s \in up
      /\ OrderlyAt(s)
      /\ r.kind = "base" => cache[s] = Unset /\ s \in computing /\ s \notin depsStarted /\ tree # NoModules
      /\ r.kind = "deps" => cache[s] # Unset /\ s \in depsStarted
      /\ r.kind \in {"base", "deps"}
      /\ r.result \in Results \cup {Null}
  BY <1>2, <1>3 DEF IInv, Orderly, OrderlyAt, Runs
<1>5. ~raced /\ r.step = "answered" /\ r.result # Null => r.result.tree = tree
  BY DEF IInv, AnswersFresh
<1>6. ~raced /\ s \notin edited /\ cache[s] \in Results => SizesOf[cache[s].tree] = SizesOf[tree]
  BY <1>4, SegregationAssumption DEF IInv, FreshAtStart
<1>7. CASE WorkerReads(s, r) \/ WorkerFails(s, r)
  <2>1. PICK q \in Runs :
          /\ runs' = [runs EXCEPT ![s] = {q}]
          /\ q.step = "answered" /\ q.kind = r.kind
          /\ q.result # Null => q.result.tree = tree
          /\ q.result # Null /\ q.kind = "deps" => q.result.deps
    <3>1. CASE WorkerReads(s, r)
      <4>1. r.step = "worker" /\ ResultOf(r) \in Results \cup {Null}
        BY <1>2, <1>3, <3>1 DEF WorkerReads, ResultOf, Results, Runs
      <4>2. /\ ResultOf(r) # Null => ResultOf(r).tree = tree
            /\ ResultOf(r) # Null /\ r.kind = "deps" => ResultOf(r).deps
        BY DEF ResultOf
      <4> DEFINE q == [r EXCEPT !.step = "answered", !.result = ResultOf(r)]
      <4>3. q \in Runs /\ q.step = "answered" /\ q.kind = r.kind /\ q.result = ResultOf(r)
        BY <1>3, <4>1 DEF Runs
      <4>4. Becomes(s, r, {q})
        BY <3>1 DEF WorkerReads
      <4> HIDE DEF q
      <4>5. runs' = [runs EXCEPT ![s] = {q}]
        BY <4>3, <4>4, RunGoesOn
      <4> QED
        BY <4>2, <4>3, <4>5
    <3>2. CASE WorkerFails(s, r)
      <4> DEFINE q == [r EXCEPT !.step = "answered"]
      <4>1. Becomes(s, r, {q}) /\ r.step = "worker"
        BY <3>2 DEF WorkerFails
      <4>2. q \in Runs /\ q.step = "answered" /\ q.kind = r.kind /\ q.result = r.result
        BY <1>3 DEF Runs
      <4>3. r.result = Null
        BY <1>4, <4>1 DEF OrderlyAt
      <4> HIDE DEF q
      <4>4. runs' = [runs EXCEPT ![s] = {q}]
        BY <4>1, <4>2, RunGoesOn
      <4> QED
        BY <4>2, <4>3, <4>4
    <3> QED
      BY <1>7, <3>1, <3>2
  <2>2. persisted' = persisted /\ cache' = cache /\ depsStarted' = depsStarted /\ depsLost' = depsLost
    BY <1>7 DEF WorkerReads, WorkerFails
  <2>3. OrderlyAt(s)'
    BY <1>2, <1>4, <2>1, <2>2 DEF OrderlyAt
  <2>4. Moves(s)
    BY <1>2, <1>6, <2>1, <2>2, <2>3 DEF Moves
  <2> QED
    BY <1>4, <2>4, ServerKeeps
<1>8. CASE BaseLands(s, r)
  <2>1. /\ r.step = "answered" /\ r.kind = "base" /\ cache' = [cache EXCEPT ![s] = r.result]
        /\ UNCHANGED depsLost /\ startDepsIfNeeded(s, {})
    BY <1>3, <1>8 DEF BaseLands
  <2>2. /\ depsStarted' = depsStarted \cup {s}
        /\ runs' = [runs EXCEPT ![s] = {Run("deps", "report")}]
        /\ Run("deps", "report") \in Runs
        /\ Run("deps", "report").kind = "deps"
        /\ Run("deps", "report").step = "report" /\ Run("deps", "report").result = Null
    BY <1>4, <2>1, DepsBegin
  <2>3. persisted' # persisted => r.result # Null /\ persisted' = [key |-> segCacheKey, result |-> r.result]
    BY <1>8 DEF BaseLands, writeSegCache
  <2>4. OrderlyAt(s)'
    BY <1>2, <1>4, <2>1, <2>2, SegregationAssumption DEF OrderlyAt
  <2>5. Moves(s)
    BY <1>2, <1>4, <1>5, <2>1, <2>2, <2>3, <2>4, SegregationAssumption DEF Moves
  <2> QED
    BY <1>4, <2>5, ServerKeeps
<1>9. CASE ReportSettled(s, r)
  <2>1. PICK report \in BOOLEAN :
          Becomes(s, r, IF cache[s] = Null THEN {} ELSE {[r EXCEPT !.step = "worker", !.report = report]})
    BY <1>9 DEF ReportSettled
  <2> DEFINE q == [r EXCEPT !.step = "worker", !.report = report]
  <2>2. q \in Runs /\ q.step = "worker" /\ q.kind = r.kind /\ q.result = r.result
    BY <1>3 DEF Runs
  <2> HIDE DEF q
  <2>3. /\ r.step = "report" /\ UNCHANGED <<persisted, cache, depsStarted, depsLost>>
        /\ r.result = Null
    BY <1>4, <1>9 DEF ReportSettled, OrderlyAt
  <2>4. runs' = [runs EXCEPT ![s] = {}] \/ runs' = [runs EXCEPT ![s] = {q}]
    BY <2>1, <2>2, RunGoesOn DEF q
  <2>5. OrderlyAt(s)'
    BY <1>2, <1>4, <2>2, <2>3, <2>4 DEF OrderlyAt
  <2>6. Moves(s)
    BY <1>2, <1>6, <2>2, <2>3, <2>4, <2>5 DEF Moves
  <2> QED
    BY <1>4, <2>6, ServerKeeps
<1>10. CASE DepsLand(s, r)
  <2>1. /\ r.step = "answered" /\ r.kind = "deps" /\ r.result # Null
        /\ cache' = [cache EXCEPT ![s] = r.result]
        /\ UNCHANGED <<depsStarted, depsLost>>
    BY <1>10 DEF DepsLand
  <2>2. runs' = [runs EXCEPT ![s] = {}]
    BY <1>10, RunGoesOn DEF DepsLand
  <2>3. persisted' # persisted => tree # NoModules /\ persisted' = [key |-> segCacheKey, result |-> r.result]
    BY <1>10 DEF DepsLand, writeSegCache
  <2>4. OrderlyAt(s)'
    BY <1>2, <1>4, <2>1, <2>2, SegregationAssumption DEF OrderlyAt
  <2>5. Moves(s)
    BY <1>2, <1>4, <1>5, <2>1, <2>2, <2>3, <2>4 DEF Moves
  <2> QED
    BY <1>4, <2>5, ServerKeeps
<1>11. CASE DepsComeToNothing(s, r)
  <2>1. UNCHANGED <<persisted, cache, depsStarted>> /\ depsLost' = depsLost \cup {s} /\ r.kind = "deps"
    BY <1>11 DEF DepsComeToNothing
  <2>2. runs' = [runs EXCEPT ![s] = {}]
    BY <1>11, RunGoesOn DEF DepsComeToNothing
  <2>3. OrderlyAt(s)'
    BY <1>2, <1>4, <2>1, <2>2 DEF OrderlyAt
  <2>4. Moves(s)
    BY <1>2, <1>6, <2>1, <2>2, <2>3 DEF Moves
  <2> QED
    BY <1>4, <2>4, ServerKeeps
<1> QED
  BY <1>1, <1>7, <1>8, <1>9, <1>10, <1>11

\* Whoever read the files before an edit is a server that is up.
LEMMA EditKeeps ==
  ASSUME IInv, NEW t \in Trees, EditModules(t)
  PROVE  IInv'
<1>1. /\ tree' = t /\ edited' = up /\ UNCHANGED <<persisted, up, memory, depsLost>>
      /\ raced' = (raced \/ \E s \in up : \E r \in runs[s] : r.step = "answered")
  BY DEF EditModules
<1>2. Typed'
  BY <1>1 DEF IInv, Typed, TypeOK, memory
<1>3. Orderly'
  BY <1>1, SegregationAssumption DEF IInv, Orderly, OrderlyAt, memory
<1>4. AnswersFresh'
  <2>1. ~raced' => \A s \in Servers : \A r \in runs[s] : r.step # "answered"
    BY <1>1 DEF IInv, Orderly, OrderlyAt
  <2> QED
    BY <1>1, <2>1 DEF AnswersFresh, memory
<1>5. KeyTellsResult' /\ FreshAtStart'
  BY <1>1 DEF IInv, KeyTellsResult, FreshAtStart
<1> QED
  BY <1>2, <1>3, <1>4, <1>5 DEF IInv

LEMMA StartKeeps ==
  ASSUME IInv, NEW s \in Servers, Start(s)
  PROVE  IInv'
<1>1. /\ s \notin up /\ up' = up \cup {s} /\ edited' = edited \ {s}
      /\ tree' = tree /\ raced' = raced /\ persisted' = persisted /\ depsLost' = depsLost
      /\ cache' = cache /\ computing' = computing /\ depsStarted' = depsStarted /\ runs' = runs
  BY DEF Start, memory
<1>2. Typed'
  BY <1>1 DEF IInv, Typed, TypeOK
<1>3. Orderly'
  BY <1>1 DEF IInv, Orderly, OrderlyAt
<1>4. AnswersFresh' /\ KeyTellsResult'
  BY <1>1 DEF IInv, AnswersFresh, KeyTellsResult
<1>5. FreshAtStart'
  BY <1>1 DEF IInv, Orderly, OrderlyAt, FreshAtStart
<1> QED
  BY <1>2, <1>3, <1>4, <1>5 DEF IInv

LEMMA StopKeeps ==
  ASSUME IInv, NEW s \in Servers, Stop(s)
  PROVE  IInv'
<1>1. /\ up' = up \ {s} /\ computing' = computing \ {s} /\ depsStarted' = depsStarted \ {s}
      /\ depsLost' = depsLost \ {s} /\ UNCHANGED <<files, persisted>>
      /\ cache' = [cache EXCEPT ![s] = Unset] /\ runs' = [runs EXCEPT ![s] = {}]
  BY DEF Stop
<1>2. /\ cache' \in [Servers -> Results \cup {Unset, Null}] /\ cache'[s] = Unset
      /\ runs' \in [Servers -> SUBSET Runs] /\ runs'[s] = {}
      /\ \A x \in Servers \ {s} : cache'[x] = cache[x] /\ runs'[x] = runs[x]
  BY <1>1 DEF IInv, Typed
<1>3. Typed'
  BY <1>1, <1>2 DEF IInv, Typed, TypeOK, files
<1>4. Orderly'
  BY <1>1, <1>2 DEF IInv, Orderly, OrderlyAt, files
<1>5. AnswersFresh' /\ KeyTellsResult'
  BY <1>1, <1>2 DEF IInv, AnswersFresh, KeyTellsResult, files
<1>6. FreshAtStart'
  BY <1>1, <1>2 DEF IInv, Typed, TypeOK, FreshAtStart, files
<1> QED
  BY <1>3, <1>4, <1>5, <1>6 DEF IInv

LEMMA StutterKeeps ==
  ASSUME IInv, UNCHANGED vars
  PROVE  IInv'
BY DEF vars, files, memory, IInv, Typed, TypeOK, Orderly, OrderlyAt, AnswersFresh, KeyTellsResult,
       FreshAtStart, segCacheKey

LEMMA NextKeeps == IInv /\ [Next]_vars => IInv'
<1> SUFFICES ASSUME IInv, [Next]_vars PROVE IInv'
  OBVIOUS
<1>1. ASSUME NEW s \in Servers, Load(s) \/ Poll(s) \/ AskOther(s) PROVE IInv'
  BY <1>1, AskKeeps DEF Load, Poll, AskOther
<1>2. ASSUME NEW s \in Servers, RunStep(s) PROVE IInv'
  BY <1>2, RunKeeps
<1>3. ASSUME NEW s \in Servers, Start(s) \/ Stop(s) PROVE IInv'
  BY <1>3, StartKeeps, StopKeeps
<1>4. ASSUME NEW t \in Trees, EditModules(t) PROVE IInv'
  BY <1>4, EditKeeps
<1>5. CASE UNCHANGED vars
  BY <1>5, StutterKeeps
<1> QED
  BY <1>1, <1>2, <1>3, <1>4, <1>5 DEF Next

LEMMA Inductive == Spec => []IInv
BY InitEstablishes, NextKeeps, PTL DEF Spec
-----------------------------------------------------------------------------
\* What is cached and persisted stays a result of the module files.
THEOREM TypeCorrect == Spec => []TypeOK
<1>1. IInv => TypeOK
  BY DEF IInv, Typed
<1> QED
  BY <1>1, Inductive, PTL

\* However many requests come to a server, and whatever fails, it computes
\* one thing at a time: the workers of two runs never land out of order.
THEOREM ComputesOneThing == Spec => []OneRun
<1>1. IInv => OneRun
  <2> SUFFICES ASSUME IInv, NEW s \in Servers PROVE Cardinality(runs[s]) <= 1
    BY DEF OneRun
  <2>1. CASE runs[s] = {}
    BY <2>1, FS_EmptySet
  <2>2. CASE \E r \in runs[s] : runs[s] = {r}
    <3>1. PICK r \in runs[s] : runs[s] = {r}
      BY <2>2
    <3>2. Cardinality({r}) = 1
      BY FS_Singleton
    <3> QED
      BY <3>1, <3>2
  <2> QED
    BY <2>1, <2>2 DEF IInv, Orderly, OrderlyAt
<1> QED
  BY <1>1, Inductive, PTL

\* What the next server is given under a key is of files with that key, and
\* a server whose modules do not change serves what they segregate to.
THEOREM ServesWhatItStartedWith == Spec => []FreshAtStart
<1>1. IInv => FreshAtStart
  BY DEF IInv
<1> QED
  BY <1>1, Inductive, PTL

\* A settled result stays, and keeps its deps.
THEOREM SettledStays == Spec => NeverRegresses
<1>1. ASSUME IInv, [Next]_vars, NEW s \in up \cap up',
             cache[s] # Unset
      PROVE  /\ cache'[s] # Unset
             /\ cache[s] \in Results => cache'[s] \in Results /\ (cache[s].deps => cache'[s].deps)
  <2> DEFINE Final == cache'[s] \in Results /\ cache'[s].deps
  <2>1. s \in Servers /\ cache \in [Servers -> Results \cup {Unset, Null}]
    BY <1>1 DEF IInv, Typed, TypeOK
  <2>2. ASSUME NEW x \in Servers, NEW who, Ask(x, who) PROVE cache'[s] = cache[s]
    BY <1>1, <2>1, <2>2
    DEF Ask, AskSettled, AskWithoutModules, AskComputing, ComputeBase, memory
  <2>3. ASSUME NEW x \in Servers, RunStep(x), cache'[s] # cache[s]
        PROVE  Final
    <3>1. PICK r \in runs[x] : BaseLands(x, r) \/ DepsLand(x, r)
      BY <2>3
      DEF RunStep, WorkerReads, WorkerFails, ReportSettled, DepsComeToNothing
    <3>2. cache' = [cache EXCEPT ![x] = r.result] /\ r.step = "answered"
      BY <3>1 DEF BaseLands, DepsLand
    <3>3. x = s
      BY <2>1, <2>3, <3>2
    <3>4. r \in Runs /\ OrderlyAt(s)
      BY <1>1, <2>1, <3>3 DEF IInv, Typed, Orderly
    <3>5. DepsLand(x, r)
      BY <1>1, <3>1, <3>3, <3>4 DEF BaseLands, OrderlyAt
    <3>6. r.result # Null /\ r.kind = "deps"
      BY <3>5 DEF DepsLand
    <3> QED
      BY <2>1, <3>2, <3>3, <3>4, <3>6 DEF OrderlyAt, Runs
  <2>4. ASSUME NEW x \in Servers, Start(x) \/ Stop(x) PROVE cache'[s] = cache[s]
    BY <1>1, <2>1, <2>4 DEF Start, Stop, memory
  <2>5. ASSUME NEW t \in Trees, EditModules(t) PROVE cache'[s] = cache[s]
    BY <2>5 DEF EditModules, memory
  <2>6. ASSUME UNCHANGED vars PROVE cache'[s] = cache[s]
    BY <2>6 DEF vars, memory
  <2> HIDE DEF Final
  <2>7. cache'[s] = cache[s] \/ Final
    <3>1. ASSUME NEW x \in Servers, Load(x) \/ Poll(x) \/ AskOther(x) PROVE cache'[s] = cache[s]
      BY <2>2, <3>1 DEF Load, Poll, AskOther
    <3>2. CASE Next
      BY <2>3, <2>4, <2>5, <3>1, <3>2 DEF Next
    <3> QED
      BY <1>1, <2>6, <3>2
  <2>8. CASE cache'[s] = cache[s]
    BY <1>1, <2>8
  <2>9. CASE Final
    BY <2>9, SegregationAssumption DEF Final
  <2> QED
    BY <2>7, <2>8, <2>9
<1>2. IInv /\ [Next]_vars =>
        [\A s \in up \cap up' :
           /\ cache[s] # Unset => cache'[s] # Unset
           /\ cache[s] \in Results => cache'[s] \in Results /\ (cache[s].deps => cache'[s].deps)]_vars
  BY <1>1, SegregationAssumption
<1> QED
  BY <1>2, Inductive, PTL DEF Spec, NeverRegresses
=============================================================================
