----------------------------- MODULE Dominators -----------------------------
(***************************************************************************)
(* computeDominators (src/cfg/dom.ts), which domInfo (structure/augment.ts)*)
(* repeats over the augmented graph: the depth-first postorder of the      *)
(* normal graph, the Cooper-Harvey-Kennedy passes over its reverse, the    *)
(* clock walk of the tree they leave, back edges and reducibility.         *)
(*                                                                         *)
(* One action is one turn of a loop.  `succs` and `entry` are its input:   *)
(* Structuring chooses them, and starts it again on another graph.         *)
(***************************************************************************)
EXTENDS Integers, FiniteSets, SequencesExt

VARIABLES
  succs,       \* [0..n-1 -> Seq(0..n-1)]: a block's successors, in edge order
  entry,
  phase,       \* the loop the computation is in
  stack,       \* postorder's, and then the walk's
  nextEdge,    \* how many edges of a block the search has followed
  order,       \* postorder's result so far
  retreating,  \* the edges that met a block of the stack
  idomIdx,     \* by position in the reverse postorder, from 0; -1 unknown
  i,           \* the position a pass is at
  changed, iterations,
  clock, tin, tout

input == <<succs, entry>>
search == <<stack, nextEdge, order, retreating>>
passes == <<idomIdx, i, changed, iterations>>
walk == <<clock, tin, tout>>
domVars == <<input, phase, search, passes, walk>>

Blocks == DOMAIN succs
n == Len(order)
rpo == [k \in 0..(n - 1) |-> order[n - k]]
rpoIndex(b) == CHOOSE k \in 0..(n - 1) : rpo[k] = b
Reached == Range(order)
Preds(b) == {p \in Blocks : b \in Range(succs[p])}

\* All that S leads to by `edges`, a function from nodes to sets of nodes.
Closure(edges, S) ==
  LET after[k \in Nat] == IF k = 0 THEN S ELSE UNION {{b} \cup edges[b] : b \in after[k - 1]}
  IN  after[Cardinality(DOMAIN edges)]

\* The computation at its start, on the graph g from block e.
StartsOn(g, e) ==
  /\ succs = g /\ entry = e
  /\ phase = "search"
  /\ stack = <<e>>
  /\ nextEdge = [b \in DOMAIN g |-> 0]
  /\ order = <<>> /\ retreating = {}
  /\ idomIdx = <<>> /\ i = 0 /\ changed = FALSE /\ iterations = 0
  /\ clock = 0
  /\ tin = [b \in DOMAIN g |-> -1] /\ tout = [b \in DOMAIN g |-> -1]

\* The same of the next state: the computation starts again.
RestartsOn(g, e) ==
  /\ succs' = g /\ entry' = e
  /\ phase' = "search"
  /\ stack' = <<e>>
  /\ nextEdge' = [b \in DOMAIN g |-> 0]
  /\ order' = <<>> /\ retreating' = {}
  /\ idomIdx' = <<>> /\ i' = 0 /\ changed' = FALSE /\ iterations' = 0
  /\ clock' = 0
  /\ tin' = [b \in DOMAIN g |-> -1] /\ tout' = [b \in DOMAIN g |-> -1]
-----------------------------------------------------------------------------
Seen == Range(stack) \cup Reached

Follow ==
  /\ phase = "search"
  /\ stack # <<>>
  /\ LET b == Last(stack)
         t == succs[b][nextEdge[b] + 1]
     IN  /\ nextEdge[b] < Len(succs[b])
         /\ nextEdge' = [nextEdge EXCEPT ![b] = @ + 1]
         /\ stack' = IF t \in Seen THEN stack ELSE Append(stack, t)
         /\ retreating' = IF t \in Range(stack) THEN retreating \cup {<<b, t>>} ELSE retreating
  /\ UNCHANGED <<input, phase, order, passes, walk>>

Leave ==
  /\ phase = "search"
  /\ stack # <<>>
  /\ nextEdge[Last(stack)] = Len(succs[Last(stack)])
  /\ order' = Append(order, Last(stack))
  /\ stack' = Front(stack)
  /\ UNCHANGED <<input, phase, nextEdge, retreating, passes, walk>>

\* The entry, at position 0, dominates itself.
StartPasses ==
  /\ phase = "search"
  /\ stack = <<>>
  /\ phase' = "pass"
  /\ idomIdx' = [k \in 0..(n - 1) |-> IF k = 0 THEN 0 ELSE -1]
  /\ i' = 1 /\ iterations' = 1
  /\ UNCHANGED <<input, search, changed, walk>>
-----------------------------------------------------------------------------
\* Where two positions meet when the later one climbs to its dominator, again
\* and again; -1 is where nothing is known, and nobody climbs further.
climb == [x \in -1..(n - 1) |-> IF x < 1 THEN {} ELSE {idomIdx[x]}]
intersect(a, b) ==
  LET common == Closure(climb, {a}) \cap Closure(climb, {b})
  IN  CHOOSE x \in common : \A y \in common : y <= x

NewIdomOfAny(b) ==  \* a mutant of NewIdom: the last predecessor wins
  LET known == {p \in Preds(b) \cap Reached : idomIdx[rpoIndex(p)] # -1}
      positions == SetToSortSeq({rpoIndex(p) : p \in known}, <)
  IN  IF positions = <<>> THEN -1 ELSE Last(positions)

\* Over the predecessors that are reachable and processed.
NewIdom(b) ==
  LET known == {p \in Preds(b) \cap Reached : idomIdx[rpoIndex(p)] # -1}
      positions == SetToSeq({rpoIndex(p) : p \in known})
  IN  IF positions = <<>> THEN -1
      ELSE FoldLeft(LAMBDA idom, p : intersect(p, idom), Head(positions), Tail(positions))

Visit ==
  /\ phase = "pass"
  /\ i < n
  /\ i' = i + 1
  /\ LET newIdom == NewIdom(rpo[i])
     IN  IF newIdom # -1 /\ idomIdx[i] # newIdom
         THEN idomIdx' = [idomIdx EXCEPT ![i] = newIdom] /\ changed' = TRUE
         ELSE UNCHANGED <<idomIdx, changed>>
  /\ UNCHANGED <<input, phase, search, iterations, walk>>

\* Another pass after one that changed something; too many throw E_INTERNAL.
NextPass ==
  /\ phase = "pass"
  /\ i >= n
  /\ changed
  /\ iterations' = iterations + 1
  /\ IF iterations' > n + 2 THEN phase' = "thrown" ELSE phase' = phase
  /\ i' = 1 /\ changed' = FALSE
  /\ UNCHANGED <<input, search, idomIdx, walk>>

EndPasses ==
  /\ phase = "pass"
  /\ i >= n
  /\ ~changed
  /\ phase' = "walk"
  /\ stack' = <<entry>>
  /\ tin' = [tin EXCEPT ![entry] = clock]
  /\ clock' = clock + 1
  /\ UNCHANGED <<input, nextEdge, order, retreating, passes, tout>>
-----------------------------------------------------------------------------
\* The dominator tree: children in reverse postorder.
Children(b) == {c \in Reached : rpoIndex(c) > 0 /\ rpo[idomIdx[rpoIndex(c)]] = b}

Descend ==
  /\ phase = "walk"
  /\ LET left == {c \in Children(Last(stack)) : tin[c] = -1}
         c == CHOOSE x \in left : \A y \in left : rpoIndex(x) <= rpoIndex(y)
     IN  /\ left # {}
         /\ tin' = [tin EXCEPT ![c] = clock]
         /\ stack' = Append(stack, c)
  /\ clock' = clock + 1
  /\ UNCHANGED <<input, phase, nextEdge, order, retreating, passes, tout>>

Ascend ==
  /\ phase = "walk"
  /\ \A c \in Children(Last(stack)) : tin[c] # -1
  /\ tout' = [tout EXCEPT ![Last(stack)] = clock]
  /\ clock' = clock + 1
  /\ stack' = Front(stack)
  /\ phase' = IF stack' = <<>> THEN "done" ELSE phase
  /\ UNCHANGED <<input, nextEdge, order, retreating, passes, tin>>

DomStep ==
  \/ Follow \/ Leave \/ StartPasses
  \/ Visit \/ NextPass \/ EndPasses
  \/ Descend \/ Ascend

\* A graph: finitely many blocks with their successors, and one to start from.
IsGraph(g, e) ==
  /\ g = [b \in DOMAIN g |-> g[b]] /\ IsFiniteSet(DOMAIN g)
  /\ \A b \in DOMAIN g : g[b] \in Seq(DOMAIN g)
  /\ e \in DOMAIN g

\* The analysis alone, of one graph after another, each cut short or not.
StartsAnalysis == IsGraph(succs, entry) /\ StartsOn(succs, entry)
RestartsAnalysis == IsGraph(succs', entry') /\ RestartsOn(succs', entry')

DomSpec == StartsAnalysis /\ [][DomStep \/ RestartsAnalysis]_domVars
-----------------------------------------------------------------------------
dominates(a, b) ==
  /\ tin[a] # -1 /\ tin[b] # -1
  /\ tin[a] <= tin[b] /\ tout[b] <= tout[a]

backEdges == {e \in Blocks \X Blocks : e[2] \in Range(succs[e[1]]) /\ dominates(e[2], e[1])}

reducible == retreating \subseteq backEdges

\* What can be reached from S along edges, without entering the blocks of W.
ReachableWithout(W, S) == Closure([b \in Blocks |-> Range(succs[b]) \ W], S \ W)

\* a dominates b: both are reachable, and every path to b enters a.
Dominates(a, b) ==
  LET reachable == ReachableWithout({}, {entry})
  IN  a \in reachable /\ b \in reachable /\ (a = b \/ b \notin ReachableWithout({a}, {entry}))

\* The passes converge within the bound that would throw, on every graph, and
\* `dominates` is dominance: what every structuring decision rests on.
DominatorsExact ==
  /\ phase # "thrown"
  /\ phase = "done" => \A a, b \in Blocks : dominates(a, b) <=> Dominates(a, b)
=============================================================================
