---------------------------- MODULE Structuring -----------------------------
(***************************************************************************)
(* structure() (src/structure/): a function's graph is augmented with one  *)
(* try-head per exception region, ramsey turns its dominator tree into a   *)
(* tree of statements, dispatchStructure is what it falls back to, and     *)
(* verify.ts interprets the tree and compares it with the graph.           *)
(*                                                                         *)
(* The mode is "auto", the default.  A branch stands for a switch too; the *)
(* guards on recursion depth and nesting (1500, 1000) are out of reach of  *)
(* graphs this small and left out, and so is P3, which cannot fail: every  *)
(* block met a second time is declared duplicated (blockLeaf).             *)
(***************************************************************************)
EXTENDS Dominators, Functions, TLC

CONSTANTS
  Inputs,      \* the functions to structure: [succs, regions]
  LeastBudget  \* leaves a tree may have however few its blocks; 64 in the code

VARIABLES
  function,  \* the one at hand: its normal graph and its exception regions
  stage,     \* where structure() is
  next,      \* the region augment is at
  heads,     \* [try-heads -> regions]
  mode,      \* "ramsey" or "dispatch"
  tree       \* what the structurer built; NoTree is NeedDispatch

structuring == <<function, stage, next, heads, mode, tree>>
vars == <<domVars, structuring>>

NoTree == [k |-> "none"]
EMPTY == [k |-> "seq", body |-> <<>>]

Init ==
  /\ function \in Inputs
  /\ StartsOn(function.succs, 0)
  /\ stage = "augment" /\ next = 1 /\ heads = <<>>
  /\ mode = "ramsey" /\ tree = NoTree

Analyse == DomStep /\ UNCHANGED structuring
-----------------------------------------------------------------------------
\* The innermost block that dominates every block of S.
lca(S) ==
  LET common == {d \in Reached : \A b \in S : dominates(d, b)}
  IN  CHOOSE d \in common : \A c \in common : dominates(c, d)

\* Edges into d go to the try-head instead, unless they come from inside.
Redirected(d, id) ==
  [b \in Blocks |->
    IF b # d /\ dominates(d, b) THEN succs[b]
    ELSE [k \in DOMAIN succs[b] |-> IF succs[b][k] = d THEN id ELSE succs[b][k]]]

\* The head goes above what dominates the region's body; a body nothing
\* reaches yet has none.
InsertTryHead ==
  /\ stage = "augment" /\ phase = "done"
  /\ next <= Len(function.regions)
  /\ next' = next + 1
  /\ LET region == function.regions[next]
         body == region.body \cap Reached
         d == lca(body)
         id == Cardinality(Blocks)
     IN  IF body = {}
         THEN UNCHANGED <<domVars, heads>>
         ELSE /\ RestartsOn(Redirected(d, id) @@ (id :> <<d, region.handler>>), IF entry = d THEN id ELSE entry)
              /\ heads' = heads @@ (id :> next)
  /\ UNCHANGED <<function, stage, mode, tree>>

loopHeaders == {e[2] : e \in backEdges}
inDegree(b) == Cardinality({<<p, k>> \in Blocks \X (1..2) : k \in DOMAIN succs[p] /\ succs[p][k] = b})
mergePointsByBlocks ==  \* a mutant of mergePoints: counts predecessors, not edges
  {b \in Reached \ loopHeaders : Cardinality(Preds(b)) >= 2}

mergePoints == {b \in Reached \ loopHeaders : inDegree(b) >= 2}

\* What ramsey reads of the augmented graph.
Graph ==
  [back |-> backEdges, loops |-> loopHeaders, merges |-> mergePoints,
   kids |-> [b \in Reached |->
              SetToSortSeq(Children(b) \cap mergePoints, LAMBDA x, y : rpoIndex(x) > rpoIndex(y))]]
-----------------------------------------------------------------------------
seq(parts) ==
  LET flat == FlattenSeq([j \in DOMAIN parts |-> IF parts[j].k = "seq" THEN parts[j].body ELSE <<parts[j]>>])
  IN  IF Len(flat) = 1 THEN flat[1] ELSE [k |-> "seq", body |-> flat]

leaf(b) == [k |-> "block", b |-> b]

\* ctx holds the frames in scope, onPath the blocks being built; a label is
\* named by its header.
RECURSIVE doTree(_, _, _, _), nodeWithin(_, _, _, _, _), bodyOf(_, _, _, _), doBranch(_, _, _, _, _)

doTree(node, ctx, onPath, g) ==
  IF node \in onPath THEN NoTree
  ELSE IF node \in g.loops
       THEN [k |-> "loop", label |-> node,
             body |-> nodeWithin(node, g.kids[node], ctx \cup {<<"loop", node>>}, onPath \cup {node}, g)]
       ELSE nodeWithin(node, g.kids[node], ctx, onPath \cup {node}, g)

nodeWithin(node, kids, ctx, onPath, g) ==
  IF kids = <<>> THEN bodyOf(node, ctx, onPath, g)
  ELSE LET kid == Head(kids)
       IN  seq(<<[k |-> "labeled", label |-> kid,
                  body |-> nodeWithin(node, Tail(kids), ctx \cup {<<"block", kid>>}, onPath, g)],
                 doTree(kid, ctx, onPath, g)>>)

bodyOf(b, ctx, onPath, g) ==
  LET to(e) == doBranch(b, succs[b][e], ctx, onPath, g)
  IN  CASE succs[b] = <<>> -> [k |-> "return", b |-> b]
        [] Len(succs[b]) = 1 -> seq(<<leaf(b), to(1)>>)
        [] b \in DOMAIN heads -> [k |-> "try", b |-> b, body |-> to(1), handler |-> to(2)]
        [] OTHER -> seq(<<leaf(b), [k |-> "if", b |-> b, then |-> to(1), else |-> to(2)]>>)

doBranch(from, to, ctx, onPath, g) ==
  CASE <<from, to>> \in g.back ->
         IF <<"loop", to>> \in ctx THEN [k |-> "continue", label |-> to] ELSE NoTree
    [] <<from, to>> \notin g.back /\ to \in g.merges /\ <<"block", to>> \in ctx ->
         [k |-> "break", label |-> to]
    [] OTHER -> doTree(to, ctx, onPath, g)
-----------------------------------------------------------------------------
children(t) ==
  CASE t.k = "seq" -> t.body
    [] t.k \in {"labeled", "loop"} -> <<t.body>>
    [] t.k = "if" -> <<t.then, t.else>>
    [] t.k = "switch" -> t.arms
    [] t.k = "try" -> <<t.body, t.handler>>
    [] OTHER -> <<>>

\* Every node below a stack of them, as the walks of verify.ts pop them.
RECURSIVE popped(_)
popped(pile) ==
  IF pile = <<>> THEN <<>>
  ELSE <<Last(pile)>> \o popped(Front(pile) \o children(Last(pile)))

nodes(t) == popped(<<t>>)

standsForBlock(t) == t.k \in {"block", "return"} \/ (t.k = "try" /\ t.b >= 0)
emitted(t) == SelectSeq(nodes(t), standsForBlock)

budget == Max({LeastBudget, 2 * Cardinality(Blocks)})

\* NeedDispatch: a branch that cannot be expressed, or too many leaves.
Ramsey ==
  /\ stage = "augment" /\ phase = "done"
  /\ next > Len(function.regions)
  /\ LET t == doTree(entry, {}, {}, Graph)
         needsDispatch == NoTree \in Range(nodes(t)) \/ Len(emitted(t)) > budget
     IN  /\ tree' = IF needsDispatch THEN NoTree ELSE t
         /\ stage' = IF needsDispatch THEN "fallback" ELSE "verify"
  /\ UNCHANGED <<domVars, function, next, heads, mode>>

\* The plain graph is analysed again, without try-heads.
FallBack ==
  /\ stage = "fallback"
  /\ RestartsOn(function.succs, 0)
  /\ stage' = "dispatch" /\ mode' = "dispatch" /\ heads' = <<>>
  /\ UNCHANGED <<function, next, tree>>

\* Over normal and exception edges.
ReachableBlocks ==
  LET after(b) == Range(succs[b]) \cup
                  {r.handler : r \in {q \in Range(function.regions) : b \in q.body}}
  IN  Closure([b \in Blocks |-> after(b)], {entry})

goTo(b) == seq(<<[k |-> "setState", value |-> b], [k |-> "continue", label |-> 0]>>)

armForInverted(b) ==  \* a mutant of armFor: the arms of a branch change places
  CASE succs[b] = <<>> -> [k |-> "return", b |-> b]
    [] Len(succs[b]) = 1 -> seq(<<leaf(b), goTo(succs[b][1])>>)
    [] OTHER -> seq(<<leaf(b), [k |-> "if", b |-> b, then |-> goTo(succs[b][2]), else |-> goTo(succs[b][1])]>>)

armFor(b) ==
  CASE succs[b] = <<>> -> [k |-> "return", b |-> b]
    [] Len(succs[b]) = 1 -> seq(<<leaf(b), goTo(succs[b][1])>>)
    [] OTHER -> seq(<<leaf(b), [k |-> "if", b |-> b, then |-> goTo(succs[b][1]), else |-> goTo(succs[b][2])]>>)

\* The innermost region is the innermost try.
depthOf(r) ==
  Cardinality({q \in 1..(r - 1) : function.regions[r].body \subseteq function.regions[q].body})
ordered ==
  SetToSortSeq(DOMAIN function.regions,
               LAMBDA r, q : depthOf(r) > depthOf(q) \/ (depthOf(r) = depthOf(q) /\ r < q))

\* One switch over every block, in a nest of tries, in a loop.
Dispatch ==
  /\ stage = "dispatch" /\ phase = "done"
  /\ LET arms == SetToSortSeq(ReachableBlocks, <)
         flat == [k |-> "switch", arms |-> [j \in DOMAIN arms |-> armFor(arms[j])]]
         wrapped == FoldLeft(LAMBDA t, r : [k |-> "try", b |-> -1, body |-> t,
                                            handler |-> goTo(function.regions[r].handler)],
                             flat, ordered)
     IN  tree' = seq(<<[k |-> "setState", value |-> entry], [k |-> "loop", label |-> 0, body |-> wrapped]>>)
  /\ stage' = "verify"
  /\ UNCHANGED <<domVars, function, next, heads, mode>>
-----------------------------------------------------------------------------
rest(t) == [t EXCEPT !.body = Tail(@)]

\* What a label is bound to: where a break goes, and a continue.
binds(label, brk, cont, ctx) == (label :> [break |-> brk, continue |-> cont]) @@ ctx

\* reconstruct: the blocks control can be at when t begins, when it goes on to
\* the blocks of `after` and ctx binds the labels.
RECURSIVE entryOf(_, _, _)
entryOf(t, after, ctx) ==
  CASE t.k \in {"block", "return"} -> {t.b}
    [] t.k = "setState" -> {t.value}
    [] t.k = "seq" ->
         IF t = EMPTY THEN after
         ELSE entryOf(Head(t.body), entryOf(rest(t), after, ctx), ctx)
    [] t.k = "labeled" -> entryOf(t.body, after, binds(t.label, after, {}, ctx))
    [] t.k = "loop" -> entryOf(t.body, {}, binds(t.label, after, {}, ctx))
    [] t.k = "try" -> IF t.b >= 0 THEN {t.b} ELSE entryOf(t.body, after, ctx)
    [] t.k \in {"break", "continue"} -> IF t.label \in DOMAIN ctx THEN ctx[t.label][t.k] ELSE {}
    [] OTHER -> UNION {entryOf(s, after, ctx) : s \in Range(children(t))}

\* Where control goes from each copy of a block: one <<kind, block, targets>>
\* per copy, with the targets of each arm.
RECURSIVE leaving(_, _, _)
leaving(t, after, ctx) ==
  LET of(s) == leaving(s, after, ctx)
      enters(s) == entryOf(s, after, ctx)
  IN  CASE t.k = "block" -> {<<"block", t.b, <<after>>>>}
        [] t.k = "return" -> {<<"return", t.b, <<>>>>}
        [] t.k = "seq" ->
             IF t = EMPTY THEN {}
             ELSE leaving(Head(t.body), enters(rest(t)), ctx) \cup of(rest(t))
        [] t.k = "labeled" -> leaving(t.body, after, binds(t.label, after, {}, ctx))
        [] t.k = "loop" ->
             leaving(t.body, enters(t), binds(t.label, after, enters(t), ctx))
        [] t.k = "if" -> {<<"if", t.b, <<enters(t.then), enters(t.else)>>>>} \cup of(t.then) \cup of(t.else)
        [] t.k = "try" ->
             (IF t.b >= 0 THEN {<<"try", t.b, <<enters(t.body), enters(t.handler)>>>>} ELSE {})
               \cup of(t.body) \cup of(t.handler)
        [] OTHER -> UNION {of(s) : s \in Range(children(t))}

Left == leaving(tree, {}, <<>>)

\* The jumps of t that no label around them binds.
RECURSIVE unscoped(_)
unscoped(t) ==
  CASE t.k \in {"break", "continue"} -> {<<t.k, t.label>>}
    [] t.k = "labeled" -> unscoped(t.body) \ {<<"break", t.label>>}
    [] t.k = "loop" -> unscoped(t.body) \ {<<"break", t.label>>, <<"continue", t.label>>}
    [] OTHER -> UNION {unscoped(s) : s \in Range(children(t))}

EdgesPreserved ==  \* P1: over all the copies of a block
  UNION {{f[2]} \X UNION Range(f[3]) : f \in {x \in Left : x[1] # "if"}}
    = UNION {{b} \X Range(succs[b]) : b \in ReachableBlocks}

BlocksCovered ==  \* P2
  ReachableBlocks \subseteq {t.b : t \in Range(emitted(tree))}

TerminatorsKept ==  \* P5
  \A b \in ReachableBlocks :
    LET kind == IF b \in DOMAIN heads THEN "try" ELSE IF succs[b] = <<>> THEN "return" ELSE "if"
    IN  Len(succs[b]) # 1 => \E t \in Range(nodes(tree)) : t.k = kind /\ t.b = b

RegionsContained ==  \* P6: in the first try node of its head
  \A h \in DOMAIN heads :
    LET tries == SelectSeq(nodes(tree), LAMBDA t : t.k = "try" /\ t.b = h)
        inBody == {t.b : t \in {x \in Range(nodes(tries[1].body)) : x.k \in {"block", "return"}}}
    IN  tries # <<>> /\ function.regions[heads[h]].body \cap ReachableBlocks \subseteq inBody

\* A region that no try can cover is dispatched; any other failure throws
\* E_STRUCTURE_UNSOUND.
Verify ==
  /\ stage = "verify"
  /\ LET shape == unscoped(tree) = {} /\ EdgesPreserved /\ BlocksCovered /\ TerminatorsKept
     IN  stage' = CASE shape /\ RegionsContained -> "structured"
                    [] shape /\ ~RegionsContained /\ mode = "ramsey" -> "fallback"
                    [] OTHER -> "unsound"
  /\ UNCHANGED <<domVars, function, next, heads, mode, tree>>

Next == Analyse \/ InsertTryHead \/ Ramsey \/ FallBack \/ Dispatch \/ Verify

Spec == Init /\ [][Next]_vars
-----------------------------------------------------------------------------
\* Every function is structured, and every copy of a block in the tree goes
\* where the block goes, each arm to its own target.  verify.ts compares the
\* edges of all copies together, and does not tell the arms of an if apart.
TreeExact ==
  /\ stage # "unsound"
  /\ stage = "structured" =>
       \A f \in Left :
         LET b == f[2]
             targets == [j \in DOMAIN succs[b] |-> {succs[b][j]}]
         IN  IF f[1] = "block" THEN f[3] = <<Range(succs[b])>> ELSE f[3] = targets

\* ramsey built a tree, and writes no block in it twice.
WrittenOnce == tree # NoTree /\ Cardinality({t.b : t \in Range(emitted(tree))}) = Len(emitted(tree))

RamseyEnded == stage \in {"verify", "fallback"} /\ mode = "ramsey"

\* What ramsey keeps of ST-04: a reducible graph whose loops are each entered by
\* one forward edge needs no dispatch, and no block of it is copied, whatever
\* the merge points, try-heads and repeated edges in it.
CopiesOnlyLoops ==
  LET entering(b) == {<<p, k>> \in Reached \X (1..2) :
                        k \in DOMAIN succs[p] /\ succs[p][k] = b /\ <<p, b>> \notin backEdges}
  IN  RamseyEnded /\ reducible /\ (\A b \in loopHeaders : Cardinality(entering(b)) <= 1) => WrittenOnce

\* ST-04 and the diagnostic of index.ts: a reducible graph needs no dispatch,
\* and no block of it is copied.
ReducibleNeverCopied == RamseyEnded /\ reducible => WrittenOnce
=============================================================================
