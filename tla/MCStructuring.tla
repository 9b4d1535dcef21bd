--------------------------- MODULE MCStructuring ----------------------------
(***************************************************************************)
(* Every function of N blocks without regions, and of M blocks and two     *)
(* handlers with two regions, nested or apart; its blocks are numbered as  *)
(* the search of postorder meets them.                                     *)
(***************************************************************************)
EXTENDS Structuring

CONSTANTS N, M

\* The ends of a block: up to k edges to blocks of S.
Ends(S, k) == UNION {[1..j -> S] : j \in 0..k}

\* The blocks the search meets, in order.
RECURSIVE Met(_, _, _)
Met(g, seen, left) ==
  IF left = <<>> THEN seen
  ELSE IF Head(left) \in Range(seen) THEN Met(g, seen, Tail(left))
       ELSE Met(g, Append(seen, Head(left)), g[Head(left)] \o Tail(left))

Graphs(m) == {g \in [0..(m - 1) -> Ends(0..(m - 1), 2)] : Met(g, <<>>, <<0>>) = [j \in 1..m |-> j - 1]}

Plain == {[succs |-> g, regions |-> <<>>] : g \in Graphs(N)}

\* carveRegions: no two regions cross, and the outer or earlier one is first;
\* a handler is laid out after the body it protects, so the handler of the
\* second is in the first only with that body.
Carved(first, second) ==
  \/ second \subseteq first
  \/ first \cap second = {} /\ M + 1 \notin first

WithRegions ==
  {[succs |-> g @@ (M :> h1) @@ (M + 1 :> h2),
    regions |-> <<[body |-> B, handler |-> M], [body |-> C, handler |-> M + 1]>>]
     : g \in Graphs(M),
       h1 \in Ends(0..(M - 1), 1), h2 \in Ends(0..(M - 1), 1),
       B \in (SUBSET (0..(M - 1) \cup {M + 1})) \ {{}},
       C \in (SUBSET (0..M)) \ {{}}}

Functions4 == Plain \cup {f \in WithRegions : Carved(f.regions[1].body, f.regions[2].body)}
=============================================================================
