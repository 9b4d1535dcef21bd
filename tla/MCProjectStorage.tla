-------------------------- MODULE MCProjectStorage --------------------------
(***************************************************************************)
(* ProjectStorage with one module: the names of a and b share its shard.   *)
(***************************************************************************)
EXTENDS ProjectStorage, TLC

CONSTANTS a, b, m1

\* Two targets of m1.
OneShard == a :> m1 @@ b :> m1

\* Names are only compared with each other.
ValueSymmetry == Permutations(Values)
=============================================================================
