--------------------------- MODULE MCRevisionStore ---------------------------
(***************************************************************************)
(* RevisionStore on small instances.  Slots, values, timestamps and        *)
(* clients are only compared for equality and every property quantifies    *)
(* over all of them, so permuting them maps behaviours to behaviours.      *)
(***************************************************************************)
EXTENDS RevisionStore, TLC

Symmetry ==
  Permutations(Slots) \cup Permutations(Values) \cup Permutations(Stamps) \cup Permutations(Clients)
=============================================================================
