---------------------------- MODULE MCSegregation ----------------------------
(* Which of the module trees have files of the same sizes.                 *)
EXTENDS Segregation

CONSTANTS t1, t2

MCTrees == {t1, t2}
MCSizesOf == [t \in {t1, t2, NoModules} |-> IF t = NoModules THEN 0 ELSE IF t = t1 THEN 1 ELSE 2]
=============================================================================
