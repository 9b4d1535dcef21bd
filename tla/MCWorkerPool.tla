---------------------------- MODULE MCWorkerPool ----------------------------
(***************************************************************************)
(* WorkerPool on small instances without liveness: jobs and servers are    *)
(* interchangeable there.                                                  *)
(***************************************************************************)
EXTENDS WorkerPool, TLC

Symmetry == Permutations(Jobs) \cup Permutations(Procs)
=============================================================================
