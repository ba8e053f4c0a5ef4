---------------------------- MODULE MCWorkerPool ----------------------------
(* Instances of WorkerPool for TLC. *)
EXTENDS WorkerPoolTenancy, TLC

CONSTANTS c1, c2, c3, o1, s1

NoOutbound == <<>>
OneOutbound == o1 :> s1

Symmetry == Permutations(Task) \cup Permutations(Runner) \cup Permutations(Worker)
=============================================================================
