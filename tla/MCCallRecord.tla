---------------------------- MODULE MCCallRecord ----------------------------
(* Instances of CallRecord for TLC. *)
EXTENDS CallRecord, TLC

CONSTANTS c1, c2

Symmetry == Permutations(Task) \cup Permutations(Runner)
            \cup Permutations(Slot) \cup Permutations(Row)
=============================================================================
