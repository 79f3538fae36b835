----------------------------- MODULE MCJobQueue -----------------------------
(* Instances of JobQueue for TLC. *)
EXTENDS JobQueue, TLC

\* Jobs, workers and operators are interchangeable in the safety runs.
Symmetry == Permutations(Jobs) \cup Permutations(Workers) \cup Permutations(Operators)
=============================================================================
