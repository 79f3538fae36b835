------------------------------ MODULE MCRecords ------------------------------
(* A free plan of one record and a paid one of two. *)
EXTENDS Records, TLC

CONSTANTS free, pro, e1

MCLimit == free :> 1 @@ pro :> 2
MCEventPlan == e1 :> pro

Symmetry == Permutations(Records) \cup Permutations(Actors)
=============================================================================
