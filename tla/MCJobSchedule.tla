--------------------------- MODULE MCJobSchedule ---------------------------
(* Instances of JobSchedule for TLC. *)
EXTENDS JobSchedule, TLC

\* The relations between the constants that the properties of the runs need.
ASSUME ScheduleBounds == TTLSuffices /\ GapsSuffice

\* The replicas that may stop are interchangeable.
Symmetry == Permutations(Replicas \ Steady)
=============================================================================
