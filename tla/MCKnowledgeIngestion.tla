------------------------ MODULE MCKnowledgeIngestion ------------------------
(* Instances of KnowledgeIngestion for TLC. *)
EXTENDS KnowledgeIngestion, TLC

\* Jobs and workers are interchangeable.
Symmetry == Permutations(Jobs) \cup Permutations(Workers)
=============================================================================
