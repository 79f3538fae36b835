------------------------------ MODULE MCSchemas ------------------------------
(* Schemas for model checking. *)
EXTENDS Schemas, TLC

CONSTANTS f1, f2

Of(kind, required, default) == [kind |-> kind, required |-> required, default |-> default]

\* A required text and an amount whose default is larger than an amount may be, then a number that is
\* required and a date, and one that is refused for its default.
MCDrafts ==
    {[f \in {f1, f2} |-> IF f = f1 THEN Of("string", TRUE, None) ELSE Of("money", TRUE, "large")],
     [f \in {f1, f2} |-> IF f = f1 THEN Of("number", TRUE, None) ELSE Of("date", FALSE, None)],
     [f \in {f1} |-> Of("number", TRUE, "text")]}

Symmetry == Permutations(Request)
=============================================================================
