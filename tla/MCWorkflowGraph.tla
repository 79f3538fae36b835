--------------------------- MODULE MCWorkflowGraph --------------------------
(* All graphs on a start, an end and two nodes of any type, with at most two *)
(* edges out of a node (one out of an end) and labels where they are read.   *)
EXTENDS WorkflowGraph, TLC

CONSTANTS s, a, b, e

MCNodes == {s, a, b, e}

\* Edge sets out of n: labelled at a condition, not at another node.
OutSets(n, t) ==
    {E \in SUBSET [from : {n}, to : MCNodes \ {n}, label : IF t = "condition" THEN BOOLEAN ELSE {TRUE}] :
        Cardinality(E) <= (IF t = "end" THEN 1 ELSE 2)}

Middle == {"approval", "condition", "notification", "end"}

\* Picked node by node: the set of all these graphs is never built.
MCInit ==
    /\ \E ta \in Middle, tb \in Middle \cup {"absent"} :
        \E S \in OutSets(s, "start"), A \in OutSets(a, ta), B \in OutSets(b, tb), E \in OutSets(e, "end") :
            graph = [type |-> (s :> "start" @@ a :> ta @@ b :> tb @@ e :> "end"),
                     edges |-> S \cup A \cup B \cup E]
    /\ CheckBegins

MCSpec == MCInit /\ [][CheckNext]_checkVars /\ WF_checkVars(CheckNext)
=============================================================================
