-------------------------- MODULE MCWorkflowEngine --------------------------
(* Definitions with two approvals in a row and a notification after each,   *)
(* with a condition between an approval and the end, and with a fork that   *)
(* the check accepts and no traversal passes.                               *)
EXTENDS WorkflowEngine, TLC

CONSTANTS s, a, b, c, d, e

MCNodes == {s, a, b, c, d, e}

Edge(m, n) == [from |-> m, to |-> n, label |-> TRUE]
Branch(m, n, l) == [from |-> m, to |-> n, label |-> l]

TwoApprovals ==
    [type |-> (s :> "start" @@ a :> "approval" @@ c :> "notification" @@ b :> "approval"
               @@ d :> "notification" @@ e :> "end"),
     edges |-> {Edge(s, a), Edge(a, c), Edge(c, b), Edge(b, d), Edge(d, e)}]

Conditional ==
    [type |-> (s :> "start" @@ a :> "notification" @@ b :> "approval" @@ c :> "condition"
               @@ d :> "approval" @@ e :> "end"),
     edges |-> {Edge(s, a), Edge(a, b), Edge(b, c), Branch(c, d, TRUE), Branch(c, e, FALSE), Edge(d, e)}]

Forked ==
    [type |-> (s :> "start" @@ a :> "approval" @@ b :> "notification" @@ c :> "notification"
               @@ d :> "absent" @@ e :> "end"),
     edges |-> {Edge(s, a), Edge(a, b), Edge(b, c), Edge(b, e), Edge(c, e)}]

MCDefinitions == {TwoApprovals, Conditional, Forked}

Symmetry == Permutations(Actors)
=============================================================================
