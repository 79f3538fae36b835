---------------------------- MODULE WorkflowGraph ---------------------------
(***************************************************************************)
(* The check of a submitted workflow graph: the depth-first walk of        *)
(* validateWorkflowGraph, one call of walk a step, over any graph;         *)
(* then, for an accepted one, the traversals it will see.                  *)
(***************************************************************************)
EXTENDS WorkflowPaths

VARIABLES
    graph,          \* the submitted graph
    stack,          \* calls of walk: a node and the edges it has not followed
    visited,        \* nodes whose call has returned
    verdict,        \* "new", "walking", "accepted" or "rejected"
    outcome         \* the result of one traversal of the accepted graph

checkVars == <<graph, stack, visited, verdict, outcome>>

None == [after |-> {}, result |-> Walking({}, <<>>)]

CheckBegins ==
    /\ stack = <<>>
    /\ visited = {}
    /\ verdict = "new"
    /\ outcome = None

CheckInit == graph \in Graph /\ CheckBegins

Visiting == {stack[i].node : i \in 1..Len(stack)}

Refuse == verdict' = "rejected" /\ UNCHANGED <<graph, stack, visited, outcome>>

\* A call of walk for a node neither visited nor being visited.
Enter(n) ==
    IF DeadEnd(graph, n)
    THEN Refuse
    ELSE /\ stack' = Append(stack, [node |-> n, todo |-> Out(graph, n)])
         /\ verdict' = "walking"
         /\ UNCHANGED <<graph, visited, outcome>>

Begin ==
    /\ verdict = "new"
    /\ IF Shaped(graph) THEN Enter(StartOf(graph)) ELSE Refuse

Top == stack[Len(stack)]

\* Mutant: a node being visited is taken for one that is done.
FollowNoCycle ==
    /\ verdict = "walking"
    /\ \E e \in Top.todo :
        LET rest == [stack EXCEPT ![Len(stack)].todo = @ \ {e}]
        IN  IF e.to \in visited \cup Visiting
            THEN stack' = rest /\ UNCHANGED <<graph, visited, verdict, outcome>>
            ELSE IF DeadEnd(graph, e.to)
            THEN Refuse
            ELSE /\ stack' = Append(rest, [node |-> e.to, todo |-> Out(graph, e.to)])
                 /\ UNCHANGED <<graph, visited, verdict, outcome>>

\* Mutant: a node being visited is walked again; its caller is forgotten here so
\* that the stack stays short.
FollowForever ==
    /\ verdict = "walking"
    /\ \E e \in Top.todo :
        LET rest == [stack EXCEPT ![Len(stack)].todo = @ \ {e}]
        IN  IF e.to \in visited
            THEN stack' = rest /\ UNCHANGED <<graph, visited, verdict, outcome>>
            ELSE IF DeadEnd(graph, e.to)
            THEN Refuse
            ELSE /\ stack' = [rest EXCEPT ![Len(stack)] = [node |-> e.to, todo |-> Out(graph, e.to)]]
                 /\ UNCHANGED <<graph, visited, verdict, outcome>>

\* The loop over the edges of the top call.
Follow ==
    /\ verdict = "walking"
    /\ \E e \in Top.todo :
        LET rest == [stack EXCEPT ![Len(stack)].todo = @ \ {e}]
        IN  CASE e.to \in Visiting -> Refuse
              [] e.to \in visited ->
                    stack' = rest /\ UNCHANGED <<graph, visited, verdict, outcome>>
              [] e.to \notin visited \cup Visiting /\ DeadEnd(graph, e.to) -> Refuse
              [] OTHER ->
                    /\ stack' = Append(rest, [node |-> e.to, todo |-> Out(graph, e.to)])
                    /\ UNCHANGED <<graph, visited, verdict, outcome>>

\* The top call returns; the last one leaves it to the count of visited nodes.
Return ==
    /\ verdict = "walking"
    /\ Top.todo = {}
    /\ stack' = SubSeq(stack, 1, Len(stack) - 1)
    /\ visited' = visited \cup {Top.node}
    /\ verdict' = IF Len(stack) > 1 THEN "walking"
                  ELSE IF visited' = Present(graph) THEN "accepted" ELSE "rejected"
    /\ UNCHANGED <<graph, outcome>>

\* A start, or an approval given, with values that decide the conditions.
Run ==
    /\ verdict = "accepted"
    /\ outcome = None
    /\ \E after \in {{}} \cup {{n} : n \in OfType(graph, "approval")}, truth \in Truths :
        outcome' = [after |-> after, result |-> Traverse(graph, after, truth)]
    /\ UNCHANGED <<graph, stack, visited, verdict>>

CheckNext == Begin \/ Follow \/ Return \/ Run

CheckSpec == CheckInit /\ [][CheckNext]_checkVars

\* The check and the traversal are one request's own loops.
FairCheckSpec == CheckSpec /\ WF_checkVars(CheckNext)

-----------------------------------------------------------------------------
(* Properties *)

\* The walk accepts exactly the graphs that are acyclic, reachable from the one
\* start and without dead ends, whatever order it takes the edges in.
AcceptsSoundGraphs ==
    /\ verdict = "accepted" => Sound(graph)
    /\ verdict = "rejected" => ~Sound(graph)

\* A traversal of an accepted graph never loses its node nor runs into its limit
\* of turns; it stops at another approval or at an end, having built one
\* notification for each node of that type it passed, or at a fork.
TraversalStops ==
    outcome # None =>
        LET r == outcome.result
        IN  /\ \/ r.status = "pending" /\ graph.type[r.node] = "approval" /\ {r.node} # outcome.after
               \/ r.status = "completed" /\ graph.type[r.node] = "end"
               \/ /\ r.status = "no path" /\ graph.type[r.node] # "condition"
                  /\ Cardinality(Out(graph, r.node)) > 1
            /\ \A i, j \in 1..Len(r.sent) : r.sent[i] = r.sent[j] => i = j

\* The walk of any graph ends, cyclic ones included.
EveryCheckEnds == <>(verdict \in {"accepted", "rejected"})
=============================================================================
