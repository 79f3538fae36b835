--------------------------- MODULE WorkflowPaths ----------------------------
(***************************************************************************)
(* Workflow graphs and the traversal of their automatic nodes: the pure    *)
(* functions of workflow_service.go.  A graph is a record of node types    *)
(* and edges; an edge's label is read at condition nodes only.             *)
(*                                                                         *)
(* What a record's values make of the conditions is a parameter: truth[n]  *)
(* is the result of compare at the condition node n.                       *)
(***************************************************************************)
EXTENDS Naturals, Sequences, FiniteSets

CONSTANT Nodes          \* node ids

ASSUME FiniteNodes == IsFiniteSet(Nodes)

Types == {"start", "approval", "condition", "notification", "end"}

\* A node of type "absent" is not in the graph.
Graph == [type : [Nodes -> Types \cup {"absent"}],
          edges : SUBSET [from : Nodes, to : Nodes, label : BOOLEAN]]

Truths == [Nodes -> BOOLEAN]

Present(g) == {n \in Nodes : g.type[n] # "absent"}
OfType(g, t) == {n \in Nodes : g.type[n] = t}
Out(g, n) == {e \in g.edges : e.from = n}
Successors(g, n) == {e.to : e \in Out(g, n)}
StartOf(g) == CHOOSE n \in Nodes : g.type[n] = "start"

\* The checks of validateWorkflowGraph that come before its walk, but for its limit of
\* 2 to 100 nodes and what it asks of a node's configuration.  Edges are a set here, so
\* there is no list that names an edge of a condition twice, which the code refuses.
Shaped(g) ==
    /\ Cardinality(OfType(g, "start")) = 1
    /\ OfType(g, "end") # {}
    /\ \A e \in g.edges : e.from # e.to /\ {e.from, e.to} \subseteq Present(g)
    /\ \A n \in OfType(g, "condition") :
        /\ Cardinality(Out(g, n)) = 2
        /\ \A b \in BOOLEAN : \E e \in Out(g, n) : e.label = b

DeadEnd(g, n) == g.type[n] # "end" /\ Out(g, n) = {}

\* chooseEdge: the edges one of which is followed, none if there is no path.
Chosen(g, n, truth) ==
    IF g.type[n] = "condition"
    THEN {e \in Out(g, n) : e.label = truth[n]}
    ELSE IF Cardinality(Out(g, n)) = 1 THEN Out(g, n) ELSE {}

-----------------------------------------------------------------------------
(* traverse: where it is, whether it still walks, the notifications built.  *)

Walking(at, sent) == [status |-> "walking", node |-> at, sent |-> sent]

\* Mutant: the approval the traversal starts after is not passed.
HaltStuck(g, after, truth, n) ==
    IF g.type[n] = "approval" THEN "pending"
    ELSE IF g.type[n] = "end" THEN "completed"
    ELSE IF Chosen(g, n, truth) = {} THEN "no path"
    ELSE "walking"

\* Why a turn that comes to n would be the last one, or "walking" if it goes on.
\* "after" is the approval just given, or none for a start.
Halt(g, after, truth, n) ==
    IF n \notin Present(g) THEN "no node"
    ELSE IF g.type[n] = "approval" /\ {n} # after THEN "pending"
    ELSE IF g.type[n] = "end" THEN "completed"
    ELSE IF Chosen(g, n, truth) = {} THEN "no path"
    ELSE "walking"

\* One turn of the loop.
Turn(g, after, truth, t) ==
    LET halt == Halt(g, after, truth, t.node)
        sent == IF g.type[t.node] = "notification" THEN Append(t.sent, t.node) ELSE t.sent
    IN  IF t.status = "walking" /\ halt = "walking"
        THEN Walking((CHOOSE e \in Chosen(g, t.node, truth) : TRUE).to, sent)
        ELSE IF t.status = "walking" THEN [t EXCEPT !.status = halt] ELSE t

\* The loop takes one turn more than the graph has nodes, and then gives up.
Traverse(g, after, truth) ==
    LET first == IF after = {} THEN StartOf(g) ELSE CHOOSE n \in after : TRUE
        loop[k \in Nat] == IF k = 0 THEN Walking(first, <<>>)
                           ELSE Turn(g, after, truth, loop[k - 1])
    IN  loop[Cardinality(Present(g)) + 1]
-----------------------------------------------------------------------------
(* What a graph should be, said without a walk.                            *)

Acyclic(g) ==
    \A S \in SUBSET Present(g) : S # {} => \E n \in S : Successors(g, n) \cap S = {}

AllReachable(g) ==
    \A S \in SUBSET Nodes :
        StartOf(g) \in S /\ (\A n \in S : Successors(g, n) \subseteq S) => Present(g) \subseteq S

Sound(g) ==
    /\ Shaped(g)
    /\ Acyclic(g)
    /\ AllReachable(g)
    /\ \A n \in Present(g) : ~DeadEnd(g, n)
=============================================================================
