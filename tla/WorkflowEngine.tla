--------------------------- MODULE WorkflowEngine ---------------------------
(***************************************************************************)
(* Workflow execution: a definition that editors replace or archive while  *)
(* instances of it wait at approvals, and requests that start instances    *)
(* and decide them.                                                        *)
(*                                                                         *)
(* A request reads the instance, the definition and the record each in a   *)
(* transaction of its own, computes the transition from these copies, and  *)
(* commits it in a last transaction guarded by the version it was asked to *)
(* decide.  An instance names its workflow, not the version it was started *)
(* under.                                                                  *)
(***************************************************************************)
EXTENDS WorkflowPaths

CONSTANTS
    Definitions,        \* graphs an editor may save, all accepted by the check
    Instances,          \* instance ids
    Actors,             \* concurrent requests to start or to decide
    MaxDefinitions      \* bound: versions of the definition, the archived one too

ASSUME WorkflowEngineAssumption ==
    /\ Definitions \subseteq Graph
    /\ MaxDefinitions \in Nat \ {0}

\* Define validates the graph before it saves it: see AcceptsSoundGraphs.
ASSUME AcceptedDefinitions == \A g \in Definitions : Sound(g)

VARIABLES
    definition,         \* the workflow row: graph, version, status
    instance,           \* instance rows: status, node, version
    actions,            \* append-only workflow_actions, with the node decided on
                        \* and, as history, where it led and under which version
    notifications,      \* per instance: the nodes notifications were created for
    origin,             \* history: the node and the version an instance started with
    request             \* per actor: how far its request is, and its copies

vars == <<definition, instance, actions, notifications, origin, request>>

Idle == [pc |-> "idle"]
Absent == [status |-> "absent"]

\* Any accepted graph will do to begin with; the first save is the row's creation.
Init ==
    /\ definition \in [graph : Definitions, version : {1}, status : {"active"}]
    /\ instance = [i \in Instances |-> Absent]
    /\ actions = [i \in Instances |-> <<>>]
    /\ notifications = [i \in Instances |-> <<>>]
    /\ origin = [i \in Instances |-> Absent]
    /\ request = [r \in Actors |-> Idle]

Rows == <<instance, actions, notifications, origin>>

Goes(r, req) == request' = [request EXCEPT ![r] = req]

-----------------------------------------------------------------------------
(* Editors.  A save with an old version is refused and changes nothing.     *)

Define(g) ==
    /\ definition.status = "active"
    /\ definition.version < MaxDefinitions
    /\ definition' = [definition EXCEPT !.graph = g, !.version = @ + 1]
    /\ UNCHANGED <<Rows, request>>

Archive ==
    /\ definition.status = "active"
    /\ definition.version < MaxDefinitions
    /\ definition' = [definition EXCEPT !.status = "archived", !.version = @ + 1]
    /\ UNCHANGED <<Rows, request>>

-----------------------------------------------------------------------------
(* Requests *)

StartGet(r) ==
    /\ request[r] = Idle
    /\ definition.status = "active"
    /\ Goes(r, [pc |-> "starting", graph |-> definition.graph, under |-> definition.version])
    /\ UNCHANGED <<definition, Rows>>

\* The record's values decide the conditions.  A traversal that fails ends the
\* request, and so may anything else before it commits: see GiveUp.
Start(r, i) ==
    /\ request[r].pc = "starting"
    /\ instance[i] = Absent
    /\ \E truth \in Truths :
        LET t == Traverse(request[r].graph, {}, truth)
        IN  /\ t.status \in {"pending", "completed"}
            /\ instance' = [instance EXCEPT ![i] = [status |-> t.status, node |-> t.node, version |-> 1]]
            /\ notifications' = [notifications EXCEPT ![i] = t.sent]
            /\ origin' = [origin EXCEPT ![i] = [status |-> "started", node |-> t.node, under |-> request[r].under]]
    /\ Goes(r, Idle)
    /\ UNCHANGED <<definition, actions>>

\* The instance is actionable at the version the caller expects.
ActGet(r, i) ==
    /\ request[r] = Idle
    /\ instance[i].status = "pending"
    /\ Goes(r, [pc |-> "loading", id |-> i, node |-> instance[i].node, version |-> instance[i].version])
    /\ UNCHANGED <<definition, Rows>>

\* The definition of NOW, whatever the instance was started under.
ActLoad(r) ==
    /\ request[r].pc = "loading"
    /\ definition.status = "active"
    /\ definition.graph.type[request[r].node] = "approval"
    /\ Goes(r, [pc |-> "deciding", id |-> request[r].id, node |-> request[r].node,
                version |-> request[r].version,
                graph |-> definition.graph, under |-> definition.version])
    /\ UNCHANGED <<definition, Rows>>

\* Mutant: the update asks for no version and no status.
AdvanceAnyVersion(r, status, node, sent) ==
    LET i == request[r].id
    IN  /\ instance' = [instance EXCEPT ![i] = [status |-> status, node |-> node, version |-> @.version + 1]]
        /\ actions' = [actions EXCEPT ![i] =
                            Append(@, [node |-> request[r].node, to |-> node,
                                       status |-> status, under |-> request[r].under])]
        /\ notifications' = [notifications EXCEPT ![i] = @ \o sent]
        /\ Goes(r, Idle)
        /\ UNCHANGED <<definition, origin>>

\* Mutant: the notifications are not in the transaction of the update.
AdvanceNotifiesFirst(r, status, node, sent) ==
    LET i == request[r].id
    IN  /\ IF instance[i].status = "pending" /\ instance[i].version = request[r].version
           THEN /\ instance' = [instance EXCEPT ![i] = [status |-> status, node |-> node, version |-> @.version + 1]]
                /\ actions' = [actions EXCEPT ![i] =
                                    Append(@, [node |-> request[r].node, to |-> node,
                                               status |-> status, under |-> request[r].under])]
           ELSE UNCHANGED <<instance, actions>>
        /\ notifications' = [notifications EXCEPT ![i] = @ \o sent]
        /\ Goes(r, Idle)
        /\ UNCHANGED <<definition, origin>>

\* One transaction: the guarded update, the action row, the notifications.  A
\* version conflict leaves none of them behind.
Advance(r, status, node, sent) ==
    LET i == request[r].id
    IN  /\ IF instance[i].status = "pending" /\ instance[i].version = request[r].version
           THEN /\ instance' = [instance EXCEPT ![i] = [status |-> status, node |-> node, version |-> @.version + 1]]
                /\ actions' = [actions EXCEPT ![i] =
                                    Append(@, [node |-> request[r].node, to |-> node,
                                               status |-> status, under |-> request[r].under])]
                /\ notifications' = [notifications EXCEPT ![i] = @ \o sent]
           ELSE UNCHANGED <<instance, actions, notifications>>
        /\ Goes(r, Idle)
        /\ UNCHANGED <<definition, origin>>

Reject(r) ==
    /\ request[r].pc = "deciding"
    /\ Advance(r, "rejected", request[r].node, <<>>)

\* Mutant: the traversal's error is taken for a stop at an approval.
ApproveIgnoresError(r) ==
    /\ request[r].pc = "deciding"
    /\ \E truth \in Truths :
        LET t == Traverse(request[r].graph, {request[r].node}, truth)
        IN  Advance(r, IF t.status = "completed" THEN "completed" ELSE "pending", t.node, t.sent)

Approve(r) ==
    /\ request[r].pc = "deciding"
    /\ \E truth \in Truths :
        LET t == Traverse(request[r].graph, {request[r].node}, truth)
        IN  /\ t.status \in {"pending", "completed"}
            /\ Advance(r, t.status, t.node, t.sent)

\* A missing role or record, a node that is no approval any more, an archived
\* workflow, a traversal without a path, an error, a cancelled request.
GiveUp(r) ==
    /\ request[r] # Idle
    /\ Goes(r, Idle)
    /\ UNCHANGED <<definition, Rows>>

Act(r) == ActLoad(r) \/ Approve(r) \/ Reject(r) \/ GiveUp(r)

Next ==
    \/ \E g \in Definitions : Define(g)
    \/ Archive
    \/ \E r \in Actors : StartGet(r) \/ Act(r)
    \/ \E r \in Actors, i \in Instances : Start(r, i) \/ ActGet(r, i)

Spec == Init /\ [][Next]_vars

-----------------------------------------------------------------------------
(* Properties *)

RequestState ==
    {Idle}
    \cup [pc : {"starting"}, graph : Definitions, under : Nat]
    \cup [pc : {"loading"}, id : Instances, node : Nodes, version : Nat]
    \cup [pc : {"deciding"}, id : Instances, node : Nodes, version : Nat,
          graph : Definitions, under : Nat]

Decided == {"pending", "completed", "rejected"}

\* The rows keep their columns' types; a request holds the copies of its phase.
TypeOK ==
    /\ definition \in [graph : Definitions, version : Nat, status : {"active", "archived"}]
    /\ instance \in [Instances -> {Absent} \cup [status : Decided, node : Nodes, version : Nat]]
    /\ actions \in [Instances -> Seq([node : Nodes, to : Nodes, status : Decided, under : Nat])]
    /\ notifications \in [Instances -> Seq(Nodes)]
    /\ origin \in [Instances -> {Absent} \cup [status : {"started"}, node : Nodes, under : Nat]]
    /\ request \in [Actors -> RequestState]

Started(i) == instance[i].status # "absent"

\* The actions of an instance are one path: it begins where the instance started,
\* each decision is on the node the one before led to, none follows a rejection or
\* a completion, and the instance is where the last one led, at its version.
HistoryIsPath ==
    \A i \in Instances : Started(i) =>
        LET n == Len(actions[i])
        IN  /\ instance[i].version = n + 1
            /\ \A k \in 1..n : actions[i][k].node = IF k = 1 THEN origin[i].node ELSE actions[i][k - 1].to
            /\ \A k \in 1..(n - 1) : actions[i][k].status = "pending"
            /\ n = 0 => instance[i].node = origin[i].node
            /\ n > 0 => /\ instance[i].node = actions[i][n].to
                        /\ instance[i].status = actions[i][n].status

\* The version an instance got where it is under.
MovedUnder(i) ==
    IF actions[i] = <<>> THEN origin[i].under ELSE actions[i][Len(actions[i])].under

\* Under one version of the definition no approval of an instance is decided
\* twice and no notification is created twice, however many decide at once.
NodesPassedOnce ==
    \A i \in Instances :
        Started(i) /\ (\A k \in 1..Len(actions[i]) : actions[i][k].under = origin[i].under) =>
            /\ \A j, k \in 1..Len(actions[i]) : actions[i][j].node = actions[i][k].node => j = k
            /\ \A j, k \in 1..Len(notifications[i]) : notifications[i][j] = notifications[i][k] => j = k

\* A pending instance that nobody can decide, its node being no approval of an
\* active definition, got there under an older version than today's: the definition
\* was replaced or archived since, and nothing else strands an instance.
StuckExplained ==
    \A i \in Instances :
        Started(i) /\ instance[i].status = "pending"
            /\ (definition.status # "active" \/ definition.graph.type[instance[i].node] # "approval")
        => MovedUnder(i) < definition.version
=============================================================================
