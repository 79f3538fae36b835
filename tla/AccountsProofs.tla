--------------------------- MODULE AccountsProofs ---------------------------
(***************************************************************************)
(* Proofs about Accounts, for all users, tenants, sessions and requests.   *)
(***************************************************************************)
EXTENDS Accounts, FiniteSetTheorems, TLAPS

-----------------------------------------------------------------------------
(* Types *)

\* A step of request r alone keeps the type of the requests.
LEMMA GoesTyped ==
    ASSUME TypeOK, NEW r \in Requests, NEW q \in RequestState, Goes(r, q)
    PROVE  request' \in [Requests -> RequestState]
BY DEF Goes, TypeOK

\* What the other requests go by stays, as long as no session goes.
LEMMA NamedKept ==
    ASSUME TypeOK, NEW r \in Requests, NEW q \in RequestState, Goes(r, q),
           \A s \in Sessions : session[s] # Absent => session'[s] # Absent,
           \A s \in Named(r)' : session'[s] # Absent
    PROVE  \A p \in Requests : \A s \in Named(p)' : session'[s] # Absent
<1> SUFFICES ASSUME NEW p \in Requests, p # r, NEW s \in Named(p)'
             PROVE  session'[s] # Absent
    OBVIOUS
<1>1. request'[p] = request[p]
    BY DEF Goes, TypeOK
<1>2. s \in Named(p)
    BY <1>1 DEF Named, At
<1>3. request[p] \in RequestState
    BY DEF TypeOK
<1>4. Named(p) \subseteq Sessions
    BY <1>3 DEF Named, At, RequestState, Idle
<1> QED
    BY <1>2, <1>4 DEF TypeOK

\* A request that goes by no session, while the rows keep their types and no
\* session goes.
LEMMA StepTyped ==
    ASSUME TypeOK, NEW r \in Requests, NEW q \in RequestState, Goes(r, q),
           q.pc \notin {"rotated", "revoking"},
           \A s \in Sessions : session[s] # Absent => session'[s] # Absent,
           status' \in [Users -> {"none", "active", "suspended"}],
           tenant' \in [Tenants -> {"none", "active", "suspended", "archived", "deleted"}],
           owner' \in [Tenants -> Users \cup {Nobody}],
           roles' \in [Tenants -> [Users -> SUBSET Roles]],
           session' \in [Sessions -> {Absent} \cup SessionRow]
    PROVE  TypeOK'
<1>1. request' \in [Requests -> RequestState]
    BY GoesTyped
<1>2. request'[r] = q
    BY DEF Goes, TypeOK
<1>3. Named(r)' = {}
    BY <1>2 DEF Named, At
<1>4. \A p \in Requests : \A s \in Named(p)' : session'[s] # Absent
    BY <1>3, NamedKept
<1> QED
    BY <1>1, <1>4 DEF TypeOK

LEMMA IdleIsRequest == Idle \in RequestState /\ Idle.pc = "idle"
BY DEF RequestState, Idle

\* A new row is a row, and so is one that ends or whose token is answered.
LEMMA RowsTyped ==
    /\ Absent \notin SessionRow
    /\ \A u \in Users, t \in Tenants, i \in Sessions, held \in BOOLEAN :
           NewSession(u, t, i, held) \in SessionRow
    /\ \A row \in SessionRow : /\ [row EXCEPT !.live = FALSE] \in SessionRow
                               /\ Ended(row) \in SessionRow
                               /\ [row EXCEPT !.held = TRUE] \in SessionRow
                               /\ [row EXCEPT !.born = "amid"] \in SessionRow
<1>1. ASSUME NEW row \in SessionRow PROVE row # Absent
    <2>1. "user" \in DOMAIN row /\ "user" \notin DOMAIN Absent
        BY <1>1 DEF SessionRow, Absent
    <2> QED
        BY <2>1
<1>2. ASSUME NEW row \in SessionRow
      PROVE  /\ [row EXCEPT !.live = FALSE] \in SessionRow /\ Ended(row) \in SessionRow
             /\ [row EXCEPT !.held = TRUE] \in SessionRow
             /\ [row EXCEPT !.born = "amid"] \in SessionRow
    BY <1>2 DEF SessionRow, Ended
<1>3. ASSUME NEW u \in Users, NEW t \in Tenants, NEW i \in Sessions, NEW held \in BOOLEAN
      PROVE  NewSession(u, t, i, held) \in SessionRow
    BY <1>3 DEF SessionRow, NewSession, Closed
<1> QED
    BY <1>1, <1>2, <1>3

\* What the fields of a request are.
LEMMA Fields ==
    ASSUME TypeOK, NEW r \in Requests
    PROVE  /\ At(r, "authorised") => request[r].user \in Users /\ request[r].tenant \in Tenants
           /\ At(r, "rotated") => request[r].id \in Sessions /\ session[request[r].id] \in SessionRow
           /\ At(r, "closing") => /\ request[r].tenant \in Tenants \ {Primary}
                                  /\ request[r].target \in Targets
           /\ At(r, "revoking") => /\ request[r].tenant \in Tenants \ {Primary}
                                   /\ request[r].target \in Targets
                                   /\ request[r].seen \in SUBSET Sessions
                                   /\ \A s \in request[r].seen : session[s] \in SessionRow
           /\ At(r, "replacing") => /\ request[r].tenant \in Tenants /\ request[r].user \in Users
                                    /\ request[r].new \in SUBSET Roles
           /\ At(r, "setting") => /\ request[r].user \in Users
                                  /\ request[r].to \in {"active", "suspended"}
<1>1. request[r] \in RequestState
    BY DEF TypeOK
<1>2. At(r, "authorised") => request[r].user \in Users /\ request[r].tenant \in Tenants
    BY <1>1 DEF At, RequestState, Idle
<1>3. At(r, "rotated") => request[r].id \in Sessions /\ session[request[r].id] \in SessionRow
    <2> SUFFICES ASSUME At(r, "rotated")
                 PROVE  request[r].id \in Sessions /\ session[request[r].id] \in SessionRow
        OBVIOUS
    <2>1. request[r].id \in Sessions
        BY <1>1 DEF At, RequestState, Idle
    <2>2. request[r].id \in Named(r)
        BY DEF Named, At
    <2> QED
        BY <2>1, <2>2 DEF TypeOK
<1>4. At(r, "closing") => /\ request[r].tenant \in Tenants \ {Primary}
                          /\ request[r].target \in Targets
    BY <1>1 DEF At, RequestState, Idle
<1>7. At(r, "revoking") => /\ request[r].tenant \in Tenants \ {Primary}
                           /\ request[r].target \in Targets
                           /\ request[r].seen \in SUBSET Sessions
    BY <1>1 DEF At, RequestState, Idle
<1>8. At(r, "revoking") => \A s \in request[r].seen : session[s] \in SessionRow
    BY <1>7 DEF TypeOK, Named, At
<1>5. At(r, "replacing") => /\ request[r].tenant \in Tenants /\ request[r].user \in Users
                            /\ request[r].new \in SUBSET Roles
    BY <1>1, AccountsAssumption DEF At, RequestState, Idle
<1>6. At(r, "setting") => request[r].user \in Users /\ request[r].to \in {"active", "suspended"}
    BY <1>1 DEF At, RequestState, Idle
<1> QED
    BY <1>2, <1>3, <1>4, <1>5, <1>6, <1>7, <1>8

\* What a commit makes of a row: it ends the ones the revocation saw, and leaves the
\* others live.
CommitRow(i) ==
    \/ session'[i] = session[i]
    \/ session[i] \in SessionRow /\ session'[i] = Ended(session[i])
    \/ session[i] \in SessionRow /\ session'[i] = [session[i] EXCEPT !.born = "amid"]

LEMMA CommitRows ==
    ASSUME TypeOK, NEW r \in Requests, Commit(r), NEW i \in Sessions
    PROVE  CommitRow(i)
<1>1. i \in request[r].seen => session[i] \in SessionRow
    BY Fields DEF Commit
<1>2. session[i] # Absent => session[i] \in SessionRow
    BY DEF TypeOK
<1>3. session[i].live => session[i] # Absent
    BY DEF Absent
<1> QED
    BY <1>1, <1>2, <1>3 DEF Commit, CommitRow

\* Every variable keeps its type: in particular no request ever comes to close the
\* primary tenant, and no session is confirmed or revoked that does not exist.
THEOREM TypeCorrect == Spec => []TypeOK
<1>1. Init => TypeOK
    BY AccountsAssumption DEF Init, TypeOK, RequestState, Idle, At, Named
<1>2. TypeOK /\ [Next]_vars => TypeOK'
    <2> SUFFICES ASSUME TypeOK, [Next]_vars PROVE TypeOK'
        OBVIOUS
    <2>1. CASE UNCHANGED vars
        BY <2>1 DEF vars, TypeOK, At, Named
    <2>2. ASSUME NEW u \in Users, Register(u) PROVE TypeOK'
        <3>1. UNCHANGED <<tenant, owner, session, request>>
            BY <2>2 DEF Register
        <3>2. status' \in [Users -> {"none", "active", "suspended"}]
            BY <2>2 DEF Register, TypeOK
        <3>3. roles' \in [Tenants -> [Users -> SUBSET Roles]]
            BY <2>2, AccountsAssumption DEF Register, TypeOK
        <3> QED
            BY <3>1, <3>2, <3>3 DEF TypeOK, At, Named
    <2>3. ASSUME NEW s \in Sessions, End(s) PROVE TypeOK'
        <3>1. UNCHANGED <<status, roles, tenant, owner, request>>
            BY <2>3 DEF End, people
        <3>2. session[s] \in SessionRow
            BY <2>3 DEF End, TypeOK
        <3>3. [session[s] EXCEPT !.live = FALSE] \in SessionRow
            BY <3>2, RowsTyped
        <3>4. session' = [session EXCEPT ![s] = [session[s] EXCEPT !.live = FALSE]]
            BY <2>3 DEF End, TypeOK
        <3>5. session' \in [Sessions -> {Absent} \cup SessionRow]
            BY <3>3, <3>4 DEF TypeOK
        <3>6. \A i \in Sessions : session[i] # Absent => session'[i] # Absent
            BY <3>3, <3>4, RowsTyped DEF TypeOK
        <3>7. \A p \in Requests : Named(p)' = Named(p) /\ Named(p) \subseteq Sessions
            BY <3>1, Fields DEF Named, At
        <3> QED
            BY <3>1, <3>5, <3>6, <3>7 DEF TypeOK
    <2>4. ASSUME NEW r \in Requests, NEW u \in Users, NEW t \in Tenants, Authorise(r, u, t)
          PROVE  TypeOK'
        <3> DEFINE q == [pc |-> "authorised", user |-> u, tenant |-> t]
        <3>1. q \in RequestState /\ q.pc \notin {"rotated", "revoking"}
            BY DEF RequestState
        <3> QED
            BY <2>4, <3>1, StepTyped DEF Authorise, people, TypeOK
    <2>5. ASSUME NEW r \in Requests, Drop(r) PROVE TypeOK'
        BY <2>5, IdleIsRequest, StepTyped DEF Drop, people, TypeOK
    <2>6. ASSUME NEW r \in Requests, NEW s \in Sessions, Issue(r, s) PROVE TypeOK'
        <3> DEFINE row == NewSession(request[r].user, request[r].tenant, s, TRUE)
        <3>1. row \in SessionRow /\ row # Absent
            BY <2>6, Fields, RowsTyped DEF Issue
        <3>2. session' = [session EXCEPT ![s] = row]
            BY <2>6 DEF Issue
        <3> HIDE DEF row
        <3>3. session' \in [Sessions -> {Absent} \cup SessionRow]
            BY <3>1, <3>2 DEF TypeOK
        <3>4. \A i \in Sessions : session[i] # Absent => session'[i] # Absent
            BY <3>1, <3>2 DEF TypeOK
        <3> QED
            BY <2>6, <3>3, <3>4, IdleIsRequest, StepTyped DEF Issue, people, TypeOK
    <2>7. ASSUME NEW r \in Requests, NEW s \in Sessions, NEW n \in Sessions, NEW t \in Tenants,
                 Rotate(r, s, n, t)
          PROVE  TypeOK'
        <3> DEFINE old == [session[s] EXCEPT !.live = FALSE]
                   new == NewSession(session[s].user, t, session[s].login, FALSE)
        <3>1. session[s] \in SessionRow /\ s # n
            BY <2>7 DEF Rotate, Presented, TypeOK
        <3>2. old \in SessionRow /\ new \in SessionRow /\ Absent \notin SessionRow
            <4>1. session[s].user \in Users /\ session[s].login \in Sessions
                BY <3>1 DEF SessionRow
            <4> QED
                BY <3>1, <4>1, RowsTyped
        <3>3. session' = [session EXCEPT ![s] = old, ![n] = new]
            BY <2>7 DEF Rotate, TypeOK
        <3> HIDE DEF old, new
        <3>4. session' \in [Sessions -> {Absent} \cup SessionRow]
            BY <3>2, <3>3 DEF TypeOK
        <3>5. \A i \in Sessions : session[i] # Absent => session'[i] # Absent
            BY <3>2, <3>3 DEF TypeOK
        <3>6. session'[n] # Absent
            BY <3>2, <3>3 DEF TypeOK
        <3> DEFINE q == [pc |-> "rotated", id |-> n]
        <3>7. q \in RequestState /\ Goes(r, q)
            BY <2>7 DEF Rotate, RequestState
        <3>8. request' \in [Requests -> RequestState]
            BY <3>7, GoesTyped
        <3>9. Named(r)' = {n}
            BY <3>7 DEF Goes, Named, At, TypeOK
        <3>10. \A p \in Requests : \A i \in Named(p)' : session'[i] # Absent
            BY <3>5, <3>6, <3>7, <3>9, NamedKept
        <3> QED
            BY <2>7, <3>4, <3>8, <3>10 DEF Rotate, people, TypeOK
    <2>8. ASSUME NEW r \in Requests, Confirm(r) PROVE TypeOK'
        <3> DEFINE n == request[r].id
                   row == [session[n] EXCEPT !.held = TRUE]
        <3>1. n \in Sessions /\ session[n] \in SessionRow
            BY <2>8, Fields DEF Confirm
        <3>2. row \in SessionRow /\ row # Absent
            BY <3>1, RowsTyped
        <3>3. session' = [session EXCEPT ![n] = row]
            BY <2>8, <3>1 DEF Confirm, TypeOK
        <3> HIDE DEF n, row
        <3>4. session' \in [Sessions -> {Absent} \cup SessionRow]
            BY <3>1, <3>2, <3>3 DEF TypeOK
        <3>5. \A i \in Sessions : session[i] # Absent => session'[i] # Absent
            BY <3>1, <3>2, <3>3 DEF TypeOK
        <3> QED
            BY <2>8, <3>4, <3>5, IdleIsRequest, StepTyped DEF Confirm, people, TypeOK
    <2>9. ASSUME NEW r \in Requests, NEW t \in Tenants, CreateTenant(r, t) PROVE TypeOK'
        <3>1. request[r].user \in Users
            BY <2>9, Fields DEF CreateTenant
        <3>2. tenant' \in [Tenants -> {"none", "active", "suspended", "archived", "deleted"}]
            BY <2>9 DEF CreateTenant, TypeOK
        <3>3. owner' \in [Tenants -> Users \cup {Nobody}]
            BY <2>9, <3>1 DEF CreateTenant, TypeOK
        <3>4. roles' \in [Tenants -> [Users -> SUBSET Roles]]
            BY <2>9, <3>1, AccountsAssumption DEF CreateTenant, TypeOK
        <3> QED
            BY <2>9, <3>2, <3>3, <3>4, IdleIsRequest, StepTyped DEF CreateTenant, TypeOK
    <2>10. ASSUME NEW r \in Requests, NEW target \in Targets, CheckTransition(r, target)
           PROVE  TypeOK'
        <3> DEFINE q == [pc |-> "closing", tenant |-> request[r].tenant, target |-> target]
        <3>1. request[r].tenant \in Tenants \ {Primary}
            BY <2>10, Fields DEF CheckTransition, Allowed
        <3>2. q \in RequestState /\ q.pc \notin {"rotated", "revoking"}
            BY <3>1 DEF RequestState
        <3> QED
            BY <2>10, <3>2, StepTyped DEF CheckTransition, people, TypeOK
    <2>11. ASSUME NEW r \in Requests, Commit(r) PROVE TypeOK'
        <3>1. /\ request[r].tenant \in Tenants
              /\ request[r].target \in {"suspended", "archived", "deleted"}
            BY <2>11, Fields, AccountsAssumption DEF Commit
        <3>2. tenant' \in [Tenants -> {"none", "active", "suspended", "archived", "deleted"}]
            BY <2>11, <3>1 DEF Commit, TypeOK
        <3>3. ASSUME NEW i \in Sessions
              PROVE  /\ session'[i] \in {Absent} \cup SessionRow
                     /\ session[i] # Absent => session'[i] # Absent
            <4>1. CommitRow(i)
                BY <2>11, CommitRows
            <4>2. CASE session'[i] = session[i]
                BY <4>2 DEF TypeOK
            <4>3. CASE session[i] \in SessionRow /\ session'[i] # session[i]
                <5>1. session'[i] \in SessionRow
                    BY <4>1, <4>3, RowsTyped DEF CommitRow
                <5> QED
                    BY <5>1, RowsTyped
            <4> QED
                BY <4>1, <4>2, <4>3 DEF CommitRow
        <3>4. session' \in [Sessions -> {Absent} \cup SessionRow]
            <4>1. DOMAIN session' = Sessions /\ session' = [i \in Sessions |-> session'[i]]
                BY <2>11 DEF Commit
            <4> QED
                BY <3>3, <4>1
        <3> QED
            BY <2>11, <3>2, <3>3, <3>4, IdleIsRequest, StepTyped DEF Commit, people, TypeOK
    <2>12. ASSUME NEW r \in Requests, NEW u \in Users, NEW new \in Replacements, CheckRoles(r, u, new)
           PROVE  TypeOK'
        <3> DEFINE q == [pc |-> "replacing", tenant |-> request[r].tenant, user |-> u, new |-> new,
                         overtaken |-> FALSE]
        <3>1. request[r].tenant \in Tenants
            BY <2>12, Fields DEF CheckRoles
        <3>2. q \in RequestState /\ q.pc \notin {"rotated", "revoking"}
            BY <3>1 DEF RequestState
        <3> QED
            BY <2>12, <3>2, StepTyped DEF CheckRoles, people, TypeOK
    <2>13. ASSUME NEW r \in Requests, SetUserRoles(r) PROVE TypeOK'
        <3>1. request[r].tenant \in Tenants /\ request[r].user \in Users /\ request[r].new \in SUBSET Roles
            BY <2>13, Fields DEF SetUserRoles
        <3>2. roles' \in [Tenants -> [Users -> SUBSET Roles]]
            <4> DEFINE t == request[r].tenant
                       u == request[r].user
            <4>1. \E set \in SUBSET Roles : roles' = [roles EXCEPT ![t][u] = set]
                <5>1. roles[t][u] \in SUBSET Roles
                    BY <3>1 DEF TypeOK
                <5>2. roles[t][u] \cup request[r].new \in SUBSET Roles
                    BY <3>1, <5>1
                <5>3. \/ roles' = [roles EXCEPT ![t][u] = request[r].new]
                      \/ roles' = [roles EXCEPT ![t][u] = roles[t][u] \cup request[r].new]
                    BY <2>13, <3>1 DEF SetUserRoles, TypeOK
                <5> QED
                    BY <3>1, <5>2, <5>3
            <4> HIDE DEF t, u
            <4>2. PICK set \in SUBSET Roles : roles' = [roles EXCEPT ![t][u] = set]
                BY <4>1
            <4>3. roles \in [Tenants -> [Users -> SUBSET Roles]]
                BY DEF TypeOK
            <4>4. roles' = [roles EXCEPT ![t] = [roles[t] EXCEPT ![u] = set]]
                BY <4>2
            <4>5. ASSUME NEW x \in Tenants PROVE roles'[x] \in [Users -> SUBSET Roles]
                BY <4>3, <4>4
            <4> QED
                BY <4>3, <4>4, <4>5
        <3>3. ASSUME NEW p \in Requests
              PROVE  /\ request'[p] \in RequestState
                     /\ request'[p].pc \in {"rotated", "revoking"} => request'[p] = request[p]
            <4>1. \/ request'[p] = Idle \/ request'[p] = request[p]
                  \/ At(p, "replacing") /\ request'[p] = [request[p] EXCEPT !.overtaken = TRUE]
                BY <2>13 DEF SetUserRoles, Replacing
            <4>2. CASE At(p, "replacing") /\ request'[p] = [request[p] EXCEPT !.overtaken = TRUE]
                <5>1. request[p] \in [pc : {"replacing"}, tenant : Tenants, user : Users,
                                      new : Replacements, overtaken : BOOLEAN]
                    BY <4>2 DEF TypeOK, RequestState, Idle, At
                <5>2. request'[p] \in [pc : {"replacing"}, tenant : Tenants, user : Users,
                                       new : Replacements, overtaken : BOOLEAN]
                    BY <4>2, <5>1
                <5> QED
                    BY <5>2 DEF RequestState
            <4> QED
                BY <4>1, <4>2, IdleIsRequest DEF TypeOK
        <3>4. request' \in [Requests -> RequestState]
            <4>1. request' = [p \in Requests |-> request'[p]]
                BY <2>13 DEF SetUserRoles
            <4> QED
                BY <3>3, <4>1
        <3>5. \A p \in Requests : \A s \in Named(p)' : session'[s] # Absent
            BY <2>13, <3>3 DEF SetUserRoles, TypeOK, At, Named
        <3> QED
            BY <2>13, <3>2, <3>4, <3>5 DEF SetUserRoles, TypeOK
    <2>14. ASSUME NEW r \in Requests, NEW u \in Users, NEW to \in {"active", "suspended"},
                  CheckStatus(r, u, to)
           PROVE  TypeOK'
        <3> DEFINE q == [pc |-> "setting", user |-> u, to |-> to]
        <3>1. q \in RequestState /\ q.pc \notin {"rotated", "revoking"}
            BY DEF RequestState
        <3> QED
            BY <2>14, <3>1, StepTyped DEF CheckStatus, people, TypeOK
    <2>15. ASSUME NEW r \in Requests, SetUserStatus(r) PROVE TypeOK'
        <3>1. status' \in [Users -> {"none", "active", "suspended"}]
            BY <2>15, Fields DEF SetUserStatus, TypeOK
        <3> QED
            BY <2>15, <3>1, IdleIsRequest, StepTyped DEF SetUserStatus, TypeOK
    <2>16. ASSUME NEW r \in Requests, Revoke(r) PROVE TypeOK'
        <3> DEFINE found == {s \in Sessions : session[s].live /\ session[s].tenant = request[r].tenant}
                   q == [pc |-> "revoking", tenant |-> request[r].tenant,
                         target |-> request[r].target, seen |-> found]
        <3>1. request[r].tenant \in Tenants \ {Primary} /\ request[r].target \in Targets
            BY <2>16, Fields DEF Revoke
        <3>2. q \in RequestState
            BY <3>1 DEF RequestState
        <3>3. Goes(r, q) /\ UNCHANGED <<status, roles, tenant, owner, session>>
            BY <2>16 DEF Revoke, people
        <3>4. \A s \in found : session[s] # Absent
            BY DEF Absent
        <3>5. Named(r)' = found
            <4>1. request'[r] = q
                BY <3>3 DEF Goes, TypeOK
            <4>2. q.pc = "revoking" /\ q.seen = found
                OBVIOUS
            <4> HIDE DEF q, found
            <4> QED
                BY <4>1, <4>2 DEF Named, At
        <3> HIDE DEF q, found
        <3>6. request' \in [Requests -> RequestState]
            BY <3>2, <3>3, GoesTyped
        <3>7. \A p \in Requests : \A s \in Named(p)' : session'[s] # Absent
            BY <3>2, <3>3, <3>4, <3>5, NamedKept
        <3> QED
            BY <3>3, <3>6, <3>7 DEF TypeOK
    <2> QED
        BY <2>1, <2>2, <2>3, <2>4, <2>5, <2>6, <2>7, <2>8, <2>9, <2>10, <2>11, <2>12, <2>13, <2>14,
           <2>15, <2>16 DEF Next
<1> QED
    BY <1>1, <1>2, PTL DEF Spec

-----------------------------------------------------------------------------
(* Sessions *)

\* A session descends from a login whose row is there: ids are not used twice.
LoginsExist == \A s \in Sessions : session[s] # Absent => session[session[s].login] # Absent

SessionInv == SessionsAccounted /\ LoginsExist

\* A step that touches no session and closes no tenant.
LEMMA SessionsUntouched ==
    ASSUME SessionInv, UNCHANGED session, \A t \in Tenants : Closed(t)' => Closed(t), TypeOK
    PROVE  SessionInv'
<1>1. \A s \in Sessions : session[s].live => session[s].tenant \in Tenants
    BY DEF TypeOK, SessionRow, Absent
<1> QED
    BY <1>1 DEF SessionInv, SessionsAccounted, OneHeir, ClosedTenantsEnd, LoginsExist

\* A step that ends some sessions, and marks those of the tenants it closes that it
\* leaves live.
LEMMA SessionsEnded ==
    ASSUME SessionInv, TypeOK, \A s \in Sessions : CommitRow(s),
           \A t \in Tenants : Closed(t)' =>
               \/ Closed(t)
               \/ \A s \in Sessions :
                      session'[s].live /\ session[s].tenant = t => session'[s].born = "amid"
    PROVE  SessionInv'
<1>1. ASSUME NEW s \in Sessions, session'[s].live
      PROVE  /\ session[s].live /\ session'[s].tenant = session[s].tenant
             /\ session'[s].login = session[s].login /\ session'[s].held = session[s].held
             /\ session'[s].born = session[s].born \/ session'[s].born = "amid"
    <2>1. CommitRow(s)
        OBVIOUS
    <2>2. CASE session'[s] = session[s]
        BY <1>1, <2>2
    <2>3. CASE session[s] \in SessionRow /\ session'[s] = [session[s] EXCEPT !.born = "amid"]
        BY <1>1, <2>3 DEF SessionRow
    <2>4. CASE session[s] \in SessionRow /\ session'[s] = Ended(session[s])
        BY <1>1, <2>4 DEF SessionRow, Ended
    <2> QED
        BY <2>1, <2>2, <2>3, <2>4 DEF CommitRow
<1>2. ASSUME NEW s \in Sessions
      PROVE  /\ session'[s] # Absent <=> session[s] # Absent
             /\ session[s] # Absent => session[s].login \in Sessions /\ session'[s].login = session[s].login
    <2>1. CASE session'[s] = session[s]
        BY <2>1 DEF TypeOK, SessionRow
    <2>2. ASSUME session[s] \in SessionRow, NEW row, session'[s] = row, row \in SessionRow,
                 row.login = session[s].login
          PROVE  /\ session'[s] # Absent <=> session[s] # Absent
                 /\ session[s] # Absent =>
                        session[s].login \in Sessions /\ session'[s].login = session[s].login
        BY <2>2, RowsTyped DEF SessionRow
    <2>3. CASE session[s] \in SessionRow /\ session'[s] = Ended(session[s])
        <3>1. Ended(session[s]).login = session[s].login
            BY <2>3 DEF SessionRow, Ended
        <3>2. Ended(session[s]) \in SessionRow
            BY <2>3, RowsTyped
        <3> QED
            BY <2>2, <2>3, <3>1, <3>2
    <2>4. CASE session[s] \in SessionRow /\ session'[s] = [session[s] EXCEPT !.born = "amid"]
        <3>1. [session[s] EXCEPT !.born = "amid"].login = session[s].login
            BY <2>4 DEF SessionRow
        <3>2. [session[s] EXCEPT !.born = "amid"] \in SessionRow
            BY <2>4, RowsTyped
        <3> QED
            BY <2>2, <2>4, <3>1, <3>2
    <2> QED
        BY <2>1, <2>3, <2>4 DEF CommitRow
<1>3. OneHeir'
    BY <1>1 DEF SessionInv, SessionsAccounted, OneHeir
<1>4. ClosedTenantsEnd'
    <2> SUFFICES ASSUME NEW s \in Sessions, session'[s].live, NEW t, t = session'[s].tenant,
                        Closed(t)', session'[s].held
                 PROVE  \/ session'[s].born = "amid"
                        \/ session'[s].born = "late" /\ session'[s].login = s
        BY DEF ClosedTenantsEnd, Closed
    <2>1. session[s].live /\ session[s].tenant = t /\ session[s].held
        BY <1>1
    <2>2. t \in Tenants
        BY <2>1 DEF TypeOK, SessionRow, Absent
    <2>3. CASE Closed(t)
        <3>1. \/ session[s].born = "amid"
              \/ session[s].born = "late" /\ session[s].login = s
            BY <2>1, <2>3 DEF SessionInv, SessionsAccounted, ClosedTenantsEnd
        <3> QED
            BY <1>1, <3>1
    <2>4. CASE ~ Closed(t)
        BY <2>1, <2>2, <2>4
    <2> QED
        BY <2>3, <2>4
<1>5. LoginsExist'
    BY <1>2 DEF SessionInv, LoginsExist
<1> QED
    BY <1>3, <1>4, <1>5 DEF SessionInv, SessionsAccounted

\* Every login leaves at most one live session, and the live sessions whose token a
\* client of a closed tenant holds were inserted between the start of the revocation
\* and its commit, or come straight from a login checked before.
THEOREM SessionsHold == Spec => []SessionsAccounted
<1>1. Init => SessionInv
    BY DEF Init, SessionInv, SessionsAccounted, OneHeir, ClosedTenantsEnd, LoginsExist, Absent
<1>2. TypeOK /\ SessionInv /\ [Next]_vars => SessionInv'
    <2> SUFFICES ASSUME TypeOK, SessionInv, [Next]_vars PROVE SessionInv'
        OBVIOUS
    <2> USE DEF SessionInv, SessionsAccounted
    <2>1. CASE UNCHANGED session /\ \A t \in Tenants : Closed(t)' => Closed(t)
        BY <2>1, SessionsUntouched
    <2>2. ASSUME NEW s \in Sessions, End(s) PROVE SessionInv'
        <3>1. ASSUME NEW i \in Sessions PROVE CommitRow(i)
            <4>1. session[s] \in SessionRow
                BY <2>2 DEF End, TypeOK
            <4> QED
                BY <2>2, <4>1 DEF End, TypeOK, CommitRow, Ended
        <3>2. \A t \in Tenants : Closed(t)' => Closed(t)
            BY <2>2 DEF End, Closed
        <3> QED
            BY <3>1, <3>2, SessionsEnded
    <2>3. ASSUME NEW r \in Requests, Commit(r) PROVE SessionInv'
        <3>1. \A i \in Sessions : CommitRow(i)
            BY <2>3, CommitRows
        <3>2. ASSUME NEW t \in Tenants, Closed(t)', ~ Closed(t), NEW i \in Sessions,
                     session'[i].live, session[i].tenant = t
              PROVE  session'[i].born = "amid"
            <4>1. t = request[r].tenant
                BY <2>3, <3>2 DEF Commit, Closed, TypeOK
            <4>2. i \notin request[r].seen
                <5> SUFFICES ASSUME i \in request[r].seen PROVE FALSE
                    OBVIOUS
                <5>1. session[i] \in SessionRow /\ session'[i] = Ended(session[i])
                    BY <2>3, Fields DEF Commit
                <5> QED
                    BY <3>2, <5>1 DEF SessionRow, Ended
            <4>3. session[i].live
                <5> SUFFICES ASSUME ~ session[i].live PROVE FALSE
                    OBVIOUS
                <5>1. session'[i] = session[i]
                    BY <2>3, <4>2 DEF Commit
                <5> QED
                    BY <3>2, <5>1
            <4>4. session[i] \in SessionRow
                BY <4>3 DEF TypeOK, Absent
            <4>5. session'[i] = [session[i] EXCEPT !.born = "amid"]
                BY <2>3, <3>2, <4>1, <4>2, <4>3 DEF Commit
            <4> QED
                BY <4>4, <4>5 DEF SessionRow
        <3> QED
            BY <3>1, <3>2, SessionsEnded
    <2>4. ASSUME NEW r \in Requests, NEW s \in Sessions, Issue(r, s) PROVE SessionInv'
        <3> DEFINE row == NewSession(request[r].user, request[r].tenant, s, TRUE)
        <3>1. row \in SessionRow /\ row # Absent /\ row.login = s /\ (Closed(row.tenant) => row.born = "late")
            <4>1. row \in SessionRow /\ row # Absent
                BY <2>4, Fields, RowsTyped DEF Issue
            <4>2. row.login = s /\ row.tenant = request[r].tenant
                  /\ row.born = IF Closed(request[r].tenant) THEN "late" ELSE "open"
                BY DEF NewSession
            <4> QED
                BY <4>1, <4>2
        <3>2. session' = [session EXCEPT ![s] = row] /\ session[s] = Absent /\ tenant' = tenant
            BY <2>4 DEF Issue
        <3> HIDE DEF row
        <3>3. \A i \in Sessions : session'[i] = IF i = s THEN row ELSE session[i]
            BY <3>2 DEF TypeOK
        <3>4. \A i \in Sessions \ {s} : session[i].live => session[i] # Absent /\ session[i].login # s
            BY <3>2 DEF LoginsExist, Absent
        <3>5. OneHeir'
            BY <3>1, <3>3, <3>4 DEF OneHeir
        <3>6. ClosedTenantsEnd'
            <4> SUFFICES ASSUME NEW i \in Sessions, session'[i].live, Closed(session[i].tenant)', session'[i].held
                         PROVE  \/ session'[i].born = "amid"
                                \/ session'[i].born = "late" /\ session'[i].login = i
                BY DEF ClosedTenantsEnd
            <4>1. Closed(session[i].tenant)' <=> Closed(session'[i].tenant)
                BY <3>2 DEF Closed
            <4>2. CASE i = s
                BY <3>1, <3>3, <4>1, <4>2
            <4>3. CASE i # s
                BY <3>3, <4>1, <4>3 DEF ClosedTenantsEnd
            <4> QED
                BY <4>2, <4>3
        <3>7. LoginsExist'
            <4>1. \A i \in Sessions : session[i] # Absent => session[i].login \in Sessions
                BY DEF TypeOK, SessionRow
            <4> QED
                BY <3>1, <3>3, <4>1 DEF LoginsExist
        <3> QED
            BY <3>5, <3>6, <3>7
    <2>5. ASSUME NEW r \in Requests, NEW s \in Sessions, NEW n \in Sessions, NEW t \in Tenants,
                 Rotate(r, s, n, t)
          PROVE  SessionInv'
        <3> DEFINE old == [session[s] EXCEPT !.live = FALSE]
                   new == NewSession(session[s].user, t, session[s].login, FALSE)
        <3>1. session[s] \in SessionRow /\ session[s].live /\ s # n /\ session[n] = Absent
            BY <2>5 DEF Rotate, Presented, TypeOK
        <3>2. old.live = FALSE /\ old.login = session[s].login /\ old.held = session[s].held
              /\ new.login = session[s].login /\ new.held = FALSE
            BY <3>1 DEF SessionRow, NewSession
        <3>3. old # Absent /\ new # Absent
            <4>1. session[s].user \in Users /\ session[s].login \in Sessions
                BY <3>1 DEF SessionRow
            <4>2. old \in SessionRow /\ new \in SessionRow
                BY <3>1, <4>1, RowsTyped
            <4> QED
                BY <4>2, RowsTyped
        <3>4. session' = [session EXCEPT ![s] = old, ![n] = new] /\ tenant' = tenant
            BY <2>5 DEF Rotate, TypeOK
        <3> HIDE DEF old, new
        <3>5. \A i \in Sessions : session'[i] = IF i = s THEN old ELSE IF i = n THEN new ELSE session[i]
            BY <3>1, <3>4 DEF TypeOK
        <3>6. OneHeir'
            BY <3>1, <3>2, <3>5 DEF OneHeir
        <3>7. ClosedTenantsEnd'
            <4> SUFFICES ASSUME NEW i \in Sessions, session'[i].live, Closed(session[i].tenant)', session'[i].held
                         PROVE  \/ session'[i].born = "amid"
                                \/ session'[i].born = "late" /\ session'[i].login = i
                BY DEF ClosedTenantsEnd
            <4>1. i # s /\ i # n
                BY <3>2, <3>5
            <4>2. session'[i] = session[i]
                BY <3>5, <4>1
            <4>3. Closed(session[i].tenant)
                BY <3>4, <4>2 DEF Closed
            <4> QED
                BY <4>2, <4>3 DEF ClosedTenantsEnd
        <3>8. LoginsExist'
            <4>1. \A i \in Sessions : session[i] # Absent => session[i].login \in Sessions
                BY DEF TypeOK, SessionRow
            <4>2. session[s] # Absent
                BY <3>1, RowsTyped
            <4> QED
                BY <3>1, <3>2, <3>3, <3>5, <4>1, <4>2 DEF LoginsExist
        <3> QED
            BY <3>6, <3>7, <3>8
    <2>6. ASSUME NEW r \in Requests, Confirm(r) PROVE SessionInv'
        <3> DEFINE n == request[r].id
                   row == [session[n] EXCEPT !.held = TRUE]
        <3>1. n \in Sessions /\ session[n] \in SessionRow /\ tenant[session[n].tenant] = "active"
            BY <2>6, Fields DEF Confirm, AuthUser
        <3>2. /\ row.live = session[n].live /\ row.login = session[n].login
              /\ row.tenant = session[n].tenant /\ row # Absent /\ session[n] # Absent
            <4>1. row \in SessionRow
                BY <3>1, RowsTyped
            <4>2. row # Absent /\ session[n] # Absent
                BY <3>1, <4>1, RowsTyped
            <4>3. row.live = session[n].live /\ row.login = session[n].login /\ row.tenant = session[n].tenant
                BY <3>1 DEF SessionRow
            <4> QED
                BY <4>2, <4>3
        <3>3. session' = [session EXCEPT ![n] = row] /\ tenant' = tenant
            BY <2>6, <3>1 DEF Confirm, TypeOK
        <3>4. ~ Closed(row.tenant)
            BY <3>1, <3>2 DEF Closed
        <3> HIDE DEF n, row
        <3>5. \A i \in Sessions : session'[i] = IF i = n THEN row ELSE session[i]
            BY <3>3 DEF TypeOK
        <3>6. OneHeir'
            BY <3>1, <3>2, <3>5 DEF OneHeir
        <3>7. ClosedTenantsEnd'
            BY <3>3, <3>4, <3>5 DEF ClosedTenantsEnd, Closed
        <3>8. LoginsExist'
            <4>1. \A i \in Sessions : session[i] # Absent => session[i].login \in Sessions
                BY DEF TypeOK, SessionRow
            <4> QED
                BY <3>1, <3>2, <3>5, <4>1 DEF LoginsExist
        <3> QED
            BY <3>6, <3>7, <3>8
    <2>7. ASSUME NEW r \in Requests, NEW t \in Tenants, CreateTenant(r, t) PROVE SessionInv'
        <3>1. UNCHANGED session /\ \A x \in Tenants : Closed(x)' => Closed(x)
            BY <2>7 DEF CreateTenant, Closed, TypeOK
        <3> QED
            BY <2>1, <3>1
    <2>8. CASE UNCHANGED <<session, tenant>>
        BY <2>1, <2>8 DEF Closed
    <2> QED
        BY <2>2, <2>3, <2>4, <2>5, <2>6, <2>7, <2>8
        DEF Next, vars, people, Register, Authorise, Drop, CheckTransition, Revoke, CheckRoles, SetUserRoles,
            CheckStatus, SetUserStatus
<1> QED
    BY <1>1, <1>2, TypeCorrect, PTL DEF Spec, SessionInv

-----------------------------------------------------------------------------
(* Super admins *)

Exists(t) == tenant[t] # "none"

\* The rows: the primary tenant is the installer's, a tenant that does not exist has
\* no member, and no tenant but the primary one has a member who is not super admin.
RowsInv ==
    /\ Exists(Primary) /\ owner[Primary] = Installer
    /\ \A t \in Tenants : ~ Exists(t) => \A u \in Users : ~ Member(t, u)
    /\ \A t \in Tenants \ {Primary}, u \in Users : Member(t, u) => IsSuper(t, u)

\* What a request decided stays right until it writes: a replacement neither makes
\* nor unmakes a super admin, and a suspension is that of an ordinary member.
DecisionOK(r) ==
    /\ At(r, "authorised") \/ At(r, "closing") \/ At(r, "revoking") \/ At(r, "replacing") =>
           Exists(request[r].tenant)
    /\ At(r, "replacing") =>
           /\ Member(request[r].tenant, request[r].user)
           /\ SuperAdmin \in request[r].new <=> IsSuper(request[r].tenant, request[r].user)
    /\ At(r, "setting") /\ request[r].to = "suspended" => Ordinary(request[r].user)

AdminInv == SuperAdminsKept /\ RowsInv /\ \A r \in Requests : DecisionOK(r)

\* A step of request r that touches no role and makes no tenant.
LEMMA RolesUntouched ==
    ASSUME AdminInv, TypeOK, NEW r \in Requests, UNCHANGED <<roles, owner>>,
           \A t \in Tenants : Exists(t)' <=> Exists(t),
           status'[Installer] = "active",
           \A u \in Users : status'[u] = "suspended" => Ordinary(u),
           \A q \in Requests \ {r} : request'[q] = request[q],
           DecisionOK(r)'
    PROVE  AdminInv'
<1>1. SuperAdminsKept'
    BY DEF AdminInv, SuperAdminsKept, Exists, Supers, IsSuper, Member, Ordinary
<1>2. RowsInv'
    BY AccountsAssumption DEF AdminInv, RowsInv, Member, IsSuper
<1>3. ASSUME NEW q \in Requests, q # r PROVE DecisionOK(q)'
    <2>1. request'[q] = request[q] /\ DecisionOK(q)
        BY <1>3 DEF AdminInv
    <2>2. At(q, "authorised") \/ At(q, "closing") \/ At(q, "revoking") \/ At(q, "replacing") =>
             request[q].tenant \in Tenants
        BY Fields
    <2>3. At(q, "setting") => (Ordinary(request[q].user)' <=> Ordinary(request[q].user))
        BY <2>1 DEF Ordinary, Member, IsSuper
    <2> QED
        BY <2>1, <2>2, <2>3 DEF DecisionOK, At, Member, IsSuper, Exists
<1> QED
    BY <1>1, <1>2, <1>3 DEF AdminInv

\* An idle request has decided nothing.
LEMMA IdleDecision ==
    ASSUME TypeOK, NEW r \in Requests, Goes(r, Idle)
    PROVE  DecisionOK(r)' /\ \A q \in Requests \ {r} : request'[q] = request[q]
BY DEF Goes, TypeOK, DecisionOK, At, Idle

\* A tenant has one super admin.
LEMMA OneSuperAdmin ==
    ASSUME AdminInv, TypeOK, NEW t \in Tenants, Exists(t)
    PROVE  /\ Cardinality(Supers(t)) = 1
           /\ Cardinality({v \in Supers(t) : status[v] = "active"}) \in {0, 1}
<1>1. Supers(t) = {owner[t]}
    BY DEF AdminInv, SuperAdminsKept, Exists
<1>2. \/ {v \in Supers(t) : status[v] = "active"} = {}
      \/ {v \in Supers(t) : status[v] = "active"} = {owner[t]}
    BY <1>1
<1> QED
    BY <1>1, <1>2, FS_EmptySet, FS_Singleton

\* A tenant that exists keeps the super admin it was made for, through every race of
\* role replacements; nobody can suspend the installer, nor anybody but an ordinary
\* member of some tenant.
THEOREM SuperAdminsStay == Spec => []SuperAdminsKept
<1>1. Init => AdminInv
    <2> SUFFICES ASSUME Init PROVE AdminInv
        OBVIOUS
    <2>1. SuperAdminsKept
        BY AccountsAssumption DEF Init, SuperAdminsKept, Supers, IsSuper
    <2>2. RowsInv
        BY AccountsAssumption DEF Init, RowsInv, Exists, Member, IsSuper
    <2>3. \A r \in Requests : DecisionOK(r)
        BY DEF Init, DecisionOK, At, Idle
    <2> QED
        BY <2>1, <2>2, <2>3 DEF AdminInv
<1>2. TypeOK /\ AdminInv /\ [Next]_vars => AdminInv'
    <2> SUFFICES ASSUME TypeOK, AdminInv, [Next]_vars PROVE AdminInv'
        OBVIOUS
    <2>0. status[Installer] = "active" /\ \A u \in Users : status[u] = "suspended" => Ordinary(u)
        BY DEF AdminInv, SuperAdminsKept
    <2>1. CASE UNCHANGED <<people, tenant, owner, request>>
        BY <2>1 DEF people, AdminInv, SuperAdminsKept, RowsInv, DecisionOK, Supers, IsSuper, Member,
                    Exists, At, Ordinary
    <2>2. ASSUME NEW u \in Users, Register(u) PROVE AdminInv'
        <3>1. u # Installer /\ ~ IsSuper(Primary, u)
            <4>1. Supers(Primary) = {Installer}
                BY AccountsAssumption DEF AdminInv, SuperAdminsKept, RowsInv, Exists
            <4>2. u # Installer
                BY <2>0, <2>2 DEF Register
            <4> QED
                BY <4>1, <4>2 DEF Supers
        <3>2. UNCHANGED <<tenant, owner, request>> /\ status'[Installer] = "active"
            BY <2>0, <2>2, <3>1, AccountsAssumption DEF Register, TypeOK
        <3>3. \A t \in Tenants, v \in Users :
                 /\ IsSuper(t, v)' <=> IsSuper(t, v)
                 /\ Member(t, v) => Member(t, v)'
                 /\ t # Primary => (Member(t, v)' => Member(t, v))
            BY <2>2, <3>1, AccountsAssumption DEF Register, IsSuper, Member, TypeOK
        <3>0. \A v \in Users : Ordinary(v) => Ordinary(v)'
            BY <3>3 DEF Ordinary
        <3>7. \A v \in Users : status'[v] = "suspended" => status[v] = "suspended"
            BY <2>2 DEF Register, TypeOK
        <3>4. SuperAdminsKept'
            <4>1. \A v \in Users : status'[v] = "suspended" => Ordinary(v)'
                BY <2>0, <3>0, <3>7
            <4> QED
                BY <3>2, <3>3, <4>1 DEF AdminInv, SuperAdminsKept, Supers
        <3>5. RowsInv'
            BY <3>2, <3>3 DEF AdminInv, RowsInv, Exists
        <3>6. \A r \in Requests : DecisionOK(r)'
            <4> TAKE r \in Requests
            <4>1. DecisionOK(r) /\ request' = request
                BY <3>2 DEF AdminInv
            <4>2. At(r, "replacing") => request[r].tenant \in Tenants /\ request[r].user \in Users
                BY Fields
            <4>3. At(r, "replacing") =>
                     /\ Member(request[r].tenant, request[r].user)'
                     /\ IsSuper(request[r].tenant, request[r].user)' <=>
                        IsSuper(request[r].tenant, request[r].user)
                BY <3>3, <4>1, <4>2 DEF DecisionOK, Member, IsSuper
            <4>4. At(r, "setting") => request[r].user \in Users
                BY Fields
            <4>5. At(r, "setting") /\ request[r].to = "suspended" => Ordinary(request[r].user)'
                BY <3>0, <4>1, <4>4 DEF DecisionOK, Ordinary, Member, IsSuper
            <4> QED
                BY <3>2, <4>1, <4>3, <4>5 DEF DecisionOK, Exists, At
        <3> QED
            BY <3>4, <3>5, <3>6 DEF AdminInv
    <2>3. ASSUME NEW r \in Requests, NEW u \in Users, NEW t \in Tenants, Authorise(r, u, t)
          PROVE  AdminInv'
        <3>1. DecisionOK(r)' /\ \A q \in Requests \ {r} : request'[q] = request[q]
            BY <2>3 DEF Authorise, Goes, AuthUser, DecisionOK, At, Exists, TypeOK
        <3> QED
            BY <2>0, <2>3, <3>1, RolesUntouched DEF Authorise, people, Exists
    <2>4. ASSUME NEW r \in Requests, Goes(r, Idle), UNCHANGED <<people, tenant, owner>>
          PROVE  AdminInv'
        BY <2>0, <2>4, IdleDecision, RolesUntouched DEF people, Exists
    <2>5. ASSUME NEW r \in Requests, NEW s \in Sessions, NEW n \in Sessions, NEW t \in Tenants,
                 Rotate(r, s, n, t)
          PROVE  AdminInv'
        <3>1. DecisionOK(r)' /\ \A q \in Requests \ {r} : request'[q] = request[q]
            BY <2>5 DEF Rotate, Goes, DecisionOK, At, TypeOK
        <3> QED
            BY <2>0, <2>5, <3>1, RolesUntouched DEF Rotate, people, Exists
    <2>6. ASSUME NEW r \in Requests, NEW t \in Tenants, CreateTenant(r, t) PROVE AdminInv'
        <3> DEFINE u == request[r].user
        <3>1. u \in Users /\ ~ Exists(t) /\ t # Primary
            BY <2>6, Fields DEF CreateTenant, Exists, AdminInv, RowsInv
        <3>2. \A v \in Users : ~ Member(t, v)
            BY <3>1 DEF AdminInv, RowsInv
        <3>3. /\ roles' = [roles EXCEPT ![t][u] = {SuperAdmin}]
              /\ owner' = [owner EXCEPT ![t] = u] /\ tenant' = [tenant EXCEPT ![t] = "active"]
              /\ status' = status
            BY <2>6 DEF CreateTenant
        <3> HIDE DEF u
        <3>4. \A x \in Tenants : /\ Exists(x)' <=> (x = t \/ Exists(x))
                                 /\ x # t => owner'[x] = owner[x]
            BY <3>1, <3>3 DEF Exists, TypeOK
        <3>5. owner'[t] = u
            BY <3>3 DEF TypeOK
        <3>6. \A x \in Tenants, v \in Users :
                 roles'[x][v] = IF x = t /\ v = u THEN {SuperAdmin} ELSE roles[x][v]
            BY <3>1, <3>3 DEF TypeOK
        <3>10. \A v \in Users : Ordinary(v) => Ordinary(v)'
            <4> SUFFICES ASSUME NEW v \in Users, NEW x \in Tenants, Member(x, v), ~ IsSuper(x, v)
                         PROVE  Member(x, v)' /\ ~ IsSuper(x, v)'
                BY DEF Ordinary
            <4>1. x # t
                BY <3>2
            <4> QED
                BY <3>6, <4>1 DEF Member, IsSuper
        <3>7. SuperAdminsKept'
            <4>1. Supers(t)' = {u}
                BY <3>1, <3>2, <3>6 DEF Supers, IsSuper, Member
            <4>2. ASSUME NEW x \in Tenants, x # t, Exists(x) PROVE Supers(x)' = {owner'[x]}
                BY <3>4, <3>6, <4>2 DEF AdminInv, SuperAdminsKept, Supers, IsSuper, Exists
            <4>3. \A v \in Users : status'[v] = "suspended" => Ordinary(v)'
                BY <2>0, <3>3, <3>10
            <4> QED
                BY <2>0, <3>3, <3>4, <3>5, <4>1, <4>2, <4>3 DEF SuperAdminsKept, Exists
        <3>8. RowsInv'
            BY <3>1, <3>4, <3>6, AccountsAssumption DEF AdminInv, RowsInv, Member, IsSuper
        <3>9. ASSUME NEW q \in Requests PROVE DecisionOK(q)'
            <4>1. CASE q = r
                BY <2>6, <4>1, IdleDecision DEF CreateTenant
            <4>2. CASE q # r
                <5>1. request'[q] = request[q] /\ DecisionOK(q)
                    BY <2>6, <4>2, IdleDecision DEF CreateTenant, AdminInv
                <5>2. At(q, "authorised") \/ At(q, "closing") \/ At(q, "revoking") \/ At(q, "replacing") =>
                         request[q].tenant \in Tenants
                    BY Fields
                <5>3. At(q, "authorised") \/ At(q, "closing") \/ At(q, "revoking") \/ At(q, "replacing") =>
                         Exists(request[q].tenant)'
                    <6> SUFFICES ASSUME \/ At(q, "authorised") \/ At(q, "closing")
                                        \/ At(q, "revoking") \/ At(q, "replacing")
                                 PROVE  Exists(request[q].tenant)'
                        OBVIOUS
                    <6>1. Exists(request[q].tenant) /\ request[q].tenant \in Tenants
                        BY <5>1, <5>2 DEF DecisionOK
                    <6> QED
                        BY <3>4, <5>1, <6>1 DEF Exists
                <5>4. At(q, "replacing") =>
                         roles'[request[q].tenant][request[q].user] = roles[request[q].tenant][request[q].user]
                    <6> SUFFICES ASSUME At(q, "replacing")
                                 PROVE  roles'[request[q].tenant][request[q].user]
                                            = roles[request[q].tenant][request[q].user]
                        OBVIOUS
                    <6>1. request[q].tenant # t /\ request[q].tenant \in Tenants /\ request[q].user \in Users
                        BY <3>1, <5>1, Fields DEF DecisionOK
                    <6> QED
                        BY <3>6, <6>1
                <5>5. At(q, "setting") /\ request[q].to = "suspended" => Ordinary(request[q].user)'
                    <6>1. At(q, "setting") => request[q].user \in Users
                        BY Fields
                    <6> QED
                        BY <3>10, <5>1, <6>1 DEF DecisionOK, Ordinary, Member, IsSuper
                <5> QED
                    BY <5>1, <5>3, <5>4, <5>5 DEF DecisionOK, At, Member, IsSuper, Exists
            <4> QED
                BY <4>1, <4>2
        <3> QED
            BY <3>7, <3>8, <3>9 DEF AdminInv
    <2>7. ASSUME NEW r \in Requests, NEW target \in Targets, CheckTransition(r, target)
          PROVE  AdminInv'
        <3>1. DecisionOK(r)' /\ \A q \in Requests \ {r} : request'[q] = request[q]
            BY <2>7 DEF CheckTransition, Goes, DecisionOK, At, Exists, TypeOK, AdminInv
        <3> QED
            BY <2>0, <2>7, <3>1, RolesUntouched DEF CheckTransition, people, Exists
    <2>8. ASSUME NEW r \in Requests, Commit(r) PROVE AdminInv'
        <3>1. DecisionOK(r)' /\ \A q \in Requests \ {r} : request'[q] = request[q]
            BY <2>8, IdleDecision DEF Commit
        <3>2. ASSUME NEW t \in Tenants PROVE Exists(t)' <=> Exists(t)
            <4>1. /\ tenant' = [tenant EXCEPT ![request[r].tenant] = request[r].target]
                  /\ request[r].target # "none" /\ Exists(request[r].tenant)
                BY <2>8, Fields, AccountsAssumption DEF Commit, AdminInv, DecisionOK
            <4> QED
                BY <4>1 DEF Exists, TypeOK
        <3> QED
            BY <2>0, <2>8, <3>1, <3>2, RolesUntouched DEF Commit, people
    <2>16. ASSUME NEW r \in Requests, Revoke(r) PROVE AdminInv'
        <3>1. /\ request'[r].pc = "revoking" /\ request'[r].tenant = request[r].tenant
              /\ UNCHANGED <<people, tenant, owner>>
              /\ \A q \in Requests \ {r} : request'[q] = request[q]
            BY <2>16 DEF Revoke, Goes, TypeOK
        <3>2. Exists(request[r].tenant)
            BY <2>16 DEF Revoke, AdminInv, DecisionOK
        <3>3. DecisionOK(r)'
            BY <3>1, <3>2 DEF DecisionOK, At, Exists
        <3> QED
            BY <2>0, <3>1, <3>3, RolesUntouched DEF people, Exists
    <2>9. ASSUME NEW r \in Requests, NEW u \in Users, NEW new \in Replacements, CheckRoles(r, u, new)
          PROVE  AdminInv'
        <3> DEFINE t == request[r].tenant
        <3>1. t \in Tenants /\ Exists(t) /\ Member(t, u) /\ KeepsSuperAdmin(t, u, new)
            BY <2>9, Fields DEF CheckRoles, AdminInv, DecisionOK
        <3>2. SuperAdmin \in new <=> IsSuper(t, u)
            <4>1. Cardinality(Supers(t)) = 1
                BY <3>1, OneSuperAdmin
            <4>2. Cardinality(Supers(t)) <= 1
                BY <4>1
            <4> QED
                BY <3>1, <4>2, Zenon DEF KeepsSuperAdmin
        <3>3. /\ request' = [request EXCEPT ![r] = [pc |-> "replacing", tenant |-> t, user |-> u,
                                                     new |-> new, overtaken |-> FALSE]]
              /\ UNCHANGED <<people, tenant, owner>>
            BY <2>9 DEF CheckRoles, Goes
        <3> HIDE DEF t
        <3>4. DecisionOK(r)' /\ \A q \in Requests \ {r} : request'[q] = request[q]
            BY <3>1, <3>2, <3>3 DEF DecisionOK, At, Exists, Member, IsSuper, TypeOK, people
        <3> QED
            BY <2>0, <3>3, <3>4, RolesUntouched DEF people, Exists
    <2>10. ASSUME NEW r \in Requests, SetUserRoles(r) PROVE AdminInv'
        <3> DEFINE t == request[r].tenant
                   u == request[r].user
                   new == request[r].new
        <3>1. /\ t \in Tenants /\ u \in Users /\ Exists(t) /\ Member(t, u)
              /\ SuperAdmin \in new <=> IsSuper(t, u)
            BY <2>10, Fields DEF SetUserRoles, AdminInv, DecisionOK
        <3>2. \E set : /\ roles' = [roles EXCEPT ![t][u] = set] /\ set # {}
                       /\ SuperAdmin \in set <=> IsSuper(t, u)
            <4>1. CASE roles' = [roles EXCEPT ![t][u] = new]
                <5>1. new # {}
                    BY <2>10, AccountsAssumption DEF SetUserRoles, TypeOK, RequestState, Idle, At
                <5> QED
                    BY <3>1, <4>1, <5>1
            <4>2. CASE /\ roles[t][u] \cap new = {}
                       /\ roles' = [roles EXCEPT ![t][u] = roles[t][u] \cup new]
                <5>1. SuperAdmin \notin new /\ SuperAdmin \notin roles[t][u]
                    BY <3>1, <4>2 DEF IsSuper
                <5>2. roles[t][u] \cup new # {}
                    BY <3>1 DEF Member
                <5> QED
                    BY <4>2, <5>1, <5>2 DEF IsSuper
            <4> QED
                BY <2>10, <3>1, <4>1, <4>2 DEF SetUserRoles, TypeOK
        <3>3. UNCHANGED <<status, tenant, owner>>
            BY <2>10 DEF SetUserRoles
        <3>4. ASSUME NEW q \in Requests
              PROVE  \/ request'[q] = request[q] \/ request'[q] = Idle
                     \/ At(q, "replacing") /\ request'[q] = [request[q] EXCEPT !.overtaken = TRUE]
            BY <2>10 DEF SetUserRoles, Replacing
        <3> HIDE DEF t, u, new
        <3>5. ASSUME NEW x \in Tenants, NEW v \in Users
              PROVE  (IsSuper(x, v)' <=> IsSuper(x, v)) /\ (Member(x, v)' <=> Member(x, v))
            <4>1. PICK set : /\ roles' = [roles EXCEPT ![t][u] = set] /\ set # {}
                             /\ SuperAdmin \in set <=> IsSuper(t, u)
                BY <3>2
            <4>2. CASE x = t /\ v = u
                <5>1. roles'[x][v] = set
                    BY <3>1, <4>1, <4>2 DEF TypeOK
                <5> QED
                    BY <3>1, <4>1, <4>2, <5>1 DEF IsSuper, Member
            <4>3. CASE ~ (x = t /\ v = u)
                <5>1. roles'[x][v] = roles[x][v]
                    BY <3>1, <4>1, <4>3 DEF TypeOK
                <5> QED
                    BY <5>1 DEF IsSuper, Member
            <4> QED
                BY <4>2, <4>3
        <3>9. \A v \in Users : Ordinary(v)' <=> Ordinary(v)
            BY <3>5 DEF Ordinary
        <3>6. SuperAdminsKept'
            BY <3>3, <3>5, <3>9 DEF AdminInv, SuperAdminsKept, Supers
        <3>7. RowsInv'
            BY <3>3, <3>5 DEF AdminInv, RowsInv, Exists
        <3>8. ASSUME NEW q \in Requests PROVE DecisionOK(q)'
            <4>0. CASE request'[q] = Idle
                BY <4>0 DEF DecisionOK, At, Idle
            <4> DEFINE req == request[q]
            <4>1. DecisionOK(q) /\ (At(q, "replacing") => req.tenant \in Tenants /\ req.user \in Users)
                BY Fields DEF AdminInv
            <4>2. At(q, "replacing") =>
                     /\ (SuperAdmin \in roles'[req.tenant][req.user]) <=> IsSuper(req.tenant, req.user)
                     /\ roles'[req.tenant][req.user] # {}
                BY <3>5, <4>1 DEF DecisionOK, IsSuper, Member
            <4>3. CASE request'[q] = request[q]
                <5>1. At(q, "setting") /\ req.to = "suspended" => Ordinary(req.user)'
                    <6>1. At(q, "setting") => req.user \in Users
                        BY Fields
                    <6>2. request'[q].user = req.user
                        BY <4>3
                    <6> QED
                        BY <3>9, <4>1, <6>1, <6>2 DEF DecisionOK, Ordinary, Member, IsSuper
                <5> QED
                    BY <3>3, <4>1, <4>2, <4>3, <5>1 DEF DecisionOK, At, Exists, Member, IsSuper
            <4>4. CASE At(q, "replacing") /\ request'[q] = [request[q] EXCEPT !.overtaken = TRUE]
                <5>1. req \in [pc : {"replacing"}, tenant : Tenants, user : Users,
                               new : Replacements, overtaken : BOOLEAN]
                    BY <4>4 DEF TypeOK, RequestState, Idle, At
                <5>2. /\ request'[q].pc = "replacing" /\ request'[q].tenant = req.tenant
                      /\ request'[q].user = req.user /\ request'[q].new = req.new
                    BY <4>4, <5>1
                <5> QED
                    BY <3>3, <4>1, <4>2, <4>4, <5>2 DEF DecisionOK, At, Exists, Member, IsSuper
            <4> QED
                BY <3>4, <4>0, <4>3, <4>4
        <3> QED
            BY <3>6, <3>7, <3>8 DEF AdminInv
    <2>11. ASSUME NEW r \in Requests, NEW u \in Users, NEW to \in {"active", "suspended"},
                  CheckStatus(r, u, to)
           PROVE  AdminInv'
        <3> DEFINE t == request[r].tenant
        <3>1. t \in Tenants /\ Exists(t) /\ Member(t, u)
            BY <2>11, Fields DEF CheckStatus, AdminInv, DecisionOK
        <3>2. to = "suspended" /\ IsSuper(t, u) =>
                 Cardinality({v \in Supers(t) : status[v] = "active"}) > 1
            BY <2>11 DEF CheckStatus
        <3>3. /\ request' = [request EXCEPT ![r] = [pc |-> "setting", user |-> u, to |-> to]]
              /\ UNCHANGED <<people, tenant, owner>>
            BY <2>11 DEF CheckStatus, Goes
        <3> HIDE DEF t
        <3>4. to = "suspended" => ~ IsSuper(t, u)
            BY <3>1, <3>2, OneSuperAdmin
        <3>5. to = "suspended" => Ordinary(u)
            BY <3>1, <3>4 DEF Ordinary
        <3>6. DecisionOK(r)' /\ \A q \in Requests \ {r} : request'[q] = request[q]
            <4>1. to = "suspended" => Ordinary(u)'
                BY <3>3, <3>5 DEF Ordinary, Member, IsSuper, people
            <4> QED
                BY <3>3, <4>1 DEF DecisionOK, At, TypeOK
        <3> QED
            BY <2>0, <3>3, <3>6, RolesUntouched DEF people, Exists
    <2>12. ASSUME NEW r \in Requests, SetUserStatus(r) PROVE AdminInv'
        <3>1. ~ Ordinary(Installer)
            <4>1. IsSuper(Primary, Installer)
                BY AccountsAssumption DEF AdminInv, SuperAdminsKept, RowsInv, Exists, Supers
            <4> QED
                BY <4>1, AccountsAssumption DEF AdminInv, RowsInv, Ordinary
        <3>2. request[r].to = "suspended" => Ordinary(request[r].user)
            BY <2>12 DEF SetUserStatus, AdminInv, DecisionOK
        <3>3. \A u \in Users : status'[u] = "suspended" => Ordinary(u)
            BY <2>0, <2>12, <3>2 DEF SetUserStatus, TypeOK
        <3>4. status'[Installer] = "active"
            BY <2>0, <2>12, <3>1, <3>2, Fields, AccountsAssumption DEF SetUserStatus, TypeOK
        <3> QED
            BY <2>12, <3>3, <3>4, IdleDecision, RolesUntouched DEF SetUserStatus, Exists
    <2>13. ASSUME NEW r \in Requests, NEW s \in Sessions, Issue(r, s) PROVE AdminInv'
        BY <2>4, <2>13 DEF Issue
    <2>14. ASSUME NEW r \in Requests, Confirm(r) \/ Drop(r) PROVE AdminInv'
        BY <2>4, <2>14 DEF Confirm, Drop
    <2>15. ASSUME NEW s \in Sessions, End(s) PROVE AdminInv'
        BY <2>1, <2>15 DEF End
    <2> QED
        BY <2>1, <2>2, <2>3, <2>5, <2>6, <2>7, <2>8, <2>9, <2>10, <2>11, <2>12, <2>13, <2>14, <2>15,
           <2>16 DEF Next, vars, people
<1> QED
    BY <1>1, <1>2, TypeCorrect, PTL DEF Spec, AdminInv
=============================================================================
