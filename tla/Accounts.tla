------------------------------ MODULE Accounts ------------------------------
(***************************************************************************)
(* Users, their roles in tenants, tenants and the refresh sessions, from   *)
(* the moment the system is installed.                                     *)
(*                                                                         *)
(* Whoever logs in or calls a protected endpoint is first checked against  *)
(* the rows of the user, the tenant and the membership, in a transaction   *)
(* of its own.  What follows runs at READ COMMITTED: an administrative     *)
(* transaction reads, decides, and then writes whatever was written since. *)
(* Any member may hold any permission, for SetRolePermissions hands them   *)
(* out.                                                                    *)
(***************************************************************************)
EXTENDS Naturals, FiniteSets

CONSTANTS
    Users, Installer,       \* the installer is made super admin of Primary
    Tenants, Primary,
    Roles, SuperAdmin, Employee,
    Replacements,           \* bound: the sets of roles asked for
    Targets,                \* bound: the states a tenant is asked to go to
    Sessions,               \* ids of refresh sessions
    Requests,               \* concurrent requests
    Nobody                  \* owner of a tenant that does not exist yet

ASSUME AccountsAssumption ==
    /\ Installer \in Users /\ Nobody \notin Users
    /\ Primary \in Tenants
    /\ {SuperAdmin, Employee} \subseteq Roles /\ SuperAdmin # Employee
    /\ Replacements \subseteq (SUBSET Roles) \ {{}}
    /\ Targets \subseteq {"suspended", "archived", "deleted"}

VARIABLES
    status,     \* users: "none", "active" or "suspended"
    tenant,     \* tenants: "none" or their status
    owner,      \* history: whom a tenant was made for
    roles,      \* tenant_user_roles of a member; a membership is made with a role
                \* and neither is ever without the other
    session,    \* refresh_sessions; whether a client got the token, and as history
                \* the login it descends from and when it was born
    request     \* per request: what its transactions read so far

people == <<status, roles>>
vars == <<status, tenant, owner, roles, session, request>>

Absent == [live |-> FALSE]
Idle == [pc |-> "idle"]

Member(t, u) == roles[t][u] # {}
IsSuper(t, u) == SuperAdmin \in roles[t][u]
Supers(t) == {u \in Users : IsSuper(t, u)}
Closed(t) == tenant[t] \in {"suspended", "archived", "deleted"}

At(r, pc) == request[r].pc = pc
Goes(r, req) == request' = [request EXCEPT ![r] = req]

Init ==
    /\ status = [u \in Users |-> IF u = Installer THEN "active" ELSE "none"]
    /\ tenant = [t \in Tenants |-> IF t = Primary THEN "active" ELSE "none"]
    /\ owner = [t \in Tenants |-> IF t = Primary THEN Installer ELSE Nobody]
    /\ roles = [t \in Tenants |-> [u \in Users |->
                    IF t = Primary /\ u = Installer THEN {SuperAdmin} ELSE {}]]
    /\ session = [s \in Sessions |-> Absent]
    /\ request = [r \in Requests |-> Idle]

-----------------------------------------------------------------------------
(* Who may act *)

\* CreateUser: a new user is an employee of the primary tenant.
Register(u) ==
    /\ status[u] = "none"
    /\ tenant[Primary] = "active"
    /\ status' = [status EXCEPT ![u] = "active"]
    /\ roles' = [roles EXCEPT ![Primary][u] = {Employee}]
    /\ UNCHANGED <<tenant, owner, session, request>>

AuthUser(u, t) == status[u] = "active" /\ tenant[t] = "active" /\ Member(t, u)

\* The check of a login, whose earlier reads it repeats, and of Authenticate.
Authorise(r, u, t) ==
    /\ request[r] = Idle
    /\ AuthUser(u, t)
    /\ Goes(r, [pc |-> "authorised", user |-> u, tenant |-> t])
    /\ UNCHANGED <<people, tenant, owner, session>>

\* A refusal, a failed transaction, a cancelled request or a crash.
Drop(r) ==
    /\ request[r] # Idle
    /\ Goes(r, Idle)
    /\ UNCHANGED <<people, tenant, owner, session>>

-----------------------------------------------------------------------------
(* Sessions *)

NewSession(u, t, login, held) ==
    [live |-> TRUE, user |-> u, tenant |-> t, login |-> login, held |-> held,
     born |-> IF Closed(t) THEN "late" ELSE "open"]

\* The last step of a login.  A client whose answer is lost is one that never
\* presents the token.
Issue(r, s) ==
    /\ At(r, "authorised")
    /\ session[s] = Absent
    /\ session' = [session EXCEPT ![s] =
                       NewSession(request[r].user, request[r].tenant, s, TRUE)]
    /\ Goes(r, Idle)
    /\ UNCHANGED <<people, tenant, owner>>

\* Mutant: the row is looked up by its hash alone.
PresentedOnly(s) == session[s] # Absent /\ session[s].held

\* The token a client presents names a session nobody revoked.
Presented(s) == session[s] # Absent /\ session[s].held /\ session[s].live

\* RotateSession, one row-locked transaction: membership of the tenant asked for is
\* all that it checks besides the session.
Rotate(r, s, n, t) ==
    /\ request[r] = Idle
    /\ Presented(s)
    /\ session[n] = Absent
    /\ Member(t, session[s].user)
    /\ session' = [session EXCEPT
           ![s].live = FALSE,
           ![n] = NewSession(session[s].user, t, session[s].login, FALSE)]
    /\ Goes(r, [pc |-> "rotated", id |-> n])
    /\ UNCHANGED <<people, tenant, owner>>

\* The token of the new session is answered only to a user who may still act.
Confirm(r) ==
    /\ At(r, "rotated")
    /\ LET n == request[r].id
       IN  /\ AuthUser(session[n].user, session[n].tenant)
           /\ session' = [session EXCEPT ![n].held = TRUE]
    /\ Goes(r, Idle)
    /\ UNCHANGED <<people, tenant, owner>>

\* Logout, or RevokeSession by id.
End(s) ==
    /\ session[s] # Absent /\ session[s].live
    /\ session' = [session EXCEPT ![s].live = FALSE]
    /\ UNCHANGED <<people, tenant, owner, request>>

-----------------------------------------------------------------------------
(* Tenants *)

\* CreateTenant makes its caller the only member, as super admin.
CreateTenant(r, t) ==
    /\ At(r, "authorised")
    /\ tenant[t] = "none"
    /\ tenant' = [tenant EXCEPT ![t] = "active"]
    /\ owner' = [owner EXCEPT ![t] = request[r].user]
    /\ roles' = [roles EXCEPT ![t][request[r].user] = {SuperAdmin}]
    /\ Goes(r, Idle)
    /\ UNCHANGED <<status, session>>

\* Mutant: the primary tenant is no exception.
AllowedAnywhere(t, target) ==
    \/ tenant[t] = "active" /\ target = "suspended"
    \/ tenant[t] \in {"active", "suspended"} /\ target = "archived"
    \/ tenant[t] \in {"active", "suspended", "archived"} /\ target = "deleted"

Allowed(t, target) ==
    /\ t # Primary
    /\ \/ tenant[t] = "active" /\ target = "suspended"
       \/ tenant[t] \in {"active", "suspended"} /\ target = "archived"
       \/ tenant[t] \in {"active", "suspended", "archived"} /\ target = "deleted"

CheckTransition(r, target) ==
    /\ At(r, "authorised")
    /\ Allowed(request[r].tenant, target)
    /\ Goes(r, [pc |-> "closing", tenant |-> request[r].tenant, target |-> target])
    /\ UNCHANGED <<people, tenant, owner, session>>

Revoking(r, t) == At(r, "revoking") /\ request[r].tenant = t

\* The row of the tenant is overwritten, whatever its status is by now, and stays
\* locked.  The statement after it revokes the sessions whose rows it finds when it
\* starts: what is inserted while it runs, or waits for a rotation, it never sees.
Revoke(r) ==
    /\ At(r, "closing")
    /\ LET t == request[r].tenant
       IN  /\ \A q \in Requests : ~ Revoking(q, t)
           /\ Goes(r, [pc |-> "revoking", tenant |-> t, target |-> request[r].target,
                       seen |-> {s \in Sessions : session[s].live /\ session[s].tenant = t}])
    /\ UNCHANGED <<people, tenant, owner, session>>

Ended(row) == [row EXCEPT !.live = FALSE]

\* The commit: others see the status and the revocations only now.
Commit(r) ==
    /\ At(r, "revoking")
    /\ LET t == request[r].tenant
       IN  /\ tenant' = [tenant EXCEPT ![t] = request[r].target]
           /\ session' = [s \in Sessions |->
                  IF s \in request[r].seen THEN Ended(session[s])
                  ELSE IF session[s].live /\ session[s].tenant = t
                  THEN [session[s] EXCEPT !.born = "amid"]
                  ELSE session[s]]
    /\ Goes(r, Idle)
    /\ UNCHANGED <<people, owner>>

-----------------------------------------------------------------------------
(* Roles and suspension *)

\* Mutant: anyone may be made super admin.
KeepsSuperAdminUnguarded(t, u, new) ==
    IsSuper(t, u) /\ Cardinality(Supers(t)) <= 1 => SuperAdmin \in new

\* Only who is one already may be given the role of super admin, and the last one
\* keeps it.
KeepsSuperAdmin(t, u, new) ==
    /\ SuperAdmin \in new => IsSuper(t, u)
    /\ IsSuper(t, u) /\ Cardinality(Supers(t)) <= 1 => SuperAdmin \in new

CheckRoles(r, u, new) ==
    /\ At(r, "authorised")
    /\ LET t == request[r].tenant
       IN  /\ Member(t, u)
           /\ KeepsSuperAdmin(t, u, new)
           /\ Goes(r, [pc |-> "replacing", tenant |-> t, user |-> u, new |-> new,
                       overtaken |-> FALSE])
    /\ UNCHANGED <<people, tenant, owner, session>>

Replacing(r, t, u) == At(r, "replacing") /\ request[r].tenant = t /\ request[r].user = u

\* The rows the deletion saw are replaced.  When another replacement of the same
\* roles committed since, the deletion may have waited for it: what it saw is gone,
\* what the other inserted stays, and a role in both breaks the primary key.
SetUserRoles(r) ==
    /\ At(r, "replacing")
    /\ LET t == request[r].tenant
           u == request[r].user
           new == request[r].new
       IN  /\ \/ roles' = [roles EXCEPT ![t][u] = new]
              \/ /\ request[r].overtaken
                 /\ roles[t][u] \cap new = {}
                 /\ roles' = [roles EXCEPT ![t][u] = @ \cup new]
           /\ request' = [q \in Requests |->
                  IF q = r THEN Idle
                  ELSE IF Replacing(q, t, u) THEN [request[q] EXCEPT !.overtaken = TRUE]
                  ELSE request[q]]
    /\ UNCHANGED <<status, tenant, owner, session>>

\* Nobody suspends themselves, nor the last active super admin of the tenant.
CheckStatus(r, u, to) ==
    /\ At(r, "authorised")
    /\ LET t == request[r].tenant
       IN  /\ Member(t, u)
           /\ to = "suspended" =>
                  /\ u # request[r].user
                  /\ IsSuper(t, u) =>
                        Cardinality({v \in Supers(t) : status[v] = "active"}) > 1
    /\ Goes(r, [pc |-> "setting", user |-> u, to |-> to])
    /\ UNCHANGED <<people, tenant, owner, session>>

SetUserStatus(r) ==
    /\ At(r, "setting")
    /\ status' = [status EXCEPT ![request[r].user] = request[r].to]
    /\ Goes(r, Idle)
    /\ UNCHANGED <<tenant, owner, roles, session>>

-----------------------------------------------------------------------------
Next ==
    \/ \E u \in Users : Register(u)
    \/ \E s \in Sessions : End(s)
    \/ \E r \in Requests :
        \/ \E u \in Users, t \in Tenants : Authorise(r, u, t)
        \/ Drop(r)
        \/ \E s \in Sessions : Issue(r, s)
        \/ \E s, n \in Sessions, t \in Tenants : Rotate(r, s, n, t)
        \/ Confirm(r)
        \/ \E t \in Tenants : CreateTenant(r, t)
        \/ \E target \in Targets : CheckTransition(r, target)
        \/ Revoke(r)
        \/ Commit(r)
        \/ \E u \in Users, new \in Replacements : CheckRoles(r, u, new)
        \/ SetUserRoles(r)
        \/ \E u \in Users, to \in {"active", "suspended"} : CheckStatus(r, u, to)
        \/ SetUserStatus(r)

Spec == Init /\ [][Next]_vars
-----------------------------------------------------------------------------
SessionRow == [live : BOOLEAN, user : Users, tenant : Tenants, login : Sessions,
               held : BOOLEAN, born : {"open", "amid", "late"}]

RequestState ==
    {Idle}
    \cup [pc : {"authorised"}, user : Users, tenant : Tenants]
    \cup [pc : {"rotated"}, id : Sessions]
    \cup [pc : {"closing"}, tenant : Tenants \ {Primary}, target : Targets]
    \cup [pc : {"revoking"}, tenant : Tenants \ {Primary}, target : Targets,
          seen : SUBSET Sessions]
    \cup [pc : {"replacing"}, tenant : Tenants, user : Users, new : Replacements,
          overtaken : BOOLEAN]
    \cup [pc : {"setting"}, user : Users, to : {"active", "suspended"}]

\* The sessions a request goes by.
Named(r) ==
    CASE At(r, "rotated") -> {request[r].id}
      [] At(r, "revoking") -> request[r].seen
      [] OTHER -> {}

\* Rows, and a request goes only by sessions that exist.
TypeOK ==
    /\ status \in [Users -> {"none", "active", "suspended"}]
    /\ tenant \in [Tenants -> {"none", "active", "suspended", "archived", "deleted"}]
    /\ owner \in [Tenants -> Users \cup {Nobody}]
    /\ roles \in [Tenants -> [Users -> SUBSET Roles]]
    /\ session \in [Sessions -> {Absent} \cup SessionRow]
    /\ request \in [Requests -> RequestState]
    /\ \A r \in Requests : \A s \in Named(r) : session[s] # Absent

Ordinary(u) == \E t \in Tenants : Member(t, u) /\ ~ IsSuper(t, u)

\* Whatever role replacements and suspensions race, a tenant has one super admin, the
\* user it was made for, and the installer is never suspended.  The others are not
\* safe: a suspension is for every tenant at once, so the only super admin of a tenant
\* can be suspended through another of which he is an ordinary member, but never
\* unless there is such a tenant.
SuperAdminsKept ==
    /\ \A t \in Tenants : tenant[t] # "none" => Supers(t) = {owner[t]}
    /\ status[Installer] = "active"
    /\ \A u \in Users : status[u] = "suspended" => Ordinary(u)

\* However often its token is presented, a login leaves at most one live session.
OneHeir ==
    \A s, n \in Sessions :
        session[s].live /\ session[n].live /\ session[s].login = session[n].login => s = n

\* A token of a closed tenant names a live session only if the row of that session
\* was inserted, by a login or a rotation, while the tenant was being closed, after the
\* revocation had started and before it was committed; or if it was inserted later by
\* a login that was checked before, and never renewed.
ClosedTenantsEnd ==
    \A s \in Sessions :
        session[s].live /\ Closed(session[s].tenant) /\ session[s].held =>
            \/ session[s].born = "amid"
            \/ session[s].born = "late" /\ session[s].login = s

SessionsAccounted == OneHeir /\ ClosedTenantsEnd
=============================================================================
