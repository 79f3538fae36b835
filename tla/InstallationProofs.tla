------------------------- MODULE InstallationProofs -------------------------
(***************************************************************************)
(* What TLAPS proves of Installation and Migrations, for every set of      *)
(* replicas, releases, tenants and requests and every legacy database.     *)
(*                                                                         *)
(* What the migrations do to the rows is said of a database d, the         *)
(* versions h of its ledger and what was found, f: Early(d, h, f) before   *)
(* the sixth, where d is f with what the third and the fourth granted, and *)
(* Late(d, f) from the sixth on, which an installation or a new tenant     *)
(* keeps.  IInv adds who may be where (Guarded, Placed), what the session  *)
(* with the lock knows of the ledger (Locked, Seeing), which replicas were *)
(* found to agree with it (Agreed), and that one request at most was       *)
(* committed (Once).                                                       *)
(***************************************************************************)
EXTENDS Installation, FiniteSetTheorems, TLAPS

-----------------------------------------------------------------------------
(* What the migrations do to the rows *)

\* The rows refer to tenants that are there.
Referring(d) ==
    /\ d \in Databases
    /\ \A g \in d.grants : g[1] \in DOMAIN d.origin
    /\ d.members \cup d.settings \subseteq DOMAIN d.origin

\* Nothing but the columns named here changes.
SameTenants(e, d) ==
    /\ e.marker = d.marker /\ e.roles = d.roles /\ e.company = d.company
    /\ e.admin = d.admin /\ e.origin = d.origin /\ e.oldest = d.oldest /\ e.primary = d.primary
    /\ e.members = d.members

\* The rows of a permission granted to roles, in tenants or before there were any.
Given(T, R, p) == T \X R \X {p}
RolesGiven(R, p) == R \X {p}

LEMMA OriginTyped ==
    ASSUME NEW d \in Databases
    PROVE  /\ DOMAIN d.origin \subseteq Tenant
           /\ d.origin \in [DOMAIN d.origin -> Origins]
    BY DEF Databases

\* e is d with permission p granted to roles R in tenants T, or to R alone.
GrantedTo(e, d, T, R, p) ==
    /\ Referring(e) /\ SameTenants(e, d)
    /\ e.perms = d.perms \cup {p}
    /\ e.grants = d.grants \cup Given(T, R \cap RoleRows(d), p)
    /\ e.roleGrants = d.roleGrants /\ e.settings = d.settings
    /\ e.plans = d.plans /\ e.isolated = d.isolated

GrantedToRoles(e, d, R, p) ==
    /\ Referring(e) /\ SameTenants(e, d)
    /\ e.perms = d.perms /\ e.grants = d.grants
    /\ e.roleGrants = d.roleGrants \cup RolesGiven(R \cap RoleRows(d), p)
    /\ e.settings = d.settings
    /\ e.plans = d.plans /\ e.isolated = d.isolated

LEMMA GrantEffect ==
    ASSUME NEW d, Referring(d), NEW T, T \subseteq DOMAIN d.origin, NEW R, R \subseteq Roles,
           NEW p \in Vocabulary
    PROVE  GrantedTo(Grant(d, T, R, p), d, T, R, p)
<1> DEFINE given == Given(T, R \cap RoleRows(d), p)
           e == [d EXCEPT !.perms = @ \cup {p}]
           f == [e EXCEPT !.grants = @ \cup given]
<1>1. DOMAIN d.origin \subseteq Tenant
    BY OriginTyped DEF Referring
<1>2. given \subseteq Tenant \X Roles \X Vocabulary /\ \A g \in given : g[1] \in T
    BY <1>1 DEF Given
<1>3. Grant(d, T, R, p) = f
    BY DEF Grant, Given, Referring, Databases
<1> HIDE DEF given
<1>4. e \in Databases /\ SameTenants(e, d) /\ e.perms = d.perms \cup {p} /\ e.grants = d.grants
      /\ e.roleGrants = d.roleGrants /\ e.settings = d.settings /\ e.plans = d.plans /\ e.isolated = d.isolated
    BY DEF Databases, Referring, SameTenants
<1> HIDE DEF e
<1>5. f \in Databases /\ SameTenants(f, e) /\ f.perms = e.perms /\ f.grants = e.grants \cup given
      /\ f.roleGrants = e.roleGrants /\ f.settings = e.settings /\ f.plans = e.plans /\ f.isolated = e.isolated
    BY <1>2, <1>4 DEF Databases, SameTenants
<1> HIDE DEF f
<1> QED
    BY <1>2, <1>3, <1>4, <1>5 DEF Referring, SameTenants, GrantedTo, given

LEMMA GrantRolesEffect ==
    ASSUME NEW d, Referring(d), NEW R, R \subseteq Roles, NEW p \in Vocabulary
    PROVE  GrantedToRoles(GrantRoles(d, R, p), d, R, p)
<1> DEFINE given == RolesGiven(R \cap RoleRows(d), p)
           e == [d EXCEPT !.roleGrants = @ \cup given]
<1>1. given \subseteq Grantable
    BY DEF Grantable, RolesGiven
<1>2. GrantRoles(d, R, p) = e
    BY DEF GrantRoles, RolesGiven
<1> HIDE DEF given
<1>3. e \in Databases /\ SameTenants(e, d) /\ e.perms = d.perms /\ e.grants = d.grants
      /\ e.roleGrants = d.roleGrants \cup given /\ e.settings = d.settings
      /\ e.plans = d.plans /\ e.isolated = d.isolated
    BY <1>1 DEF Databases, Referring, SameTenants
<1> HIDE DEF e
<1> QED
    BY <1>2, <1>3 DEF Referring, SameTenants, GrantedToRoles, given

\* The migrations that were not applied when f was found, and those of them applied
\* since, if h are the versions of the ledger.
Reached(h, v) == \E w \in h : v <= w
AheadIn(f, v) == \A w \in DOMAIN f.ledger : w < v
Passed(h, f, v) == AheadIn(f, v) /\ Reached(h, v)

\* Before the sixth migration: the rows are those found and what the third and the
\* fourth granted.
Early(d, h, f) ==
    /\ Referring(d) /\ SameTenants(d, f.db) /\ d.settings = f.db.settings
    /\ "entity.view" \in d.perms <=> "entity.view" \in f.db.perms
    /\ "tenant.view" \notin d.perms
    /\ \A t \in Tenant, r \in Roles, p \in Vocabulary :
         <<t, r, p>> \in d.grants <=>
            \/ <<t, r, p>> \in f.db.grants
            \/ /\ t \in Active(d) /\ r \in Full /\ d.roles
               /\ \/ p = "user.delete" /\ Passed(h, f, 3)
                  \/ p = "audit.view" /\ Passed(h, f, 4)
    /\ \A r \in Roles, p \in Vocabulary :
         <<r, p>> \in d.roleGrants <=>
            \/ <<r, p>> \in f.db.roleGrants
            \/ r \in Full /\ d.roles /\ p = "audit.view" /\ Passed(h, f, 4)

\* From the sixth migration on.
MissingIn(d, t) == {g \in DefaultGrants : <<t, g[1], g[2]>> \notin d.grants}

HadIn(d, f, t) ==
    {g \in Grantable : \/ <<t, g[1], g[2]>> \in f.db.grants
                       \/ AheadIn(f, 6) /\ t = d.oldest /\ g \in f.db.roleGrants}

ComingIn(d, f, t) ==
    {p \in Vocabulary :
        \/ p = "user.delete" /\ AheadIn(f, 3) /\ d.origin[t] = "legacy"
        \/ p = "audit.view" /\ AheadIn(f, 4) /\ (d.origin[t] # "closed" \/ t = d.oldest)
        \/ p = "entity.view" /\ AheadIn(f, 6) /\ d.origin[t] # "closed" /\ p \notin f.db.perms
        \/ p \in {"tenant.view", "tenant.lifecycle"} /\ AheadIn(f, 6)}

Kept(d, f, t) == {g \in DefaultGrants : g \notin HadIn(d, f, t) /\ g[2] \notin ComingIn(d, f, t)}

GapIn(d, f, t) ==
    CASE d.origin[t] = "bootstrap" -> {}
      [] d.origin[t] = "created" -> {<<"super_admin", "audit.view">>}
      [] OTHER -> Kept(d, f, t)

Late(d, f) ==
    /\ Referring(d)
    /\ d.plans /\ d.isolated /\ d.settings = DOMAIN d.origin
    /\ f.db.marker => d.marker
    /\ IF d.marker
       THEN /\ \A t \in DOMAIN d.origin : MissingIn(d, t) = GapIn(d, f, t)
            /\ d.oldest \in d.members
            /\ d.primary = IF f.db.marker THEN f.db.primary ELSE d.oldest
       ELSE Blank(d)

\* What is known of the databases that the program may be started on.
Found(f) ==
    /\ f.db \in Databases /\ f.ledger \in Ledgers /\ DOMAIN f.ledger \subseteq Versions
    /\ IF f.db.marker THEN Installed(f.db, DOMAIN f.ledger)
                      ELSE Blank(f.db) /\ f.db.perms = {} /\ DOMAIN f.ledger = {}

LEMMA StartingFound ==
    ASSUME NEW f \in Starting
    PROVE  Found(f)
<1>1. CASE f \in Legacy
    <2>1. f.db \in Databases /\ f.ledger \in Ledgers /\ Installed(f.db, DOMAIN f.ledger)
        BY <1>1, StartingDatabases
    <2>2. f.db.marker
        BY <2>1 DEF Installed
    <2>3. DOMAIN f.ledger \subseteq Versions
        BY <2>1 DEF Ledgers
    <2> QED
        BY <2>1, <2>2, <2>3 DEF Found
<1>2. ASSUME NEW d \in Fresh, f = [db |-> d, ledger |-> <<>>] PROVE Found(f)
    <2>1. f.db = d /\ f.ledger = <<>> /\ DOMAIN f.ledger = {}
        BY <1>2
    <2>2. d \in Databases /\ Blank(d) /\ d.perms = {}
        BY StartingDatabases
    <2>3. f.ledger \in [{} -> Digest \cup {NoDigest}] /\ {} \in SUBSET Versions
        BY <2>1
    <2>4. f.ledger \in Ledgers
        BY <2>3 DEF Ledgers
    <2> QED
        BY <2>1, <2>2, <2>4 DEF Found, Blank
<1> QED
    BY <1>1, <1>2 DEF Starting

\* An installed database without the sixth migration has a company or tenants.
LEMMA EarlyInstalled ==
    ASSUME NEW d, NEW h, NEW f, Found(f), Early(d, h, f), AheadIn(f, 6), d.marker
    PROVE  /\ f.db.marker /\ d.roles /\ d.admin
           /\ IF DOMAIN d.origin = {}
              THEN d.company /\ d.oldest = NoTenant /\ d.primary = NoTenant
              ELSE /\ d.oldest \in DOMAIN d.origin
                   /\ \A t \in DOMAIN d.origin : d.origin[t] \in {"legacy", "closed"}
    BY DEF Found, Early, Installed, SameTenants

LEMMA EarlyBlank ==
    ASSUME NEW d, NEW h, NEW f, Found(f), Early(d, h, f), ~ d.marker
    PROVE  Blank(d)
<1>1. Blank(f.db) /\ SameTenants(d, f.db) /\ d.settings = f.db.settings /\ d \in Databases
    BY DEF Found, Early, SameTenants, Referring
<1>2. ~ d.roles /\ DOMAIN d.origin = {}
    BY <1>1 DEF Blank, SameTenants
<1>3. d.grants \subseteq Tenant \X Roles \X Vocabulary /\ d.roleGrants \subseteq Roles \X Vocabulary
    BY <1>1 DEF Databases, Grantable
<1>4. d.grants = {}
    BY <1>2, <1>3 DEF Early, Referring
<1>5. \A r \in Roles, p \in Vocabulary : <<r, p>> \notin d.roleGrants
    BY <1>1, <1>2 DEF Early, Blank
<1>6. d.roleGrants = {}
    BY <1>3, <1>5
<1> QED
    BY <1>1, <1>4, <1>6 DEF Blank, SameTenants

\* The third and the fourth migration, and those that touch no rows.
LEMMA ThirdStep ==
    ASSUME NEW d, NEW h, NEW g, NEW f, Early(d, h, f), Passed(g, f, 3),
           Passed(g, f, 4) <=> Passed(h, f, 4)
    PROVE  Early(UserLifecycle(d), g, f)
<1> DEFINE e == Grant(d, Active(d), Full, "user.delete")
<1>1. GrantedTo(e, d, Active(d), Full, "user.delete")
    <2>1. /\ Referring(d) /\ Full \subseteq Roles /\ "user.delete" \in Vocabulary
          /\ Active(d) \subseteq DOMAIN d.origin
        BY DEF Early, Roles, Vocabulary, Active
    <2> QED
        BY <2>1, GrantEffect
<1>2. UserLifecycle(d) = e
    BY DEF UserLifecycle
<1> HIDE DEF e
<1>3. /\ Referring(e) /\ SameTenants(e, d) /\ e.perms = d.perms \cup {"user.delete"}
      /\ e.roleGrants = d.roleGrants /\ e.settings = d.settings
      /\ Active(e) = Active(d) /\ e.roles = d.roles
    BY <1>1 DEF GrantedTo, SameTenants, Active
<1>4. \A t \in Tenant, r \in Roles, p \in Vocabulary :
         <<t, r, p>> \in e.grants <=>
            <<t, r, p>> \in d.grants \/ (t \in Active(d) /\ r \in Full /\ d.roles /\ p = "user.delete")
    BY <1>1 DEF GrantedTo, Given, RoleRows
<1>5. \A t \in Tenant, r \in Roles, p \in Vocabulary :
         <<t, r, p>> \in e.grants <=>
            \/ <<t, r, p>> \in f.db.grants
            \/ /\ t \in Active(e) /\ r \in Full /\ e.roles
               /\ \/ p = "user.delete" /\ Passed(g, f, 3)
                  \/ p = "audit.view" /\ Passed(g, f, 4)
    BY <1>3, <1>4 DEF Early
<1>6. SameTenants(e, f.db)
    BY <1>3 DEF Early, SameTenants
<1>7. \A r \in Roles, p \in Vocabulary :
         <<r, p>> \in e.roleGrants <=>
            \/ <<r, p>> \in f.db.roleGrants
            \/ r \in Full /\ e.roles /\ p = "audit.view" /\ Passed(g, f, 4)
    BY <1>3 DEF Early
<1>8. ("entity.view" \in e.perms <=> "entity.view" \in f.db.perms) /\ "tenant.view" \notin e.perms
    BY <1>3 DEF Early
<1> QED
    BY <1>2, <1>3, <1>5, <1>6, <1>7, <1>8 DEF Early

LEMMA FourthStep ==
    ASSUME NEW d, NEW h, NEW g, NEW f, Early(d, h, f), Passed(g, f, 4),
           Passed(g, f, 3) <=> Passed(h, f, 3)
    PROVE  Early(AuditEvents(d), g, f)
<1> DEFINE c == Grant(d, Active(d), Full, "audit.view")
           e == GrantRoles(c, Full, "audit.view")
<1>1. GrantedTo(c, d, Active(d), Full, "audit.view")
    <2>1. /\ Referring(d) /\ Full \subseteq Roles /\ "audit.view" \in Vocabulary
          /\ Active(d) \subseteq DOMAIN d.origin
        BY DEF Early, Roles, Vocabulary, Active
    <2> QED
        BY <2>1, GrantEffect
<1> HIDE DEF c
<1>2. GrantedToRoles(e, c, Full, "audit.view")
    <2>1. Full \subseteq Roles /\ "audit.view" \in Vocabulary
        BY DEF Full, Roles, Vocabulary
    <2> QED
        BY <1>1, <2>1, GrantRolesEffect DEF GrantedTo
<1>3. AuditEvents(d) = e
    BY DEF AuditEvents, c
<1> HIDE DEF e
<1>4. /\ Referring(e) /\ SameTenants(e, d) /\ e.perms = d.perms \cup {"audit.view"}
      /\ e.settings = d.settings /\ Active(e) = Active(d) /\ e.roles = d.roles
    BY <1>1, <1>2 DEF GrantedTo, GrantedToRoles, SameTenants, Active
<1>5. \A t \in Tenant, r \in Roles, p \in Vocabulary :
         <<t, r, p>> \in e.grants <=>
            <<t, r, p>> \in d.grants \/ (t \in Active(d) /\ r \in Full /\ d.roles /\ p = "audit.view")
    BY <1>1, <1>2 DEF GrantedTo, GrantedToRoles, Given, RoleRows
<1>6. \A r \in Roles, p \in Vocabulary :
         <<r, p>> \in e.roleGrants <=>
            <<r, p>> \in d.roleGrants \/ (r \in Full /\ d.roles /\ p = "audit.view")
    BY <1>1, <1>2 DEF GrantedTo, GrantedToRoles, RolesGiven, RoleRows, SameTenants
<1>7. \A t \in Tenant, r \in Roles, p \in Vocabulary :
         <<t, r, p>> \in e.grants <=>
            \/ <<t, r, p>> \in f.db.grants
            \/ /\ t \in Active(e) /\ r \in Full /\ e.roles
               /\ \/ p = "user.delete" /\ Passed(g, f, 3)
                  \/ p = "audit.view" /\ Passed(g, f, 4)
    BY <1>4, <1>5 DEF Early
<1>8. \A r \in Roles, p \in Vocabulary :
         <<r, p>> \in e.roleGrants <=>
            \/ <<r, p>> \in f.db.roleGrants
            \/ r \in Full /\ e.roles /\ p = "audit.view" /\ Passed(g, f, 4)
    BY <1>4, <1>6 DEF Early
<1>9. SameTenants(e, f.db)
    BY <1>4 DEF Early, SameTenants
<1>10. ("entity.view" \in e.perms <=> "entity.view" \in f.db.perms) /\ "tenant.view" \notin e.perms
    BY <1>4 DEF Early
<1> QED
    BY <1>3, <1>4, <1>7, <1>8, <1>9, <1>10 DEF Early

LEMMA SameStep ==
    ASSUME NEW d, NEW h, NEW g, NEW f, Early(d, h, f),
           \A v \in {3, 4} : Passed(g, f, v) <=> Passed(h, f, v)
    PROVE  Early(d, g, f)
    BY DEF Early

LEMMA DynamicEffect ==
    ASSUME NEW d, Referring(d)
    PROVE  LET e == DynamicModelPermissions(d) IN
           IF "entity.view" \in d.perms THEN e = d ELSE GrantedTo(e, d, Active(d), Roles, "entity.view")
<1>1. Active(d) \subseteq DOMAIN d.origin /\ Roles \subseteq Roles /\ "entity.view" \in Vocabulary
    BY DEF Active, Vocabulary
<1>2. GrantedTo(Grant(d, Active(d), Roles, "entity.view"), d, Active(d), Roles, "entity.view")
    BY <1>1, GrantEffect
<1> QED
    BY <1>2 DEF DynamicModelPermissions

\* The last part of the sixth migration.
Settled(e, d) ==
    /\ Referring(e) /\ SameTenants(e, d)
    /\ e.grants = d.grants \cup Given(DOMAIN d.origin, Full \cap RoleRows(d), "tenant.view")
                           \cup Given(DOMAIN d.origin, {"super_admin"} \cap RoleRows(d), "tenant.lifecycle")
    /\ e.roleGrants = d.roleGrants \cup RolesGiven(Full \cap RoleRows(d), "tenant.view")
                                   \cup RolesGiven({"super_admin"} \cap RoleRows(d), "tenant.lifecycle")
    /\ e.settings = DOMAIN d.origin /\ e.plans = d.plans /\ e.isolated

LEMMA SettingsEffect ==
    ASSUME NEW d, Referring(d)
    PROVE  Settled(TenantSettingsAndRLS(d), d)
<1> DEFINE T == DOMAIN d.origin
           super == {"super_admin"}
           a == Grant(d, T, Full, "tenant.view")
           viewed == GrantRoles(a, Full, "tenant.view")
           b == Grant(viewed, T, super, "tenant.lifecycle")
           all == GrantRoles(b, super, "tenant.lifecycle")
           e == [all EXCEPT !.settings = @ \cup T, !.isolated = TRUE]
<1>1. /\ Full \subseteq Roles /\ super \subseteq Roles
      /\ "tenant.view" \in Vocabulary /\ "tenant.lifecycle" \in Vocabulary
    BY DEF Full, Roles, Vocabulary
<1>2. TenantSettingsAndRLS(d) = e
    BY DEF TenantSettingsAndRLS
<1> HIDE DEF super, T
<1>3. T \subseteq DOMAIN d.origin /\ T \subseteq Tenant /\ d.settings \subseteq T
    BY OriginTyped DEF T, Referring
<1>4. GrantedTo(a, d, T, Full, "tenant.view")
    BY <1>1, <1>3, GrantEffect
<1>5. Referring(a) /\ SameTenants(a, d) /\ RoleRows(a) = RoleRows(d)
    BY <1>4 DEF GrantedTo, SameTenants, RoleRows
<1> HIDE DEF a
<1>6. GrantedToRoles(viewed, a, Full, "tenant.view")
    BY <1>1, <1>5, GrantRolesEffect
<1>7. Referring(viewed) /\ SameTenants(viewed, d) /\ RoleRows(viewed) = RoleRows(d)
    BY <1>5, <1>6 DEF GrantedToRoles, SameTenants, RoleRows
<1> HIDE DEF viewed
<1>8. T \subseteq DOMAIN viewed.origin
    BY <1>3, <1>7 DEF SameTenants
<1>9. GrantedTo(b, viewed, T, super, "tenant.lifecycle")
    BY <1>1, <1>7, <1>8, GrantEffect
<1>10. Referring(b) /\ SameTenants(b, d) /\ RoleRows(b) = RoleRows(d)
    BY <1>7, <1>9 DEF GrantedTo, SameTenants, RoleRows
<1> HIDE DEF b
<1>11. GrantedToRoles(all, b, super, "tenant.lifecycle")
    BY <1>1, <1>10, GrantRolesEffect
<1>12. Referring(all) /\ SameTenants(all, d)
    BY <1>10, <1>11 DEF GrantedToRoles, SameTenants
<1>13. /\ all.grants = d.grants \cup Given(T, Full \cap RoleRows(d), "tenant.view")
                                \cup Given(T, super \cap RoleRows(d), "tenant.lifecycle")
       /\ all.roleGrants = d.roleGrants \cup RolesGiven(Full \cap RoleRows(d), "tenant.view")
                                        \cup RolesGiven(super \cap RoleRows(d), "tenant.lifecycle")
       /\ all.settings = d.settings /\ all.plans = d.plans
    BY <1>4, <1>5, <1>6, <1>7, <1>9, <1>10, <1>11 DEF GrantedTo, GrantedToRoles
<1> HIDE DEF all
<1>14. /\ e \in Databases /\ SameTenants(e, all) /\ e.grants = all.grants /\ e.roleGrants = all.roleGrants
       /\ e.settings = all.settings \cup T /\ e.plans = all.plans /\ e.isolated
    BY <1>3, <1>12 DEF Referring, Databases, SameTenants
<1> HIDE DEF e
<1>15. e.settings = T /\ SameTenants(e, d)
    BY <1>3, <1>12, <1>13, <1>14 DEF SameTenants
<1>16. Referring(e)
    BY <1>12, <1>14, <1>15 DEF Referring, SameTenants, T
<1> QED
    BY <1>2, <1>13, <1>14, <1>15, <1>16 DEF Settled, T, super

\* The oldest tenant, made if there is none, takes over what there was before tenants.
TakenOver(b, d, t) ==
    /\ Referring(b) /\ b.marker = d.marker /\ b.roles = d.roles /\ b.primary = d.primary
    /\ b.perms = d.perms /\ b.plans = d.plans /\ b.oldest \in b.members
    /\ IF DOMAIN d.origin = {}
       THEN DOMAIN b.origin = {t} /\ b.origin[t] = "backfilled" /\ b.oldest = t
       ELSE b.origin = d.origin /\ b.oldest = d.oldest
    /\ \A u \in Tenant, r \in Roles, p \in Vocabulary :
         <<u, r, p>> \in b.grants <=>
            <<u, r, p>> \in d.grants \/ (u = b.oldest /\ <<r, p>> \in d.roleGrants)

LEMMA BackfillEffect ==
    ASSUME NEW d, Referring(d), d.admin, NEW t,
           IF DOMAIN d.origin = {} THEN t \in Tenant /\ d.company ELSE d.oldest \in DOMAIN d.origin
    PROVE  TakenOver(BackfillPrimary(d, t), d, t)
<1> DEFINE made == DOMAIN d.origin = {}
           o == IF made THEN t ELSE d.oldest
           orig == IF made THEN With(d.origin, o, "backfilled") ELSE d.origin
           given == {<<o, g[1], g[2]>> : g \in d.roleGrants}
           b == [d EXCEPT !.origin = orig, !.oldest = o, !.members = @ \cup {o}, !.grants = @ \cup given]
<1>1. d \in Databases /\ o \in Tenant /\ DOMAIN d.origin \subseteq Tenant /\ d.origin \in [DOMAIN d.origin -> Origins]
    BY OriginTyped DEF Referring
<1>2. BackfillPrimary(d, t) = b
    BY <1>1 DEF BackfillPrimary, Databases
<1>3. \A g \in d.roleGrants : g = <<g[1], g[2]>> /\ g[1] \in Roles /\ g[2] \in Vocabulary
    BY <1>1 DEF Databases, Grantable
<1>4. given \subseteq Tenant \X Roles \X Vocabulary /\ \A g \in given : g[1] = o
    BY <1>1, <1>3
<1>5. \A u, r, p : <<u, r, p>> \in given <=> u = o /\ <<r, p>> \in d.roleGrants
    BY <1>3
<1>6. CASE made
    <2>1. orig \in [{t} -> Origins] /\ orig[t] = "backfilled" /\ DOMAIN orig = {t} /\ o = t
        BY <1>6 DEF With, Origins
    <2>2. orig \in UNION {[s -> Origins] : s \in SUBSET Tenant}
        BY <1>1, <2>1
    <2>3. d.grants = {} /\ d.members = {} /\ d.settings = {}
        BY <1>6 DEF Referring
    <2> HIDE DEF given, orig, o, made
    <2>4. /\ b \in Databases /\ b.marker = d.marker /\ b.roles = d.roles
          /\ b.origin = orig /\ b.oldest = o /\ b.primary = d.primary /\ b.settings = d.settings
          /\ b.members = d.members \cup {o} /\ b.perms = d.perms /\ b.plans = d.plans
          /\ b.grants = d.grants \cup given
        BY <1>1, <1>4, <2>2 DEF Databases
    <2> HIDE DEF b
    <2>5. Referring(b)
        BY <1>4, <2>1, <2>3, <2>4 DEF Referring
    <2>6. \A u \in Tenant, r \in Roles, p \in Vocabulary :
             <<u, r, p>> \in b.grants <=>
                <<u, r, p>> \in d.grants \/ (u = b.oldest /\ <<r, p>> \in d.roleGrants)
        BY <1>5, <2>4
    <2> QED
        BY <1>2, <1>6, <2>1, <2>4, <2>5, <2>6 DEF TakenOver, made
<1>7. CASE ~ made
    <2>1. orig = d.origin /\ o = d.oldest /\ o \in DOMAIN d.origin
        BY <1>7
    <2> HIDE DEF given, orig, o, made
    <2>2. /\ b \in Databases /\ b.marker = d.marker /\ b.roles = d.roles
          /\ b.origin = orig /\ b.oldest = o /\ b.primary = d.primary /\ b.settings = d.settings
          /\ b.members = d.members \cup {o} /\ b.perms = d.perms /\ b.plans = d.plans
          /\ b.grants = d.grants \cup given
        BY <1>1, <1>4, <2>1 DEF Databases
    <2> HIDE DEF b
    <2>3. Referring(b)
        BY <1>4, <2>1, <2>2 DEF Referring
    <2>4. \A u \in Tenant, r \in Roles, p \in Vocabulary :
             <<u, r, p>> \in b.grants <=>
                <<u, r, p>> \in d.grants \/ (u = b.oldest /\ <<r, p>> \in d.roleGrants)
        BY <1>5, <2>2
    <2> QED
        BY <1>2, <1>7, <2>1, <2>2, <2>3, <2>4 DEF TakenOver, made
<1> QED
    BY <1>6, <1>7

\* Who is granted what by default: everything to the super admin, everything but the
\* lifecycle of tenants to the admin, and the reading of entities to the employee.
LEMMA DefaultIs ==
    /\ DefaultGrants \subseteq Grantable
    /\ \A r \in Roles, p \in Vocabulary :
         <<r, p>> \in DefaultGrants <=>
            \/ r = "super_admin"
            \/ r = "admin" /\ p # "tenant.lifecycle"
            \/ r = "employee" /\ p = "entity.view"
    BY DEF DefaultGrants, Grantable, Roles, Full, Vocabulary

\* What follows the backfill, row by row.
Rested(e, b) ==
    /\ Referring(e) /\ SameTenants(e, b) /\ e.plans = b.plans /\ e.isolated /\ e.settings = DOMAIN b.origin
    /\ ~ b.roles => e.roleGrants = b.roleGrants
    /\ \A t \in Tenant, r \in Roles, p \in Vocabulary :
         <<t, r, p>> \in e.grants <=>
            \/ <<t, r, p>> \in b.grants
            \/ /\ b.roles
               /\ \/ p = "entity.view" /\ t \in Active(b) /\ p \notin b.perms
                  \/ p = "tenant.view" /\ t \in DOMAIN b.origin /\ r \in Full
                  \/ p = "tenant.lifecycle" /\ t \in DOMAIN b.origin /\ r = "super_admin"

LEMMA RestEffect ==
    ASSUME NEW b, Referring(b)
    PROVE  Rested(TenantSettingsAndRLS(DynamicModelPermissions(b)), b)
<1> DEFINE c == DynamicModelPermissions(b)
           e == TenantSettingsAndRLS(c)
<1>1. IF "entity.view" \in b.perms THEN c = b ELSE GrantedTo(c, b, Active(b), Roles, "entity.view")
    BY DynamicEffect
<1> HIDE DEF c
<1>2. /\ Referring(c) /\ SameTenants(c, b) /\ c.plans = b.plans /\ c.roleGrants = b.roleGrants
      /\ \A t \in Tenant, r \in Roles, p \in Vocabulary :
           <<t, r, p>> \in c.grants <=>
              \/ <<t, r, p>> \in b.grants
              \/ b.roles /\ p = "entity.view" /\ t \in Active(b) /\ p \notin b.perms
    <2>1. CASE "entity.view" \in b.perms
        BY <1>1, <2>1 DEF SameTenants
    <2>2. CASE "entity.view" \notin b.perms
        BY <1>1, <2>2 DEF GrantedTo, Given, RoleRows
    <2> QED
        BY <2>1, <2>2
<1>3. Settled(e, c)
    BY <1>2, SettingsEffect
<1> HIDE DEF e
<1>4. c.roles = b.roles /\ DOMAIN c.origin = DOMAIN b.origin
    BY <1>2 DEF SameTenants
<1>5. /\ Referring(e) /\ SameTenants(e, b) /\ e.plans = b.plans /\ e.isolated /\ e.settings = DOMAIN b.origin
    BY <1>2, <1>3, <1>4 DEF Settled, SameTenants
<1>6. \A t \in Tenant, r \in Roles, p \in Vocabulary :
         <<t, r, p>> \in e.grants <=>
            \/ <<t, r, p>> \in c.grants
            \/ b.roles /\ p = "tenant.view" /\ t \in DOMAIN b.origin /\ r \in Full
            \/ b.roles /\ p = "tenant.lifecycle" /\ t \in DOMAIN b.origin /\ r = "super_admin"
    BY <1>3, <1>4 DEF Settled, Given, RoleRows, Full, Roles
<1>7. ~ b.roles => e.roleGrants = b.roleGrants
    BY <1>2, <1>3, <1>4 DEF Settled, RolesGiven, RoleRows
<1>8. \A t \in Tenant, r \in Roles, p \in Vocabulary :
         <<t, r, p>> \in e.grants <=>
            \/ <<t, r, p>> \in b.grants
            \/ /\ b.roles
               /\ \/ p = "entity.view" /\ t \in Active(b) /\ p \notin b.perms
                  \/ p = "tenant.view" /\ t \in DOMAIN b.origin /\ r \in Full
                  \/ p = "tenant.lifecycle" /\ t \in DOMAIN b.origin /\ r = "super_admin"
    BY <1>2, <1>6
<1> QED
    BY <1>5, <1>7, <1>8 DEF Rested, e, c

\* The sixth migration, after the others.
LEMMA SixthStep ==
    ASSUME NEW d, NEW h, NEW f, Found(f), Early(d, h, f), AheadIn(f, 6),
           \A v \in {3, 4} : Passed(h, f, v) <=> AheadIn(f, v),
           NEW t, DOMAIN d.origin = {} => t \in Tenant
    PROVE  LET e == EnterpriseFoundation(d, t) IN
           /\ Late(e, f) /\ e.marker = d.marker
           /\ \A u \in DOMAIN e.origin : e.origin[u] # "bootstrap"
<1> DEFINE p == [d EXCEPT !.plans = TRUE]
           b == BackfillPrimary(p, t)
           e == TenantSettingsAndRLS(DynamicModelPermissions(b))
<1>1. EnterpriseFoundation(d, t) = e
    BY DEF EnterpriseFoundation
<1>2. /\ Referring(p) /\ SameTenants(p, d) /\ p.perms = d.perms /\ p.grants = d.grants
      /\ p.roleGrants = d.roleGrants /\ p.settings = d.settings /\ p.plans
    BY DEF Early, Referring, Databases, SameTenants
<1> HIDE DEF p
<1>3. CASE ~ d.marker
    <2>1. Blank(p)
        BY <1>2, <1>3, EarlyBlank DEF Blank, SameTenants
    <2>2. b = p
        BY <2>1 DEF BackfillPrimary, Blank
    <2> HIDE DEF b
    <2>3. Rested(e, b)
        BY <1>2, <2>2, RestEffect
    <2> HIDE DEF e
    <2>4. ~ b.roles /\ b.grants = {} /\ DOMAIN b.origin = {} /\ b.plans /\ Blank(b)
        BY <1>2, <2>1, <2>2 DEF Blank
    <2>5. Referring(e) /\ SameTenants(e, b) /\ e.plans /\ e.isolated /\ e.settings = {} /\ DOMAIN e.origin = {}
        BY <2>3, <2>4 DEF Rested, SameTenants
    <2>6. e.grants = {}
        BY <2>5 DEF Referring
    <2>7. e.roleGrants = {}
        BY <2>3, <2>4 DEF Rested, Blank
    <2>8. Blank(e)
        BY <2>4, <2>5, <2>6, <2>7 DEF Blank, SameTenants
    <2>9. e.marker = d.marker /\ ~ e.marker /\ ~ f.db.marker
        BY <1>2, <1>3, <2>2, <2>5 DEF SameTenants, Early
    <2>10. Late(e, f)
        BY <2>5, <2>8, <2>9 DEF Late
    <2> QED
        BY <1>1, <2>5, <2>9, <2>10
<1>4. CASE d.marker
    <2>1. /\ f.db.marker /\ d.roles /\ d.admin
          /\ IF DOMAIN d.origin = {}
             THEN d.company /\ d.oldest = NoTenant /\ d.primary = NoTenant
             ELSE /\ d.oldest \in DOMAIN d.origin
                  /\ \A u \in DOMAIN d.origin : d.origin[u] \in {"legacy", "closed"}
        BY <1>4, EarlyInstalled
    <2>2. TakenOver(b, p, t)
        <3>1. p.admin /\ IF DOMAIN p.origin = {} THEN t \in Tenant /\ p.company ELSE p.oldest \in DOMAIN p.origin
            BY <1>2, <2>1 DEF SameTenants
        <3> QED
            BY <1>2, <3>1, BackfillEffect
    <2> HIDE DEF b
    <2>3. Rested(e, b)
        BY <2>2, RestEffect DEF TakenOver
    <2> HIDE DEF e
    <2>4. /\ b.marker /\ b.roles /\ b.plans /\ b.oldest \in b.members /\ b.primary = f.db.primary
          /\ b.perms = d.perms /\ DOMAIN b.origin \subseteq Tenant /\ b.oldest \in DOMAIN b.origin
          /\ IF DOMAIN d.origin = {}
             THEN DOMAIN b.origin = {t} /\ b.origin[t] = "backfilled" /\ b.oldest = t
             ELSE b.origin = d.origin /\ b.oldest = d.oldest
        <3>1. DOMAIN b.origin \subseteq Tenant /\ b.members \subseteq DOMAIN b.origin
            BY <2>2, OriginTyped DEF TakenOver, Referring
        <3> QED
            BY <1>2, <1>4, <2>1, <2>2, <3>1 DEF TakenOver, SameTenants, Early
    <2>5. /\ Referring(e) /\ SameTenants(e, b) /\ e.plans /\ e.isolated /\ e.settings = DOMAIN e.origin
          /\ e.marker /\ e.origin = b.origin /\ e.oldest = b.oldest /\ e.oldest \in e.members
          /\ e.primary = f.db.primary
        BY <2>3, <2>4 DEF Rested, SameTenants
    <2>6. ASSUME NEW u \in DOMAIN e.origin
          PROVE  e.origin[u] \in {"legacy", "closed", "backfilled"}
        BY <2>1, <2>4, <2>5
    <2>7. ASSUME NEW u \in DOMAIN e.origin, NEW r \in Roles, NEW x \in Vocabulary, <<r, x>> \in DefaultGrants
          PROVE  <<u, r, x>> \in e.grants <=> <<r, x>> \in HadIn(e, f, u) \/ x \in ComingIn(e, f, u)
        <3>1. u \in Tenant /\ u \in DOMAIN b.origin
            BY <2>4, <2>5
        <3>2. <<u, r, x>> \in e.grants <=>
                \/ <<u, r, x>> \in d.grants
                \/ u = b.oldest /\ <<r, x>> \in d.roleGrants
                \/ x = "entity.view" /\ u \in Active(b) /\ x \notin d.perms
                \/ x = "tenant.view" /\ r \in Full
                \/ x = "tenant.lifecycle" /\ r = "super_admin"
            BY <1>2, <2>2, <2>3, <2>4, <3>1 DEF Rested, TakenOver
        <3>3. /\ r \in Full \/ (r = "employee" /\ x = "entity.view")
              /\ x = "tenant.lifecycle" => r = "super_admin"
            BY <2>7, DefaultIs DEF Roles, Full, Vocabulary
        <3>4. <<u, r, x>> \in d.grants <=>
                \/ <<u, r, x>> \in f.db.grants
                \/ /\ u \in Active(d) /\ r \in Full
                   /\ \/ x = "user.delete" /\ AheadIn(f, 3)
                      \/ x = "audit.view" /\ AheadIn(f, 4)
            BY <2>1, <3>1 DEF Early
        <3>5. <<r, x>> \in d.roleGrants <=>
                \/ <<r, x>> \in f.db.roleGrants
                \/ r \in Full /\ x = "audit.view" /\ AheadIn(f, 4)
            BY <2>1 DEF Early
        <3>6. <<r, x>> \in HadIn(e, f, u) <=>
                <<u, r, x>> \in f.db.grants \/ (u = b.oldest /\ <<r, x>> \in f.db.roleGrants)
            BY <2>5 DEF HadIn, Grantable
        <3>7. /\ u \in Active(b) <=> e.origin[u] # "closed"
              /\ u \in Active(d) <=> e.origin[u] = "legacy"
              /\ e.origin[u] = "backfilled" => u = b.oldest
              /\ x = "entity.view" => (x \in d.perms <=> x \in f.db.perms)
            BY <2>1, <2>4, <2>5, <3>1 DEF Active, Early
        <3>8. x \in ComingIn(e, f, u) <=>
                \/ x = "user.delete" /\ AheadIn(f, 3) /\ e.origin[u] = "legacy"
                \/ x = "audit.view" /\ AheadIn(f, 4) /\ (e.origin[u] # "closed" \/ u = b.oldest)
                \/ x = "entity.view" /\ e.origin[u] # "closed" /\ x \notin f.db.perms
                \/ x \in {"tenant.view", "tenant.lifecycle"}
            BY <2>5 DEF ComingIn
        <3> QED
            BY <2>6, <3>2, <3>3, <3>4, <3>5, <3>6, <3>7, <3>8
    <2>8. ASSUME NEW u \in DOMAIN e.origin PROVE MissingIn(e, u) = GapIn(e, f, u)
        <3>1. \A g \in DefaultGrants : g = <<g[1], g[2]>> /\ g[1] \in Roles /\ g[2] \in Vocabulary
            BY DefaultIs DEF Grantable
        <3>2. \A g \in DefaultGrants :
                <<u, g[1], g[2]>> \in e.grants <=> g \in HadIn(e, f, u) \/ g[2] \in ComingIn(e, f, u)
            BY <2>7, <3>1
        <3>3. MissingIn(e, u) = Kept(e, f, u)
            BY <3>2 DEF MissingIn, Kept
        <3> QED
            BY <2>6, <3>3 DEF GapIn
    <2>9. Late(e, f)
        BY <2>1, <2>5, <2>8 DEF Late
    <2>10. \A u \in DOMAIN e.origin : e.origin[u] # "bootstrap"
        BY <2>6
    <2> QED
        BY <1>1, <1>4, <2>5, <2>9, <2>10
<1> QED
    BY <1>3, <1>4

\* A tenant made by a user, or with the installation: it has the grants it is given.
Added(e, d, t, o, G) ==
    /\ Referring(e)
    /\ DOMAIN e.origin = DOMAIN d.origin \cup {t} /\ e.origin[t] = o
    /\ \A u \in DOMAIN d.origin : e.origin[u] = d.origin[u]
    /\ e.oldest = (IF d.oldest = NoTenant THEN t ELSE d.oldest)
    /\ e.members = d.members \cup {t} /\ e.settings = d.settings \cup {t}
    /\ \A u, r, p : <<u, r, p>> \in e.grants <=> <<u, r, p>> \in d.grants \/ (u = t /\ <<r, p>> \in G)
    /\ e.plans = d.plans /\ e.isolated = d.isolated /\ e.marker = d.marker
    /\ e.primary = d.primary /\ e.perms = d.perms

LEMMA NewTenantEffect ==
    ASSUME NEW d, Referring(d), NEW t \in Tenant \ DOMAIN d.origin, NEW o \in Origins, NEW G \in SUBSET Grantable
    PROVE  Added(NewTenant(d, t, o, G), d, t, o, G)
<1> DEFINE given == {<<t, g[1], g[2]>> : g \in G}
           old == IF d.oldest = NoTenant THEN t ELSE d.oldest
           orig == With(d.origin, t, o)
           e == [d EXCEPT !.origin = orig, !.oldest = old, !.members = @ \cup {t},
                          !.settings = @ \cup {t}, !.grants = @ \cup given]
<1>1. d \in Databases /\ DOMAIN d.origin \subseteq Tenant /\ d.origin \in [DOMAIN d.origin -> Origins]
    BY OriginTyped DEF Referring
<1>2. NewTenant(d, t, o, G) = e
    BY <1>1 DEF NewTenant, Databases
<1>3. \A g \in G : g = <<g[1], g[2]>> /\ g[1] \in Roles /\ g[2] \in Vocabulary
    BY DEF Grantable
<1>4. given \subseteq Tenant \X Roles \X Vocabulary /\ \A g \in given : g[1] = t
    BY <1>3
<1>5. \A u, r, p : <<u, r, p>> \in given <=> u = t /\ <<r, p>> \in G
    BY <1>3
<1>6. /\ orig \in [DOMAIN d.origin \cup {t} -> Origins] /\ orig[t] = o
      /\ \A u \in DOMAIN d.origin : orig[u] = d.origin[u]
    BY <1>1 DEF With
<1>7. orig \in UNION {[s -> Origins] : s \in SUBSET Tenant} /\ DOMAIN orig = DOMAIN d.origin \cup {t}
    BY <1>1, <1>6
<1>8. old \in Tenant \cup {NoTenant}
    BY <1>1 DEF Databases
<1> HIDE DEF given, orig, old
<1>9. /\ e \in Databases /\ e.origin = orig /\ e.oldest = old /\ e.members = d.members \cup {t}
      /\ e.settings = d.settings \cup {t} /\ e.grants = d.grants \cup given
      /\ e.plans = d.plans /\ e.isolated = d.isolated /\ e.marker = d.marker /\ e.roleGrants = d.roleGrants
      /\ e.primary = d.primary /\ e.perms = d.perms
    BY <1>1, <1>4, <1>7, <1>8 DEF Databases
<1> HIDE DEF e
<1>10. Referring(e)
    BY <1>4, <1>7, <1>9 DEF Referring
<1>11. e.oldest = (IF d.oldest = NoTenant THEN t ELSE d.oldest)
    BY <1>9 DEF old
<1> QED
    BY <1>2, <1>5, <1>6, <1>7, <1>9, <1>10, <1>11 DEF Added

\* e is d with a tenant t that a user made.
TenantMade(e, d, f, t) ==
    /\ Late(e, f) /\ e.marker /\ e.origin[t] = "created"
    /\ DOMAIN e.origin = DOMAIN d.origin \cup {t}
    /\ \A u \in DOMAIN d.origin : e.origin[u] = d.origin[u]

LEMMA CreateTenantLate ==
    ASSUME NEW d, NEW f, Late(d, f), d.marker, NEW t \in Tenant \ DOMAIN d.origin, NoTenant \notin Tenant
    PROVE  TenantMade(NewTenant(d, t, "created", DefaultGrants \ {<<"super_admin", "audit.view">>}), d, f, t)
<1> DEFINE G == DefaultGrants \ {<<"super_admin", "audit.view">>}
           e == NewTenant(d, t, "created", G)
<1>1. Referring(d) /\ G \in SUBSET Grantable /\ "created" \in Origins
    BY DefaultIs DEF Late, Origins
<1>2. \A r, p : <<r, p>> \in G <=> <<r, p>> \in DefaultGrants /\ <<r, p>> # <<"super_admin", "audit.view">>
    OBVIOUS
<1> HIDE DEF G
<1>3. /\ Referring(e)
      /\ DOMAIN e.origin = DOMAIN d.origin \cup {t} /\ e.origin[t] = "created"
      /\ \A u \in DOMAIN d.origin : e.origin[u] = d.origin[u]
      /\ e.oldest = (IF d.oldest = NoTenant THEN t ELSE d.oldest)
      /\ e.members = d.members \cup {t} /\ e.settings = d.settings \cup {t}
      /\ \A u, r, p : <<u, r, p>> \in e.grants <=> <<u, r, p>> \in d.grants \/ (u = t /\ <<r, p>> \in G)
      /\ e.plans = d.plans /\ e.isolated = d.isolated /\ e.marker = d.marker
      /\ e.primary = d.primary /\ e.perms = d.perms
    <2>1. Added(e, d, t, "created", G)
        BY <1>1, NewTenantEffect
    <2> QED
        BY <2>1 DEF Added
<1> HIDE DEF e
<1>4. d.oldest \in d.members /\ d.members \subseteq DOMAIN d.origin /\ d.oldest \in DOMAIN d.origin
      /\ DOMAIN d.origin \subseteq Tenant
    BY <1>1, OriginTyped DEF Late, Referring
<1>5. e.oldest = d.oldest
    BY <1>3, <1>4
<1>6. ASSUME NEW u \in DOMAIN d.origin PROVE MissingIn(e, u) = MissingIn(d, u) /\ GapIn(e, f, u) = GapIn(d, f, u)
    <2>1. u # t
        OBVIOUS
    <2>2. \A g \in DefaultGrants : <<u, g[1], g[2]>> \in e.grants <=> <<u, g[1], g[2]>> \in d.grants
        BY <1>3, <2>1
    <2> QED
        BY <1>3, <1>5, <2>2 DEF MissingIn, GapIn, Kept, HadIn, ComingIn
<1>7. MissingIn(e, t) = {<<"super_admin", "audit.view">>}
    <2>1. \A g \in DefaultGrants : g = <<g[1], g[2]>>
        BY DefaultIs DEF Grantable
    <2>2. \A r, p : <<t, r, p>> \notin d.grants
        BY <1>1 DEF Referring
    <2>3. \A g \in DefaultGrants : <<t, g[1], g[2]>> \in e.grants <=> g # <<"super_admin", "audit.view">>
        BY <1>2, <1>3, <2>1, <2>2
    <2>4. <<"super_admin", "audit.view">> \in DefaultGrants
        BY DefaultIs DEF Roles, Full, Vocabulary
    <2> QED
        BY <2>3, <2>4 DEF MissingIn
<1>8. GapIn(e, f, t) = {<<"super_admin", "audit.view">>}
    BY <1>3 DEF GapIn
<1>9. ASSUME NEW u \in DOMAIN e.origin
      PROVE  MissingIn(e, u) = GapIn(e, f, u)
    <2>1. CASE u = t
        BY <1>3, <1>7, <1>8, <2>1
    <2>2. CASE u # t
        BY <1>3, <1>6, <2>2 DEF Late
    <2> QED
        BY <2>1, <2>2
<1>10. e.primary = IF f.db.marker THEN f.db.primary ELSE e.oldest
    BY <1>3, <1>5 DEF Late
<1>11. Late(e, f)
    BY <1>3, <1>4, <1>5, <1>9, <1>10 DEF Late
<1> QED
    BY <1>3, <1>11 DEF TenantMade, e, G

LEMMA BootstrapLate ==
    ASSUME NEW d, NEW f, Late(d, f), ~ d.marker, NEW t \in Tenant \ DOMAIN d.origin, NoTenant \notin Tenant
    PROVE  LET e == Bootstrapped(d, t)
           IN  Late(e, f) /\ e.marker /\ DOMAIN e.origin = {t} /\ e.origin[t] = "bootstrap"
<1> DEFINE n == NewTenant(d, t, "bootstrap", DefaultGrants)
           e == [n EXCEPT !.roles = TRUE, !.company = TRUE, !.admin = TRUE, !.perms = @ \cup Vocabulary,
                          !.roleGrants = @ \cup DefaultGrants, !.marker = TRUE, !.primary = t]
<1>1. Referring(d) /\ DefaultGrants \in SUBSET Grantable /\ "bootstrap" \in Origins /\ Blank(d)
    BY DefaultIs DEF Late, Origins
<1>2. /\ Referring(n)
      /\ DOMAIN n.origin = DOMAIN d.origin \cup {t} /\ n.origin[t] = "bootstrap"
      /\ n.oldest = (IF d.oldest = NoTenant THEN t ELSE d.oldest)
      /\ n.members = d.members \cup {t} /\ n.settings = d.settings \cup {t}
      /\ \A u, r, p : <<u, r, p>> \in n.grants <=> <<u, r, p>> \in d.grants \/ (u = t /\ <<r, p>> \in DefaultGrants)
      /\ n.plans = d.plans /\ n.isolated = d.isolated
    <2>1. Added(n, d, t, "bootstrap", DefaultGrants)
        BY <1>1, NewTenantEffect
    <2> QED
        BY <2>1 DEF Added
<1>3. Bootstrapped(d, t) = e
    BY DEF Bootstrapped
<1> HIDE DEF n
<1>4. /\ e \in Databases /\ e.origin = n.origin /\ e.oldest = n.oldest /\ e.members = n.members
      /\ e.settings = n.settings /\ e.grants = n.grants /\ e.plans = n.plans /\ e.isolated = n.isolated
      /\ e.marker /\ e.primary = t
    BY <1>1, <1>2 DEF Referring, Databases
<1> HIDE DEF e
<1>5. /\ DOMAIN e.origin = {t} /\ e.origin[t] = "bootstrap" /\ e.oldest = t /\ e.members = {t} /\ e.settings = {t}
    BY <1>1, <1>2, <1>4 DEF Blank
<1>6. Referring(e)
    BY <1>2, <1>4 DEF Referring
<1>7. MissingIn(e, t) = {}
    <2>1. \A g \in DefaultGrants : g = <<g[1], g[2]>>
        BY DefaultIs DEF Grantable
    <2>2. \A g \in DefaultGrants : <<t, g[1], g[2]>> \in e.grants
        BY <1>2, <1>4, <2>1
    <2> QED
        BY <2>2 DEF MissingIn
<1>8. GapIn(e, f, t) = {}
    BY <1>5 DEF GapIn
<1>9. e.plans /\ e.isolated
    BY <1>2, <1>4 DEF Late
<1>10. ~ f.db.marker
    BY DEF Late
<1>11. Late(e, f)
    BY <1>4, <1>5, <1>6, <1>7, <1>8, <1>9, <1>10 DEF Late
<1> QED
    BY <1>3, <1>4, <1>5, <1>11

-----------------------------------------------------------------------------
(* Types *)

\* The variables but the database.
Shaped ==
    /\ ledger \in Ledgers /\ lock \subseteq Replica
    /\ release \in [Replica -> Release \cup {NoRelease}]
    /\ runner \in [Replica -> [pc : {"idle", "waiting", "running", "done", "failed"},
                              seen : Ledgers, at : {0} \cup Versions]]
    /\ phase \in [Replica -> {"down", "starting", "serving"}]
    /\ workers \in [Replica -> BOOLEAN] /\ lockFile \in [Replica -> BOOLEAN]
    /\ mu \in [Replica -> Request \cup {NoRequest}]
    /\ request \in [Request -> [pc : {"new"} \cup Pending \cup Ended, at : Replica \cup {NoReplica}]]
    /\ committed \subseteq Request

\* Who may be where: a runner works for a start or for the holder of the mutex.
Guarded ==
    \A n \in Replica :
       /\ runner[n].pc # "idle" =>
            phase[n] = "starting" \/ (mu[n] \in Request /\ At(mu[n], "migrating"))
       /\ mu[n] # NoRequest =>
            Host(mu[n]) = n /\ request[mu[n]].pc \in Pending \ {"queued"}

\* A replica that is up runs a release; a request under way is at one that serves the
\* current release, and has its mutex unless it is queued for it.
Placed ==
    /\ \A n \in Replica : phase[n] # "down" => release[n] \in Release
    /\ \A q \in Request :
         /\ request[q].pc \in Pending =>
              Host(q) \in Replica /\ phase[Host(q)] = "serving" /\ Current(Host(q))
         /\ request[q].pc \in Pending \ {"queued"} => mu[Host(q)] = q

LEMMA TypeParts == TypeOK <=> Referring(db) /\ found \in Starting /\ Shaped /\ Guarded
    BY DEF TypeOK, DatabaseOK, Referring, Shaped, Guarded

LEMMA NoLedger == <<>> \in Ledgers /\ DOMAIN <<>> = {}
<1>1. <<>> \in [{} -> Digest \cup {NoDigest}] /\ DOMAIN <<>> = {}
    OBVIOUS
<1> QED
    BY <1>1 DEF Ledgers

LEMMA RestingTyped ==
    Resting \in [pc : {"idle", "waiting", "running", "done", "failed"}, seen : Ledgers, at : {0} \cup Versions]
    BY NoLedger DEF Resting

\* The digests of a release are those of its migrations, one after the other.
LEMMA MineTyped ==
    ASSUME NEW n, release[n] \in Release
    PROVE  \E k \in Versions : /\ DOMAIN Mine(n) = 1..k
                               /\ \A v \in 1..k : Mine(n)[v] \in Digest /\ Mine(n)[v] # NoDigest
<1>1. PICK k \in Versions : Registry[release[n]] \in [1..k -> Digest]
    BY MigrationsAssumption
<1>2. DOMAIN Mine(n) = 1..k /\ \A v \in 1..k : Mine(n)[v] \in Digest
    BY <1>1 DEF Mine
<1> QED
    BY <1>2, MigrationsAssumption

\* A version is entered in the ledger, or given its checksum.
LEMMA LedgerTyped ==
    ASSUME NEW l \in Ledgers
    PROVE  /\ DOMAIN l \subseteq Versions /\ l \in [DOMAIN l -> Digest \cup {NoDigest}]
           /\ \A v \in Versions, g \in Digest \cup {NoDigest} : With(l, v, g) \in Ledgers
           /\ \A f \in [DOMAIN l -> Digest \cup {NoDigest}] : f \in Ledgers
<1>1. DOMAIN l \subseteq Versions /\ l \in [DOMAIN l -> Digest \cup {NoDigest}]
    BY DEF Ledgers
<1>2. ASSUME NEW v \in Versions, NEW g \in Digest \cup {NoDigest} PROVE With(l, v, g) \in Ledgers
    <2>1. With(l, v, g) \in [DOMAIN l \cup {v} -> Digest \cup {NoDigest}]
        BY <1>1 DEF With
    <2> QED
        BY <1>1, <2>1 DEF Ledgers
<1> QED
    BY <1>1, <1>2 DEF Ledgers

LEMMA RunnerShaped ==
    ASSUME Shaped, NEW n \in Replica, Runner(n), release[n] \in Release
    PROVE  /\ ledger' \in Ledgers /\ lock' \subseteq Replica /\ release' = release
           /\ runner' \in [Replica -> [pc : {"idle", "waiting", "running", "done", "failed"},
                                      seen : Ledgers, at : {0} \cup Versions]]
<1> USE DEF Shaped, Unlock
<1> DEFINE Run == [pc : {"idle", "waiting", "running", "done", "failed"}, seen : Ledgers, at : {0} \cup Versions]
<1>1. PICK k \in Versions : /\ DOMAIN Mine(n) = 1..k
                            /\ \A v \in 1..k : Mine(n)[v] \in Digest
    BY MineTyped
<1>2. runner[n] \in Run
    OBVIOUS
<1>3. CASE LockAndLoad(n)
    BY <1>3 DEF LockAndLoad
<1>4. CASE CheckRow(n)
    <2>1. Following(n) \in Versions /\ Following(n) \in 1..k
        BY <1>1, <1>4 DEF CheckRow, RowAccepted, Versions
    <2>2. runner' = [runner EXCEPT ![n] = [runner[n] EXCEPT !.at = Following(n)]]
        BY <1>4 DEF CheckRow, Following
    <2>3. [runner[n] EXCEPT !.at = Following(n)] \in Run
        BY <1>2, <2>1
    <2>4. ledger' \in [DOMAIN ledger -> Digest \cup {NoDigest}]
        BY <1>1, <1>4, <2>1, LedgerTyped DEF CheckRow
    <2>5. ledger' \in Ledgers
        BY <2>4, LedgerTyped
    <2>6. runner' \in [Replica -> Run]
        BY <2>2, <2>3
    <2> QED
        BY <1>4, <2>5, <2>6 DEF CheckRow
<1>5. CASE ApplyNext(n)
    <2>1. Following(n) \in Versions /\ Following(n) \in 1..k
        BY <1>1, <1>5 DEF ApplyNext, Versions
    <2>2. runner' = [runner EXCEPT ![n] = [runner[n] EXCEPT !.at = Following(n)]]
        BY <1>5 DEF ApplyNext, Following
    <2>3. [runner[n] EXCEPT !.at = Following(n)] \in Run
        BY <1>2, <2>1
    <2>4. ledger' \in Ledgers
        BY <1>1, <1>5, <2>1, LedgerTyped DEF ApplyNext
    <2> QED
        BY <1>5, <2>2, <2>3, <2>4 DEF ApplyNext
<1>6. CASE Finish(n) \/ RunnerFails(n)
    <2>1. \A pc \in {"done", "failed"} : [Resting EXCEPT !.pc = pc] \in Run
        BY RestingTyped
    <2>2. PICK pc \in {"done", "failed"} : runner' = [runner EXCEPT ![n] = [Resting EXCEPT !.pc = pc]]
        BY <1>6 DEF Finish, RunnerFails
    <2> QED
        BY <1>6, <2>1, <2>2 DEF Finish, RunnerFails
<1> QED
    BY <1>3, <1>4, <1>5, <1>6 DEF Runner

LEMMA WaitTyped ==
    ASSUME Shaped, NEW n \in Replica, Wait(n)
    PROVE  /\ runner' \in [Replica -> [pc : {"idle", "waiting", "running", "done", "failed"},
                                      seen : Ledgers, at : {0} \cup Versions]]
           /\ runner'[n].pc = "waiting"
           /\ \A m \in Replica \ {n} : runner'[m] = runner[m]
<1>1. runner' = [runner EXCEPT ![n] = [runner[n] EXCEPT !.pc = "waiting"]]
    BY DEF Wait
<1>2. /\ [runner[n] EXCEPT !.pc = "waiting"] \in [pc : {"idle", "waiting", "running", "done", "failed"},
                                                 seen : Ledgers, at : {0} \cup Versions]
      /\ [runner[n] EXCEPT !.pc = "waiting"].pc = "waiting"
    BY DEF Shaped
<1> QED
    BY <1>1, <1>2 DEF Shaped

\* A request moves where it is, or it is answered.
LEMMA GoesTyped ==
    ASSUME Shaped, NEW q \in Request, NEW pc \in Pending, Goes(q, pc)
    PROVE  /\ request' \in [Request -> [pc : {"new"} \cup Pending \cup Ended, at : Replica \cup {NoReplica}]]
           /\ request'[q] = [pc |-> pc, at |-> Host(q)]
           /\ \A p \in Request \ {q} : request'[p] = request[p]
<1>1. request' = [request EXCEPT ![q] = [request[q] EXCEPT !.pc = pc]]
    BY DEF Goes
<1>2. [request[q] EXCEPT !.pc = pc] = [pc |-> pc, at |-> request[q].at]
    BY DEF Shaped
<1> QED
    BY <1>1, <1>2 DEF Shaped, Host

LEMMA AnswerTyped ==
    ASSUME Shaped, NEW q \in Request, NEW pc \in Ended, Answer(q, pc)
    PROVE  /\ request' \in [Request -> [pc : {"new"} \cup Pending \cup Ended, at : Replica \cup {NoReplica}]]
           /\ request'[q].pc = pc /\ pc \notin Pending
           /\ \A p \in Request \ {q} : request'[p] = request[p]
    BY DEF Shaped, Answer, Answered, Pending, Ended

LEMMA GoneTyped ==
    ASSUME Shaped, NEW n \in Replica, Gone(n)
    PROVE  Shaped'
    BY RestingTyped DEF Shaped, Gone, Unlock, Answered, Ended
\* Whose runner works is up, and only starting or serving the request of its mutex.
LEMMA WhoRuns ==
    ASSUME Shaped, Guarded, Placed, NEW n \in Replica, runner[n].pc # "idle"
    PROVE  phase[n] # "down" /\ release[n] \in Release
<1>1. CASE phase[n] = "starting"
    BY <1>1 DEF Placed
<1>2. CASE mu[n] \in Request /\ At(mu[n], "migrating")
    <2>1. mu[n] # NoRequest
        BY <1>2, InstallationAssumption
    <2>2. Host(mu[n]) = n /\ request[mu[n]].pc \in Pending
        BY <2>1 DEF Guarded
    <2>3. phase[n] = "serving"
        BY <1>2, <2>2 DEF Placed
    <2> QED
        BY <2>3 DEF Placed
<1> QED
    BY <1>1, <1>2 DEF Guarded


LEMMA ShapedStep == Referring(db) /\ Shaped /\ Guarded /\ Placed /\ [Next]_vars => Shaped'
<1> SUFFICES ASSUME Referring(db), Shaped, Guarded, Placed, [Next]_vars PROVE Shaped'
    OBVIOUS
<1>1. ASSUME NEW n \in Replica, Start(n) PROVE Shaped'
    <2>1. PICK r \in Release, kept \in BOOLEAN, installed \in Status(n) :
            /\ release' = [release EXCEPT ![n] = r]
            /\ lockFile' = [lockFile EXCEPT ![n] = @ /\ kept]
            /\ workers' = [workers EXCEPT ![n] = installed]
            /\ phase' = [phase EXCEPT ![n] = IF installed THEN "starting" ELSE "serving"]
            /\ IF installed THEN Wait(n) ELSE UNCHANGED runner
            /\ UNCHANGED <<database, installing>>
        BY <1>1 DEF Start
    <2>2. runner' \in [Replica -> [pc : {"idle", "waiting", "running", "done", "failed"},
                                  seen : Ledgers, at : {0} \cup Versions]]
        BY <2>1, WaitTyped DEF Shaped
    <2>3. lockFile' \in [Replica -> BOOLEAN] /\ phase' \in [Replica -> {"down", "starting", "serving"}]
        BY <2>1 DEF Shaped
    <2>4. installed \in BOOLEAN
        BY DEF Status, Referring, Databases, Shaped
    <2>5. workers' \in [Replica -> BOOLEAN]
        BY <2>1, <2>4 DEF Shaped
    <2> QED
        BY <2>1, <2>2, <2>3, <2>5 DEF Shaped, database, installing
<1>2. ASSUME NEW n \in Replica, Serve(n) PROVE Shaped'
    BY <1>2, RestingTyped DEF Serve, Shaped, database, installing
<1>3. ASSUME NEW n \in Replica, StartFails(n) \/ Stop(n) PROVE Shaped'
    BY <1>3, GoneTyped DEF StartFails, Stop
<1>4. ASSUME NEW n \in Replica, Migrate(n) PROVE Shaped'
    <2>1. Runner(n) /\ UNCHANGED <<replicas, installing>>
        BY <1>4 DEF Migrate
    <2>2. release[n] \in Release
        BY <2>1, WhoRuns DEF Runner, LockAndLoad, CheckRow, ApplyNext, Finish, RunnerFails, Running
    <2>3. ledger' \in Ledgers /\ lock' \subseteq Replica /\ release' = release
        BY <2>1, <2>2, RunnerShaped
    <2>4. runner' \in [Replica -> [pc : {"idle", "waiting", "running", "done", "failed"},
                                  seen : Ledgers, at : {0} \cup Versions]]
        BY <2>1, <2>2, RunnerShaped
    <2> QED
        BY <2>1, <2>3, <2>4 DEF Shaped, replicas, installing
<1>5. ASSUME NEW n \in Replica, Cut(n) PROVE Shaped'
    BY <1>5 DEF Cut, SessionLost, Unlock, Shaped, replicas, installing
<1>6. ASSUME NEW n \in Replica, CreateTenant(n) PROVE Shaped'
    BY <1>6 DEF CreateTenant, Shaped, replicas, installing
<1>7. ASSUME NEW n \in Replica, NEW q \in Request, Ask(q, n) PROVE Shaped'
    <2>1. CASE Answer(q, "conflict")
        BY <1>7, <2>1, AnswerTyped DEF Ask, Ended, Shaped, database, replicas
    <2>2. CASE request' = [request EXCEPT ![q] = [pc |-> "queued", at |-> n]]
        <3>1. [pc |-> "queued", at |-> n] \in [pc : {"new"} \cup Pending \cup Ended, at : Replica \cup {NoReplica}]
            BY DEF Pending
        <3>2. request' \in [Request -> [pc : {"new"} \cup Pending \cup Ended, at : Replica \cup {NoReplica}]]
            BY <2>2, <3>1 DEF Shaped
        <3> QED
            BY <1>7, <3>2 DEF Ask, Shaped, database, replicas
    <2> QED
        BY <1>7, <2>1, <2>2 DEF Ask
<1>8. ASSUME NEW q \in Request, Enter(q) PROVE Shaped'
    <2>1. CASE Answer(q, "error") /\ UNCHANGED mu
        BY <1>8, <2>1, AnswerTyped DEF Enter, Ended, Shaped, database, replicas
    <2>2. CASE Goes(q, "opening") /\ mu' = [mu EXCEPT ![Host(q)] = q]
        BY <1>8, <2>2, GoesTyped DEF Enter, Pending, Shaped, database, replicas
    <2> QED
        BY <1>8, <2>1, <2>2 DEF Enter
<1>9. ASSUME NEW q \in Request, OpenDatabase(q) \/ CreateDatabase(q) PROVE Shaped'
    <2>1. Host(q) \in Replica
        BY <1>9 DEF OpenDatabase, CreateDatabase, At, Pending, Placed
    <2>2. PICK pc \in Pending : Goes(q, pc)
        BY <1>9 DEF OpenDatabase, CreateDatabase, Pending
    <2>3. Wait(Host(q)) \/ UNCHANGED runner
        BY <1>9 DEF OpenDatabase, CreateDatabase
    <2>4. runner' \in [Replica -> [pc : {"idle", "waiting", "running", "done", "failed"},
                                  seen : Ledgers, at : {0} \cup Versions]]
        BY <2>1, <2>3, WaitTyped DEF Shaped
    <2> QED
        BY <1>9, <2>2, <2>4, GoesTyped DEF OpenDatabase, CreateDatabase, Shaped, database, replicas
<1>10. ASSUME NEW q \in Request, Migrated(q) PROVE Shaped'
    BY <1>10, GoesTyped, RestingTyped DEF Migrated, Pending, Shaped, database, replicas
<1>11. ASSUME NEW q \in Request, Bootstrap(q) PROVE Shaped'
    <2>1. CASE Goes(q, "marking") /\ UNCHANGED mu
        BY <1>11, <2>1, GoesTyped DEF Bootstrap, Pending, Shaped, replicas
    <2>2. CASE Ends(q, "error")
        BY <1>11, <2>2, AnswerTyped DEF Bootstrap, Ends, Ended, Shaped, replicas
    <2> QED
        BY <1>11, <2>1, <2>2 DEF Bootstrap
<1>12. ASSUME NEW q \in Request, WriteLock(q) PROVE Shaped'
    BY <1>12, AnswerTyped DEF WriteLock, Ends, Ended, Shaped, database
<1>13. ASSUME NEW q \in Request, InstallFails(q) PROVE Shaped'
    <2>1. runner' = runner \/ runner' = [runner EXCEPT ![Host(q)] = Resting]
        BY <1>13 DEF InstallFails
    <2>2. runner' \in [Replica -> [pc : {"idle", "waiting", "running", "done", "failed"},
                                  seen : Ledgers, at : {0} \cup Versions]]
        BY <2>1, RestingTyped DEF Shaped
    <2> QED
        BY <1>13, <2>2, AnswerTyped DEF InstallFails, Ends, Ended, Shaped, database, replicas
<1>14. CASE UNCHANGED vars
    BY <1>14 DEF vars, Shaped, database, replicas, installing
<1> QED
    BY <1>1, <1>2, <1>3, <1>4, <1>5, <1>6, <1>7, <1>8, <1>9, <1>10, <1>11, <1>12, <1>13, <1>14 DEF Next, Install

\* What is pending at a replica: its mutex is held for a request that is at it, and
\* nothing is pending at one that is down.
LEMMA WhoHolds ==
    ASSUME Shaped, Guarded, Placed, NEW n \in Replica
    PROVE  /\ mu[n] # NoRequest => mu[n] \in Request /\ Host(mu[n]) = n /\ phase[n] = "serving"
           /\ \A q \in Request : request[q].pc \in Pending \ {"queued"} =>
                 Host(q) \in Replica /\ mu[Host(q)] = q /\ phase[Host(q)] = "serving"
           /\ phase[n] = "down" =>
                 /\ runner[n].pc = "idle" /\ mu[n] = NoRequest
                 /\ \A q \in Request : request[q].pc \in Pending => Host(q) # n
<1>1. mu[n] # NoRequest => mu[n] \in Request /\ Host(mu[n]) = n /\ request[mu[n]].pc \in Pending
    BY DEF Shaped, Guarded
<1>2. \A q \in Request : request[q].pc \in Pending => Host(q) \in Replica /\ phase[Host(q)] = "serving"
    BY DEF Placed
<1>3. \A q \in Request : request[q].pc \in Pending \ {"queued"} => mu[Host(q)] = q
    BY DEF Placed
<1> QED
    BY <1>1, <1>2, <1>3, WhoRuns

\* Only the runner of n, the mutex of n and the request q were touched.
Elsewhere(n, q) ==
    /\ \A m \in Replica \ {n} : runner'[m] = runner[m] /\ mu'[m] = mu[m]
    /\ \A p \in Request \ {q} : request'[p] = request[p]

\* The runner of n works for q, q has the mutex of n as long as it is under way.
Handled(n, q) ==
    /\ Elsewhere(n, q) /\ UNCHANGED <<phase, release>>
    /\ runner'[n].pc # "idle" => mu'[n] = q /\ request'[q].pc = "migrating"
    /\ mu'[n] # NoRequest => mu'[n] = q /\ request'[q].pc \in Pending \ {"queued"}
    /\ request'[q].pc \in Pending => mu'[n] = q /\ request'[q].at = n

LEMMA HandledKeeps ==
    ASSUME Shaped, Guarded, Placed, NEW n \in Replica, NEW q \in Request, Handled(n, q),
           mu[n] \in {q, NoRequest}, Host(q) = n, request[q].pc \in Pending
    PROVE  Guarded' /\ Placed'
<1>1. phase[n] = "serving" /\ Current(n)
    BY DEF Placed
<1>2. q # NoRequest
    BY InstallationAssumption
<1>4. \A m \in Replica \ {n} : mu[m] # NoRequest =>
         mu[m] \in Request \ {q} /\ request'[mu[m]] = request[mu[m]]
    BY DEF Guarded, Shaped, Handled, Elsewhere
<1>5. \A m \in Replica \ {n} : mu[m] \in Request => mu[m] # NoRequest
    BY InstallationAssumption
<1>6. Guarded'
    <2>1. ASSUME NEW m \in Replica \ {n}
          PROVE  /\ runner'[m].pc # "idle" =>
                       phase'[m] = "starting" \/ (mu'[m] \in Request /\ request'[mu'[m]].pc = "migrating")
                 /\ mu'[m] # NoRequest =>
                       request'[mu'[m]].at = m /\ request'[mu'[m]].pc \in Pending \ {"queued"}
        BY <1>4, <1>5 DEF Guarded, At, Host, Handled, Elsewhere
    <2>2. /\ runner'[n].pc # "idle" => mu'[n] \in Request /\ request'[mu'[n]].pc = "migrating"
          /\ mu'[n] # NoRequest =>
                request'[mu'[n]].at = n /\ request'[mu'[n]].pc \in Pending \ {"queued"}
        BY DEF Handled
    <2> QED
        BY <2>1, <2>2 DEF Guarded, At, Host
<1>7. Placed'
    <2>1. ASSUME NEW p \in Request \ {q}
          PROVE  /\ request'[p].pc \in Pending =>
                       request'[p].at \in Replica /\ phase'[request'[p].at] = "serving" /\ Current(request'[p].at)
                 /\ request'[p].pc \in Pending \ {"queued"} => mu'[request'[p].at] = p
        <3>1. request'[p] = request[p]
            BY DEF Handled, Elsewhere
        <3>2. request[p].pc \in Pending =>
                 request[p].at \in Replica /\ phase'[request[p].at] = "serving" /\ Current(request[p].at)
            BY DEF Placed, Host, Handled
        <3>3. request[p].pc \in Pending \ {"queued"} =>
                 request[p].at \in Replica /\ mu[request[p].at] = p
            BY DEF Placed, Host
        <3>4. request[p].pc \in Pending \ {"queued"} => request[p].at # n
            BY <3>3, InstallationAssumption
        <3> QED
            BY <3>1, <3>2, <3>3, <3>4 DEF Handled, Elsewhere
    <2>2. /\ request'[q].pc \in Pending =>
                request'[q].at \in Replica /\ phase'[request'[q].at] = "serving" /\ Current(request'[q].at)
          /\ request'[q].pc \in Pending \ {"queued"} => mu'[request'[q].at] = q
        BY <1>1 DEF Handled
    <2>3. \A m \in Replica : phase'[m] # "down" => release'[m] \in Release
        BY DEF Placed, Handled
    <2>4. release' = release
        BY DEF Handled
    <2> QED
        BY <2>1, <2>2, <2>3, <2>4 DEF Placed, Host, Current, Mine
<1> QED
    BY <1>6, <1>7

LEMMA RequestStep ==
    ASSUME Referring(db), Shaped, Guarded, Placed, NEW q \in Request, Enter(q) \/ Install(q)
    PROVE  Guarded' /\ Placed'
<1> DEFINE n == Host(q)
<1>1. request[q].pc \in Pending /\ n \in Replica /\ phase[n] = "serving"
    <2>1. request[q].pc \in Pending
        BY DEF Enter, Install, OpenDatabase, CreateDatabase, Migrated, Bootstrap, WriteLock, InstallFails, At, Pending
    <2> QED
        BY <2>1 DEF Placed
<1>2. UNCHANGED <<phase, release>>
    BY DEF Enter, Install, OpenDatabase, CreateDatabase, Migrated, Bootstrap, WriteLock, InstallFails, replicas
<1>3. q # NoRequest
    BY InstallationAssumption
<1>4. ASSUME NEW pc \in Ended, Ends(q, pc)
      PROVE  /\ mu'[n] = NoRequest /\ request'[q].pc \notin Pending
             /\ \A m \in Replica \ {n} : mu'[m] = mu[m]
             /\ \A p \in Request \ {q} : request'[p] = request[p]
    BY <1>1, <1>4, AnswerTyped DEF Ends, Shaped
<1>5. ASSUME NEW pc \in Pending \ {"queued"}, Goes(q, pc)
      PROVE  /\ request'[q].pc = pc /\ request'[q].at = n
             /\ \A p \in Request \ {q} : request'[p] = request[p]
    <2>1. pc \in Pending /\ Goes(q, pc)
        BY <1>5
    <2>2. request'[q] = [pc |-> pc, at |-> n] /\ \A p \in Request \ {q} : request'[p] = request[p]
        BY <2>1, GoesTyped
    <2> QED
        BY <2>2
<1>6. request[q].pc # "queued" => mu[n] = q
    BY <1>1 DEF Placed
<1>7. runner[n].pc # "idle" => mu[n] \in Request /\ request[mu[n]].pc = "migrating"
    BY <1>1 DEF Guarded, At
<1>8. request[q].pc \notin {"queued", "migrating"} => runner[n].pc = "idle"
    BY <1>6, <1>7
<1>9. CASE Enter(q)
    <2>1. request[q].pc = "queued" /\ mu[n] = NoRequest /\ UNCHANGED runner
        BY <1>9 DEF Enter, At
    <2>2. runner[n].pc = "idle"
        BY <1>7, <2>1, InstallationAssumption
    <2>3. CASE Answer(q, "error") /\ UNCHANGED mu
        <3>1. Handled(n, q)
            BY <1>2, <2>1, <2>2, <2>3, AnswerTyped DEF Handled, Elsewhere, Ended
        <3> QED
            BY <1>1, <2>1, <3>1, HandledKeeps
    <2>4. CASE Goes(q, "opening") /\ mu' = [mu EXCEPT ![n] = q]
        <3>1. mu'[n] = q /\ \A m \in Replica \ {n} : mu'[m] = mu[m]
            BY <1>1, <2>4 DEF Shaped
        <3>2. Handled(n, q)
            BY <1>2, <1>5, <2>1, <2>2, <2>4, <3>1 DEF Handled, Elsewhere, Pending
        <3> QED
            BY <1>1, <2>1, <3>2, HandledKeeps
    <2> QED
        BY <1>9, <2>3, <2>4 DEF Enter
<1>10. CASE OpenDatabase(q) \/ CreateDatabase(q)
    <2>1. mu[n] = q /\ UNCHANGED mu /\ runner[n].pc = "idle"
        BY <1>6, <1>8, <1>10 DEF OpenDatabase, CreateDatabase, At
    <2>2. (Goes(q, "migrating") /\ Wait(n)) \/ (Goes(q, "creating") /\ UNCHANGED runner)
        BY <1>10 DEF OpenDatabase, CreateDatabase
    <2>3. \A m \in Replica \ {n} : runner'[m] = runner[m]
        BY <1>1, <2>2, WaitTyped
    <2>4. Handled(n, q)
        BY <1>2, <1>5, <2>1, <2>2, <2>3 DEF Handled, Elsewhere, Pending
    <2> QED
        BY <1>1, <2>1, <2>4, HandledKeeps
<1>11. CASE Migrated(q)
    <2>1. mu[n] = q /\ UNCHANGED mu /\ Goes(q, "installing")
        BY <1>6, <1>11 DEF Migrated, At
    <2>2. runner'[n].pc = "idle" /\ \A m \in Replica \ {n} : runner'[m] = runner[m]
        BY <1>1, <1>11 DEF Migrated, Shaped, Resting
    <2>3. Handled(n, q)
        BY <1>2, <1>5, <2>1, <2>2 DEF Handled, Elsewhere, Pending
    <2> QED
        BY <1>1, <2>1, <2>3, HandledKeeps
<1>12. CASE Bootstrap(q)
    <2>1. mu[n] = q /\ runner[n].pc = "idle" /\ UNCHANGED runner
        BY <1>6, <1>8, <1>12 DEF Bootstrap, At
    <2>2. CASE Goes(q, "marking") /\ UNCHANGED mu
        <3>1. Handled(n, q)
            BY <1>2, <1>5, <2>1, <2>2 DEF Handled, Elsewhere, Pending
        <3> QED
            BY <1>1, <2>1, <3>1, HandledKeeps
    <2>3. CASE Ends(q, "error")
        <3>1. Handled(n, q)
            BY <1>2, <1>4, <2>1, <2>3 DEF Handled, Elsewhere, Ended
        <3> QED
            BY <1>1, <2>1, <3>1, HandledKeeps
    <2> QED
        BY <1>12, <2>2, <2>3 DEF Bootstrap
<1>13. CASE WriteLock(q) \/ InstallFails(q)
    <2>1. mu[n] = q
        BY <1>6, <1>13 DEF WriteLock, InstallFails, At
    <2>2. PICK pc \in Ended : Ends(q, pc)
        BY <1>13 DEF WriteLock, InstallFails, Ended
    <2>3. runner'[n].pc = "idle" /\ \A m \in Replica \ {n} : runner'[m] = runner[m]
        BY <1>1, <1>8, <1>13 DEF WriteLock, InstallFails, At, Shaped, Resting
    <2>4. Handled(n, q)
        BY <1>2, <1>4, <2>2, <2>3 DEF Handled, Elsewhere
    <2> QED
        BY <1>1, <2>1, <2>4, HandledKeeps
<1> QED
    BY <1>9, <1>10, <1>11, <1>12, <1>13 DEF Install

LEMMA GuardedStep == Referring(db) /\ Shaped /\ Guarded /\ Placed /\ [Next]_vars => Guarded'
<1> SUFFICES ASSUME Referring(db), Shaped, Guarded, Placed, [Next]_vars PROVE Guarded'
    OBVIOUS
<1> USE DEF At
<1>1. ASSUME NEW n \in Replica, Start(n) PROVE Guarded'
    <2>1. phase[n] = "down" /\ UNCHANGED <<mu, request>>
        BY <1>1 DEF Start, installing
    <2>2. \A m \in Replica \ {n} : phase'[m] = phase[m] /\ runner'[m] = runner[m]
        BY <1>1, WaitTyped DEF Start, Shaped
    <2>3. runner'[n].pc = "idle" \/ phase'[n] = "starting"
        BY <1>1, <2>1, WhoHolds DEF Start, Shaped
    <2> QED
        BY <2>1, <2>2, <2>3 DEF Guarded, Host
<1>2. ASSUME NEW n \in Replica, Serve(n) PROVE Guarded'
    <2>1. /\ runner' = [runner EXCEPT ![n] = Resting] /\ phase' = [phase EXCEPT ![n] = "serving"]
          /\ UNCHANGED <<mu, request>>
        BY <1>2 DEF Serve, installing
    <2> QED
        BY <2>1 DEF Guarded, Host, Resting, Shaped
<1>3. ASSUME NEW n \in Replica, StartFails(n) \/ Stop(n) PROVE Guarded'
    <2>1. /\ runner' = [runner EXCEPT ![n] = Resting] /\ phase' = [phase EXCEPT ![n] = "down"]
          /\ mu' = [mu EXCEPT ![n] = NoRequest]
          /\ request' = [q \in Request |-> IF Host(q) = n THEN Answered("error") ELSE request[q]]
        BY <1>3 DEF StartFails, Stop, Gone
    <2>2. runner'[n].pc = "idle" /\ mu'[n] = NoRequest
        BY <2>1 DEF Shaped, Resting
    <2>3. \A m \in Replica \ {n} : phase'[m] = phase[m] /\ runner'[m] = runner[m] /\ mu'[m] = mu[m]
        BY <2>1 DEF Shaped
    <2>4. \A m \in Replica \ {n} : mu[m] # NoRequest => mu[m] \in Request /\ Host(mu[m]) = m
        BY DEF Guarded, Shaped
    <2>5. \A m \in Replica \ {n} : mu[m] # NoRequest => request'[mu[m]] = request[mu[m]]
        BY <2>1, <2>4
    <2>6. \A m \in Replica \ {n} : mu[m] \in Request => mu[m] # NoRequest
        BY InstallationAssumption
    <2> QED
        BY <2>2, <2>3, <2>5, <2>6 DEF Guarded, Host
<1>4. ASSUME NEW n \in Replica, Migrate(n) PROVE Guarded'
    <2>1. /\ \A m \in Replica \ {n} : runner'[m] = runner[m]
          /\ UNCHANGED <<phase, mu, request>> /\ runner[n].pc # "idle"
        BY <1>4 DEF Migrate, Runner, LockAndLoad, CheckRow, ApplyNext, Finish, RunnerFails, Running, Shaped,
                    replicas, installing
    <2> QED
        BY <2>1 DEF Guarded, Host
<1>5. ASSUME NEW n \in Replica, Cut(n) \/ CreateTenant(n) PROVE Guarded'
    BY <1>5 DEF Cut, SessionLost, CreateTenant, Guarded, Host, replicas, installing
<1>6. ASSUME NEW n \in Replica, NEW q \in Request, Ask(q, n) PROVE Guarded'
    <2>1. request[q].pc = "new" /\ UNCHANGED <<runner, phase, mu>>
        BY <1>6 DEF Ask, replicas
    <2>2. \A p \in Request \ {q} : request'[p] = request[p]
        BY <1>6, AnswerTyped DEF Ask, Ended, Shaped
    <2>3. \A m \in Replica : mu[m] # NoRequest => request[mu[m]].pc \in Pending /\ mu[m] \in Request
        BY DEF Guarded, Shaped
    <2>4. \A m \in Replica : mu[m] # q \/ mu[m] = NoRequest
        BY <2>1, <2>3 DEF Pending
    <2>5. \A m \in Replica : mu[m] # NoRequest => request'[mu[m]] = request[mu[m]]
        BY <2>2, <2>3, <2>4
    <2>6. \A m \in Replica : mu[m] \in Request => mu[m] # NoRequest
        BY InstallationAssumption
    <2> QED
        BY <2>1, <2>5, <2>6 DEF Guarded, Host
<1>7. ASSUME NEW q \in Request, Enter(q) \/ Install(q) PROVE Guarded'
    BY <1>7, RequestStep
<1>8. CASE UNCHANGED vars
    BY <1>8 DEF vars, Guarded, Host, replicas, installing
<1> QED
    BY <1>1, <1>2, <1>3, <1>4, <1>5, <1>6, <1>7, <1>8 DEF Next

LEMMA PlacedStep == Referring(db) /\ Shaped /\ Guarded /\ Placed /\ [Next]_vars => Placed'
<1> SUFFICES ASSUME Referring(db), Shaped, Guarded, Placed, [Next]_vars PROVE Placed'
    OBVIOUS
<1> USE DEF Current, Mine, Host
<1>1. ASSUME NEW n \in Replica, Start(n) PROVE Placed'
    <2>1. PICK r \in Release : release' = [release EXCEPT ![n] = r]
        BY <1>1 DEF Start
    <2>2. phase[n] = "down" /\ UNCHANGED <<mu, request>> /\ \A m \in Replica \ {n} : phase'[m] = phase[m]
        BY <1>1 DEF Start, installing, Shaped
    <2>3. release'[n] \in Release /\ \A m \in Replica \ {n} : release'[m] = release[m]
        BY <2>1 DEF Shaped
    <2>4. \A q \in Request : request[q].pc \in Pending => request[q].at # n
        BY <2>2, WhoHolds
    <2> QED
        BY <2>2, <2>3, <2>4 DEF Placed
<1>2. ASSUME NEW n \in Replica, Serve(n) PROVE Placed'
    <2>1. phase' = [phase EXCEPT ![n] = "serving"] /\ phase[n] = "starting" /\ UNCHANGED <<release, mu, request>>
        BY <1>2 DEF Serve, installing
    <2> QED
        BY <2>1 DEF Placed, Shaped
<1>3. ASSUME NEW n \in Replica, StartFails(n) \/ Stop(n) PROVE Placed'
    <2>1. /\ release' = [release EXCEPT ![n] = NoRelease] /\ phase' = [phase EXCEPT ![n] = "down"]
          /\ mu' = [mu EXCEPT ![n] = NoRequest]
          /\ request' = [q \in Request |-> IF Host(q) = n THEN Answered("error") ELSE request[q]]
        BY <1>3 DEF StartFails, Stop, Gone
    <2>2. phase'[n] = "down" /\ \A m \in Replica \ {n} :
                                 phase'[m] = phase[m] /\ release'[m] = release[m] /\ mu'[m] = mu[m]
        BY <2>1 DEF Shaped
    <2>3. \A q \in Request : request'[q].pc \in Pending => request'[q] = request[q] /\ request[q].at # n
        BY <2>1 DEF Answered, Pending
    <2> QED
        BY <2>2, <2>3 DEF Placed
<1>4. ASSUME NEW n \in Replica, Migrate(n) \/ Cut(n) \/ CreateTenant(n) PROVE Placed'
    <2>1. UNCHANGED <<release, phase, mu, request>>
        BY <1>4 DEF Migrate, Runner, LockAndLoad, CheckRow, ApplyNext, Finish, RunnerFails, Cut, SessionLost,
                    CreateTenant, replicas, installing
    <2> QED
        BY <2>1 DEF Placed
<1>5. ASSUME NEW n \in Replica, NEW q \in Request, Ask(q, n) PROVE Placed'
    <2>1. request[q].pc = "new" /\ phase[n] = "serving" /\ Current(n) /\ UNCHANGED <<release, phase, mu>>
        BY <1>5 DEF Ask, At, replicas
    <2>2. \A p \in Request \ {q} : request'[p] = request[p]
        BY <1>5, AnswerTyped DEF Ask, Ended, Shaped
    <2>3. request'[q].pc \notin Pending \/ request'[q] = [pc |-> "queued", at |-> n]
        BY <1>5, AnswerTyped DEF Ask, Ended, Shaped
    <2> QED
        BY <2>1, <2>2, <2>3 DEF Placed
<1>6. ASSUME NEW q \in Request, Enter(q) \/ Install(q) PROVE Placed'
    BY <1>6, RequestStep
<1>7. CASE UNCHANGED vars
    BY <1>7 DEF vars, Placed, replicas, installing
<1> QED
    BY <1>1, <1>2, <1>3, <1>4, <1>5, <1>6, <1>7 DEF Next

-----------------------------------------------------------------------------
(* The lock, and what a runner knows of the ledger *)

\* The session that holds the lock is that of a runner at work, and the only one.
Locked ==
    /\ \A n \in lock : runner[n].pc = "running"
    /\ \A m, n \in lock : m = n

\* The rows a runner has checked or applied are its own, and the others are as read.
Seen(n) ==
    /\ \A v \in 1..runner[n].at : v \in DOMAIN Mine(n) /\ v \in DOMAIN ledger /\ ledger[v] = Mine(n)[v]
    /\ IF Checked(n) THEN DOMAIN ledger = 1..runner[n].at
       ELSE /\ DOMAIN ledger = DOMAIN runner[n].seen
            /\ \A v \in DOMAIN ledger : v > runner[n].at => ledger[v] = runner[n].seen[v]

Seeing == \A n \in lock : Seen(n)

\* The ledger stays and no runner with the lock moves.
Held ==
    /\ ledger' = ledger /\ lock' \subseteq lock
    /\ \A m \in lock' : runner'[m] = runner[m] /\ release'[m] = release[m]

LEMMA HeldSees ==
    ASSUME Locked, Seeing, Held
    PROVE  Locked' /\ Seeing'
<1>1. Locked'
    BY DEF Locked, Held
<1>2. ASSUME NEW n \in lock' PROVE Seen(n)'
    <2>1. Seen(n) /\ runner'[n] = runner[n] /\ release'[n] = release[n] /\ ledger' = ledger
        BY <1>2 DEF Seeing, Held
    <2> QED
        BY <2>1 DEF Seen, Checked, Mine
<1> QED
    BY <1>1, <1>2 DEF Seeing

LEMMA VersionsCounted == \A S \in SUBSET Versions : IsFiniteSet(S) /\ Cardinality(S) \in Nat
<1>1. 1 \in Int /\ 6 \in Int
    OBVIOUS
<1>2. IsFiniteSet(1..6)
    BY <1>1, FS_Interval
<1> QED
    BY <1>2, FS_Subset, FS_CardinalityType DEF Versions

\* As many versions as there are, from the first on, are all of them.
LEMMA AllCounted ==
    ASSUME NEW S, S \subseteq Versions, NEW k \in Nat, 1..k \subseteq S, k >= Cardinality(S)
    PROVE  S = 1..k
<1>1. IsFiniteSet(Versions) /\ IsFiniteSet(1..k) /\ Cardinality(1..k) = k
    <2>1. 1 \in Int /\ 6 \in Int /\ k \in Int
        OBVIOUS
    <2>2. IsFiniteSet(1..6) /\ IsFiniteSet(1..k)
        BY <2>1, FS_Interval
    <2>3. Cardinality(1..k) = IF 1 > k THEN 0 ELSE k - 1 + 1
        BY <2>1, FS_Interval
    <2> QED
        BY <2>2, <2>3 DEF Versions
<1>2. IsFiniteSet(S) /\ Cardinality(S) \in Nat
    BY <1>1, FS_Subset, FS_CardinalityType
<1>3. Cardinality(1..k) <= Cardinality(S)
    BY <1>2, FS_Subset
<1> QED
    BY <1>1, <1>2, <1>3, FS_Subset

\* A run of the migrations checks rows in order and enters its own.
LEMMA RunnerSees ==
    ASSUME Shaped, Locked, Seeing, NEW n \in Replica, release[n] \in Release, Runner(n)
    PROVE  Locked' /\ Seeing'
<1>1. PICK k \in Versions : /\ DOMAIN Mine(n) = 1..k
                            /\ \A v \in 1..k : Mine(n)[v] \in Digest /\ Mine(n)[v] # NoDigest
    BY MineTyped
<1>2. /\ runner[n].at \in Nat /\ runner[n].seen \in Ledgers /\ runner[n].at \in {0} \cup Versions
      /\ DOMAIN runner[n].seen \subseteq Versions /\ DOMAIN ledger \subseteq Versions
    BY LedgerTyped DEF Shaped, Versions
<1>3. CASE LockAndLoad(n)
    <2>1. /\ lock' = {n} /\ ledger' = ledger /\ release' = release
          /\ runner' = [runner EXCEPT ![n] = [pc |-> "running", seen |-> ledger, at |-> 0]]
        BY <1>3 DEF LockAndLoad, Granted
    <2>2. runner'[n] = [pc |-> "running", seen |-> ledger, at |-> 0]
        BY <2>1 DEF Shaped
    <2>3. 0 >= Cardinality(DOMAIN ledger) => DOMAIN ledger = 1..0
        BY <1>2, AllCounted
    <2>4. Seen(n)'
        BY <2>1, <2>2, <2>3 DEF Seen, Checked, Mine
    <2> QED
        BY <2>1, <2>2, <2>4 DEF Locked, Seeing
<1>4. CASE CheckRow(n)
    <2> DEFINE v == runner[n].at + 1
    <2>1. n \in lock /\ lock' = lock /\ release' = release /\ ~ Checked(n)
          /\ DOMAIN ledger' = DOMAIN ledger
        BY <1>4 DEF CheckRow, Session
    <2>2. runner'[n] = [runner[n] EXCEPT !.at = v] /\ \A m \in lock : m = n
        BY <1>4, <2>1 DEF CheckRow, Shaped, Locked
    <2>3. DOMAIN ledger = DOMAIN runner[n].seen /\ Seen(n)
        BY <2>1 DEF Seeing, Seen
    <2>4. /\ v \in DOMAIN ledger /\ v \in DOMAIN Mine(n) /\ ledger'[v] = Mine(n)[v]
          /\ \A w \in DOMAIN ledger \ {v} : ledger'[w] = ledger[w]
        BY <1>2, <1>4, <2>1, <2>3 DEF CheckRow, RowAccepted, Following, Seen
    <2>5. \A w \in 1..v : w \in DOMAIN Mine(n) /\ w \in DOMAIN ledger /\ ledger'[w] = Mine(n)[w]
        BY <1>2, <2>3, <2>4 DEF Seen
    <2>6. v >= Cardinality(DOMAIN ledger) => DOMAIN ledger = 1..v
        BY <1>2, <2>5, AllCounted
    <2>7. \A w \in DOMAIN ledger : w > v => ledger'[w] = runner[n].seen[w]
        BY <1>2, <2>1, <2>3, <2>4 DEF Seen, Versions
    <2>8. runner'[n].at = v /\ runner'[n].seen = runner[n].seen /\ runner'[n].pc = "running"
        BY <1>4, <2>2 DEF CheckRow, Running, Shaped
    <2>9. Seen(n)'
        BY <2>1, <2>3, <2>5, <2>6, <2>7, <2>8 DEF Seen, Checked, Mine
    <2> QED
        BY <2>1, <2>2, <2>8, <2>9 DEF Locked, Seeing
<1>5. CASE ApplyNext(n)
    <2> DEFINE v == runner[n].at + 1
    <2>1. n \in lock /\ lock' = lock /\ release' = release /\ Checked(n) /\ v \in DOMAIN Mine(n)
          /\ ledger' = With(ledger, v, Mine(n)[v])
        BY <1>5 DEF ApplyNext, Session, Following
    <2>2. runner'[n] = [runner[n] EXCEPT !.at = v] /\ \A m \in lock : m = n
        BY <1>5, <2>1 DEF ApplyNext, Shaped, Locked
    <2>3. DOMAIN ledger = 1..runner[n].at /\ Seen(n)
        BY <2>1 DEF Seeing, Seen
    <2>4. DOMAIN ledger' = 1..v /\ ledger'[v] = Mine(n)[v] /\ \A w \in DOMAIN ledger : w # v => ledger'[w] = ledger[w]
        BY <1>2, <2>1, <2>3 DEF With
    <2>5. \A w \in 1..v : w \in DOMAIN Mine(n) /\ w \in DOMAIN ledger' /\ ledger'[w] = Mine(n)[w]
        BY <1>2, <2>1, <2>3, <2>4 DEF Seen
    <2>6. runner'[n].at = v /\ runner'[n].seen = runner[n].seen /\ runner'[n].pc = "running"
        BY <1>5, <2>2 DEF ApplyNext, Running, Shaped
    <2>7. v >= Cardinality(DOMAIN runner[n].seen)
        <3>1. Cardinality(DOMAIN runner[n].seen) \in Nat
            BY <1>2, VersionsCounted
        <3> QED
            BY <1>2, <2>1, <3>1 DEF Checked
    <2>8. Seen(n)'
        BY <2>1, <2>4, <2>5, <2>6, <2>7 DEF Seen, Checked, Mine
    <2> QED
        BY <2>1, <2>2, <2>6, <2>8 DEF Locked, Seeing
<1>6. CASE Finish(n) \/ RunnerFails(n)
    <2>1. lock' = lock \ {n} /\ ledger' = ledger /\ release' = release
          /\ \A m \in Replica \ {n} : runner'[m] = runner[m]
        BY <1>6 DEF Finish, RunnerFails, Unlock, Shaped
    <2>2. Held
        BY <2>1 DEF Held, Shaped
    <2> QED
        BY <2>2, HeldSees
<1> QED
    BY <1>3, <1>4, <1>5, <1>6 DEF Runner

\* Nobody but a runner at work touches what it goes by.
LEMMA OthersHold ==
    ASSUME Shaped, Guarded, Placed, Locked, [Next]_vars, \A n \in Replica : ~ Migrate(n)
    PROVE  Held
<1>1. ASSUME NEW n \in Replica, Start(n) PROVE Held
    <2>1. n \notin lock
        BY <1>1, WhoHolds DEF Start, Locked
    <2>2. \A m \in Replica \ {n} : runner'[m] = runner[m] /\ release'[m] = release[m]
        BY <1>1, WaitTyped DEF Start, Shaped
    <2> QED
        BY <1>1, <2>1, <2>2 DEF Start, Held, database, Shaped
<1>2. ASSUME NEW n \in Replica, Serve(n) PROVE Held
    <2>1. n \notin lock
        BY <1>2 DEF Serve, Locked
    <2> QED
        BY <1>2, <2>1 DEF Serve, Held, database, Shaped
<1>3. ASSUME NEW n \in Replica, StartFails(n) \/ Stop(n) PROVE Held
    BY <1>3 DEF StartFails, Stop, Gone, Unlock, Held, Shaped
<1>4. ASSUME NEW n \in Replica, Cut(n) \/ CreateTenant(n) PROVE Held
    BY <1>4 DEF Cut, SessionLost, CreateTenant, Unlock, Held
<1>5. ASSUME NEW n \in Replica, NEW q \in Request, Ask(q, n) PROVE Held
    BY <1>5 DEF Ask, Held, database
<1>6. ASSUME NEW q \in Request, Enter(q) \/ Bootstrap(q) \/ WriteLock(q) PROVE Held
    BY <1>6 DEF Enter, Bootstrap, WriteLock, Held, database
<1>7. ASSUME NEW q \in Request, OpenDatabase(q) \/ CreateDatabase(q) PROVE Held
    <2>1. request[q].pc \in {"opening", "creating"}
        BY <1>7 DEF OpenDatabase, CreateDatabase, At
    <2>2. Host(q) \in Replica /\ mu[Host(q)] = q /\ phase[Host(q)] = "serving"
        BY <2>1 DEF Placed, Pending
    <2>3. runner[Host(q)].pc = "idle"
        BY <2>1, <2>2 DEF Guarded, At, Pending
    <2>4. \A m \in Replica \ {Host(q)} : runner'[m] = runner[m]
        BY <1>7, <2>2, WaitTyped DEF OpenDatabase, CreateDatabase
    <2>5. Host(q) \notin lock
        BY <2>3 DEF Locked
    <2> QED
        BY <1>7, <2>4, <2>5 DEF OpenDatabase, CreateDatabase, Held, database, Shaped
<1>8. ASSUME NEW q \in Request, Migrated(q) PROVE Held
    <2>1. Host(q) \notin lock
        BY <1>8 DEF Migrated, Locked
    <2> QED
        BY <1>8, <2>1 DEF Migrated, Held, database, Shaped
<1>9. ASSUME NEW q \in Request, InstallFails(q) PROVE Held
    <2>1. CASE UNCHANGED runner
        BY <1>9, <2>1 DEF InstallFails, Held, database
    <2>2. CASE runner[Host(q)].pc # "running" /\ runner' = [runner EXCEPT ![Host(q)] = Resting]
        BY <1>9, <2>2 DEF InstallFails, Held, database, Shaped, Locked
    <2> QED
        BY <1>9, <2>1, <2>2 DEF InstallFails
<1>10. CASE UNCHANGED vars
    BY <1>10 DEF vars, Held, database
<1> QED
    BY <1>1, <1>2, <1>3, <1>4, <1>5, <1>6, <1>7, <1>8, <1>9, <1>10 DEF Next, Install

LEMMA SeeingStep ==
    Shaped /\ Guarded /\ Placed /\ Locked /\ Seeing /\ [Next]_vars => Locked' /\ Seeing'
<1> SUFFICES ASSUME Shaped, Guarded, Placed, Locked, Seeing, [Next]_vars PROVE Locked' /\ Seeing'
    OBVIOUS
<1>1. ASSUME NEW n \in Replica, Migrate(n) PROVE Locked' /\ Seeing'
    <2>1. Runner(n) /\ runner[n].pc # "idle"
        BY <1>1 DEF Migrate, Runner, LockAndLoad, CheckRow, ApplyNext, Finish, RunnerFails, Running
    <2>2. release[n] \in Release
        BY <2>1, WhoRuns
    <2> QED
        BY <2>1, <2>2, RunnerSees
<1>2. CASE \A n \in Replica : ~ Migrate(n)
    BY <1>2, OthersHold, HeldSees
<1> QED
    BY <1>1, <1>2

-----------------------------------------------------------------------------
(* Replicas with workers and the ledger *)

\* The ledger has each migration of the replica's release, as it is there.
Agrees(n) == \A v \in DOMAIN Mine(n) : v \in DOMAIN ledger /\ ledger[v] = Mine(n)[v]

\* It was checked for the replica's start, or for an installation it is at.
Vouched(n) ==
    \/ runner[n].pc = "done"
    \/ workers[n] /\ phase[n] = "serving"
    \/ \E q \in Request : request[q].pc \in {"installing", "marking"} /\ Host(q) = n

Agreed == \A n \in Replica : Vouched(n) => release[n] \in Release /\ Agrees(n)

\* A row of the ledger that has a checksum keeps it.
LedgerGrows ==
    /\ DOMAIN ledger \subseteq DOMAIN ledger'
    /\ \A v \in DOMAIN ledger : ledger[v] # NoDigest => ledger'[v] = ledger[v]

LEMMA AgreesOn ==
    ASSUME NEW n \in Replica, release[n] \in Release, release'[n] = release[n], Agrees(n), LedgerGrows
    PROVE  Agrees(n)'
<1>1. PICK k \in Versions : /\ DOMAIN Mine(n) = 1..k
                            /\ \A v \in 1..k : Mine(n)[v] \in Digest /\ Mine(n)[v] # NoDigest
    BY MineTyped
<1>2. Mine(n)' = Mine(n)
    BY DEF Mine
<1> QED
    BY <1>1, <1>2 DEF Agrees, LedgerGrows

LEMMA GrowsStep == Shaped /\ Locked /\ Seeing /\ [Next]_vars => LedgerGrows
<1> SUFFICES ASSUME Shaped, Locked, Seeing, [Next]_vars PROVE LedgerGrows
    OBVIOUS
<1>1. ASSUME NEW n \in Replica, CheckRow(n) PROVE LedgerGrows
    BY <1>1 DEF CheckRow, LedgerGrows
<1>2. ASSUME NEW n \in Replica, ApplyNext(n) PROVE LedgerGrows
    BY <1>2 DEF ApplyNext, LedgerGrows, With
<1>3. CASE ledger' = ledger
    BY <1>3 DEF LedgerGrows
<1>4. ASSUME NEW n \in Replica, LockAndLoad(n) \/ Finish(n) \/ RunnerFails(n) PROVE ledger' = ledger
    BY <1>4 DEF LockAndLoad, Finish, RunnerFails
<1>5. ASSUME NEW n \in Replica, Start(n) \/ Serve(n) \/ StartFails(n) \/ Stop(n) \/ Cut(n) \/ CreateTenant(n)
      PROVE ledger' = ledger
    BY <1>5 DEF Start, Serve, StartFails, Stop, Gone, Cut, SessionLost, CreateTenant, database
<1>6. ASSUME NEW n \in Replica, NEW q \in Request, Ask(q, n) PROVE ledger' = ledger
    BY <1>6 DEF Ask, database
<1>7. ASSUME NEW q \in Request, Enter(q) \/ Install(q) PROVE ledger' = ledger
    BY <1>7 DEF Enter, Install, OpenDatabase, CreateDatabase, Migrated, Bootstrap, WriteLock, InstallFails, database
<1>8. CASE UNCHANGED vars
    BY <1>8, <1>3 DEF vars, database
<1> QED
    BY <1>1, <1>2, <1>3, <1>4, <1>5, <1>6, <1>7, <1>8 DEF Next, Migrate, Runner

\* A step that keeps a replica's release vouches only for what was vouched for, or for
\* a runner that finds nothing more to do.
LEMMA VouchedBefore ==
    ASSUME Referring(db), Shaped, Guarded, Placed, Locked, Seeing, Agreed, [Next]_vars,
           NEW n \in Replica, Vouched(n)'
    PROVE  release[n] \in Release /\ release'[n] = release[n] /\ Agrees(n)
<1> USE DEF At, Host
<1>0. CASE Vouched(n) /\ release'[n] = release[n]
    BY <1>0 DEF Agreed
<1>1. ASSUME NEW m \in Replica, Start(m) PROVE Vouched(n) /\ release'[n] = release[n]
    <2>1. phase[m] = "down" /\ UNCHANGED request
        BY <1>1 DEF Start, installing
    <2>2. CASE n = m
        <3>1. \A q \in Request : request[q].pc \in Pending => request[q].at # n
            BY <2>1, <2>2, WhoHolds
        <3>2. runner'[n].pc # "done"
            BY <1>1, <2>1, <2>2, WhoHolds, WaitTyped DEF Start
        <3>3. ~ (workers'[n] /\ phase'[n] = "serving")
            BY <1>1, <2>2 DEF Start, Shaped
        <3> QED
            BY <2>1, <3>1, <3>2, <3>3 DEF Vouched, Pending
    <2>3. CASE n # m
        <3>1. runner'[n] = runner[n] /\ workers'[n] = workers[n] /\ phase'[n] = phase[n] /\ release'[n] = release[n]
            BY <1>1, <2>3, WaitTyped DEF Start, Shaped
        <3> QED
            BY <2>1, <3>1 DEF Vouched
    <2> QED
        BY <2>2, <2>3
<1>2. ASSUME NEW m \in Replica, Serve(m) PROVE Vouched(n) /\ release'[n] = release[n]
    <2>1. UNCHANGED <<release, workers, request>> /\ runner[m].pc = "done"
        BY <1>2 DEF Serve, installing
    <2>2. n # m => runner'[n] = runner[n] /\ phase'[n] = phase[n]
        BY <1>2 DEF Serve, Shaped
    <2> QED
        BY <2>1, <2>2 DEF Vouched
<1>3. ASSUME NEW m \in Replica, StartFails(m) \/ Stop(m) PROVE Vouched(n) /\ release'[n] = release[n]
    <2>1. Gone(m)
        BY <1>3 DEF StartFails, Stop
    <2>2. \A q \in Request : request'[q].pc \in {"installing", "marking"} => request'[q] = request[q] /\ request[q].at # m
        BY <2>1 DEF Gone, Answered
    <2>3. runner'[m].pc = "idle" /\ phase'[m] = "down"
        BY <2>1 DEF Gone, Resting, Shaped
    <2>4. n # m
        BY <2>2, <2>3 DEF Vouched
    <2>5. runner'[n] = runner[n] /\ workers'[n] = workers[n] /\ phase'[n] = phase[n] /\ release'[n] = release[n]
        BY <2>1, <2>4 DEF Gone, Shaped
    <2> QED
        BY <2>2, <2>5 DEF Vouched
<1>4. ASSUME NEW m \in Replica, Finish(m), UNCHANGED <<replicas, installing>>
      PROVE  release[n] \in Release /\ release'[n] = release[n] /\ Agrees(n)
    <2>1. UNCHANGED <<release, workers, phase, request>>
        BY <1>4 DEF Finish, replicas, installing
    <2>2. CASE n = m
        <3>1. release[n] \in Release
            BY <1>4, <2>2, WhoRuns DEF Finish, Running
        <3>2. PICK k \in Versions : DOMAIN Mine(n) = 1..k
            BY <3>1, MineTyped
        <3>3. Seen(n) /\ DOMAIN ledger = 1..runner[n].at /\ runner[n].at + 1 \notin 1..k /\ runner[n].at \in Nat
            BY <1>4, <2>2, <3>2 DEF Finish, Session, Seeing, Seen, Following, Shaped, Versions
        <3>4. \A v \in 1..k : v \in 1..runner[n].at
            BY <3>3 DEF Versions
        <3> QED
            BY <2>1, <3>1, <3>2, <3>3, <3>4 DEF Agrees, Seen
    <2>3. CASE n # m
        <3>1. runner'[n] = runner[n]
            BY <1>4, <2>3 DEF Finish, Shaped
        <3>2. Vouched(n)
            BY <2>1, <3>1 DEF Vouched
        <3> QED
            BY <2>1, <3>2 DEF Agreed
    <2> QED
        BY <2>2, <2>3
<1>5. ASSUME NEW m \in Replica, LockAndLoad(m) \/ CheckRow(m) \/ ApplyNext(m) \/ RunnerFails(m),
             UNCHANGED <<replicas, installing>>
      PROVE  Vouched(n) /\ release'[n] = release[n]
    <2>1. UNCHANGED <<release, workers, phase, request>>
        BY <1>5 DEF LockAndLoad, CheckRow, ApplyNext, RunnerFails, replicas, installing
    <2>2. runner'[n].pc = "done" => runner[n].pc = "done"
        <3>1. n # m => runner'[n] = runner[n]
            BY <1>5 DEF LockAndLoad, CheckRow, ApplyNext, RunnerFails, Shaped
        <3>2. ASSUME CheckRow(m) \/ ApplyNext(m) PROVE runner'[m].pc = "running"
            <4>1. runner' = [runner EXCEPT ![m].at = @ + 1] /\ runner[m].pc = "running"
                BY <3>2 DEF CheckRow, ApplyNext, Running
            <4>2. runner' = [runner EXCEPT ![m] = [runner[m] EXCEPT !.at = @ + 1]]
                BY <4>1
            <4> QED
                BY <4>1, <4>2 DEF Shaped
        <3>3. ASSUME LockAndLoad(m) \/ RunnerFails(m) PROVE runner'[m].pc # "done"
            BY <3>3 DEF LockAndLoad, RunnerFails, Resting, Shaped
        <3> QED
            BY <1>5, <3>1, <3>2, <3>3
    <2> QED
        BY <2>1, <2>2 DEF Vouched
<1>6. ASSUME NEW m \in Replica, Cut(m) \/ CreateTenant(m) PROVE Vouched(n) /\ release'[n] = release[n]
    BY <1>6 DEF Cut, SessionLost, CreateTenant, replicas, installing, Vouched
<1>7. ASSUME NEW m \in Replica, NEW q \in Request, Ask(q, m) PROVE Vouched(n) /\ release'[n] = release[n]
    <2>1. UNCHANGED <<release, runner, workers, phase>>
        BY <1>7 DEF Ask, replicas
    <2>2. \A p \in Request : request'[p].pc \in {"installing", "marking"} => request'[p] = request[p]
        <3>1. request'[q].pc \in {"conflict", "queued"}
            <4>1. CASE Answer(q, "conflict")
                BY <4>1, AnswerTyped DEF Ended
            <4>2. CASE request' = [request EXCEPT ![q] = [pc |-> "queued", at |-> m]]
                BY <4>2 DEF Shaped
            <4> QED
                BY <1>7, <4>1, <4>2 DEF Ask
        <3>2. \A p \in Request \ {q} : request'[p] = request[p]
            BY <1>7, AnswerTyped DEF Ask, Ended, Shaped
        <3> QED
            BY <3>1, <3>2
    <2> QED
        BY <2>1, <2>2 DEF Vouched
<1>8. ASSUME NEW q \in Request, Enter(q) \/ OpenDatabase(q) \/ CreateDatabase(q)
      PROVE  Vouched(n) /\ release'[n] = release[n]
    <2>1. UNCHANGED <<release, workers, phase>> /\ request[q].pc \in Pending
        BY <1>8 DEF Enter, OpenDatabase, CreateDatabase, replicas, Pending
    <2>2. Host(q) \in Replica
        BY <2>1 DEF Placed
    <2>3. \A p \in Request : request'[p].pc \in {"installing", "marking"} => request'[p] = request[p]
        <3>1. Answer(q, "error") \/ \E pc \in {"opening", "creating", "migrating"} : Goes(q, pc)
            BY <1>8 DEF Enter, OpenDatabase, CreateDatabase
        <3>2. CASE Answer(q, "error")
            BY <3>2, AnswerTyped DEF Ended
        <3>3. ASSUME NEW pc \in {"opening", "creating", "migrating"}, Goes(q, pc)
              PROVE  request'[q].pc = pc /\ \A p \in Request \ {q} : request'[p] = request[p]
            <4>1. pc \in Pending /\ Goes(q, pc)
                BY <3>3 DEF Pending
            <4>2. request'[q] = [pc |-> pc, at |-> request[q].at] /\ \A p \in Request \ {q} : request'[p] = request[p]
                BY <4>1, GoesTyped DEF Host
            <4> QED
                BY <4>2
        <3> QED
            BY <3>1, <3>2, <3>3
    <2>4. runner'[n].pc = "done" => runner[n].pc = "done"
        BY <1>8, <2>2, WaitTyped DEF Enter, OpenDatabase, CreateDatabase
    <2> QED
        BY <2>1, <2>3, <2>4 DEF Vouched
<1>9. ASSUME NEW q \in Request, Migrated(q) PROVE Vouched(n) /\ release'[n] = release[n]
    <2>1. UNCHANGED <<release, workers, phase>> /\ Goes(q, "installing") /\ runner[Host(q)].pc = "done"
        BY <1>9 DEF Migrated, replicas
    <2>2. \A p \in Request \ {q} : request'[p] = request[p]
        BY <2>1, GoesTyped DEF Pending
    <2>3. request'[q] = [pc |-> "installing", at |-> request[q].at]
        BY <2>1, GoesTyped DEF Pending
    <2>4. runner'[n].pc = "done" => runner[n].pc = "done"
        BY <1>9 DEF Migrated, Resting, Shaped
    <2>5. runner[n].pc = "done" \/ Host(q) # n
        BY <2>1
    <2> QED
        BY <2>1, <2>2, <2>3, <2>4, <2>5 DEF Vouched
<1>10. ASSUME NEW q \in Request, Bootstrap(q) \/ WriteLock(q) \/ InstallFails(q)
       PROVE  Vouched(n) /\ release'[n] = release[n]
    <2>1. UNCHANGED <<release, workers, phase>>
        BY <1>10 DEF Bootstrap, WriteLock, InstallFails, replicas
    <2>2. \A p \in Request : request'[p].pc \in {"installing", "marking"} =>
             request[p].pc \in {"installing", "marking"} /\ request'[p].at = request[p].at
        BY <1>10 DEF Bootstrap, WriteLock, InstallFails, Ends, Answer, Answered, Goes, Shaped
    <2>3. runner'[n].pc = "done" => runner[n].pc = "done"
        BY <1>10 DEF Bootstrap, WriteLock, InstallFails, Resting, Shaped
    <2> QED
        BY <2>1, <2>2, <2>3 DEF Vouched
<1>11. CASE UNCHANGED vars
    BY <1>11, <1>0 DEF vars, Vouched, replicas, installing
<1> QED
    BY <1>0, <1>1, <1>2, <1>3, <1>4, <1>5, <1>6, <1>7, <1>8, <1>9, <1>10, <1>11 DEF Next, Install, Migrate, Runner

LEMMA AgreedStep ==
    Referring(db) /\ Shaped /\ Guarded /\ Placed /\ Locked /\ Seeing /\ Agreed /\ [Next]_vars => Agreed'
<1> SUFFICES ASSUME Referring(db), Shaped, Guarded, Placed, Locked, Seeing, Agreed, [Next]_vars,
                    NEW n \in Replica, Vouched(n)'
             PROVE  release'[n] \in Release /\ Agrees(n)'
    BY DEF Agreed
<1>1. release[n] \in Release /\ release'[n] = release[n] /\ Agrees(n)
    BY VouchedBefore
<1> QED
    BY <1>1, GrowsStep, AgreesOn

-----------------------------------------------------------------------------
(* The rows, from one migration to the next *)

Stage ==
    /\ found \in Starting /\ DOMAIN found.ledger \subseteq DOMAIN ledger
    /\ IF 6 \in DOMAIN ledger THEN Late(db, found) ELSE Early(db, DOMAIN ledger, found)

LEMMA StageRefers == Stage => Referring(db) /\ found \in Starting
    BY DEF Stage, Late, Early

\* A stage depends on the rows, on the versions of the ledger and on what was found.
StageOf(d, h, f) == IF 6 \in h THEN Late(d, f) ELSE Early(d, h, f)

LEMMA StageIs ==
    /\ Stage <=> found \in Starting /\ DOMAIN found.ledger \subseteq DOMAIN ledger
                   /\ StageOf(db, DOMAIN ledger, found)
    /\ Stage' <=> found' \in Starting /\ DOMAIN found'.ledger \subseteq DOMAIN ledger'
                   /\ StageOf(db', DOMAIN ledger', found')
    BY DEF Stage, StageOf, Late, Early, Referring, Blank, SameTenants, Active, Passed, Reached, AheadIn,
           MissingIn, GapIn, Kept, HadIn, ComingIn

LEMMA StageTyped ==
    /\ Stage => db.marker \in BOOLEAN
    /\ Stage' => db'.marker \in BOOLEAN
    BY DEF Stage, Late, Early, Referring, Databases

\* No tenant was made by an installation.
NotMade(d) == \A t \in DOMAIN d.origin : d.origin[t] # "bootstrap"

LEMMA EarlyNotMade ==
    ASSUME NEW d, NEW h, NEW f, Found(f), Early(d, h, f), 6 \notin DOMAIN f.ledger
    PROVE  NotMade(d)
    BY DEF Found, Early, Blank, Installed, SameTenants, NotMade

\* The migration after the first k.
LEMMA NextEffect ==
    ASSUME NEW d, NEW k \in {0} \cup Versions, k < 6, NEW f, Found(f), DOMAIN f.ledger \subseteq 1..k,
           Early(d, 1..k, f), NEW t, DOMAIN d.origin = {} => t \in Tenant
    PROVE  LET e == Effect(k + 1, d, t) IN
           /\ e.marker = d.marker /\ NotMade(e)
           /\ IF k = 5 THEN Late(e, f) ELSE Early(e, 1..(k + 1), f)
<1> DEFINE e == Effect(k + 1, d, t)
<1>1. \A v \in {3, 4} : /\ Passed(1..k, f, v) <=> AheadIn(f, v) /\ v <= k
                        /\ Passed(1..(k + 1), f, v) <=> AheadIn(f, v) /\ v <= k + 1
    BY DEF Passed, Reached, Versions
<1>2. AheadIn(f, k + 1) /\ 6 \notin DOMAIN f.ledger
    BY DEF AheadIn, Versions
<1>3. CASE k = 2
    <2>1. e = UserLifecycle(d)
        BY <1>3 DEF Effect
    <2>2. Early(e, 1..(k + 1), f)
        BY <1>1, <1>2, <1>3, <2>1, ThirdStep
    <2>3. e.marker = d.marker
        BY <2>2 DEF Early, SameTenants
    <2> QED
        BY <1>2, <1>3, <2>2, <2>3, EarlyNotMade
<1>4. CASE k = 3
    <2>1. e = AuditEvents(d)
        BY <1>4 DEF Effect
    <2>2. Early(e, 1..(k + 1), f)
        BY <1>1, <1>2, <1>4, <2>1, FourthStep
    <2>3. e.marker = d.marker
        BY <2>2 DEF Early, SameTenants
    <2> QED
        BY <1>2, <1>4, <2>2, <2>3, EarlyNotMade
<1>5. CASE k = 5
    <2>1. e = EnterpriseFoundation(d, t)
        BY <1>5 DEF Effect
    <2>2. AheadIn(f, 6) /\ \A v \in {3, 4} : Passed(1..k, f, v) <=> AheadIn(f, v)
        BY <1>1, <1>2, <1>5
    <2> QED
        BY <1>5, <2>1, <2>2, SixthStep DEF NotMade
<1>6. CASE k \in {0, 1, 4}
    <2>1. e = d
        BY <1>6 DEF Effect
    <2>2. \A v \in {3, 4} : Passed(1..(k + 1), f, v) <=> Passed(1..k, f, v)
        BY <1>1, <1>6
    <2>3. Early(e, 1..(k + 1), f)
        BY <2>1, <2>2, SameStep
    <2> QED
        BY <1>2, <1>6, <2>1, <2>3, EarlyNotMade
<1> QED
    BY <1>3, <1>4, <1>5, <1>6 DEF Versions

LEMMA ApplyStage ==
    ASSUME Shaped, Seeing, Stage, NEW n \in Replica, release[n] \in Release, ApplyNext(n)
    PROVE  Stage' /\ db'.marker = db.marker /\ NotMade(db') /\ 6 \notin DOMAIN ledger /\ NotMade(db)
<1> DEFINE k == runner[n].at
<1>1. PICK top \in Versions : DOMAIN Mine(n) = 1..top
    BY MineTyped
<1>2. k \in {0} \cup Versions /\ DOMAIN ledger = 1..k /\ k + 1 \in 1..top
    BY <1>1 DEF Shaped, Seeing, Seen, ApplyNext, Session, Following
<1>3. k < 6 /\ 6 \notin DOMAIN ledger
    BY <1>2 DEF Versions
<1>4. /\ Early(db, 1..k, found) /\ found \in Starting /\ Found(found)
      /\ DOMAIN found.ledger \subseteq 1..k /\ found' = found
    BY <1>2, <1>3, StartingFound DEF Stage, ApplyNext
<1>5. PICK new \in IF DOMAIN db.origin = {} THEN Tenant ELSE {NoTenant} : db' = Effect(k + 1, db, new)
    BY DEF ApplyNext, Following
<1>6. DOMAIN ledger' = 1..(k + 1)
    BY <1>2 DEF ApplyNext, With, Following, Versions
<1> HIDE DEF k
<1>7. /\ db'.marker = db.marker /\ NotMade(db')
      /\ IF k = 5 THEN Late(db', found) ELSE Early(db', 1..(k + 1), found)
    BY <1>2, <1>3, <1>4, <1>5, NextEffect
<1>8. 6 \in DOMAIN ledger' <=> k = 5
    BY <1>2, <1>3, <1>6 DEF Versions
<1>9. DOMAIN found.ledger \subseteq DOMAIN ledger'
    BY <1>2, <1>4, <1>6 DEF Versions
<1>10. StageOf(db', DOMAIN ledger', found)
    BY <1>6, <1>7, <1>8 DEF StageOf
<1>11. Stage'
    BY <1>4, <1>9, <1>10, StageIs
<1>12. NotMade(db)
    BY <1>3, <1>4, <1>2, EarlyNotMade
<1> QED
    BY <1>3, <1>7, <1>11, <1>12

\* The database is created empty.
LEMMA ExistsStage ==
    ASSUME Stage, db' = [db EXCEPT !.exists = TRUE], ledger' = ledger, found' = found
    PROVE  Stage' /\ db'.marker = db.marker /\ db'.origin = db.origin
<1>1. db' \in Databases /\ db'.exists /\ db' = [db EXCEPT !.exists = TRUE]
    BY StageRefers DEF Referring, Databases
<1>2. /\ db'.marker = db.marker /\ db'.roles = db.roles /\ db'.company = db.company /\ db'.admin = db.admin
      /\ db'.origin = db.origin /\ db'.oldest = db.oldest /\ db'.primary = db.primary
      /\ db'.perms = db.perms /\ db'.roleGrants = db.roleGrants /\ db'.grants = db.grants
      /\ db'.members = db.members /\ db'.settings = db.settings
      /\ db'.plans = db.plans /\ db'.isolated = db.isolated
    BY StageRefers DEF Referring, Databases
<1>3. SameTenants(db', db) /\ Referring(db') /\ Active(db') = Active(db)
    BY <1>1, <1>2, StageRefers DEF SameTenants, Referring, Active
<1>4. CASE 6 \in DOMAIN ledger
    <2>1. Late(db, found)
        BY <1>4 DEF Stage
    <2>2. \A t : /\ MissingIn(db', t) = MissingIn(db, t)
                 /\ HadIn(db', found, t) = HadIn(db, found, t) /\ ComingIn(db', found, t) = ComingIn(db, found, t)
        BY <1>2 DEF MissingIn, HadIn, ComingIn
    <2>3. \A t : GapIn(db', found, t) = GapIn(db, found, t)
        BY <1>2, <2>2 DEF GapIn, Kept
    <2>4. Late(db', found)
        BY <1>2, <1>3, <2>1, <2>2, <2>3 DEF Late, Blank
    <2> QED
        BY <1>2, <1>4, <2>4, StageIs DEF StageOf
<1>5. CASE 6 \notin DOMAIN ledger
    <2>1. Early(db, DOMAIN ledger, found)
        BY <1>5 DEF Stage
    <2>2. SameTenants(db', found.db)
        BY <1>3, <2>1 DEF Early, SameTenants
    <2>3. Early(db', DOMAIN ledger, found)
        BY <1>2, <1>3, <2>1, <2>2 DEF Early
    <2> QED
        BY <1>2, <1>5, <2>3, StageIs DEF StageOf
<1> QED
    BY <1>2, <1>4, <1>5

\* A replica that agrees with the ledger and has every migration finds the last one.
LEMMA LastIsIn ==
    ASSUME NEW n, Agrees(n), Current(n)
    PROVE  6 \in DOMAIN ledger
    BY DEF Agrees, Current, Versions

LEMMA BootstrapStage ==
    ASSUME Placed, Agreed, Stage, NEW q \in Request, Bootstrap(q)
    PROVE  /\ Stage' /\ ~ db.marker /\ db'.marker /\ 6 \in DOMAIN ledger /\ ledger' = ledger
           /\ \E t \in DOMAIN db'.origin : {u \in DOMAIN db'.origin : db'.origin[u] = "bootstrap"} = {t}
<1>1. request[q].pc = "installing" /\ ~ db.marker /\ ledger' = ledger /\ found' = found
    BY DEF Bootstrap, At, SettingsInserted
<1>2. Host(q) \in Replica /\ Current(Host(q))
    BY <1>1 DEF Placed, Pending
<1>3. Agrees(Host(q))
    BY <1>1, <1>2 DEF Agreed, Vouched
<1>4. 6 \in DOMAIN ledger /\ Late(db, found)
    BY <1>2, <1>3, LastIsIn DEF Stage
<1>5. PICK t \in Tenant \ DOMAIN db.origin : db' = Bootstrapped(db, t)
    BY DEF Bootstrap
<1>6. NoTenant \notin Tenant
    BY MigrationsAssumption
<1>7. Late(db', found) /\ db'.marker /\ DOMAIN db'.origin = {t} /\ db'.origin[t] = "bootstrap"
    BY <1>1, <1>4, <1>5, <1>6, BootstrapLate
<1>8. Stage'
    BY <1>1, <1>4, <1>7, StageIs DEF StageOf
<1> QED
    BY <1>1, <1>4, <1>7, <1>8

LEMMA CreateTenantStage ==
    ASSUME Stage, NEW n \in Replica, CreateTenant(n)
    PROVE  /\ Stage' /\ db.marker /\ db'.marker
           /\ {u \in DOMAIN db'.origin : db'.origin[u] = "bootstrap"} =
              {u \in DOMAIN db.origin : db.origin[u] = "bootstrap"}
<1>1. db.marker /\ Vocabulary \subseteq db.perms /\ ledger' = ledger /\ found' = found
    BY DEF CreateTenant
<1>2. "tenant.view" \in db.perms
    BY <1>1 DEF Vocabulary
<1>3. 6 \in DOMAIN ledger /\ Late(db, found)
    BY <1>2 DEF Stage, Early
<1>4. PICK t \in Tenant \ DOMAIN db.origin :
         db' = NewTenant(db, t, "created", DefaultGrants \ {<<"super_admin", "audit.view">>})
    BY DEF CreateTenant
<1>5. NoTenant \notin Tenant
    BY MigrationsAssumption
<1>6. TenantMade(db', db, found, t)
    BY <1>1, <1>3, <1>4, <1>5, CreateTenantLate
<1>7. Stage'
    BY <1>1, <1>3, <1>6, StageIs DEF StageOf, TenantMade
<1>8. {u \in DOMAIN db'.origin : db'.origin[u] = "bootstrap"} = {u \in DOMAIN db.origin : db.origin[u] = "bootstrap"}
    BY <1>6 DEF TenantMade
<1> QED
    BY <1>1, <1>6, <1>7, <1>8 DEF TenantMade

\* The tenants made by an installation.
Installations(d) == {t \in DOMAIN d.origin : d.origin[t] = "bootstrap"}

\* Only an installation writes the marker, or a tenant of its kind.
SameMark ==
    /\ db'.marker = db.marker /\ Installations(db') = Installations(db)
    /\ committed' = committed

LEMMA StageStep ==
    ASSUME Shaped, Guarded, Placed, Locked, Seeing, Agreed, Stage, [Next]_vars
    PROVE  Stage' /\ (SameMark \/ \E q \in Request : Bootstrap(q))
<1>1. ASSUME UNCHANGED <<db, committed, found>>, DOMAIN ledger' = DOMAIN ledger PROVE Stage' /\ SameMark
    <2>1. Stage'
        BY <1>1, StageIs
    <2> QED
        BY <1>1, <2>1 DEF SameMark, Installations
<1>2. ASSUME NEW n \in Replica, Migrate(n) PROVE Stage' /\ SameMark
    <2>1. CASE ApplyNext(n)
        <3>1. release[n] \in Release
            BY <2>1, WhoRuns DEF ApplyNext, Running
        <3>2. Stage' /\ db'.marker = db.marker /\ NotMade(db') /\ NotMade(db)
            BY <2>1, <3>1, ApplyStage
        <3>3. Installations(db') = {} /\ Installations(db) = {}
            BY <3>2 DEF NotMade, Installations
        <3> QED
            BY <1>2, <3>2, <3>3 DEF SameMark, Migrate, installing
    <2>2. CASE CheckRow(n)
        <3>1. UNCHANGED <<db, committed, found>> /\ DOMAIN ledger' = DOMAIN ledger
            BY <1>2, <2>2 DEF CheckRow, Migrate, installing
        <3> QED
            BY <1>1, <3>1
    <2>3. CASE LockAndLoad(n) \/ Finish(n) \/ RunnerFails(n)
        <3>1. UNCHANGED <<db, committed, ledger, found>>
            BY <1>2, <2>3 DEF LockAndLoad, Finish, RunnerFails, Migrate, installing
        <3> QED
            BY <1>1, <3>1
    <2> QED
        BY <1>2, <2>1, <2>2, <2>3 DEF Migrate, Runner
<1>3. ASSUME NEW n \in Replica, CreateTenant(n) PROVE Stage' /\ SameMark
    <2>1. committed' = committed
        BY <1>3 DEF CreateTenant, installing
    <2>2. Stage' /\ db.marker /\ db'.marker /\ Installations(db') = Installations(db)
        BY <1>3, CreateTenantStage DEF Installations
    <2>3. db.marker \in BOOLEAN /\ db'.marker \in BOOLEAN
        BY <2>2, StageTyped
    <2> QED
        BY <2>1, <2>2, <2>3 DEF SameMark
<1>4. ASSUME NEW n \in Replica, Start(n) \/ Serve(n) \/ StartFails(n) \/ Stop(n) \/ Cut(n)
      PROVE  UNCHANGED <<db, committed, ledger, found>>
    BY <1>4 DEF Start, Serve, StartFails, Stop, Gone, Cut, SessionLost, database, installing
<1>5. ASSUME NEW n \in Replica, NEW q \in Request, Ask(q, n) PROVE UNCHANGED <<db, committed, ledger, found>>
    BY <1>5 DEF Ask, database
<1>6. ASSUME NEW q \in Request, CreateDatabase(q) PROVE Stage' /\ SameMark
    <2>1. db' = [db EXCEPT !.exists = TRUE] /\ UNCHANGED <<ledger, found, committed>>
        BY <1>6 DEF CreateDatabase
    <2>2. Stage' /\ db'.marker = db.marker /\ db'.origin = db.origin
        BY <2>1, ExistsStage
    <2> QED
        BY <2>1, <2>2 DEF SameMark, Installations
<1>7. ASSUME NEW q \in Request, Enter(q) \/ OpenDatabase(q) \/ Migrated(q) \/ WriteLock(q) \/ InstallFails(q)
      PROVE  UNCHANGED <<db, committed, ledger, found>>
    BY <1>7 DEF Enter, OpenDatabase, Migrated, WriteLock, InstallFails, database
<1>8. ASSUME NEW q \in Request, Bootstrap(q) PROVE Stage'
    BY <1>8, BootstrapStage
<1>9. CASE UNCHANGED vars
    BY <1>1, <1>9 DEF vars, database, installing
<1>10. CASE UNCHANGED <<db, committed, ledger, found>>
    BY <1>1, <1>10
<1> QED
    BY <1>2, <1>3, <1>4, <1>5, <1>6, <1>7, <1>8, <1>9, <1>10 DEF Next, Install

-----------------------------------------------------------------------------
(* One installation *)

Once ==
    /\ committed = {} => Installations(db) = {}
    /\ committed # {} => /\ db.marker
                         /\ \E q \in Request : committed = {q}
                         /\ \E t \in DOMAIN db.origin : Installations(db) = {t}
    /\ \A q \in Request : /\ request[q].pc \in {"marking", "created"} => q \in committed
                          /\ request[q].pc = "conflict" => db.marker
    /\ \A n \in Replica : lockFile[n] => committed # {}

\* What a client and a lock file say of the installation was said before.
SaidBefore ==
    /\ \A p \in Request : request'[p].pc \in {"marking", "created", "conflict"} => request'[p].pc = request[p].pc
    /\ \A n \in Replica : lockFile'[n] => lockFile[n]

LEMMA SaidKeeps ==
    ASSUME Once, Stage, Stage', SameMark, SaidBefore
    PROVE  Once'
<1>1. \A t : t \in Installations(db') => t \in DOMAIN db'.origin
    BY DEF Installations
<1> QED
    BY <1>1 DEF Once, SameMark, SaidBefore

LEMMA SaidStep ==
    ASSUME Shaped, Placed, [Next]_vars,
           \A q \in Request : ~ Bootstrap(q) /\ ~ WriteLock(q) /\ \A n \in Replica : ~ Ask(q, n)
    PROVE  SaidBefore
<1>1. CASE UNCHANGED <<request, lockFile>>
    BY <1>1 DEF SaidBefore
<1>2. ASSUME NEW n \in Replica, Start(n) PROVE SaidBefore
    BY <1>2 DEF Start, SaidBefore, installing, Shaped
<1>3. ASSUME NEW n \in Replica, StartFails(n) \/ Stop(n) PROVE SaidBefore
    BY <1>3 DEF StartFails, Stop, Gone, Answered, SaidBefore
<1>4. ASSUME NEW n \in Replica, Serve(n) \/ Migrate(n) \/ Cut(n) \/ CreateTenant(n)
      PROVE  UNCHANGED <<request, lockFile>>
    BY <1>4 DEF Serve, Migrate, Cut, CreateTenant, replicas, installing
<1>5. ASSUME NEW q \in Request, Enter(q) \/ OpenDatabase(q) \/ CreateDatabase(q) \/ Migrated(q) \/ InstallFails(q)
      PROVE  SaidBefore
    <2>1. UNCHANGED lockFile
        BY <1>5 DEF Enter, OpenDatabase, CreateDatabase, Migrated, InstallFails, replicas
    <2>2. Answer(q, "error") \/ \E pc \in {"opening", "creating", "migrating", "installing"} : Goes(q, pc)
        BY <1>5 DEF Enter, OpenDatabase, CreateDatabase, Migrated, InstallFails, Ends
    <2>3. CASE Answer(q, "error")
        BY <2>1, <2>3, AnswerTyped DEF Ended, SaidBefore
    <2>4. ASSUME NEW pc \in {"opening", "creating", "migrating", "installing"}, Goes(q, pc) PROVE SaidBefore
        <3>1. pc \in Pending /\ Goes(q, pc)
            BY <2>4 DEF Pending
        <3>2. request'[q] = [pc |-> pc, at |-> Host(q)] /\ \A p \in Request \ {q} : request'[p] = request[p]
            BY <3>1, GoesTyped
        <3> QED
            BY <2>1, <3>2 DEF SaidBefore
    <2> QED
        BY <2>2, <2>3, <2>4
<1>6. CASE UNCHANGED vars
    BY <1>1, <1>6 DEF vars, replicas, installing
<1> QED
    BY <1>1, <1>2, <1>3, <1>4, <1>5, <1>6 DEF Next, Install

LEMMA OnceStep ==
    ASSUME Shaped, Guarded, Placed, Locked, Seeing, Agreed, Stage, Once, [Next]_vars
    PROVE  Once'
<1>1. ASSUME NEW q \in Request, Bootstrap(q) PROVE Once'
    <2>1. /\ Stage' /\ ~ db.marker /\ db'.marker
          /\ \E t \in DOMAIN db'.origin : Installations(db') = {t}
        BY <1>1, BootstrapStage DEF Installations
    <2>2. committed = {} /\ committed' = {q} /\ lockFile' = lockFile
        BY <1>1, <2>1 DEF Once, Bootstrap, replicas
    <2>3. \A p \in Request \ {q} : request'[p] = request[p]
        <3>1. CASE Goes(q, "marking")
            BY <3>1, GoesTyped DEF Pending
        <3>2. CASE Ends(q, "error")
            BY <3>2, AnswerTyped DEF Ends, Ended
        <3> QED
            BY <1>1, <3>1, <3>2 DEF Bootstrap
    <2>4. \A p \in Request : request'[p].pc \in {"marking", "created"} => p = q
        BY <2>2, <2>3 DEF Once
    <2> QED
        BY <2>1, <2>2, <2>4 DEF Once
<1>2. ASSUME NEW q \in Request, WriteLock(q) PROVE Once'
    <2>1. UNCHANGED <<db, committed>> /\ q \in committed
        BY <1>2 DEF WriteLock, database, At, Once
    <2>2. \A n \in Replica : lockFile'[n] => committed # {}
        BY <2>1
    <2>3. request'[q].pc = "created" /\ \A p \in Request \ {q} : request'[p] = request[p]
        BY <1>2, AnswerTyped DEF WriteLock, Ends, Ended
    <2> QED
        BY <2>1, <2>2, <2>3 DEF Once
<1>3. ASSUME NEW n \in Replica, NEW q \in Request, Ask(q, n) PROVE Once'
    <2>1. UNCHANGED <<db, committed, lockFile>>
        BY <1>3 DEF Ask, database, replicas
    <2>2. CASE TRUE \in Status(n) /\ Answer(q, "conflict")
        <3>1. db.marker
            BY <2>2 DEF Status, Once
        <3>2. request'[q].pc = "conflict" /\ \A p \in Request \ {q} : request'[p] = request[p]
            BY <2>2, AnswerTyped DEF Ended
        <3> QED
            BY <2>1, <3>1, <3>2 DEF Once
    <2>3. CASE request' = [request EXCEPT ![q] = [pc |-> "queued", at |-> n]]
        BY <2>1, <2>3 DEF Once, Shaped
    <2> QED
        BY <1>3, <2>2, <2>3 DEF Ask
<1>4. CASE \A q \in Request : ~ Bootstrap(q) /\ ~ WriteLock(q) /\ \A n \in Replica : ~ Ask(q, n)
    BY <1>4, SaidStep, SaidKeeps, StageStep
<1> QED
    BY <1>1, <1>2, <1>3, <1>4

-----------------------------------------------------------------------------
(* The inductive invariant *)

IInv == Shaped /\ Guarded /\ Placed /\ Locked /\ Seeing /\ Agreed /\ Stage /\ Once

LEMMA IInvStep == IInv /\ [Next]_vars => IInv'
<1> SUFFICES ASSUME IInv, [Next]_vars PROVE IInv'
    OBVIOUS
<1>1. Shaped /\ Guarded /\ Placed /\ Locked /\ Seeing /\ Agreed /\ Stage /\ Once /\ Referring(db)
    BY StageRefers DEF IInv
<1>2. Shaped' /\ Guarded' /\ Placed'
    BY <1>1, ShapedStep, GuardedStep, PlacedStep
<1>3. Locked' /\ Seeing' /\ Agreed'
    BY <1>1, SeeingStep, AgreedStep
<1>4. Stage'
    BY <1>1, StageStep
<1>5. Once'
    BY <1>1, OnceStep
<1> QED
    BY <1>2, <1>3, <1>4, <1>5 DEF IInv

\* As it was found.
LEMMA FoundStage ==
    ASSUME found \in Starting, db = found.db, ledger = found.ledger
    PROVE  Stage /\ ledger \in Ledgers /\ Installations(db) = {}
<1>1. Found(found)
    BY StartingFound
<1>2. Referring(db)
    BY <1>1 DEF Found, Referring, Installed, Blank
<1>3. Installations(db) = {}
    BY <1>1 DEF Found, Installed, Blank, Installations
<1>4. CASE 6 \in DOMAIN ledger
    <2>1. db.marker /\ Installed(db, DOMAIN ledger) /\ DOMAIN db.origin # {}
        BY <1>1, <1>4 DEF Found, Installed
    <2>2. \A v \in {3, 4, 6} : ~ AheadIn(found, v)
        BY <1>4 DEF AheadIn
    <2>3. ASSUME NEW t \in DOMAIN db.origin PROVE MissingIn(db, t) = GapIn(db, found, t)
        <3>1. db.origin[t] \in {"legacy", "closed"}
            BY <2>1 DEF Installed
        <3>2. ComingIn(db, found, t) = {}
            BY <2>2 DEF ComingIn
        <3>3. \A g \in DefaultGrants : g \in HadIn(db, found, t) <=> <<t, g[1], g[2]>> \in db.grants
            BY <2>2, DefaultIs DEF HadIn
        <3> QED
            BY <3>1, <3>2, <3>3 DEF MissingIn, GapIn, Kept
    <2>4. Late(db, found)
        BY <1>2, <1>4, <2>1, <2>3 DEF Late, Installed
    <2> QED
        BY <1>1, <1>3, <1>4, <2>4 DEF Stage, Found
<1>5. CASE 6 \notin DOMAIN ledger
    <2>1. \A v \in {3, 4} : ~ Passed(DOMAIN ledger, found, v)
        BY <1>1 DEF Passed, AheadIn, Reached, Found, Versions
    <2>2. "tenant.view" \notin db.perms
        BY <1>1, <1>5 DEF Found, Installed
    <2>3. Early(db, DOMAIN ledger, found)
        BY <1>2, <2>1, <2>2 DEF Early, SameTenants
    <2> QED
        BY <1>1, <1>3, <1>5, <2>3 DEF Stage, Found
<1> QED
    BY <1>4, <1>5

LEMMA IInvInit == Init => IInv
<1> SUFFICES ASSUME Init PROVE IInv
    OBVIOUS
<1> USE DEF Init, MigrationsInit
<1>1. Stage /\ ledger \in Ledgers /\ Installations(db) = {}
    BY FoundStage
<1>2. Shaped
    BY <1>1, RestingTyped DEF Shaped
<1>3. Guarded /\ Placed
    BY MigrationsAssumption, InstallationAssumption DEF Guarded, Placed, Resting, Pending, At
<1>4. Locked /\ Seeing
    BY DEF Locked, Seeing
<1>5. Agreed
    BY DEF Agreed, Vouched, Resting
<1>6. Once
    BY <1>1 DEF Once
<1> QED
    BY <1>1, <1>2, <1>3, <1>4, <1>5, <1>6 DEF IInv

LEMMA IInvHolds == Spec => []IInv
    BY IInvInit, IInvStep, PTL DEF Spec

-----------------------------------------------------------------------------
(* The theorems *)

\* Every variable keeps its type, a runner works only for a start or for the request
\* that holds the mutex, and a mutex is held by a request under way (install_service.go).
THEOREM TypeCorrect == Spec => []TypeOK
<1>1. IInv => TypeOK
    BY StageRefers, TypeParts DEF IInv
<1> QED
    BY <1>1, IInvHolds, PTL

\* However many requests race, on however many replicas, one transaction installs the
\* system, and answers and lock files tell the truth about it (Complete, Bootstrap).
THEOREM InstalledOnceHolds == Spec => []InstalledOnce
<1>1. ASSUME IInv PROVE InstalledOnce
    <2>1. Once
        BY <1>1 DEF IInv
    <2>2. Cardinality(committed) = Cardinality(Installations(db)) /\ Cardinality(committed) <= 1
        <3>1. CASE committed = {}
            <4>1. committed = {} /\ Installations(db) = {}
                BY <2>1, <3>1 DEF Once
            <4> QED
                BY <4>1, FS_EmptySet
        <3>2. CASE committed # {}
            <4>1. PICK q \in Request, t \in DOMAIN db.origin : committed = {q} /\ Installations(db) = {t}
                BY <2>1, <3>2 DEF Once
            <4>2. Cardinality({q}) = 1 /\ Cardinality({t}) = 1
                BY FS_Singleton
            <4> QED
                BY <4>1, <4>2
        <3> QED
            BY <3>1, <3>2
    <2> QED
        BY <2>1, <2>2 DEF Once, InstalledOnce, Installations, At
<1> QED
    BY <1>1, IInvHolds, PTL

\* Between the reading of the ledger and the last migration nothing changes but by the
\* session that holds the advisory lock (migrations.Runner).
THEOREM RunnersSee == Spec => []RunnersSeeTheLedger
<1>1. IInv => RunnersSeeTheLedger
    BY DEF IInv, Seeing, Seen, Session, RunnersSeeTheLedger
<1> QED
    BY <1>1, IInvHolds, PTL

\* What a replica with workers was checked against when it started holds for as long
\* as it serves, whatever other replicas of other releases migrate (main.run).
THEOREM ServingHolds == Spec => []ServingIsChecked
<1>1. ASSUME IInv PROVE ServingIsChecked
    <2>1. Agreed /\ Stage
        BY <1>1 DEF IInv
    <2>2. ASSUME NEW n \in Replica, workers[n] /\ phase[n] = "serving"
          PROVE  /\ \A v \in DOMAIN Mine(n) : v \in DOMAIN ledger /\ ledger[v] = Mine(n)[v]
                 /\ Current(n) => db.plans /\ db.isolated
        <3>1. Agrees(n)
            BY <2>1, <2>2 DEF Agreed, Vouched
        <3>2. Current(n) => Late(db, found)
            BY <2>1, <3>1, LastIsIn DEF Stage
        <3> QED
            BY <3>1, <3>2 DEF Agrees, Late
    <2> QED
        BY <2>2 DEF ServingIsChecked
<1> QED
    BY <1>1, IInvHolds, PTL

\* From whatever rows and ledger an upgrade starts, once it is through the default roles
\* of every tenant lack exactly what they lacked of the permissions that no migration
\* ahead brought them, and what new tenants are made with is what the installer grants
\* but for the audit of a user's tenant (the migrations, Bootstrap, CreateTenant).
THEOREM GrantsHold == Spec => []GrantsFollowTheUpgrade
<1>1. ASSUME IInv PROVE GrantsFollowTheUpgrade
    <2>1. \A t : Missing(t) = MissingIn(db, t)
        BY DEF Missing, MissingIn
    <2>2. \A v : Ahead(v) <=> AheadIn(found, v)
        BY DEF Ahead, AheadIn
    <2>3. \A t : Had(t) = HadIn(db, found, t) /\ Coming(t) = ComingIn(db, found, t)
        BY <2>2 DEF Had, HadIn, Coming, ComingIn
    <2>4. \A t : Gap(t) = GapIn(db, found, t)
        BY <2>3 DEF Gap, GapIn, Kept
    <2>5. ASSUME db.marker, DOMAIN ledger = Versions
          PROVE  /\ \A t \in DOMAIN db.origin : Missing(t) = Gap(t)
                 /\ db.settings = DOMAIN db.origin
                 /\ db.oldest \in db.members
                 /\ db.primary = IF found.db.marker THEN found.db.primary ELSE db.oldest
        <3>1. Late(db, found)
            BY <1>1, <2>5 DEF IInv, Stage, Versions
        <3> QED
            BY <2>1, <2>4, <2>5, <3>1 DEF Late
    <2> QED
        BY <2>5 DEF GrantsFollowTheUpgrade
<1> QED
    BY <1>1, IInvHolds, PTL
=============================================================================
