----------------------------- MODULE Migrations -----------------------------
(***************************************************************************)
(* The migration runner and what the six migrations do to the rows of the  *)
(* database that decide who may do what in which tenant.                   *)
(*                                                                         *)
(* A runner works on one connection, whose session holds the advisory lock *)
(* until it is done or the session ends.  It reads the ledger once, checks *)
(* the rows one after the other, giving a checksum to those that have      *)
(* none, and applies what its release has beyond them, each migration and  *)
(* its ledger row in one transaction.  A name that differs from the        *)
(* registry's is treated as a checksum that differs.                       *)
(***************************************************************************)
EXTENDS Naturals, FiniteSets

CONSTANTS
    Replica, NoReplica,
    Release, Registry,      \* per release the digests of its migrations, in order
    NoRelease,              \* of a replica that is down
    Digest, NoDigest,       \* NoDigest: the checksum of a row older than checksums
    Tenant, NoTenant,
    Fresh, Legacy           \* the databases the program may be started on, the legacy
                            \* ones with their ledger

Versions == 1..6            \* of the release in the source

Ledgers == UNION {[h -> Digest \cup {NoDigest}] : h \in SUBSET Versions}

Full == {"super_admin", "admin"}
Roles == Full \cup {"employee"}

\* entity.view stands for the nineteen permissions of ensureDynamicModelPermissions.
Vocabulary == {"user.delete", "audit.view", "entity.view", "tenant.view", "tenant.lifecycle"}
Grantable == Roles \X Vocabulary

Origins == {"legacy", "closed", "backfilled", "bootstrap", "created"}

\* The rows; roleGrants are the permissions of the roles before there were tenants.
Databases ==
    [exists : BOOLEAN, marker : BOOLEAN, roles : BOOLEAN, company : BOOLEAN, admin : BOOLEAN,
     plans : BOOLEAN, isolated : BOOLEAN,
     origin : UNION {[s -> Origins] : s \in SUBSET Tenant},
     oldest : Tenant \cup {NoTenant}, primary : Tenant \cup {NoTenant},
     perms : SUBSET Vocabulary, roleGrants : SUBSET Grantable,
     grants : SUBSET (Tenant \X Roles \X Vocabulary),
     members : SUBSET Tenant, settings : SUBSET Tenant]

\* Nothing was installed: no row names a role, a tenant or the company.
Blank(d) ==
    /\ ~ d.marker /\ ~ d.roles /\ ~ d.company /\ ~ d.admin
    /\ DOMAIN d.origin = {} /\ d.oldest = NoTenant /\ d.primary = NoTenant
    /\ d.roleGrants = {} /\ d.grants = {} /\ d.members = {} /\ d.settings = {}

\* Left by an earlier release, h being the versions in its ledger: with the company it
\* was installed for, or with tenants, whatever their roles may do by then.  The sixth
\* migration leaves a tenant at least, and it alone brings tenant.view.
Installed(d, h) ==
    /\ d.exists /\ d.marker /\ d.roles /\ d.admin
    /\ \A g \in d.grants : g[1] \in DOMAIN d.origin
    /\ d.members \cup d.settings \subseteq DOMAIN d.origin
    /\ IF DOMAIN d.origin = {}
       THEN d.company /\ d.oldest = NoTenant /\ d.primary = NoTenant /\ 6 \notin h
       ELSE /\ d.oldest \in DOMAIN d.origin
            /\ \A t \in DOMAIN d.origin : d.origin[t] \in {"legacy", "closed"}
    /\ IF 6 \in h
       THEN d.plans /\ d.isolated /\ d.settings = DOMAIN d.origin /\ d.oldest \in d.members
       ELSE "tenant.view" \notin d.perms

ASSUME MigrationsAssumption ==
    /\ NoReplica \notin Replica /\ NoRelease \notin Release /\ NoTenant \notin Tenant
    /\ NoDigest \notin Digest
    /\ \A r \in Release : \E k \in Versions : Registry[r] \in [1..k -> Digest]

ASSUME StartingDatabases ==
    /\ Fresh \subseteq {d \in Databases : Blank(d) /\ d.perms = {}}
    /\ Legacy \subseteq {l \in [db : Databases, ledger : Ledgers] : Installed(l.db, DOMAIN l.ledger)}

Starting == {[db |-> d, ledger |-> <<>>] : d \in Fresh} \cup Legacy

VARIABLES
    db,         \* the rows of the database
    ledger,     \* schema_migrations: the digest of each applied version
    lock,       \* the replicas whose session holds the advisory lock
    release,    \* the release a replica runs
    runner,     \* per replica: its run of the migrations
    found       \* history: the rows and the ledger as the first replica found them

database == <<db, ledger, lock, found>>

With(f, x, y) == [z \in DOMAIN f \cup {x} |-> IF z = x THEN y ELSE f[z]]

Active(d) == {t \in DOMAIN d.origin : d.origin[t] # "closed"}
RoleRows(d) == IF d.roles THEN Roles ELSE {}

-----------------------------------------------------------------------------
(* The migrations; a tenant that was there is "legacy", or "closed" if it  *)
(* was not active, and "backfilled" if the sixth made it                   *)

Grant(d, tenants, roles, permission) ==
    [d EXCEPT !.perms = @ \cup {permission},
              !.grants = @ \cup (tenants \X (roles \cap RoleRows(d)) \X {permission})]

GrantRoles(d, roles, permission) ==
    [d EXCEPT !.roleGrants = @ \cup ((roles \cap RoleRows(d)) \X {permission})]

UserLifecycle(d) == Grant(d, Active(d), Full, "user.delete")

AuditEvents(d) == GrantRoles(Grant(d, Active(d), Full, "audit.view"), Full, "audit.view")

\* The oldest tenant, made from the company if there is none, takes over the
\* assignments and the grants of the time before tenants.
BackfillPrimary(d, new) ==
    IF DOMAIN d.origin = {} /\ ~ d.company THEN d
    ELSE LET made == DOMAIN d.origin = {}
             t == IF made THEN new ELSE d.oldest
         IN  [d EXCEPT !.origin = IF made THEN With(@, t, "backfilled") ELSE @,
                       !.oldest = t,
                       !.members = IF d.admin THEN @ \cup {t} ELSE @,
                       !.grants = @ \cup {<<t, g[1], g[2]>> : g \in d.roleGrants}]

\* Only permissions this migration creates are granted: others may have been revoked.
DynamicModelPermissions(d) ==
    IF "entity.view" \in d.perms THEN d ELSE Grant(d, Active(d), Roles, "entity.view")

TenantSettingsAndRLS(d) ==
    LET viewed == GrantRoles(Grant(d, DOMAIN d.origin, Full, "tenant.view"), Full, "tenant.view")
        super == {"super_admin"}
        all == GrantRoles(Grant(viewed, DOMAIN d.origin, super, "tenant.lifecycle"),
                          super, "tenant.lifecycle")
    IN  [all EXCEPT !.settings = @ \cup DOMAIN d.origin, !.isolated = TRUE]

\* Mutant: the permissions are granted before the primary tenant exists.
FoundationBackfillsLast(d, new) ==
    BackfillPrimary(TenantSettingsAndRLS(DynamicModelPermissions([d EXCEPT !.plans = TRUE])), new)
EnterpriseFoundation(d, new) ==
    TenantSettingsAndRLS(DynamicModelPermissions(BackfillPrimary([d EXCEPT !.plans = TRUE], new)))

\* The others only create tables, columns and indexes.
Effect(v, d, new) ==
    CASE v = 3 -> UserLifecycle(d)
      [] v = 4 -> AuditEvents(d)
      [] v = 6 -> EnterpriseFoundation(d, new)
      [] OTHER -> d

-----------------------------------------------------------------------------
(* The runner *)

Resting == [pc |-> "idle", seen |-> <<>>, at |-> 0]

Mine(n) == Registry[release[n]]
Running(n) == runner[n].pc = "running"
Session(n) == n \in lock
Checked(n) == runner[n].at >= Cardinality(DOMAIN runner[n].seen)
Following(n) == runner[n].at + 1

\* Mutant: the lock is granted whoever holds it.
GrantedToAll(n) == db.exists
Granted(n) == db.exists /\ lock = {}

Wait(n) == runner' = [runner EXCEPT ![n].pc = "waiting"]

\* A role that could bypass row level security is refused here too (RunnerFails).
LockAndLoad(n) ==
    /\ runner[n].pc = "waiting"
    /\ Granted(n)
    /\ lock' = lock \cup {n}
    /\ runner' = [runner EXCEPT ![n] = [pc |-> "running", seen |-> ledger, at |-> 0]]
    /\ UNCHANGED <<db, ledger, found, release>>

\* Mutant: a checksum that differs is passed over.
RowAcceptedChanged(n, v) == v \in DOMAIN runner[n].seen /\ v \in DOMAIN Mine(n)

\* The row is the next version, this release has it and its checksum agrees or is
\* not there yet.
RowAccepted(n, v) ==
    LET seen == runner[n].seen IN
    /\ v \in DOMAIN seen /\ v \in DOMAIN Mine(n)
    /\ seen[v] \in {NoDigest, Mine(n)[v]}

CheckRow(n) ==
    /\ Running(n) /\ Session(n) /\ ~ Checked(n)
    /\ RowAccepted(n, Following(n))
    /\ runner' = [runner EXCEPT ![n].at = @ + 1]
    /\ ledger' = [v \in DOMAIN ledger |->
                     IF v = Following(n) /\ runner[n].seen[v] = NoDigest /\ ledger[v] = NoDigest
                     THEN Mine(n)[v] ELSE ledger[v]]
    /\ UNCHANGED <<db, lock, found, release>>

ApplyNext(n) ==
    /\ Running(n) /\ Session(n) /\ Checked(n)
    /\ Following(n) \in DOMAIN Mine(n) \ DOMAIN ledger
    /\ \E new \in IF DOMAIN db.origin = {} THEN Tenant ELSE {NoTenant} :
         db' = Effect(Following(n), db, new)
    /\ ledger' = With(ledger, Following(n), Mine(n)[Following(n)])
    /\ runner' = [runner EXCEPT ![n].at = @ + 1]
    /\ UNCHANGED <<lock, found, release>>

Unlock(n) == lock' = lock \ {n}

Finish(n) ==
    /\ Running(n) /\ Session(n) /\ Checked(n)
    /\ Following(n) \notin DOMAIN Mine(n)
    /\ runner' = [runner EXCEPT ![n] = [Resting EXCEPT !.pc = "done"]]
    /\ Unlock(n)
    /\ UNCHANGED <<db, ledger, found, release>>

\* A row is refused, a statement fails or the deadline passes: the transaction at
\* hand is rolled back, and closing the pool ends the session and its lock.
RunnerFails(n) ==
    /\ runner[n].pc \in {"waiting", "running"}
    /\ runner' = [runner EXCEPT ![n] = [Resting EXCEPT !.pc = "failed"]]
    /\ Unlock(n)
    /\ UNCHANGED <<db, ledger, found, release>>

\* PostgreSQL stops or drops the connection: the session ends before the runner knows.
SessionLost(n) ==
    /\ Running(n) /\ Session(n)
    /\ Unlock(n)
    /\ UNCHANGED <<db, ledger, found, release, runner>>

Runner(n) ==
    LockAndLoad(n) \/ CheckRow(n) \/ ApplyNext(n) \/ Finish(n) \/ RunnerFails(n)

MigrationsInit ==
    /\ found \in Starting /\ db = found.db /\ ledger = found.ledger
    /\ lock = {}
    /\ release = [n \in Replica |-> NoRelease]
    /\ runner = [n \in Replica |-> Resting]
=============================================================================
