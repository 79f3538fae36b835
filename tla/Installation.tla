---------------------------- MODULE Installation ----------------------------
(***************************************************************************)
(* Replicas of the server from their start to their end, and the requests  *)
(* that install the system, over one database and its migrations.          *)
(*                                                                         *)
(* A replica asks once, when it starts, whether the system is installed:   *)
(* only then does it migrate the database and run job workers.  Otherwise  *)
(* it serves the initializer, and goes on serving without workers when the *)
(* system has been installed.  An installation holds its replica's mutex,  *)
(* asks again, migrates, writes the first tenant in one transaction and    *)
(* then the lock file, which matters only while PostgreSQL is unreachable. *)
(***************************************************************************)
EXTENDS Migrations

CONSTANTS Request, NoRequest

ASSUME InstallationAssumption == NoRequest \notin Request

VARIABLES
    phase,      \* of a replica: "down", "starting" or "serving"
    workers,    \* whether the replica saw an installed system when it started
    lockFile,   \* .install.lock in the replica's data directory
    mu,         \* the request that holds the replica's mutex
    request,    \* POST /install/complete: where it is and the replica it is at
    committed   \* history: the requests whose transaction was committed

replicas == <<phase, workers, lockFile>>
installing == <<mu, request, committed>>
vars == <<database, release, runner, replicas, installing>>

Pending == {"queued", "opening", "creating", "migrating", "installing", "marking"}
Ended == {"created", "conflict", "error"}

Current(n) == DOMAIN Mine(n) = Versions

At(q, pc) == request[q].pc = pc
Goes(q, pc) == request' = [request EXCEPT ![q].pc = pc]
Host(q) == request[q].at
Answered(pc) == [pc |-> pc, at |-> NoReplica]
Answer(q, pc) == request' = [request EXCEPT ![q] = Answered(pc)]
\* Mutant: the mutex is not given back.
EndsHolding(q, pc) == Answer(q, pc) /\ UNCHANGED mu
Ends(q, pc) == Answer(q, pc) /\ mu' = [mu EXCEPT ![Host(q)] = NoRequest]

\* The marker, or the lock file of a replica that cannot reach the database now; a
\* database that is reached and fails the query passes for one that is not installed.
\* Any later statement may fail as well (RunnerFails, InstallFails, StartFails).
Status(n) == {db.marker, lockFile[n], FALSE}

Init ==
    /\ MigrationsInit
    /\ phase = [n \in Replica |-> "down"]
    /\ workers = [n \in Replica |-> FALSE]
    /\ lockFile = [n \in Replica |-> FALSE]
    /\ mu = [n \in Replica |-> NoRequest]
    /\ request = [q \in Request |-> [pc |-> "new", at |-> NoReplica]]
    /\ committed = {}

-----------------------------------------------------------------------------
(* A replica *)

\* The pod is new when its lock file is gone.
Start(n) ==
    /\ phase[n] = "down"
    /\ \E r \in Release : release' = [release EXCEPT ![n] = r]
    /\ \E kept \in BOOLEAN : lockFile' = [lockFile EXCEPT ![n] = @ /\ kept]
    /\ \E installed \in Status(n) :
         /\ workers' = [workers EXCEPT ![n] = installed]
         /\ phase' = [phase EXCEPT ![n] = IF installed THEN "starting" ELSE "serving"]
         /\ IF installed THEN Wait(n) ELSE UNCHANGED runner
    /\ UNCHANGED <<database, installing>>

\* The prices, the pool, Redis and the workers follow the migrations.
Serve(n) ==
    /\ phase[n] = "starting"
    /\ runner[n].pc = "done"
    /\ phase' = [phase EXCEPT ![n] = "serving"]
    /\ runner' = [runner EXCEPT ![n] = Resting]
    /\ UNCHANGED <<database, release, workers, lockFile, installing>>

Gone(n) ==
    /\ phase' = [phase EXCEPT ![n] = "down"]
    /\ release' = [release EXCEPT ![n] = NoRelease]
    /\ workers' = [workers EXCEPT ![n] = FALSE]
    /\ runner' = [runner EXCEPT ![n] = Resting]
    /\ Unlock(n)
    /\ mu' = [mu EXCEPT ![n] = NoRequest]
    /\ request' = [q \in Request |->
                      IF Host(q) = n THEN Answered("error") ELSE request[q]]
    /\ UNCHANGED <<db, ledger, found, lockFile, committed>>

\* A step of the start fails.
StartFails(n) ==
    /\ phase[n] = "starting" /\ runner[n].pc \in {"done", "failed"}
    /\ Gone(n)

\* A crash, or a signal: what is in flight then is waited for, and given up later.
Stop(n) == phase[n] # "down" /\ Gone(n)

-----------------------------------------------------------------------------
(* An installation *)

\* The first check, before the replica's mutex; a body that is not valid changes nothing.
Ask(q, n) ==
    /\ At(q, "new") /\ phase[n] = "serving" /\ Current(n)
    /\ \/ TRUE \in Status(n) /\ Answer(q, "conflict")
       \/ /\ FALSE \in Status(n)
          /\ request' = [request EXCEPT ![q] = [pc |-> "queued", at |-> n]]
    /\ UNCHANGED <<database, release, runner, replicas, mu, committed>>

\* The second check, under the mutex.
Enter(q) ==
    /\ At(q, "queued") /\ mu[Host(q)] = NoRequest
    /\ \/ TRUE \in Status(Host(q)) /\ Answer(q, "error") /\ UNCHANGED mu
       \/ FALSE \in Status(Host(q)) /\ Goes(q, "opening") /\ mu' = [mu EXCEPT ![Host(q)] = q]
    /\ UNCHANGED <<database, release, runner, replicas, committed>>

OpenDatabase(q) ==
    /\ At(q, "opening")
    /\ IF db.exists THEN Goes(q, "migrating") /\ Wait(Host(q))
                    ELSE Goes(q, "creating") /\ UNCHANGED runner
    /\ UNCHANGED <<database, release, replicas, mu, committed>>

CreateDatabase(q) ==
    /\ At(q, "creating") /\ ~ db.exists
    /\ db' = [db EXCEPT !.exists = TRUE]
    /\ Goes(q, "migrating") /\ Wait(Host(q))
    /\ UNCHANGED <<ledger, lock, found, release, replicas, mu, committed>>

\* Redis answers.
Migrated(q) ==
    /\ At(q, "migrating") /\ runner[Host(q)].pc = "done"
    /\ runner' = [runner EXCEPT ![Host(q)] = Resting]
    /\ Goes(q, "installing")
    /\ UNCHANGED <<database, release, replicas, mu, committed>>

DefaultGrants ==
    ({"super_admin"} \X Vocabulary) \cup ({"admin"} \X (Vocabulary \ {"tenant.lifecycle"}))
        \cup {<<"employee", "entity.view">>}

NewTenant(d, t, origin, grants) ==
    [d EXCEPT !.origin = With(@, t, origin),
              !.oldest = IF @ = NoTenant THEN t ELSE @,
              !.members = @ \cup {t}, !.settings = @ \cup {t},
              !.grants = @ \cup {<<t, g[1], g[2]>> : g \in grants}]

Bootstrapped(d, t) ==
    [NewTenant(d, t, "bootstrap", DefaultGrants) EXCEPT
        !.roles = TRUE, !.company = TRUE, !.admin = TRUE, !.perms = @ \cup Vocabulary,
        !.roleGrants = @ \cup DefaultGrants, !.marker = TRUE, !.primary = t]

\* Mutant: the settings are written over when their keys exist.
SettingsOverwritten == TRUE
SettingsInserted == ~ db.marker

\* The answer to the commit may be lost.
Bootstrap(q) ==
    /\ At(q, "installing") /\ SettingsInserted
    /\ \E t \in Tenant \ DOMAIN db.origin : db' = Bootstrapped(db, t)
    /\ committed' = committed \cup {q}
    /\ \/ Goes(q, "marking") /\ UNCHANGED mu
       \/ Ends(q, "error")
    /\ UNCHANGED <<ledger, lock, found, release, runner, replicas>>

WriteLock(q) ==
    /\ At(q, "marking")
    /\ lockFile' = [lockFile EXCEPT ![Host(q)] = TRUE]
    /\ Ends(q, "created")
    /\ UNCHANGED <<database, release, runner, phase, workers, committed>>

\* Whatever fails, or the deadline of thirty seconds.
InstallFails(q) ==
    /\ \/ request[q].pc \in {"opening", "creating", "installing", "marking"} /\ UNCHANGED runner
       \/ /\ At(q, "migrating") /\ runner[Host(q)].pc \in {"done", "failed"}
          /\ runner' = [runner EXCEPT ![Host(q)] = Resting]
    /\ Ends(q, "error")
    /\ UNCHANGED <<database, release, replicas, committed>>

Install(q) ==
    OpenDatabase(q) \/ CreateDatabase(q) \/ Migrated(q) \/ Bootstrap(q) \/ WriteLock(q)
        \/ InstallFails(q)

\* A user makes a tenant; the permissions it is given must all exist.
CreateTenant(n) ==
    /\ phase[n] = "serving" /\ Current(n) /\ db.marker
    /\ Vocabulary \subseteq db.perms
    /\ \E t \in Tenant \ DOMAIN db.origin :
         db' = NewTenant(db, t, "created", DefaultGrants \ {<<"super_admin", "audit.view">>})
    /\ UNCHANGED <<ledger, lock, found, release, runner, replicas, installing>>

Migrate(n) == Runner(n) /\ UNCHANGED <<replicas, installing>>
Cut(n) == SessionLost(n) /\ UNCHANGED <<replicas, installing>>

Next ==
    \/ \E n \in Replica :
         \/ Start(n) \/ Serve(n) \/ StartFails(n) \/ Stop(n)
         \/ Migrate(n) \/ Cut(n) \/ CreateTenant(n)
         \/ \E q \in Request : Ask(q, n)
    \/ \E q \in Request : Enter(q) \/ Install(q)

Spec == Init /\ [][Next]_vars

-----------------------------------------------------------------------------
(* Properties *)

DatabaseOK ==
    /\ db \in Databases
    /\ \A g \in db.grants : g[1] \in DOMAIN db.origin
    /\ db.members \cup db.settings \subseteq DOMAIN db.origin

\* Every variable keeps its type, a runner works only in a starting replica or for
\* the request that holds the mutex, and a mutex is held by a request under way.
TypeOK ==
    /\ DatabaseOK
    /\ ledger \in Ledgers /\ lock \subseteq Replica /\ found \in Starting
    /\ release \in [Replica -> Release \cup {NoRelease}]
    /\ runner \in [Replica -> [pc : {"idle", "waiting", "running", "done", "failed"},
                              seen : Ledgers, at : {0} \cup Versions]]
    /\ phase \in [Replica -> {"down", "starting", "serving"}]
    /\ workers \in [Replica -> BOOLEAN] /\ lockFile \in [Replica -> BOOLEAN]
    /\ mu \in [Replica -> Request \cup {NoRequest}]
    /\ request \in [Request -> [pc : {"new"} \cup Pending \cup Ended, at : Replica \cup {NoReplica}]]
    /\ committed \subseteq Request
    /\ \A n \in Replica :
         /\ runner[n].pc # "idle" =>
              phase[n] = "starting" \/ (mu[n] \in Request /\ At(mu[n], "migrating"))
         /\ mu[n] # NoRequest =>
              Host(mu[n]) = n /\ request[mu[n]].pc \in Pending \ {"queued"}

\* The system is installed once, however many requests race and on however many
\* replicas; who is told it is or was installed is told the truth, and so says a lock
\* file ("a failed final installation does not create the lock").
InstalledOnce ==
    /\ Cardinality(committed) <= 1
    /\ Cardinality({t \in DOMAIN db.origin : db.origin[t] = "bootstrap"}) = Cardinality(committed)
    /\ \A q \in Request : /\ At(q, "created") => q \in committed
                          /\ At(q, "conflict") => db.marker
    /\ \A n \in Replica : lockFile[n] => committed # {} /\ db.marker

\* A runner whose session lives acts on the ledger as it is: no row came or changed
\* since it read it but by its own steps.
RunnersSeeTheLedger ==
    \A n \in Replica : Running(n) /\ Session(n) =>
        IF Checked(n) THEN DOMAIN ledger = 1..runner[n].at
        ELSE /\ DOMAIN ledger = DOMAIN runner[n].seen
             /\ \A v \in DOMAIN ledger : v > runner[n].at => ledger[v] = runner[n].seen[v]

\* A replica with workers has found, and will find, each of its migrations in the
\* ledger under its own digest, and what the last one sets up.
ServingIsChecked ==
    \A n \in Replica : workers[n] /\ phase[n] = "serving" =>
        /\ \A v \in DOMAIN Mine(n) : v \in DOMAIN ledger /\ ledger[v] = Mine(n)[v]
        /\ Current(n) => db.plans /\ db.isolated

Missing(t) == {g \in DefaultGrants : <<t, g[1], g[2]>> \notin db.grants}

\* A migration that had not been applied, and would be after the last that had.
Ahead(v) == \A w \in DOMAIN found.ledger : w < v

\* What the default roles of a tenant could do when the database was found; the sixth
\* migration gives the oldest tenant what the roles had before there were tenants.
Had(t) ==
    {g \in Grantable : \/ <<t, g[1], g[2]>> \in found.db.grants
                       \/ Ahead(6) /\ t = db.oldest /\ g \in found.db.roleGrants}

\* The permissions that the migrations ahead bring to its default roles: the third and
\* the sixth to tenants that are active by then, the fourth also to the oldest, through
\* the roles' own, and the last two permissions come to all.
Coming(t) ==
    {p \in Vocabulary :
        \/ p = "user.delete" /\ Ahead(3) /\ db.origin[t] = "legacy"
        \/ p = "audit.view" /\ Ahead(4) /\ (db.origin[t] # "closed" \/ t = db.oldest)
        \/ p = "entity.view" /\ Ahead(6) /\ db.origin[t] # "closed" /\ p \notin found.db.perms
        \/ p \in {"tenant.view", "tenant.lifecycle"} /\ Ahead(6)}

Gap(t) ==
    CASE db.origin[t] = "bootstrap" -> {}
      [] db.origin[t] = "created" -> {<<"super_admin", "audit.view">>}
      [] OTHER -> {g \in DefaultGrants : g \notin Had(t) /\ g[2] \notin Coming(t)}

\* Once the ledger of an installed database is complete, whichever runners of which
\* releases applied it, and as nobody edits a role or closes a tenant between the first
\* of its steps and the last (they are not among the actions), the default roles of every tenant lack of what the installer
\* grants: nothing in a tenant just installed, the audit for the super admin of one that
\* a user made, and in one that was there, or was made of the company, exactly what it
\* lacked of the permissions no migration ahead brought it.  So no migration restores
\* what was revoked, except that the sixth takes the grants from before there were
\* tenants over into the oldest.  Every tenant has settings, an administrator is in the
\* oldest one, and an upgrade leaves the primary tenant as it was, known or not.
GrantsFollowTheUpgrade ==
    db.marker /\ DOMAIN ledger = Versions =>
        /\ \A t \in DOMAIN db.origin : Missing(t) = Gap(t)
        /\ db.settings = DOMAIN db.origin
        /\ db.oldest \in db.members
        /\ db.primary = IF found.db.marker THEN found.db.primary ELSE db.oldest
=============================================================================
