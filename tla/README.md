# Verification of NexaFlow

TLA+ models of the parts of NexaFlow's backend whose correctness depends on more
than one process, request or store, checked with TLC on small instances, and
theorems about them checked with TLAPS for every value of the constants.

Everything is translated from the Go code (paths below are relative to
`src/backend/`). `PROJECT.json` maps each definition to the lines it stands for,
lists the hazards the properties are for, and names a mutant of the code for each
property: a plausible bug that the property must catch.

## 1. The system

NexaFlow is a multi-tenant low-code platform: one Go server, run in several
replicas, over PostgreSQL (state), Redis (jobs, rate limits) and an object store.
Requests of one tenant run concurrently on any replica; background work runs in
worker goroutines of every replica. Nearly all coordination is by database
transactions, guarded updates (`WHERE status = ... AND version = ...`) and Redis
Lua scripts. What lies *between* two of those is not atomic, and that is where the
models look.

| Component | State | Operations | Interacts with | Hard behaviour |
|---|---|---|---|---|
| Durable job queue `internal/jobs/queue.go` | Redis hashes of envelopes and priorities, ready lists, sorted sets for delayed, processing (leases) and dead letters | enqueue, promote, reclaim, claim, load, handle, renew, ack, retry, dead-letter, replay | runs the outbox and ingestion batches; filled by schedules | leases that lapse under a live worker, crashes between scripts, lost answers, stale copies |
| Periodic schedules `queue.go` `maintain` | idempotency keys with a TTL | one pass of every replica each second | enqueue script, the clocks of the replicas | clocks apart, TTL against period, failing scripts |
| Notification outbox `notification_worker.go`, `notification_repository.go` | rows with status, attempt count, claim time, next attempt time | create (in a workflow transaction), claim, deliver, mark, read | workflow engine (producer), webhook/SMTP receivers | a claim taken over while its batch still runs, lost answers, late marks |
| Knowledge ingestion `knowledge_ingestion_service.go` and its repository | object store, job rows, quota counter, documents | upload, claim, reserve, extract and embed, save, mark, delete payload | billing counter, object store, embedding provider | three stores that change one after the other |
| Workflow engine `workflow_service.go`, `workflow_repository.go` | definitions (versioned), instances, actions, notifications | define, archive, start, approve, reject | records, outbox | concurrent approvers, definitions replaced under running instances, graph algorithms |
| Dynamic models, records, form submissions `dynamic_*.go`, `form_*.go` | entity definitions with versions, forms, records with versions, submissions, quota counter | define, create, update, archive, submit with compensation | billing counter, dashboards | compensation after a half-done submission, version conflicts, values checked against a definition that changes meanwhile |
| Dashboards `dashboard_*.go` | widgets with a version | save, sum and count over records | entities, records | a sum over a field whose kind has changed |
| Installation `install_*.go`, `cmd/server/main.go` | settings, the first company, tenant and administrator, a lock file on each replica | status, complete, start of a replica | migrations, accounts | requests racing on several replicas, a crash between commit and lock file, a status asked only once |
| Schema migrations `internal/migration/` | the ledger `schema_migrations`, an advisory lock | check the ledger, apply versions 1 to 6 | every start of an installed replica, the installer | replicas of different releases at once, a lock that goes with its session, data migrations that grant permissions to what exists when they run |
| Plans, quotas, billing `billing_*.go` | subscription, plan, monthly counters, event ids | consume, release, apply event | records, ingestion, agent | first use of a month, unordered provider events |
| Authentication, sessions, roles `auth_*.go` | users, sessions, roles | register, login, refresh rotation, switch tenant, suspend, set roles | tenants | two refreshes of one token; decisions taken on rows that change before the write |
| Tenant lifecycle `tenant_*.go` | status, version, settings | transition, update | sessions | read without a lock, then unconditional update |
| Files, rate limiter, agent, audit | see `PROJECT.json` | | | two-store writes, fixed windows |
| HTTP handlers, router, health, config, frontend, deployment | none a property is about | | | not modelled |

What makes each component correct, in a sentence:

- *Job queue*: an accepted job is handled with success or dead-lettered after the
  configured number of failures, is never lost on the way, never in two queues
  while leases hold, and nothing settled is overwritten by an older copy.
- *Schedules*: each period gets one job: not two, and not none.
- *Outbox*: every row settles; its final status is the one its deliveries earned,
  no late mark changes it, and duplicates have a cause.
- *Ingestion*: every job settles; the object store, the counter, the documents and
  the rows agree, up to what a crash or a failing store explains.
- *Workflows*: only sound graphs are accepted, a traversal of one stops where it
  should, the decisions of an instance are one path, and no approval is counted twice.
- *Records and forms*: a submission and its record exist together, up to what a crash or
  a racing update explains; the meter never counts fewer records than there are.
- *Billing*: no counter passes the plan's limit; every event takes effect once.
- *Accounts*: a refresh token is used once; a tenant keeps its administrator and the
  installer is never locked out; the sessions of a closed tenant end.
- *Definitions, forms, dashboards*: an editor replaces only the definition it was shown; a
  record fits the definition it was checked against; what a form or a sum meets that
  does not fit has a newer definition for its cause.
- *Installation*: the system is installed once and whoever is told so is told the truth.
- *Migrations*: one runner at a time acts on the ledger as it is, a replica with workers
  has every migration of its release, and the default roles end up with the permissions the
  installer would have given them.

## 2. Modules

| Module | Models | Kind |
|---|---|---|
| `JobLifecycle` | what the queue promises its callers, without a queue | abstract specification |
| `JobQueue` | the Redis keys and scripts, workers, replays, crashes | implements `JobLifecycle` |
| `JobSchedule` | maintenance passes, clocks, idempotency keys | |
| `NotificationOutbox` | rows, batches, deliveries, marks | |
| `KnowledgeIngestion` | uploads, object store, counter, documents, batches | |
| `WorkflowPaths` | graphs, `chooseEdge`, `traverse` as functions | pure operators |
| `WorkflowGraph` | the depth-first walk of `validateWorkflowGraph`, one call a step | uses `WorkflowPaths` |
| `WorkflowEngine` | definitions and instances under concurrent requests | composes `WorkflowPaths` |
| `UsageMeter` | the plan, the monthly counter, subscription events; the parts of `Consume` | |
| `Records` | records, submissions and their compensations, requests | composes `UsageMeter` |
| `Accounts` | users, roles, tenants, refresh sessions, from the installed system on | |
| `Schemas` | the entity's definition, its records, a form and a sum under it, requests between their reads and writes | |
| `Migrations` | the runner, the ledger, the lock, what the six versions do to tenants, roles and grants | |
| `Installation` | replicas from start to stop, the requests that install | composes `Migrations` |
| `MC*` | constants, symmetry and assumptions of the TLC instances | |
| `*Proofs` | theorems checked by TLAPS | |

### JobQueue

Variables are the Redis keys (`jobs`, `priorities`, `ready`, `delayed`, `lease` for
the `processing` set, `dlq`) and the local state of workers and operators. Every Lua
script is one action; the code between two scripts is the program counter of a
worker (`idle`, `loading`, `running`, `succeeded`, `failed`) with the *copy* of the
envelope it loaded. `LetGo` is the ZREM the three settling scripts share: it names
the id, not the lease, so a worker whose lease lapsed removes another's. `Abandon`
is a crash, a shutdown or a failed settling script; `ClaimLost` a claim whose
answer never arrived.

Time is abstract: a delayed job may become due and a lease may expire at any
moment, so the properties hold for any delays and lease lengths. A lease that
expires under a live holder is a *lapse*, with a budget of its own, because several
promises are only made while there is none: with budget 0 the model is that of
leases that outlive their workers. Counts of attempts stop at `MaxAttempts`, past
which no comparison of the code tells them apart. The history variables
`accepted`, `succeeded`, `failures` are read by properties and by no guard, except that
an id is enqueued once (ids are fresh).

`JobLifecycle` is what is left when the queues are taken away: a job is pending, gone, dead or
lost. The refinement mapping reads that off the Redis keys alone and remembers nothing: a job is *pending*
while it is in a ready list, the delayed or the processing set (`Pending`), *dead* in the dead-letter set,
*gone* when its envelope is, and *lost* when its envelope is stored and no script will hand it out.
So a job queued again after its acknowledgement, revived without a replay, buried too early or dropped
between two lists would be a step the abstract specification does not have. The one loss it has is
paid for by a failed read (`errors`).

### JobSchedule

Discrete global time; replica `r` shows `now + skew[r]`. `Begin` reads the clock and
names the period; the script (`Push`, `Suppressed`, `Fail`) follows within
`MaxDelay`. `Steady` replicas make a pass within `MaxGap`; the others may stop.

### NotificationOutbox

`status`, `attempt`, `due` and `stale` abstract the columns `status`,
`attempt_count`, `next_attempt_at` and `claimed_at`. A batch is claimed in one
transaction (`ClaimPending`), then delivered and marked row by row. The marks are
guarded by the row's status only, as in the code; a lapse is a claim that grows
older than five minutes while its batch runs. A delivery that fails may have
reached its recipient (`ambiguous`).

### KnowledgeIngestion

As the outbox, plus the object store, the usage counter and the documents. The
steps of `processJob` are separate actions, each with its failure: a call that
reports an error may have taken effect (`ReserveFails`, `Save`, `CreateFails`).
Every payload has size 1. A fault is one crash or one failure of a store.

### WorkflowPaths, WorkflowGraph, WorkflowEngine

A graph is node types and labelled edges. `Traverse` is the loop of `traverse`; the
record's values enter as `truth`, the outcome of each condition. `WorkflowGraph`
runs the recursive `walk` with an explicit stack and compares its verdict with
`Sound`, which says without a walk what a graph should be. `WorkflowEngine` has the
definition row, the instances and a program counter for each request with the
copies it read: the instance, then the definition, then the guarded update
`Advance`, which also appends the action and creates the notifications.
`actions` carries, as history, where a decision led and under which version.

### UsageMeter, Records

`UsageMeter` has the subscription row, the counters by month and the billing events;
its actions are single transactions. `Records` runs requests over them: a create is
`StartCreate` (schema read and values validated), `Overview` and `Consume` (the two
transactions of `billingService.Consume`), `Insert`; a submission goes on with `File`,
and on an error with `Undo`, `ArchiveRecord`, `Refund`, which are the steps of
`records.Delete`. A caller names the version it was shown; a version that is old
already is refused without an effect and is left out. `GiveUp` is any failure that
ends a request, the death of the server included; a commit whose answer is lost
followed by a compensation is `InsertUnanswered` or the second form of `FileFails`.
Records carry, as history, how they were created and archived and whether the creation was
acknowledged; `lapsed` are records whose request died or failed while it still had to file
or undo, `granted` is the largest limit the tenant ever had.

### Accounts

Variables are the rows: the status of users, of tenants, the roles of each member and the
refresh sessions. `AuthUser` is the check every login and every protected request makes in a
transaction of its own; `Authorise` is that check, after which a request goes on as a
login (`Issue`) or as an administrative call. The transactions of `SetUserRoles`,
`SetUserStatus` and `Transition` run at READ COMMITTED, so what one reads and decides
(`CheckRoles`, `CheckStatus`, `CheckTransition`) is an action of its own, before what it
writes later, whatever changed meanwhile. `Transition` writes twice: its first UPDATE locks the row of the
tenant; its second revokes the sessions it finds when it starts (`Revoke`, which keeps them in `seen`);
and others see either only at the `Commit`. A rotation the second statement waits for, or a login beside it, inserts
a session that is not in `seen`. Two replacements of the same roles may end in the
union of both: the second deletion waits for the first and then finds the rows it saw gone,
and not those the first inserted. `RotateSession` is one action because it locks the row.
A session carries, as history, the login it descends from, whether a client got its token,
and when its row was inserted (`born`): while its tenant was `open`, `amid` a revocation that did not see it,
or `late`, when the tenant was closed; `owner` is whom a tenant was made for.

Any member may hold any permission, since `SetRolePermissions` hands them out. Expiry is
left out: it only ends sessions, and the properties are about those that live.

### Schemas

One entity with its row and fields, and what is made under it. Every request but the first
definition reads the entity with `GetEntity` (the row, active, with its version) and
`LoadFields` (the fields), two statements at READ COMMITTED, and writes in a later
transaction: `DefineEntity`, `DefineForm`, `WriteRecord`, `SaveDashboard`. A submission finds
its form before that. Values are classes: what each check of the code tells apart, so
`"large"` is a number that `%v` writes with an exponent. `read`, kept with what is written, is
history: the entity's version when the fields were read that it was checked against.
Deletions of records are in `Records`.

### Migrations, Installation

`db` has the rows that decide who may do what: tenants with their origin, roles,
permissions, grants for each tenant and without one, memberships, settings. `Effect(v, d, new)` is
what version `v` does to them. `LockAndLoad` takes the advisory lock and reads the
ledger, `CheckRow` checks one row and fills in a missing checksum, `ApplyNext` is one
migration with its ledger row, `Finish` unlocks. The lock is the session's: `SessionLost`
takes it away while the runner goes on. A digest stands for name and checksum. `found` is history: the
rows and the ledger as they were at the start, which is what the grants at the end are compared with.

A replica starts with a release, asks once whether the system is installed and either runs the
migrations (`starting`) or serves the initializer. `Status` is what it may be told: the marker,
the lock file of a replica that cannot reach the database, or no, from a database that is reached
and fails the query. An installation is `Ask`, `Enter` (under the replica's mutex), `OpenDatabase`
or `CreateDatabase`, the run of the migrations, `Bootstrap` (one transaction) and `WriteLock`.
`StartingDatabases` says what a database may be like at the start: blank, or `Installed` by an earlier
release, with the company or with tenants, whatever its grants and its ledger; only what the sixth migration
leaves is tied to its row (plans, policies, settings, a member of the oldest tenant, and `tenant.view`, which no other
brings). In the run seven stand for them: of the company, without a ledger, with a ledger older than checksums, with a
changed text, and with a missing row; of two tenants, one closed and without a ledger, one closed and with
the ledger of an earlier release, some of its grants revoked, and one with all six rows and no checksums. A release that lacks the sixth migration only migrates and serves
here: it neither installs nor makes tenants, as its code for that is not the one in the source.

## 3. What is checked

| Run | Instance | Question |
|---|---|---|
| `JobQueue` | 2 jobs, 2 workers, 2 operators, 2 priorities, 2 attempts, 2 faults, no lapse, 1 failed read | Types; nothing appears from nowhere (`Traced`); scripts move ids, each with its envelope (`MovedNotCopied`); no stale write; the queue implements `JobLifecycle`. All of it while leases outlive their workers. |
| `JobQueueLapses` | 2 jobs, 2 workers, 1 operator, 1 fault, 1 lapse | Is a job lost (`NoJobLost`), and does every job settle (`EveryJobSettles`), when leases lapse under live workers and handlers need not return? |
| `JobQueueLoadError` | as above, 1 failed read | *Violation*: a failed read of the envelope takes the id out of every queue. |
| `JobSchedule` | 3 replicas, 1 steady, skew 2, period 4, TTL 7, 11 ticks | One job for each period, and one for every period. |
| `NotificationOutbox` | 1 in-app and 1 external row, 2 workers, batches of 2, 1 fault, 2 lapses | Exclusive claims, earned and stable final statuses, each deviation explained, every row settles. |
| `KnowledgeIngestion` | 2 jobs, 2 workers, batches of 2, quota 2, 1 fault, 1 lapse | Payloads are there while needed, final statuses are earned and stable, the stores agree, every job settles. |
| `WorkflowGraph` | all graphs on a start, an end and two nodes of any type with at most two edges out of a node (52,640) | Does the walk accept exactly the sound graphs, in any order of the edges, and does every traversal of an accepted one stop where it should? |
| `WorkflowEngine` | 3 definitions of up to 6 nodes, 1 instance, 3 concurrent requests, 3 versions | Decisions are one path, no approval counts twice, and only a newer definition strands an instance. |
| `Records` | 2 records, 2 requests, 2 months, plans of 1 and 2 records, 1 event, 2 versions | Does the meter ever undercount or pass the limit, is an event applied once, and which submissions and records can come apart? |
| `Accounts` | 2 users, 2 tenants, 3 sessions, 2 concurrent requests, 3 roles, 2 ways to close a tenant | Can a tenant lose or share the role of super admin, who can be suspended and through which tenant, does a token that is presented twice leave two sessions, and which sessions outlive their tenant? |
| `Schemas` | 2 fields, 3 definitions (one refused), 1 record, 1 form, 1 sum, 2 requests, 3 versions of the entity, 2 of the record | Can an editor overwrite a definition it was not shown, and what of a record, a submission or a sum does not fit the definition, the form or the number it was checked against? |
| `Installation` | 2 replicas, 2 releases, 2 tenants, 2 requests, an empty and 7 legacy databases | Can it be installed twice, do runners act on a ledger that is gone, does a replica serve over migrations it lacks, and which permission does an upgrade leave out or bring back? |

**Why the bounds are enough to be interesting.** Two workers and two operators are
what it takes for a stale copy: one holds it, the other overtakes. Two jobs let one
starve or shadow another; two priorities exercise the order of the ready lists.
`MaxAttempts = 2` gives a retry before a dead letter. One lapse lets a job be
handed out twice; two let both holders be stale. In the schedule 11 ticks span three periods,
so the first whole period ends inside the run. A quota of 2 with two jobs that can each save
twice is reached. In the engine a decision, a second decision at the same version and
a replaced definition need three requests and three versions. Two requests and two records suffice for a
compensation that races an update or a deletion, two months for a unit booked in one and
given back in the other. Three sessions are what a token that is used twice leaves behind; two
requests interleave any two administrative calls, and a second tenant is one the other user owns.
Roles are replaced by one role at a time, which still gives their unions. `Targets` are suspension and deletion:
an archived tenant differs from a suspended one only in what it may become.
An editor that read the entity's row at version 1 and saves at 2 after another did needs
`MaxVersion = 3`; a record that is written, then updated under a newer definition, `MaxWrites = 2`;
a form and a sum are saved once and never catch up (`MaxDesigns = 1`). Two tenants are an
open and a closed one, or the first and one a user makes; two replicas are the two releases at once. Every bound is a
named constant used only in guards of the environment (faults, lapses, editors,
clock), but for `MaxVersion` of `Records`, which stops updates of a record, and `MaxVersion`,
`MaxWrites` and `MaxDesigns` of `Schemas`, which stop editors and writers.

**Symmetry** is used for workers, operators, jobs, sessions, requests, replicas and actors in runs without liveness
properties, where no definition tells them apart.

**Fairness.** `JobQueue`: the maintenance ticker and the poll loops run while the
server does and time passes, so promotion, reclaim, claim, load and the settling of a
call that returned are weakly fair. The return of a handler is not: `handle` calls it without a
timeout and the heartbeat renews its lease as long as it runs (`queue.go:297-302`).
Producers, operators and faults owe nothing. `EveryJobSettles` of the queue therefore excepts a job that is
in a call that never returns, and behaviours in which such calls hold every worker, or
in which operators replay dead letters for ever: a replayed job of a higher priority is served
first each time. `NotificationOutbox`: the schedules registered in `cmd/server/main.go` keep
producing batch jobs and time passes; its rows are in-app ones, whose delivery calls nobody, and webhooks, whose
client has 15 seconds. An e-mail has no such limit (`notification_worker.go:143`), so
`EveryRowSettles` says nothing of it, nor of the rows behind it in its batch. `KnowledgeIngestion`: likewise the schedule; the
provider's client has a timeout, and that the stores answer is assumed. `WorkflowGraph`: one loop of one request.

`Installation` and `Schemas` have no liveness property: every step may fail, and nobody owes another attempt.

**Deadlock** is checked in `Installation`, where a replica can always be stopped or started. It is
not elsewhere: producers and faults are bounded, a system whose jobs have all settled really
has nothing left to do, and an archived entity is never restored.

## 4. What is proved

Every safety property of every passing run is a theorem, for every value of the constants that
satisfies the named assumptions. Each proof module has one inductive invariant for a component,
or a few that build on one another, and one lemma for each action or group of actions.

**`JobProofs`** (the queue, then the schedule)

- `TypeCorrect`; `TracedHolds`; `NoJobIsLost`: with no failed read (`MaxLoadErrors = 0`), an
  accepted job whose handler has not succeeded is always queued with its envelope and its
  priority, for any number of crashes, lapses, workers and operators. `NoJobLost` alone is not
  inductive, because an acknowledgement deletes the envelope of whatever id its worker holds: the
  invariant adds that a worker about to acknowledge has succeeded, that held and replayed ids were
  accepted, and that copies carry the stored priority (`Traced`).
- With `MaxLapses = 0`, which is the promise made for leases that outlive their workers:
  `MovedHolds`, each id is in at most one place (in none after a failed read); on it rest
  `NoStaleWritesHolds`, by the order of copies (`CopiesInOrder`), and `Implements`, the step simulation of
  `JobLifecycle`: every script and every crash is one step of the abstract specification or none. For that
  `CountsFollow` relates the three counts of a job: its holder's copy counts one failure more than the stored
  envelope if its call failed, and only a dead letter has used up its attempts.
- `KeyHolds` and `OneJob`: with `TTLSuffices` any number of replicas push at most one job for
  each period. `KeyOutlivesPeriod` relates a pass to the clock it read and the key of a
  pushed period to the latest moment anyone can still name it.
- `EveryPeriodHolds`: with `GapsSuffice` no period is skipped. `SteadyKeepsPace` bounds when the steady
  replica looks next; `PassesToSpare` says that while a period has no job its
  latest pass began before the period, but for one gap for each failed script. The attempt showed that `MaxDelay <= MaxGap` is needed, which
  `GapsSuffice` therefore has: a pass that takes longer than the interval delays the next one.

**`WorkflowProofs`** (`WorkflowPaths`, `WorkflowGraph`, `WorkflowEngine`)

- `CheckIsExact`: for graphs of any size and edges in any order the depth-first search accepts
  exactly the `Sound` ones. `CheckInv` says that the calls are a path, that what is done is closed
  under edges and free of cycles, and how `reaches` grows. `FiniteNodes` is its one assumption.
- `AcceptedGraphsAreWalked`: a traversal of an accepted graph ends as `TraversalStops` says. The
  loop is a recursive function of the turns; `TraverseIsLoop` unfolds it once, and on an
  acyclic graph each turn leaves a node for one further on, so it ends within as many turns as there
  are nodes. The induction is over a *set* of numbers (`SetInduction`), from the fact that `<` is
  well-founded. The proof attempt found that two cases of the old `Turn` overlapped, on a node
  that is no condition and has two edges out; `Halt` now names when the loop returns, in the order of the code.
- `TypeCorrect`, `PathHolds`, `StuckOnlyByNewerDefinition`, `PassedOnce`, for any instances and
  requests and definitions that satisfy `AcceptedDefinitions`, which says what `Define` has checked. The
  invariant is what a request knows: its copy of the instance is old (a smaller version) or
  still right, and its copy of the definition likewise. `PassedOnce` adds that under one
  version the decisions of an instance follow edges of one acyclic graph (`SentOnce`).

**`NotificationOutboxProofs`**: `TypeCorrect`; `ExclusiveHolds`, inductive once a claim leaves its batch
when it is delivered (`Apart`), since a mark would otherwise leave it held; `FinalStatusEarned`, by what
the worker was told of the delivery it is about to mark (`Told`); `SettledHolds`; and `DeviationsHold`, an
account for each row (`Paid`): its attempts, the claims that may still fail or succeed and
what is owed for a stale claim stay within the limit, the faults and the lapses.

**`KnowledgeIngestionProofs`**: `TypeCorrect`; `PayloadHolds`: the row comes after the payload (`Uploads`)
and a worker sweeps only behind its own final mark (`Places`), which nothing takes back
(`SettledHolds`); `FinalStatusEarned`; and `StoresHold`, from three accounts: the documents of a
job (`Paid`), the units of the quota (`Counted`) and the payloads left behind (`Few`), each up to one for
a fault or a lapse. Documents and reservations are counted as sets of pairs, so that one more
document is one more element and no sum over jobs is needed.

**`RecordsProofs`**: `TypeCorrect`; `QuotaHolds`, by what is known of a limit that was read
(`LimitsGranted`); `EventsOnce`; `SubmissionsMatch`, whose invariant says what a request
holds that still has to file or undo: a record of its own, created by a submission, that
no other compensation archives and that has a row only if an answer was lost (`Holds`); and `MeterHolds`, a
ledger of four finite sets (`Booked`: a pair of a month and a number for each unit) that
balances at every step, a refund stopped at zero included (`Balances`).

**`AccountsProofs`**: `TypeCorrect`; `SessionsHold`, inductive once logins exist for all their
heirs (a revocation ends the sessions it saw, and those it did not see become `amid` at its commit); and
`SuperAdminsStay`. Its invariant says of the rows that a member of any tenant but the
primary one is its super admin (tenants are made with one member and get no other), and of a
request that waits to write that its decision is still right: a replacement neither makes
nor unmakes a super admin, and a suspension is only ever one of an ordinary member (`DecisionOK`). That no
lock is needed for it is the point: nobody is ever *made* super admin after a tenant's
creation, so the count the code relies on cannot change under it.

**`SchemasProofs`**: `TypeCorrect`; `RecordsFitHolds`, `SumsHold`, `NoOverwrite` and
`SubmissionsHold`, all from one invariant: whoever knows a definition of version v, the
entity or a request that has read it, knows the same fields (`OneDefinition`), and everything
that was checked under v fits them (`Fitting`). It is inductive because the row is read before
the fields, so the version a request holds is at most the one its fields are of (`Copies`), and
because nothing has been written yet under a version that is new (`Rows`).

**`InstallationProofs`** (`Migrations`, `Installation`), for any replicas, releases, tenants and requests
and any starting database that satisfies `StartingDatabases`: one in which nothing was installed, or one that
any earlier release left, whatever its tenants, closed or not, its permissions,
grants and the rows and digests of its ledger, a complete one without checksums included.

- `TypeCorrect` and, under it, who may be where: a runner works for a start or for the
  one request that holds its replica's mutex (`Guarded`), and a pending request is at a replica that serves the
  current release (`Placed`).
- `RunnersSee`: at most one session has the lock and its runner is at work (`Locked`); the rows it has checked
  or applied are its own and the others are as it read them (`Seen`), so a runner that has checked as many rows as it
  read has all of them, `1..at`: the code compares numbers only, and the proof is `AllCounted`.
- `ServingHolds`: a replica that was found to agree with the ledger goes on agreeing (`Agreed`), as rows with a
  checksum keep it (`LedgerGrows`), for releases that agree with each other on digests or not.
- `GrantsHold`: `Early(d, h, f)` says what the rows of a database are before the sixth migration, h being the
  versions of its ledger and f what was found: what each tenant lacks of the default grants is what it
  lacked, less what the versions in h that were ahead have brought. `FoundStage` gives it, or `Late`, for every starting
  database; `ThirdStep`, `FourthStep` and `SameStep` keep it; `SixthStep` turns it into `Late(d, f)`,
  which `BootstrapLate` and `CreateTenantLate` keep. `SixthStep` goes through the parts of the migration one by one
  (`BackfillEffect`, then `RestEffect`), as their order matters: the grants come after the primary tenant is made
  (the mutant turns them round).
- `InstalledOnceHolds`: the marker is written by the transaction that makes the tenant, and inserting it fails if it is
  there; a lock file and an answer come after it (`Once`).

**Only model-checked**: the four liveness properties (`EveryJobSettles` of `JobQueue` and of
`KnowledgeIngestion`, `EveryRowSettles`, `EveryCheckEnds`), which rest on fairness, beyond the
prover's reach. The run that finds a violation has nothing to prove.

## 5. Disagreements found while modelling

- `JobQueueLoadError`: `docs/architecture.md` promises at-least-once crash recovery; `queue.go`
  drops a job's id from the processing set when reading its envelope fails for any reason.

The quotations are in `PROJECT.json`. Observations without a run of their own:

The outbox looks at the attempt limit only after a failed delivery, so batches that crash claim a
row beyond it, against `docs/api.md:210-211`; `DeviationsExplained` allows one attempt too many for each
crash and no more. `docs/api.md:266-267` says the record count is enforced against the plan; the counter is
one of a month and begins at zero while the records of earlier months stay, so `QuotaHeld` bounds what
a month books and not what a tenant has.

`traverse` has no path through a node with two outgoing edges that is no condition, while the
check accepts such a graph, so an instance in front of it can only be rejected
(`TraversalStops` names the case); and a replaced definition may strand a pending
instance (`StuckExplained` says that nothing else does); and the compensation of a failed submission
misses a record that was updated in between, which `SubmissionsMatchRecords` lists among its
causes, against the intent of the comment at
`internal/service/form_submission_service.go:44`. In `Accounts`, a suspension is checked against the
super admins of the tenant it is asked in and takes effect in all tenants of the user, so the
owner of another tenant, its only super admin, can be suspended through the primary one
(`docs/api.md:71-72` makes no such exception; `SuperAdminsKept` names it, and adds that whoever is
suspended is an ordinary member somewhere). `docs/security.md:69-70` and `docs/api.md:85-87` say that closing a tenant revokes
all active sessions; a session stays live if a rotation or a login inserts its row between the start of the revoking statement
and the commit of the new status (`tenant_repository.go:113`), or if a login that was checked before the
closing inserts it later (`ClosedTenantsEnd` says that no other session does whose token a client has). Its
access tokens do not get past `AuthUser`. And as
every request needs an active tenant, a suspended one can be archived or deleted only by a request
that was checked before.

Of the queue: its handler is called without a timeout and the heartbeat renews the lease meanwhile
(`queue.go:297-302`), so a call that never returns, as `smtp.SendMail` may not
(`notification_worker.go:143`), keeps its job and its worker for good; `EveryJobSettles` names that case.

Of definitions: a default of a money field may be larger than an amount may be, and a default of
a date or an address need not be one, so a record that took it cannot be saved again unchanged (`RecordsFit`).
An amount of a million or more is refused in any form, as `%v` writes it with an exponent
(`dynamic_record_service.go:176`). A submission is checked against the entity and not against its form: what
only the form requires may be missing, and a field the form has not may be there
(`SubmissionsExplained`; `docs/architecture.md:94-96` says the form's contract remains authoritative). A
form may leave out a field that is required and has no default, and then nobody can submit it. A sum over a field
whose kind has changed fails the whole dashboard, and a save of it commits and then reports
the error (`SumsExplained`).

Of installation and upgrades: a replica that was told at its start that the system is not installed
runs no workers and no migrations until it is started again, also the one that installed it
(`cmd/server/main.go:121`), and the answer is the same for a database that is reached and fails
the query (`install_repository.go:75`). The lock file lives in the replica's own directory and goes with it. A
second request that waited on the same replica is answered as an error and not as a conflict. Which
permissions an upgrade leaves out, `GrantsFollowTheUpgrade` says exactly. Migration 3 grants to active tenants, so the tenant that
migration 6 makes from the company lacks `user.delete`, unless its roles had it; a tenant that was closed lacks what
was granted to active ones meanwhile; `CreateTenant` leaves `audit.view` out for the super admin. And one is brought
back: migration 6 copies the grants of the roles from before there were tenants, to which migration 4 has added `audit.view`, into
the oldest tenant (`backfillPrimaryTenant`), whether or not its administrator had revoked them there, while `docs/plugin.md:29-31` asks that a
revoked permission not be restored.

## 6. Not modelled, and why

- Length of delays, backoff and jitter: a retried job or row may become due at any moment.
- Telemetry, logs, formatting, text extraction, chunking, embedding, vector search.
- The doubling of a retry delay (`queue.go:330`) overflows for attempt limits far beyond the default; delays
  are not in the model.
- Of a workflow's check: the limit of 2 to 100 nodes, the configuration of nodes, and lists that name one edge of a
  condition twice (edges are a set).
- Of an upgrade: tables, columns, indexes and policies, and an administrator who edits roles or closes a
  tenant while it is under way; of an installation: the check of the input,
  the test of a connection, secrets. Of definitions: slugs, options of a select, layout and
  rendering; of dashboards: counts.
- The file library (`file_service.go`): an object is put before its row and deleted after it,
  with no retry, as in the upload of `KnowledgeIngestion`. The agent: one call of a provider, then
  tokens booked and given back as `Records` does for a record. The rate limiter: one atomic script, or a
  mutex, for each request. Handlers, configuration, health: stateless.
- Role names and the configuration of nodes: who may decide is one of the reasons a
  request gives up. Uniqueness of slugs and reads that only list rows.
- PostgreSQL and Redis: a transaction and a script are atomic; isolation between
  tenants (row-level security) is assumed.
- Components with status `not_modelled` in `PROJECT.json`, each with its reason.

## 7. Plan

In the order of importance:

1. The rest of accounts: the unit a registration books, role permissions, tenant settings.
2. The other metrics of the meter: users, knowledge bytes (with the ingestion module, which has
   a counter of its own now) and tokens of the agent.
3. Proofs for what the first two items add, beside the run that shows it.
4. The file library, and the rate limiter, as far as they have behaviour that is not a
   single transaction.
