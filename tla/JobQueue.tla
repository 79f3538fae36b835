------------------------------ MODULE JobQueue ------------------------------
(***************************************************************************)
(* The Redis-backed durable job queue of src/backend/internal/jobs.        *)
(*                                                                         *)
(* Every Lua script is one atomic action on the Redis keys (jobs,          *)
(* priorities, ready, delayed, lease, dlq).  What happens between two      *)
(* scripts is not atomic: a worker claims an id, loads its envelope, runs  *)
(* the handler on the COPY it loaded, and settles from that copy, while    *)
(* leases expire, the maintenance loops of other replicas reclaim them,    *)
(* operators replay the dead-letter queue, and processes crash.            *)
(*                                                                         *)
(* Time is abstract: a delayed job may become due, and a lease may expire, *)
(* at any moment.  The idempotency key of a producer is in JobSchedule: a  *)
(* suppressed Enqueue changes none of the variables here.                  *)
(***************************************************************************)
EXTENDS Naturals, Sequences, FiniteSets

CONSTANTS
    Jobs,           \* job ids
    Workers,        \* worker goroutines of all replicas
    Operators,      \* callers of ReplayDLQ
    Nil,            \* no job, no envelope, no priority
    Priorities,     \* the ready lists, served from the highest
    MaxAttempts,    \* handler failures after which a job is dead-lettered
    ReplayLimit,    \* ids one ReplayDLQ call takes
    MaxFaults,      \* bound: crashes, lost answers and failed scripts
    MaxLapses,      \* bound: leases that expire under a live worker
    MaxLoadErrors   \* bound: envelope reads that fail though the job is there

ASSUME JobQueueAssumption ==
    /\ Nil \notin Jobs
    /\ Priorities \subseteq Nat
    /\ Nil \notin Priorities
    /\ MaxAttempts \in Nat \ {0}
    /\ ReplayLimit \in Nat \ {0}
    /\ MaxFaults \in Nat
    /\ MaxLapses \in Nat
    /\ MaxLoadErrors \in Nat

Envelope == [attempt : 0..MaxAttempts, priority : Priorities]

ASSUME NilIsNoEnvelope == Nil \notin Envelope

VARIABLES
    jobs,           \* hash: id -> stored envelope
    priorities,     \* hash: id -> priority
    ready,          \* one list of ids per priority
    delayed,        \* ids of the "delayed" sorted set
    lease,          \* the "processing" sorted set: absent, running or run out
    dlq,            \* ids of the dead-letter sorted set
    worker,         \* each worker's place in claim/handle and its local copy
    replay,         \* each operator's place in ReplayDLQ
    faults, lapses, loadErrors,     \* budgets spent
    accepted, succeeded, failures   \* history: see below

(***************************************************************************)
(* History.  accepted: ids Enqueue pushed; succeeded: ids one of whose     *)
(* handler calls returned nil; failures: handler calls of an id that       *)
(* returned an error since it was enqueued or replayed, up to MaxAttempts. *)
(***************************************************************************)
history == <<accepted, succeeded, failures>>
budgets == <<faults, lapses, loadErrors>>
vars == <<jobs, priorities, ready, delayed, lease, dlq, worker, replay,
          faults, lapses, loadErrors, accepted, succeeded, failures>>

Idle == [pc |-> "idle", id |-> Nil, copy |-> Nil]
NoReplay == [todo |-> {}, id |-> Nil, copy |-> Nil]

\* Mutant: a failure is counted twice.
BumpTwice(n) == n + 2

\* Counts stop at MaxAttempts: past it no comparison of the code tells them apart.
Bump(n) == IF n < MaxAttempts THEN n + 1 ELSE n

\* The workers whose lease heartbeat runs: those inside handle.
Handling == {w \in Workers : worker[w].pc \in {"running", "succeeded", "failed"}}

\* The workers that were handed id and have not let go of it.
Holders(id) == {w \in Workers : worker[w].id = id}

InReady(id) == \E p \in Priorities : \E i \in 1..Len(ready[p]) : ready[p][i] = id

\* id is in some queue, so that a later script can hand it out or an operator replay it.
Queued(id) == InReady(id) \/ id \in delayed \/ lease[id] # "none" \/ id \in dlq

Init ==
    /\ jobs = [id \in Jobs |-> Nil]
    /\ priorities = [id \in Jobs |-> Nil]
    /\ ready = [p \in Priorities |-> <<>>]
    /\ delayed = {}
    /\ lease = [id \in Jobs |-> "none"]
    /\ dlq = {}
    /\ worker = [w \in Workers |-> Idle]
    /\ replay = [o \in Operators |-> NoReplay]
    /\ faults = 0 /\ lapses = 0 /\ loadErrors = 0
    /\ accepted = {} /\ succeeded = {}
    /\ failures = [id \in Jobs |-> 0]

-----------------------------------------------------------------------------
(* Producers *)

RPush(p, id) == ready' = [ready EXCEPT ![p] = Append(@, id)]

Store(id, attempt, p) ==
    jobs' = [jobs EXCEPT ![id] = [attempt |-> attempt, priority |-> p]]

Enqueue(id, p, later) ==
    /\ id \notin accepted
    /\ Store(id, 0, p)
    /\ priorities' = [priorities EXCEPT ![id] = p]
    /\ IF later
       THEN delayed' = delayed \cup {id} /\ UNCHANGED ready
       ELSE RPush(p, id) /\ UNCHANGED delayed
    /\ accepted' = accepted \cup {id}
    /\ UNCHANGED <<lease, dlq, worker, replay, budgets, succeeded, failures>>

-----------------------------------------------------------------------------
(* Maintenance: the promote script, on the delayed set and on the leases.  *)
(* One id a step: a batch is that many steps with nothing in between.      *)

\* An id without an entry in "priorities" is dropped from the set all the same.
Requeue(id) ==
    IF priorities[id] # Nil THEN RPush(priorities[id], id) ELSE UNCHANGED ready

Promote(id) ==
    /\ id \in delayed
    /\ Requeue(id)
    /\ delayed' = delayed \ {id}
    /\ UNCHANGED <<jobs, priorities, lease, dlq, worker, replay, budgets, history>>

\* Mutant: the reclaim script takes unexpired leases too.
ReclaimLive(id) ==
    /\ lease[id] # "none"
    /\ Requeue(id)
    /\ lease' = [lease EXCEPT ![id] = "none"]
    /\ UNCHANGED <<jobs, priorities, delayed, dlq, worker, replay, budgets, history>>

\* Mutant: the reclaim script pushes the id and forgets the ZREM.
ReclaimKeeps(id) ==
    /\ lease[id] = "expired"
    /\ Requeue(id)
    /\ lease' = [lease EXCEPT ![id] = "live"]
    /\ UNCHANGED <<jobs, priorities, delayed, dlq, worker, replay, budgets, history>>

Reclaim(id) ==
    /\ lease[id] = "expired"
    /\ Requeue(id)
    /\ lease' = [lease EXCEPT ![id] = "none"]
    /\ UNCHANGED <<jobs, priorities, delayed, dlq, worker, replay, budgets, history>>

\* Time passes the score of a lease.  With a live holder that is a lapse: its
\* heartbeat came too late (a long pause, Redis out of reach).
LeaseExpires(id) ==
    /\ lease[id] = "live"
    /\ lease' = [lease EXCEPT ![id] = "expired"]
    /\ \/ Holders(id) = {} /\ UNCHANGED lapses
       \/ /\ Holders(id) # {}
          /\ lapses < MaxLapses
          /\ lapses' = lapses + 1
    /\ UNCHANGED <<jobs, priorities, ready, delayed, dlq, worker, replay,
                   faults, loadErrors, history>>

-----------------------------------------------------------------------------
(* Workers *)

\* Mutant: the id is popped and not leased.
ClaimScriptNoLease(p, id) ==
    /\ ready[p] # <<>>
    /\ \A q \in Priorities : q > p => ready[q] = <<>>
    /\ id = Head(ready[p])
    /\ ready' = [ready EXCEPT ![p] = Tail(@)]
    /\ UNCHANGED lease

\* The claim script: LPOP from the highest non-empty list, ZADD the lease.
ClaimScript(p, id) ==
    /\ ready[p] # <<>>
    /\ \A q \in Priorities : q > p => ready[q] = <<>>
    /\ id = Head(ready[p])
    /\ ready' = [ready EXCEPT ![p] = Tail(@)]
    /\ lease' = [lease EXCEPT ![id] = "live"]

Goes(w, pc, id, copy) ==
    worker' = [worker EXCEPT ![w] = [pc |-> pc, id |-> id, copy |-> copy]]

Claim(w) ==
    /\ worker[w] = Idle
    /\ \E p \in Priorities, id \in Jobs : ClaimScript(p, id) /\ Goes(w, "loading", id, Nil)
    /\ UNCHANGED <<jobs, priorities, delayed, dlq, replay, budgets, history>>

Fault == faults < MaxFaults /\ faults' = faults + 1 /\ UNCHANGED <<lapses, loadErrors>>

\* The script ran and its answer was lost: claim returns false, the lease stays.
ClaimLost ==
    /\ Fault
    /\ \E p \in Priorities, id \in Jobs : ClaimScript(p, id)
    /\ UNCHANGED <<jobs, priorities, delayed, dlq, worker, replay, history>>

Load(w) ==
    /\ worker[w].pc = "loading"
    /\ jobs[worker[w].id] # Nil
    /\ Goes(w, "running", worker[w].id, jobs[worker[w].id])
    /\ UNCHANGED <<jobs, priorities, ready, delayed, lease, dlq, replay, budgets, history>>

\* Any error of get, the missing envelope and the transient one alike, takes
\* the id out of "processing" and forgets it; nothing puts it back.
LoadFails(w) ==
    /\ worker[w].pc = "loading"
    /\ \/ jobs[worker[w].id] = Nil /\ UNCHANGED loadErrors
       \/ /\ jobs[worker[w].id] # Nil
          /\ loadErrors < MaxLoadErrors
          /\ loadErrors' = loadErrors + 1
    /\ lease' = [lease EXCEPT ![worker[w].id] = "none"]
    /\ worker' = [worker EXCEPT ![w] = Idle]
    /\ UNCHANGED <<jobs, priorities, ready, delayed, dlq, replay, faults, lapses, history>>

HandlerSucceeds(w) ==
    /\ worker[w].pc = "running"
    /\ Goes(w, "succeeded", worker[w].id, worker[w].copy)
    /\ succeeded' = succeeded \cup {worker[w].id}
    /\ UNCHANGED <<jobs, priorities, ready, delayed, lease, dlq, replay, budgets,
                   accepted, failures>>

HandlerFails(w) ==
    /\ worker[w].pc = "running"
    /\ Goes(w, "failed", worker[w].id, [worker[w].copy EXCEPT !.attempt = Bump(@)])
    /\ failures' = [failures EXCEPT ![worker[w].id] = Bump(@)]
    /\ UNCHANGED <<jobs, priorities, ready, delayed, lease, dlq, replay, budgets,
                   accepted, succeeded>>

\* ZADD XX: extends whatever lease the id has now, and creates none.
RenewLease(w) ==
    /\ w \in Handling
    /\ lease[worker[w].id] = "expired"
    /\ lease' = [lease EXCEPT ![worker[w].id] = "live"]
    /\ UNCHANGED <<jobs, priorities, ready, delayed, dlq, worker, replay, budgets, history>>

\* What the three settling scripts share: ZREM of the id from "processing",
\* whoever's lease it is, and the worker is free again.
LetGo(w) ==
    /\ lease' = [lease EXCEPT ![worker[w].id] = "none"]
    /\ worker' = [worker EXCEPT ![w] = Idle]

Ack(w) ==
    /\ worker[w].pc = "succeeded"
    /\ LetGo(w)
    /\ jobs' = [jobs EXCEPT ![worker[w].id] = Nil]
    /\ priorities' = [priorities EXCEPT ![worker[w].id] = Nil]
    /\ UNCHANGED <<ready, delayed, dlq, replay, budgets, history>>

\* Mutant: the attempt limit is not looked at.
RetryForever(w) ==
    /\ worker[w].pc = "failed"
    /\ LetGo(w)
    /\ jobs' = [jobs EXCEPT ![worker[w].id] = worker[w].copy]
    /\ delayed' = delayed \cup {worker[w].id}
    /\ UNCHANGED <<priorities, ready, dlq, replay, budgets, history>>

Retry(w) ==
    /\ worker[w].pc = "failed"
    /\ worker[w].copy.attempt < MaxAttempts
    /\ LetGo(w)
    /\ jobs' = [jobs EXCEPT ![worker[w].id] = worker[w].copy]
    /\ delayed' = delayed \cup {worker[w].id}
    /\ UNCHANGED <<priorities, ready, dlq, replay, budgets, history>>

DeadLetter(w) ==
    /\ worker[w].pc = "failed"
    /\ worker[w].copy.attempt >= MaxAttempts
    /\ LetGo(w)
    /\ jobs' = [jobs EXCEPT ![worker[w].id] = worker[w].copy]
    /\ dlq' = dlq \cup {worker[w].id}
    /\ UNCHANGED <<priorities, ready, delayed, replay, budgets, history>>

\* The settling script failed, or the process crashed or was stopped at any
\* point of claim/handle: nothing is undone, the lease is left to expire.
Abandon(w) ==
    /\ worker[w] # Idle
    /\ Fault
    /\ worker' = [worker EXCEPT ![w] = Idle]
    /\ UNCHANGED <<jobs, priorities, ready, delayed, lease, dlq, replay, history>>

-----------------------------------------------------------------------------
(* ReplayDLQ: one ZRANGE, then for each id a read and a script.  The scores *)
(* that order the dead letters are left out: the batch is any of that size. *)

ReplayList(o) ==
    /\ replay[o] = NoReplay
    /\ \E ids \in SUBSET dlq :
        /\ ids # {}
        /\ Cardinality(ids) <= ReplayLimit
        /\ ids = dlq \/ Cardinality(ids) = ReplayLimit
        /\ replay' = [replay EXCEPT ![o] = [todo |-> ids, id |-> Nil, copy |-> Nil]]
    /\ UNCHANGED <<jobs, priorities, ready, delayed, lease, dlq, worker, budgets, history>>

ReplayGet(o, id) ==
    /\ replay[o].id = Nil
    /\ id \in replay[o].todo
    /\ jobs[id] # Nil
    /\ replay' = [replay EXCEPT ![o] = [todo |-> @.todo, id |-> id, copy |-> jobs[id]]]
    /\ UNCHANGED <<jobs, priorities, ready, delayed, lease, dlq, worker, budgets, history>>

\* An error, the missing envelope or a transient one, ends the whole call.
ReplayGivesUp(o) ==
    /\ replay[o].todo # {}
    /\ replay' = [replay EXCEPT ![o] = NoReplay]
    /\ UNCHANGED <<jobs, priorities, ready, delayed, lease, dlq, worker, budgets, history>>

\* Mutant: the replayed envelope is written with some fixed priority.
ReplayMoveFixedPriority(o) ==
    LET id == replay[o].id
        p  == CHOOSE q \in Priorities : TRUE
    IN  /\ id # Nil
        /\ replay' = [replay EXCEPT ![o] = [todo |-> @.todo \ {id}, id |-> Nil, copy |-> Nil]]
        /\ IF id \in dlq
           THEN /\ dlq' = dlq \ {id}
                /\ Store(id, 0, p)
                /\ RPush(p, id)
                /\ failures' = [failures EXCEPT ![id] = 0]
           ELSE UNCHANGED <<dlq, jobs, ready, failures>>
        /\ UNCHANGED <<priorities, delayed, lease, worker, budgets, accepted, succeeded>>

\* Mutant: the replayed envelope keeps its attempt count.
ReplayMoveKeepsCount(o) ==
    LET id == replay[o].id
        p  == replay[o].copy.priority
    IN  /\ id # Nil
        /\ replay' = [replay EXCEPT ![o] = [todo |-> @.todo \ {id}, id |-> Nil, copy |-> Nil]]
        /\ IF id \in dlq
           THEN /\ dlq' = dlq \ {id}
                /\ RPush(p, id)
                /\ failures' = [failures EXCEPT ![id] = 0]
           ELSE UNCHANGED <<dlq, ready, failures>>
        /\ UNCHANGED <<jobs, priorities, delayed, lease, worker, budgets, accepted, succeeded>>

\* The replay script does nothing for an id another call has moved already.
ReplayMove(o) ==
    LET id == replay[o].id
        p  == replay[o].copy.priority
    IN  /\ id # Nil
        /\ replay' = [replay EXCEPT ![o] = [todo |-> @.todo \ {id}, id |-> Nil, copy |-> Nil]]
        /\ IF id \in dlq
           THEN /\ dlq' = dlq \ {id}
                /\ Store(id, 0, p)
                /\ RPush(p, id)
                /\ failures' = [failures EXCEPT ![id] = 0]
           ELSE UNCHANGED <<dlq, jobs, ready, failures>>
        /\ UNCHANGED <<priorities, delayed, lease, worker, budgets, accepted, succeeded>>

-----------------------------------------------------------------------------
Maintenance(id) == Promote(id) \/ Reclaim(id)

Work(w) ==
    \/ Claim(w) \/ Load(w) \/ LoadFails(w)
    \/ HandlerSucceeds(w) \/ HandlerFails(w) \/ RenewLease(w)
    \/ Ack(w) \/ Retry(w) \/ DeadLetter(w) \/ Abandon(w)

Replay(o) ==
    \/ ReplayList(o) \/ ReplayGivesUp(o) \/ ReplayMove(o)
    \/ \E id \in Jobs : ReplayGet(o, id)

Next ==
    \/ \E id \in Jobs, p \in Priorities, later \in BOOLEAN : Enqueue(id, p, later)
    \/ \E id \in Jobs : Maintenance(id) \/ LeaseExpires(id)
    \/ \E w \in Workers : Work(w)
    \/ ClaimLost
    \/ \E o \in Operators : Replay(o)

Spec == Init /\ [][Next]_vars

\* The maintenance ticker, the poll loops and the clock keep going, and a call that
\* returned is settled.  Nothing limits the time of a handler: it need not return, and
\* its heartbeat keeps the lease.  Producers, operators and faults owe nothing either.
Fairness ==
    /\ \A id \in Jobs : WF_vars(Promote(id)) /\ WF_vars(Reclaim(id)) /\ WF_vars(LeaseExpires(id))
    /\ \A w \in Workers :
        /\ WF_vars(Claim(w)) /\ WF_vars(Load(w) \/ LoadFails(w))
        /\ WF_vars(Ack(w) \/ Retry(w) \/ DeadLetter(w))

FairSpec == Spec /\ Fairness

-----------------------------------------------------------------------------
(* Properties *)

WorkerState ==
    {Idle} \cup [pc : {"loading"}, id : Jobs, copy : {Nil}]
           \cup [pc : {"running", "succeeded", "failed"}, id : Jobs, copy : Envelope]

ReplayState ==
    [todo : SUBSET Jobs, id : {Nil}, copy : {Nil}]
        \cup [todo : SUBSET Jobs, id : Jobs, copy : Envelope]

\* Every key and every local copy keeps its type: envelopes, hashes, lists, leases.
TypeOK ==
    /\ jobs \in [Jobs -> Envelope \cup {Nil}]
    /\ priorities \in [Jobs -> Priorities \cup {Nil}]
    /\ ready \in [Priorities -> Seq(Jobs)]
    /\ delayed \in SUBSET Jobs
    /\ lease \in [Jobs -> {"none", "live", "expired"}]
    /\ dlq \in SUBSET Jobs
    /\ worker \in [Workers -> WorkerState]
    /\ replay \in [Operators -> ReplayState]
    /\ faults \in 0..MaxFaults /\ lapses \in 0..MaxLapses /\ loadErrors \in 0..MaxLoadErrors
    /\ accepted \in SUBSET Jobs /\ succeeded \in SUBSET Jobs
    /\ failures \in [Jobs -> 0..MaxAttempts]

\* Nothing is in a queue, in a worker or in a replay that no producer enqueued; a
\* job about to be acknowledged has succeeded; and every copy of an envelope has
\* the priority the job was enqueued with, unless an acknowledgement deleted that.
Traced ==
    /\ \A id \in Jobs :
        /\ Queued(id) \/ jobs[id] # Nil \/ priorities[id] # Nil => id \in accepted
        /\ jobs[id] # Nil => priorities[id] \in {Nil, jobs[id].priority}
    /\ \A w \in Workers :
        /\ worker[w].id # Nil => worker[w].id \in accepted
        /\ worker[w].pc = "succeeded" => worker[w].id \in succeeded
        /\ worker[w].copy # Nil => priorities[worker[w].id] \in {Nil, worker[w].copy.priority}
    /\ \A o \in Operators :
        /\ replay[o].todo \subseteq accepted
        /\ replay[o].id # Nil =>
            /\ replay[o].id \in accepted
            /\ priorities[replay[o].id] \in {Nil, replay[o].copy.priority}

\* At least once: an accepted job whose handler has not succeeded is in some
\* queue, with the envelope and the priority a later script needs to hand it
\* out, whatever crashes, lapsed leases, stale workers and replays do.
NoJobLost ==
    \A id \in accepted \ succeeded :
        Queued(id) /\ jobs[id] # Nil /\ priorities[id] = jobs[id].priority

\* The scripts MOVE an id: it is in one ready list once, or delayed, or leased,
\* or dead-lettered, and never in two of them.  Needs leases that outlive their workers.
OnePlace ==
    /\ \A p, q \in Priorities : \A i \in 1..Len(ready[p]), j \in 1..Len(ready[q]) :
           ready[p][i] = ready[q][j] => p = q /\ i = j
    /\ \A id \in Jobs :
           /\ InReady(id) => id \notin delayed /\ lease[id] = "none" /\ id \notin dlq
           /\ id \in delayed => lease[id] = "none" /\ id \notin dlq
           /\ id \in dlq => lease[id] = "none"

\* No two workers are in claim or handle with the same job, and the one that is
\* has an unexpired lease.  Needs leases that outlive their workers.
RunsAlone ==
    \A v, w \in Workers :
        worker[v].id # Nil =>
            /\ lease[worker[v].id] = "live"
            /\ worker[w].id = worker[v].id => w = v

\* Whatever can still be handed out or replayed has an envelope to load, and a
\* priority so that no promotion drops it: no acknowledgement deleted them.
QueuedHasEnvelope ==
    \A id \in Jobs :
        Queued(id) => jobs[id] # Nil /\ priorities[id] = jobs[id].priority

\* While leases outlive their workers the scripts move ids, each with its envelope,
\* and never copy them.
MovedNotCopied == OnePlace /\ RunsAlone /\ QueuedHasEnvelope

\* Only a replay lowers the attempt count of a stored envelope: no worker
\* writes back a copy older than the one stored.
AttemptsOnlyGrow ==
    [][\A id \in Jobs :
          jobs[id] # Nil /\ jobs'[id] # Nil /\ jobs'[id].attempt < jobs[id].attempt
              => id \in dlq /\ id \notin dlq']_vars

\* An acknowledged job stays gone: no late retry or replay writes its envelope again.
AckedStaysGone ==
    [][\A id \in accepted : jobs[id] = Nil => jobs'[id] = Nil]_vars

\* While leases outlive their workers no copy a worker or an operator loaded
\* earlier overwrites what another has settled since.
NoStaleWrites == AttemptsOnlyGrow /\ AckedStaysGone

\* Every accepted job is eventually handled with success or dead-lettered, unless a
\* call of its own handler never returns, or one in every worker of every replica; or
\* operators replay dead letters for ever: a replayed job of a higher priority is
\* served first each time.
EveryJobSettles ==
    \/ []<><<\E o \in Operators : ReplayMove(o)>>_vars
    \/ \A w \in Workers : <>[](worker[w].pc = "running")
    \/ \A id \in Jobs :
           \/ id \in accepted ~> id \in succeeded \/ id \in dlq
           \/ \E w \in Workers : <>[](worker[w].pc = "running" /\ worker[w].id = id)

\* What a caller can tell of a job from the queues and the envelope: it is pending as
\* long as some script hands it out again, and lost if none does though it is stored.
Pending(id) == InReady(id) \/ id \in delayed \/ lease[id] # "none"

Status(id) ==
    IF id \notin accepted THEN "new"
    ELSE IF Pending(id) THEN "pending"
    ELSE IF id \in dlq THEN "dead"
    ELSE IF jobs[id] # Nil THEN "lost" ELSE "gone"

Tries(id) == IF jobs[id] = Nil THEN 0 ELSE jobs[id].attempt

Lifecycle == INSTANCE JobLifecycle WITH
    status <- [id \in Jobs |-> Status(id)],
    tries  <- [id \in Jobs |-> Tries(id)],
    failed <- failures,
    errors <- loadErrors

\* While leases outlive their workers the queue implements JobLifecycle: whatever the
\* scripts, crashes and replays do between one another, a job leaves the queues only
\* acknowledged after a success, dead-lettered after MaxAttempts counted failures, or
\* by a failed read, and only a replay, which resets its count, brings one back.
ImplementsLifecycle == Lifecycle!Spec
=============================================================================
