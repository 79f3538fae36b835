------------------------- MODULE KnowledgeIngestion -------------------------
(***************************************************************************)
(* Asynchronous knowledge ingestion.  An upload is put in the object store *)
(* and then recorded as a job row; batches of the knowledge.ingest job     *)
(* claim rows, open the payload, reserve quota, extract and embed, save    *)
(* the document, mark the row and delete the payload.  Three stores (the   *)
(* object store, the quota counter and the database) change one after the  *)
(* other, and the process may stop, or a store fail, between any two.      *)
(*                                                                         *)
(* Every payload has size 1, and the month of the usage counter does not   *)
(* end while jobs are in process.                                          *)
(***************************************************************************)
EXTENDS Integers, FiniteSets

CONSTANTS
    Jobs,           \* ingestion job ids
    Workers,        \* job workers that may run ProcessBatch at the same time
    Nil,            \* no job in process
    BatchSize,      \* rows one ClaimPending takes
    MaxAttempts,    \* attempts after which a failing job is dead-lettered
    Quota,          \* the plan's limit of stored payloads
    MaxFaults,      \* bound: crashes and failures of a store
    MaxLapses       \* bound: claims that grow stale while their batch runs

ASSUME KnowledgeIngestionAssumption ==
    /\ BatchSize \in Nat \ {0}
    /\ MaxAttempts \in Nat \ {0}
    /\ Quota \in Nat
    /\ MaxFaults \in Nat
    /\ MaxLapses \in Nat

Claim == [id : Jobs, attempt : Nat]

ASSUME NilIsNoClaim == Nil \notin Claim

VARIABLES
    upload,         \* per job: how far its Enqueue request is
    object,         \* jobs whose payload is in the object store
    status,         \* column status; "absent" before the row is created
    attempt,        \* column attempt_count
    due,            \* rows whose next_attempt_at is null or past
    stale,          \* rows whose claimed_at is more than ten minutes old
    used,           \* the usage counter of metric knowledge_bytes
    documents,      \* per job: documents saved from its payload
    batch,          \* per worker: claims not yet processed
    current,        \* per worker: the claim processJob is at
    step,           \* per worker: how far processJob is
    unsure,         \* history: jobs whose Create committed and reported an error
    faults, lapses  \* budgets spent

row == <<status, attempt, due, stale>>
local == <<batch, current, step>>
vars == <<upload, object, status, attempt, due, stale, used, documents, batch,
          current, step, unsure, faults, lapses>>

Init ==
    /\ upload = [j \in Jobs |-> "new"]
    /\ object = {}
    /\ status = [j \in Jobs |-> "absent"]
    /\ attempt = [j \in Jobs |-> 0]
    /\ due = {}
    /\ stale = {}
    /\ used = 0
    /\ documents = [j \in Jobs |-> 0]
    /\ batch = [w \in Workers |-> {}]
    /\ current = [w \in Workers |-> Nil]
    /\ step = [w \in Workers |-> "idle"]
    /\ unsure = {}
    /\ faults = 0 /\ lapses = 0

Fault == faults < MaxFaults /\ faults' = faults + 1 /\ UNCHANGED lapses

Calm == UNCHANGED <<faults, lapses>>

\* The claims worker w has not finished.
Held(w) == batch[w] \cup (IF current[w] = Nil THEN {} ELSE {current[w]})

Holders(j) == {w \in Workers : \E c \in Held(w) : c.id = j}

-----------------------------------------------------------------------------
(* Upload requests: Put, then Create, and Delete if Create reported an error *)

Put(j) ==
    /\ upload[j] = "new"
    /\ upload' = [upload EXCEPT ![j] = "stored"]
    /\ object' = object \cup {j}
    /\ UNCHANGED <<row, used, documents, local, unsure, faults, lapses>>

\* Mutant: the row is created before the payload is put.
CreateFirst(j) ==
    /\ upload[j] = "new"
    /\ upload' = [upload EXCEPT ![j] = "done"]
    /\ status' = [status EXCEPT ![j] = "pending"]
    /\ due' = due \cup {j}
    /\ UNCHANGED <<object, attempt, stale, used, documents, local, unsure, faults, lapses>>

Create(j) ==
    /\ upload[j] = "stored"
    /\ upload' = [upload EXCEPT ![j] = "done"]
    /\ status' = [status EXCEPT ![j] = "pending"]
    /\ due' = due \cup {j}
    /\ UNCHANGED <<object, attempt, stale, used, documents, local, unsure, faults, lapses>>

\* Create reports an error, and the row may be there all the same.
CreateFails(j) ==
    /\ upload[j] = "stored"
    /\ Fault
    /\ upload' = [upload EXCEPT ![j] = "cleanup"]
    /\ \/ /\ status' = [status EXCEPT ![j] = "pending"]
          /\ due' = due \cup {j}
          /\ unsure' = unsure \cup {j}
       \/ UNCHANGED <<status, due, unsure>>
    /\ UNCHANGED <<object, attempt, stale, used, documents, local>>

CleanUp(j) ==
    /\ upload[j] = "cleanup"
    /\ upload' = [upload EXCEPT ![j] = "done"]
    /\ object' = object \ {j}
    /\ UNCHANGED <<row, used, documents, local, unsure, faults, lapses>>

\* The process serving the request crashes, or the delete fails.
UploadAbandoned(j) ==
    /\ upload[j] \in {"stored", "cleanup"}
    /\ Fault
    /\ upload' = [upload EXCEPT ![j] = "done"]
    /\ UNCHANGED <<object, row, used, documents, local, unsure>>

-----------------------------------------------------------------------------
(* Time *)

BackoffEnds(j) ==
    /\ status[j] = "failed"
    /\ j \notin due
    /\ due' = due \cup {j}
    /\ UNCHANGED <<upload, object, status, attempt, stale, used, documents, local,
                   unsure, faults, lapses>>

\* Ten minutes pass since the claim.  With its batch still running that is a lapse.
ClaimAges(j) ==
    /\ status[j] = "processing"
    /\ j \notin stale
    /\ stale' = stale \cup {j}
    /\ \/ Holders(j) = {} /\ UNCHANGED lapses
       \/ /\ Holders(j) # {}
          /\ lapses < MaxLapses
          /\ lapses' = lapses + 1
    /\ UNCHANGED <<upload, object, status, attempt, due, used, documents, local,
                   unsure, faults>>

-----------------------------------------------------------------------------
(* ProcessBatch *)

\* Mutant: rows in processing are taken whatever the age of their claim.
ClaimableAnyAge(j) ==
    \/ status[j] \in {"pending", "failed"} /\ j \in due
    \/ status[j] = "processing"

\* Mutant: nobody takes over the claims of a crashed batch.
ClaimableNoTakeover(j) == status[j] \in {"pending", "failed"} /\ j \in due

Claimable(j) ==
    \/ status[j] \in {"pending", "failed"} /\ j \in due
    \/ status[j] = "processing" /\ j \in stale

\* One transaction; rows that are locked by another one are skipped.
ClaimPending(w) ==
    /\ Held(w) = {}
    /\ \E ids \in SUBSET {j \in Jobs : Claimable(j)} :
        /\ ids # {}
        /\ Cardinality(ids) <= BatchSize
        /\ status' = [j \in Jobs |-> IF j \in ids THEN "processing" ELSE status[j]]
        /\ attempt' = [j \in Jobs |-> IF j \in ids THEN attempt[j] + 1 ELSE attempt[j]]
        /\ stale' = stale \ ids
        /\ batch' = [batch EXCEPT ![w] = {[id |-> j, attempt |-> attempt[j] + 1] : j \in ids}]
    /\ UNCHANGED <<upload, object, due, used, documents, current, step, unsure, faults, lapses>>

At(w, s) == current[w] # Nil /\ step[w] = s

Goes(w, s) == step' = [step EXCEPT ![w] = s] /\ UNCHANGED <<batch, current>>

\* Worker w is done with the claim, and takes the next one of its batch.
Done(w) ==
    /\ current' = [current EXCEPT ![w] = Nil]
    /\ step' = [step EXCEPT ![w] = "idle"]
    /\ UNCHANGED batch

\* Open fails when the payload is gone, and when the object store does.
Open(w) ==
    /\ current[w] = Nil
    /\ \E c \in batch[w] :
        /\ batch' = [batch EXCEPT ![w] = @ \ {c}]
        /\ current' = [current EXCEPT ![w] = c]
        /\ \/ c.id \in object /\ step' = [step EXCEPT ![w] = "opened"] /\ Calm
           \/ c.id \notin object /\ step' = [step EXCEPT ![w] = "failed"] /\ Calm
           \/ c.id \in object /\ step' = [step EXCEPT ![w] = "failed"] /\ Fault
    /\ UNCHANGED <<upload, object, row, used, documents, unsure>>

\* Consume: within the limit the counter grows; past it the ingestion fails.
Reserve(w) ==
    /\ At(w, "opened")
    /\ IF used + 1 > Quota
       THEN Goes(w, "failed") /\ UNCHANGED used
       ELSE Goes(w, "reserved") /\ used' = used + 1
    /\ UNCHANGED <<upload, object, row, documents, unsure, faults, lapses>>

\* Consume reports an error though the counter may have grown: no compensation.
ReserveFails(w) ==
    /\ At(w, "opened")
    /\ Fault
    /\ Goes(w, "failed")
    /\ used' \in IF used + 1 > Quota THEN {used} ELSE {used, used + 1}
    /\ UNCHANGED <<upload, object, row, documents, unsure>>

\* The content cannot be read or extracted, the embedding fails, or Save does.
IngestFails(w) ==
    /\ At(w, "reserved")
    /\ Goes(w, "releasing")
    /\ UNCHANGED <<upload, object, row, used, documents, unsure, faults, lapses>>

Save(w) ==
    /\ At(w, "reserved")
    /\ documents' = [documents EXCEPT ![current[w].id] = @ + 1]
    /\ \/ Goes(w, "saved") /\ Calm
       \/ Goes(w, "releasing") /\ Fault     \* committed, and reported as an error
    /\ UNCHANGED <<upload, object, row, used, unsure>>

\* Mutant: the reservation is kept when the ingestion fails.
ReleaseNothing(w) ==
    /\ At(w, "releasing")
    /\ Goes(w, "failed")
    /\ Calm
    /\ UNCHANGED <<used, upload, object, row, documents, unsure>>

\* The deferred compensation: its own error is ignored.
Release(w) ==
    /\ At(w, "releasing")
    /\ Goes(w, "failed")
    /\ \/ used' = (IF used > 0 THEN used - 1 ELSE 0) /\ Calm
       \/ UNCHANGED used /\ Fault
    /\ UNCHANGED <<upload, object, row, documents, unsure>>

\* UPDATE ... WHERE id = ? AND status = 'processing'
Mark(w, to) ==
    LET j == current[w].id
    IN  /\ status' = [status EXCEPT ![j] = to]
        /\ due' = due \ {j}
        /\ stale' = stale \ {j}

\* Mutant: the mark does not ask for the status, so a late one wins.
MarkOrGiveUpAnyStatus(w, to, after) ==
    /\ Mark(w, to)
    /\ IF after = "idle" THEN Done(w) ELSE Goes(w, after)
    /\ Calm
    /\ UNCHANGED <<upload, object, attempt, used, documents, unsure>>

\* The mark, then the step after it; or no row in processing, or a database error:
\* processJob returns, and the payload stays.
MarkOrGiveUp(w, to, after) ==
    /\ \/ /\ status[current[w].id] = "processing"
          /\ Mark(w, to)
          /\ IF after = "idle" THEN Done(w) ELSE Goes(w, after)
          /\ Calm
       \/ /\ status[current[w].id] # "processing"
          /\ UNCHANGED <<status, due, stale>>
          /\ Done(w)
          /\ Calm
       \/ /\ status[current[w].id] = "processing"
          /\ UNCHANGED <<status, due, stale>>
          /\ Done(w)
          /\ Fault
    /\ UNCHANGED <<upload, object, attempt, used, documents, unsure>>

\* Even when this mark fails the document stays, and no failure is recorded.
MarkCompleted(w) ==
    /\ At(w, "saved")
    /\ MarkOrGiveUp(w, "completed", "sweeping")

MarkFailed(w) ==
    /\ At(w, "failed")
    /\ current[w].attempt < MaxAttempts
    /\ MarkOrGiveUp(w, "failed", "idle")

MarkDeadLetter(w) ==
    /\ At(w, "failed")
    /\ current[w].attempt >= MaxAttempts
    /\ MarkOrGiveUp(w, "dead_letter", "sweeping")

\* The delete after a final mark: an error is ignored and the payload stays.
Sweep(w) ==
    /\ At(w, "sweeping")
    /\ Done(w)
    /\ \/ object' = object \ {current[w].id} /\ Calm
       \/ UNCHANGED object /\ Fault
    /\ UNCHANGED <<upload, row, used, documents, unsure>>

\* The process crashes or is stopped.
Crash(w) ==
    /\ Held(w) # {}
    /\ Fault
    /\ batch' = [batch EXCEPT ![w] = {}]
    /\ current' = [current EXCEPT ![w] = Nil]
    /\ step' = [step EXCEPT ![w] = "idle"]
    /\ UNCHANGED <<upload, object, row, used, documents, unsure>>

Upload(j) == Put(j) \/ Create(j) \/ CreateFails(j) \/ CleanUp(j) \/ UploadAbandoned(j)

Settle(w) == MarkCompleted(w) \/ MarkFailed(w) \/ MarkDeadLetter(w)

ProcessBatch(w) ==
    \/ ClaimPending(w) \/ Open(w)
    \/ Reserve(w) \/ ReserveFails(w) \/ IngestFails(w) \/ Save(w) \/ Release(w)
    \/ Settle(w) \/ Sweep(w) \/ Crash(w)

Next ==
    \/ \E j \in Jobs : Upload(j) \/ BackoffEnds(j) \/ ClaimAges(j)
    \/ \E w \in Workers : ProcessBatch(w)

Spec == Init /\ [][Next]_vars

\* Time passes, the schedule keeps producing ingestion jobs, and each call of
\* processJob returns: the provider's client has a timeout, and the stores are
\* assumed to answer.  Uploads and faults owe nothing.
Fairness ==
    /\ \A j \in Jobs : WF_vars(BackoffEnds(j)) /\ WF_vars(ClaimAges(j))
    /\ WF_vars(\E w \in Workers : ClaimPending(w))
    /\ \A w \in Workers :
        /\ WF_vars(Open(w)) /\ WF_vars(Reserve(w)) /\ WF_vars(IngestFails(w) \/ Save(w))
        /\ WF_vars(Release(w)) /\ WF_vars(Settle(w)) /\ WF_vars(Sweep(w))

FairSpec == Spec /\ Fairness

-----------------------------------------------------------------------------
(* Properties *)

Statuses == {"absent", "pending", "processing", "failed", "completed", "dead_letter"}
Steps == {"idle", "opened", "reserved", "releasing", "saved", "failed", "sweeping"}

\* Columns, stores and places keep their types; only a claimed row has a claimed_at,
\* and a worker is in the middle of processJob exactly when it has a current claim.
TypeOK ==
    /\ upload \in [Jobs -> {"new", "stored", "cleanup", "done"}]
    /\ object \in SUBSET Jobs
    /\ status \in [Jobs -> Statuses]
    /\ attempt \in [Jobs -> Nat]
    /\ due \in SUBSET Jobs
    /\ stale \in SUBSET {j \in Jobs : status[j] = "processing"}
    /\ used \in Nat
    /\ documents \in [Jobs -> Nat]
    /\ batch \in [Workers -> SUBSET Claim]
    /\ current \in [Workers -> Claim \cup {Nil}]
    /\ step \in [Workers -> Steps]
    /\ \A w \in Workers : current[w] = Nil <=> step[w] = "idle"
    /\ unsure \in SUBSET Jobs
    /\ faults \in 0..MaxFaults
    /\ lapses \in 0..MaxLapses

Settled(j) == status[j] \in {"completed", "dead_letter"}

\* A row that a batch can still claim, or holds, has its payload to read: the payload
\* is there before the row and goes only after a final mark.  The exception is an
\* upload whose Create committed and reported an error.
PayloadKept ==
    \A j \in Jobs \ unsure : status[j] # "absent" /\ ~Settled(j) => j \in object

\* A completed job has its document, whichever of two overlapping batches marked it.
CompletedHasDocument ==
    \A j \in Jobs : status[j] = "completed" => documents[j] >= 1

\* Only an attempt at the configured limit dead-letters a job.
DeadMeansExhausted ==
    \A j \in Jobs : status[j] = "dead_letter" => attempt[j] >= MaxAttempts

\* A completed or dead-lettered job is settled: no late mark of another batch
\* changes it and no batch claims it again.
SettledStays ==
    [][\A j \in Jobs : Settled(j) => status'[j] = status[j]]_vars

\* A payload becomes two documents, and a dead-lettered job has one, only because
\* of a fault or a lapsed claim: one for each document too many.
DocumentsExplained ==
    \A j \in Jobs :
        documents[j] <= faults + lapses + (IF status[j] = "dead_letter" THEN 0 ELSE 1)

\* A settled job that no worker holds and whose upload is over leaves its payload
\* behind only because of a fault, one for each payload.
OrphansExplained ==
    Cardinality({j \in object : /\ status[j] = "absent" \/ Settled(j)
                                /\ upload[j] = "done" /\ Holders(j) = {}}) <= faults

\* The documents that are stored, those of each job numbered.
Documents == UNION {{<<j, k>> : k \in 1..documents[j]} : j \in Jobs}

Stored == Cardinality(Documents)

\* The workers between a reservation and the save or the release that ends it.
Reserving == {w \in Workers : step[w] \in {"reserved", "releasing"}}

Reserved == Cardinality(Reserving)

\* The quota counter is what is stored and what is reserved, up to one for each fault.
QuotaExplained ==
    /\ Stored + Reserved <= used + faults
    /\ used <= Stored + Reserved + faults

\* The object store, the quota counter, the documents and the job rows agree, up
\* to one deviation for each fault, and a final status is the one the attempts earned.
StoresAgree ==
    /\ DocumentsExplained /\ OrphansExplained /\ QuotaExplained
    /\ CompletedHasDocument /\ DeadMeansExhausted

\* Every job row eventually completes or is dead-lettered.
EveryJobSettles == \A j \in Jobs : status[j] = "pending" ~> Settled(j)
=============================================================================
