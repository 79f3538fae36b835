------------------------- MODULE NotificationOutbox -------------------------
(***************************************************************************)
(* The notification outbox: rows a workflow transaction creates, which     *)
(* batches of the notifications.dispatch job claim with SKIP LOCKED,       *)
(* deliver outside any transaction, and mark afterwards.                   *)
(*                                                                         *)
(* A mark is guarded by the row's id and the status "processing" and by    *)
(* nothing that names the claim, and a claim older than five minutes can   *)
(* be taken over: a batch is claimed at once and delivered row by row, so  *)
(* its last rows may grow stale while the batch is still running.          *)
(***************************************************************************)
EXTENDS Naturals, FiniteSets

CONSTANTS
    Rows,           \* notification ids
    InApp,          \* those of channel "inapp"; the others are webhook or email
    Workers,        \* job workers that may run ProcessBatch at the same time
    Nil,            \* no row in delivery
    BatchSize,      \* rows one ClaimPending takes
    MaxAttempts,    \* deliveries after which a failing row is dead-lettered
    MaxFaults,      \* bound: crashed batches and failed marks
    MaxLapses       \* bound: claims that grow stale while their batch runs

ASSUME NotificationOutboxAssumption ==
    /\ InApp \subseteq Rows
    /\ BatchSize \in Nat \ {0}
    /\ MaxAttempts \in Nat \ {0}
    /\ MaxFaults \in Nat
    /\ MaxLapses \in Nat

\* A claimed row as the batch sees it: its id and the attempt of that claim.
Claim == [id : Rows, attempt : Nat]

ASSUME NilIsNoClaim == Nil \notin Claim

VARIABLES
    status,         \* column status; "absent" before the row is created
    attempt,        \* column attempt_count
    due,            \* rows whose next_attempt_at is null or past
    stale,          \* rows whose claimed_at is more than five minutes old
    batch,          \* per worker: claims not yet delivered
    current,        \* per worker: the claim it delivers and marks
    sent,           \* per worker: deliver returned nil for current
    sends,          \* history: deliveries that reached the recipient
    confirmed,      \* history: rows deliver returned nil for
    ambiguous,      \* history: deliveries that reached the recipient and failed
    faults, lapses  \* budgets spent

history == <<sends, confirmed, ambiguous>>
row == <<status, attempt, due, stale>>
vars == <<status, attempt, due, stale, batch, current, sent, sends, confirmed,
          ambiguous, faults, lapses>>

Init ==
    /\ status = [n \in Rows |-> "absent"]
    /\ attempt = [n \in Rows |-> 0]
    /\ due = {}
    /\ stale = {}
    /\ batch = [w \in Workers |-> {}]
    /\ current = [w \in Workers |-> Nil]
    /\ sent = [w \in Workers |-> FALSE]
    /\ sends = [n \in Rows |-> 0]
    /\ confirmed = {}
    /\ ambiguous = [n \in Rows |-> 0]
    /\ faults = 0 /\ lapses = 0

\* The claims worker w still has to deliver or to mark.
Held(w) == batch[w] \cup (IF current[w] = Nil THEN {} ELSE {current[w]})

Holders(n) == {w \in Workers : \E c \in Held(w) : c.id = n}

-----------------------------------------------------------------------------
\* The workflow transaction that creates the row commits.
Create(n) ==
    /\ status[n] = "absent"
    /\ status' = [status EXCEPT ![n] = "pending"]
    /\ due' = due \cup {n}
    /\ UNCHANGED <<attempt, stale, batch, current, sent, history, faults, lapses>>

\* The backoff of a failed row is over.
BackoffEnds(n) ==
    /\ status[n] = "failed"
    /\ n \notin due
    /\ due' = due \cup {n}
    /\ UNCHANGED <<status, attempt, stale, batch, current, sent, history, faults, lapses>>

\* Five minutes pass since the claim.  With its batch still running that is a lapse.
ClaimAges(n) ==
    /\ status[n] = "processing"
    /\ n \notin stale
    /\ stale' = stale \cup {n}
    /\ \/ Holders(n) = {} /\ UNCHANGED lapses
       \/ /\ Holders(n) # {}
          /\ lapses < MaxLapses
          /\ lapses' = lapses + 1
    /\ UNCHANGED <<status, attempt, due, batch, current, sent, history, faults>>

\* Mutant: rows in processing are taken whatever the age of their claim.
ClaimableAnyAge(n) ==
    \/ status[n] \in {"pending", "failed"} /\ n \in due
    \/ status[n] = "processing"

\* Mutant: nobody takes over the claims of a crashed batch.
ClaimableNoTakeover(n) == status[n] \in {"pending", "failed"} /\ n \in due

Claimable(n) ==
    \/ status[n] \in {"pending", "failed"} /\ n \in due
    \/ status[n] = "processing" /\ n \in stale

\* One transaction.  Rows another transaction has locked are skipped, so it takes
\* any of the claimable rows, at most BatchSize.
ClaimPending(w) ==
    /\ Held(w) = {}
    /\ \E ids \in SUBSET {n \in Rows : Claimable(n)} :
        /\ ids # {}
        /\ Cardinality(ids) <= BatchSize
        /\ status' = [n \in Rows |-> IF n \in ids THEN "processing" ELSE status[n]]
        /\ attempt' = [n \in Rows |-> IF n \in ids THEN attempt[n] + 1 ELSE attempt[n]]
        /\ stale' = stale \ ids
        /\ batch' = [batch EXCEPT ![w] = {[id |-> n, attempt |-> attempt[n] + 1] : n \in ids}]
    /\ UNCHANGED <<due, current, sent, history, faults, lapses>>

\* Worker w has called deliver for the claim c.
Delivered(w, c, ok) ==
    /\ batch' = [batch EXCEPT ![w] = @ \ {c}]
    /\ current' = [current EXCEPT ![w] = c]
    /\ sent' = [sent EXCEPT ![w] = ok]
    /\ UNCHANGED <<row, faults, lapses>>

DeliverSucceeds(w) ==
    /\ current[w] = Nil
    /\ \E c \in batch[w] :
        /\ Delivered(w, c, TRUE)
        /\ confirmed' = confirmed \cup {c.id}
        /\ sends' = [sends EXCEPT ![c.id] = @ + 1]
    /\ UNCHANGED ambiguous

\* An error that says nothing of the recipient: a timeout, a lost or a late answer.
DeliverFails(w) ==
    /\ current[w] = Nil
    /\ \E c \in batch[w] :
        /\ c.id \notin InApp
        /\ Delivered(w, c, FALSE)
        /\ \/ UNCHANGED <<sends, ambiguous>>
           \/ /\ sends' = [sends EXCEPT ![c.id] = @ + 1]
              /\ ambiguous' = [ambiguous EXCEPT ![c.id] = @ + 1]
    /\ UNCHANGED confirmed

\* Mutant: the mark does not ask whether the row is still in processing.
MarkAnyStatus(w, to) ==
    /\ status' = [status EXCEPT ![current[w].id] = to]
    /\ due' = due \ {current[w].id}
    /\ current' = [current EXCEPT ![w] = Nil]
    /\ UNCHANGED <<attempt, stale, batch, sent, history, faults, lapses>>

\* UPDATE ... WHERE id = ? AND status = 'processing'.  No row changed is an error
\* that is logged; the batch goes on.
Mark(w, to) ==
    /\ IF status[current[w].id] = "processing"
       THEN /\ status' = [status EXCEPT ![current[w].id] = to]
            /\ due' = due \ {current[w].id}
            /\ stale' = stale \ {current[w].id}
       ELSE UNCHANGED <<status, due, stale>>
    /\ current' = [current EXCEPT ![w] = Nil]
    /\ UNCHANGED <<attempt, batch, sent, history, faults, lapses>>

MarkDelivered(w) ==
    /\ current[w] # Nil
    /\ sent[w]
    /\ Mark(w, "delivered")

\* Mutant: a row at the limit may be tried once more.
MarkFailedAtLimit(w) ==
    /\ current[w] # Nil
    /\ ~sent[w]
    /\ current[w].attempt <= MaxAttempts
    /\ Mark(w, "failed")

MarkFailed(w) ==
    /\ current[w] # Nil
    /\ ~sent[w]
    /\ current[w].attempt < MaxAttempts
    /\ Mark(w, "failed")

MarkDeadLetter(w) ==
    /\ current[w] # Nil
    /\ ~sent[w]
    /\ current[w].attempt >= MaxAttempts
    /\ Mark(w, "dead_letter")

Fault == faults < MaxFaults /\ faults' = faults + 1 /\ UNCHANGED lapses

\* The database refuses the mark: the row stays in processing, the batch goes on.
MarkLost(w) ==
    /\ current[w] # Nil
    /\ Fault
    /\ current' = [current EXCEPT ![w] = Nil]
    /\ UNCHANGED <<row, batch, sent, history>>

\* The process crashes or is stopped: what it has not marked stays in processing.
Crash(w) ==
    /\ Held(w) # {}
    /\ Fault
    /\ batch' = [batch EXCEPT ![w] = {}]
    /\ current' = [current EXCEPT ![w] = Nil]
    /\ UNCHANGED <<row, sent, history>>

\* The owner reads an in-app row, whatever its status and whoever holds it.
ReadNotification(n) ==
    /\ n \in InApp
    /\ status[n] \notin {"absent", "read"}
    /\ status' = [status EXCEPT ![n] = "read"]
    /\ UNCHANGED <<attempt, due, stale, batch, current, sent, history, faults, lapses>>

ProcessBatch(w) ==
    \/ ClaimPending(w)
    \/ DeliverSucceeds(w) \/ DeliverFails(w)
    \/ MarkDelivered(w) \/ MarkFailed(w) \/ MarkDeadLetter(w) \/ MarkLost(w)
    \/ Crash(w)

Next ==
    \/ \E n \in Rows : Create(n) \/ BackoffEnds(n) \/ ClaimAges(n) \/ ReadNotification(n)
    \/ \E w \in Workers : ProcessBatch(w)

Spec == Init /\ [][Next]_vars

\* The schedule keeps producing dispatch jobs and time passes.  A delivery ends: an
\* in-app one calls nobody and the webhook client has a timeout; nothing bounds an
\* e-mail, so a row for one is outside what EveryRowSettles says.  Workflows, readers,
\* crashes and database errors owe nothing.
Fairness ==
    /\ \A n \in Rows : WF_vars(BackoffEnds(n)) /\ WF_vars(ClaimAges(n))
    /\ WF_vars(\E w \in Workers : ClaimPending(w))
    /\ \A w \in Workers :
        /\ WF_vars(DeliverSucceeds(w) \/ DeliverFails(w))
        /\ WF_vars(MarkDelivered(w) \/ MarkFailed(w) \/ MarkDeadLetter(w))

FairSpec == Spec /\ Fairness

-----------------------------------------------------------------------------
(* Properties *)

Statuses == {"absent", "pending", "processing", "failed", "delivered", "dead_letter", "read"}

\* Columns, batches and counts keep their types; only a claimed row has a claimed_at.
TypeOK ==
    /\ status \in [Rows -> Statuses]
    /\ attempt \in [Rows -> Nat]
    /\ due \in SUBSET Rows
    /\ stale \in SUBSET {n \in Rows : status[n] \in {"processing", "read"}}
    /\ batch \in [Workers -> SUBSET Claim]
    /\ current \in [Workers -> Claim \cup {Nil}]
    /\ sent \in [Workers -> BOOLEAN]
    /\ sends \in [Rows -> Nat]
    /\ confirmed \in SUBSET Rows
    /\ ambiguous \in [Rows -> Nat]
    /\ faults \in 0..MaxFaults
    /\ lapses \in 0..MaxLapses

\* A row is not reported as delivered before a dispatcher succeeded for it,
\* whatever stale batches mark.
DeliveredMeansSent ==
    \A n \in Rows : status[n] = "delivered" => n \in confirmed

\* Only a delivery at the configured limit dead-letters a row, and in-app rows,
\* whose delivery cannot fail, are never dead-lettered.
DeadMeansExhausted ==
    \A n \in Rows : status[n] = "dead_letter" => attempt[n] >= MaxAttempts /\ n \notin InApp

\* A delivered, dead-lettered or read row is settled: no batch claims it again and
\* no late mark changes it.
SettledStays ==
    [][\A n \in Rows :
          /\ status[n] \in {"delivered", "dead_letter"} => status'[n] \in {status[n], "read"}
          /\ status[n] = "read" => status'[n] = "read"]_vars

\* A row is claimed past the configured limit only because a crash, a failed mark
\* or a lapsed claim kept a batch from dead-lettering it: one for each extra attempt.
AttemptsBounded ==
    \A n \in Rows : attempt[n] <= MaxAttempts + faults + lapses

\* A recipient gets a notification twice only because an answer was lost, a batch
\* crashed, a mark failed or a claim lapsed: one of these for each duplicate.
DuplicatesExplained ==
    \A n \in Rows : sends[n] <= 1 + ambiguous[n] + faults + lapses

\* Each claim past the limit and each duplicate is paid for by one deviation, and the
\* final status of a row is the one its deliveries earned.
DeviationsExplained ==
    AttemptsBounded /\ DuplicatesExplained /\ DeliveredMeansSent /\ DeadMeansExhausted

\* As long as batches finish within five minutes a row is in one batch, at the
\* attempt its column shows, and nobody else changes it but its reader.
ClaimsExclusive ==
    lapses = 0 =>
    \A v, w \in Workers : \A c \in Held(v) :
        /\ attempt[c.id] = c.attempt
        /\ status[c.id] \in {"processing", "read"} /\ c.id \notin stale
        /\ \A d \in Held(w) : c.id = d.id => v = w /\ c = d

\* Every row is eventually delivered, dead-lettered or read.
EveryRowSettles ==
    \A n \in Rows : status[n] = "pending" ~> status[n] \in {"delivered", "dead_letter", "read"}
=============================================================================
