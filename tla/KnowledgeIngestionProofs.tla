---------------------- MODULE KnowledgeIngestionProofs ----------------------
(***************************************************************************)
(* For any jobs, workers and bounds: the types; that the payload of a job  *)
(* is kept as long as the job is open; that a settled job stays settled;   *)
(* that its status is the one its attempts earned; and that the stores     *)
(* agree up to one deviation for each fault.                               *)
(*                                                                         *)
(* A payload is deleted in two places.  The upload deletes it after a row  *)
(* that was not created, or is one of "unsure" (Uploads); a worker deletes *)
(* it after its own final mark, and that no one takes back (Places).       *)
(*                                                                         *)
(* What agrees up to a number of faults is counted: Paid for the documents *)
(* of a job, Counted for the quota, Few for the payloads left behind.      *)
(***************************************************************************)
EXTENDS KnowledgeIngestion, FiniteSetTheorems, TLAPS

\* The row is created after the payload was put.
Uploads ==
    \A j \in Jobs :
        /\ upload[j] \in {"new", "stored"} => status[j] = "absent"
        /\ upload[j] = "stored" => j \in object
        /\ upload[j] = "cleanup" => status[j] = "absent" \/ j \in unsure

\* What processJob has done for the claim it is at.
Places ==
    \A w \in Workers : current[w] # Nil =>
        /\ step[w] = "saved" => documents[current[w].id] >= 1
        /\ step[w] = "sweeping" => Settled(current[w].id)

\* A claim's attempt is one its row has had.
Numbered == \A w \in Workers : \A c \in Held(w) : c.attempt <= attempt[c.id]

Earned == CompletedHasDocument /\ DeadMeansExhausted

-----------------------------------------------------------------------------
(* Types and what the steps of a batch do *)

\* What is held is a claim, of a job.
LEMMA HeldTyped ==
    ASSUME TypeOK, NEW w \in Workers
    PROVE  /\ Held(w) \subseteq Claim
           /\ batch[w] \subseteq Claim
           /\ current[w] = Nil \/ current[w] \in Claim
           /\ \A c \in Claim : c.id \in Jobs /\ c.attempt \in Nat /\ c # Nil
BY NilIsNoClaim DEF TypeOK, Held, Claim

\* Faults and lapses stay in their budgets.
LEMMA BudgetTyped ==
    ASSUME TypeOK, Fault \/ Calm
    PROVE  faults' \in 0..MaxFaults /\ lapses' \in 0..MaxLapses
BY KnowledgeIngestionAssumption DEF TypeOK, Fault, Calm

\* Worker w gets on with the claim it is at, or is done with it.
Moves(w) ==
    \/ current[w] # Nil /\ \E s \in Steps \ {"idle"} : Goes(w, s)
    \/ Done(w)

\* Either way a place is a place.
LEMMA MovesTyped ==
    ASSUME TypeOK, NEW w \in Workers, Moves(w)
    PROVE  /\ batch' \in [Workers -> SUBSET Claim]
           /\ current' \in [Workers -> Claim \cup {Nil}]
           /\ step' \in [Workers -> Steps]
           /\ \A v \in Workers : current'[v] = Nil <=> step'[v] = "idle"
           /\ \A v \in Workers : current'[v] \in {current[v], Nil}
           /\ \A v \in Workers : v # w => current'[v] = current[v] /\ step'[v] = step[v]
           /\ \A v \in Workers : Held(v)' \subseteq Held(v)
<1>1. CASE Done(w)
  <2>1. /\ current'[w] = Nil /\ step'[w] = "idle" /\ batch' = batch
        /\ current' \in [Workers -> Claim \cup {Nil}] /\ step' \in [Workers -> Steps]
        /\ \A v \in Workers : v # w => current'[v] = current[v] /\ step'[v] = step[v]
    BY <1>1 DEF Done, TypeOK, Steps
  <2> QED
    BY <2>1 DEF TypeOK, Held
<1>2. CASE current[w] # Nil /\ \E s \in Steps \ {"idle"} : Goes(w, s)
  <2>1. PICK s \in Steps \ {"idle"} : Goes(w, s)
    BY <1>2
  <2>2. /\ step'[w] = s /\ step' \in [Workers -> Steps]
        /\ current' = current /\ batch' = batch
        /\ \A v \in Workers : v # w => step'[v] = step[v]
    BY <2>1 DEF Goes, TypeOK
  <2> QED
    BY <1>2, <2>2 DEF TypeOK, Held
<1> QED
  BY <1>1, <1>2 DEF Moves

\* The three marks: one that takes effect finds its row in processing, and the payload is
\* swept only after a final one.
LEMMA SettleEffect ==
    ASSUME TypeOK, NEW w \in Workers, Settle(w)
    PROVE  /\ current[w] # Nil /\ current[w].id \in Jobs
           /\ status' \in [Jobs -> Statuses] /\ due' \in SUBSET Jobs
           /\ stale' \in SUBSET {j \in Jobs : status'[j] = "processing"}
           /\ \A j \in Jobs : status'[j] # status[j] =>
                /\ j = current[w].id /\ status[j] = "processing"
                /\ \/ status'[j] = "failed"
                   \/ status'[j] = "completed" /\ step[w] = "saved"
                   \/ status'[j] = "dead_letter" /\ current[w].attempt >= MaxAttempts
           /\ Moves(w)
           /\ \/ Done(w)
              \/ Settled(current[w].id)' /\ step' = [step EXCEPT ![w] = "sweeping"] /\ UNCHANGED current
           /\ Fault \/ Calm
           /\ UNCHANGED <<upload, object, attempt, used, documents, unsure>>
<1>1. /\ current[w] # Nil /\ current[w].id \in Jobs
  BY HeldTyped DEF Settle, MarkCompleted, MarkFailed, MarkDeadLetter, At
<1>2. PICK to \in Statuses, after \in {"idle", "sweeping"} :
        /\ MarkOrGiveUp(w, to, after)
        /\ after = "sweeping" => to \in {"completed", "dead_letter"}
        /\ \/ to = "failed"
           \/ to = "completed" /\ step[w] = "saved"
           \/ to = "dead_letter" /\ current[w].attempt >= MaxAttempts
  BY DEF Settle, MarkCompleted, MarkFailed, MarkDeadLetter, At, Statuses
<1>3. UNCHANGED <<upload, object, attempt, used, documents, unsure>>
  BY <1>2 DEF MarkOrGiveUp
<1>4. CASE /\ status[current[w].id] = "processing"
           /\ Mark(w, to)
           /\ IF after = "idle" THEN Done(w) ELSE Goes(w, after)
           /\ Calm
  <2>1. /\ status' = [status EXCEPT ![current[w].id] = to]
        /\ due' = due \ {current[w].id} /\ stale' = stale \ {current[w].id}
    BY <1>4 DEF Mark
  <2>2. /\ status' \in [Jobs -> Statuses] /\ status'[current[w].id] = to
        /\ \A j \in Jobs : j # current[w].id => status'[j] = status[j]
    BY <1>1, <2>1 DEF TypeOK
  <2>3. CASE after = "idle"
    BY <1>1, <1>2, <1>3, <1>4, <2>1, <2>2, <2>3 DEF TypeOK, Moves
  <2>4. CASE after = "sweeping"
    <3>1. Goes(w, "sweeping") /\ Settled(current[w].id)'
      <4>1. UNCHANGED current
        BY <1>4, <2>4 DEF Goes
      <4> QED
        BY <1>2, <1>4, <2>2, <2>4, <4>1 DEF Settled
    <3> QED
      BY <1>1, <1>2, <1>3, <1>4, <2>1, <2>2, <3>1 DEF TypeOK, Moves, Goes, Steps
  <2> QED
    BY <2>3, <2>4
<1>5. CASE Done(w) /\ UNCHANGED <<status, due, stale>> /\ (Fault \/ Calm)
  BY <1>1, <1>3, <1>5 DEF TypeOK, Moves
<1> QED
  BY <1>2, <1>4, <1>5 DEF MarkOrGiveUp

\* A batch that is claimed numbers its claims after its rows.
LEMMA ClaimEffect ==
    ASSUME TypeOK, NEW w \in Workers, ClaimPending(w)
    PROVE  \E ids \in SUBSET {j \in Jobs : Claimable(j)} :
             /\ status' = [j \in Jobs |-> IF j \in ids THEN "processing" ELSE status[j]]
             /\ attempt' = [j \in Jobs |-> IF j \in ids THEN attempt[j] + 1 ELSE attempt[j]]
             /\ stale' = stale \ ids
             /\ batch'[w] = {[id |-> j, attempt |-> attempt[j] + 1] : j \in ids}
             /\ batch' \in [Workers -> SUBSET Claim]
             /\ \A v \in Workers : v # w => batch'[v] = batch[v]
             /\ current[w] = Nil
             /\ UNCHANGED <<upload, object, due, used, documents, current, step, unsure, faults, lapses>>
<1>1. PICK ids \in SUBSET {j \in Jobs : Claimable(j)} :
        /\ status' = [j \in Jobs |-> IF j \in ids THEN "processing" ELSE status[j]]
        /\ attempt' = [j \in Jobs |-> IF j \in ids THEN attempt[j] + 1 ELSE attempt[j]]
        /\ stale' = stale \ ids
        /\ batch' = [batch EXCEPT ![w] = {[id |-> j, attempt |-> attempt[j] + 1] : j \in ids}]
  BY DEF ClaimPending
<1>2. {[id |-> j, attempt |-> attempt[j] + 1] : j \in ids} \subseteq Claim
  BY DEF TypeOK, Claim
<1>3. /\ batch'[w] = {[id |-> j, attempt |-> attempt[j] + 1] : j \in ids}
      /\ batch' \in [Workers -> SUBSET Claim]
      /\ \A v \in Workers : v # w => batch'[v] = batch[v]
  BY <1>1, <1>2 DEF TypeOK
<1>4. current[w] = Nil
  BY DEF ClaimPending, Held
<1> QED
  BY <1>1, <1>3, <1>4 DEF ClaimPending

\* The steps of processJob between the open and the marks: the stores they change.
Works(w) ==
    Reserve(w) \/ ReserveFails(w) \/ IngestFails(w) \/ Save(w) \/ Release(w) \/ Sweep(w)

\* They leave the rows alone; what is saved stays, and a sweep follows a final mark.
LEMMA WorksEffect ==
    ASSUME TypeOK, NEW w \in Workers, Works(w)
    PROVE  /\ current[w] # Nil /\ current[w].id \in Jobs
           /\ Moves(w) /\ (Fault \/ Calm)
           /\ UNCHANGED <<upload, status, attempt, due, stale, unsure>>
           /\ used' \in Nat /\ documents' \in [Jobs -> Nat]
           /\ \A j \in Jobs : documents[j] <= documents'[j]
           /\ step'[w] # "sweeping"
           /\ step'[w] = "saved" => documents'[current[w].id] >= 1
           /\ object' = object \/ (object' = object \ {current[w].id} /\ step[w] = "sweeping")
<1>1. current[w] # Nil /\ current[w].id \in Jobs
  BY HeldTyped DEF Works, Reserve, ReserveFails, IngestFails, Save, Release, Sweep, At
<1>2. CASE Sweep(w)
  <2>1. Done(w) /\ step'[w] = "idle"
    BY <1>2 DEF Sweep, Done, TypeOK
  <2> QED
    BY <1>1, <1>2, <2>1 DEF Sweep, Moves, TypeOK, At, row
<1>3. CASE Save(w)
  <2>1. documents' = [documents EXCEPT ![current[w].id] = @ + 1]
    BY <1>3 DEF Save
  <2>2. PICK s \in {"saved", "releasing"} : Goes(w, s) /\ (Fault \/ Calm)
    BY <1>3 DEF Save
  <2>3. /\ documents' \in [Jobs -> Nat] /\ documents'[current[w].id] >= 1
        /\ \A j \in Jobs : documents[j] <= documents'[j]
    BY <1>1, <2>1 DEF TypeOK
  <2>4. Moves(w) /\ step'[w] = s
    BY <1>1, <2>2 DEF Moves, Steps, Goes, TypeOK
  <2> QED
    BY <1>1, <1>3, <2>2, <2>3, <2>4 DEF Save, TypeOK, row
<1>4. CASE Reserve(w) \/ ReserveFails(w) \/ IngestFails(w) \/ Release(w)
  <2>1. PICK s \in {"failed", "reserved", "releasing"} : Goes(w, s) /\ (Fault \/ Calm)
    BY <1>4 DEF Reserve, ReserveFails, IngestFails, Release, Calm
  <2>2. Moves(w) /\ step'[w] = s
    BY <1>1, <2>1 DEF Moves, Steps, Goes, TypeOK
  <2>3. used' \in Nat
    BY <1>4, KnowledgeIngestionAssumption DEF Reserve, ReserveFails, IngestFails, Release, TypeOK
  <2>4. UNCHANGED <<upload, object, status, attempt, due, stale, documents, unsure>>
    BY <1>4 DEF Reserve, ReserveFails, IngestFails, Release, row
  <2> QED
    BY <1>1, <2>1, <2>2, <2>3, <2>4 DEF TypeOK
<1> QED
  BY <1>2, <1>3, <1>4 DEF Works

\* An open takes a claim of the batch.
LEMMA OpenEffect ==
    ASSUME TypeOK, NEW w \in Workers, Open(w)
    PROVE  /\ batch' \in [Workers -> SUBSET Claim]
           /\ current' \in [Workers -> Claim \cup {Nil}] /\ step' \in [Workers -> Steps]
           /\ \A v \in Workers : current'[v] = Nil <=> step'[v] = "idle"
           /\ step'[w] \in {"opened", "failed"}
           /\ \A v \in Workers : v # w => current'[v] = current[v] /\ step'[v] = step[v]
           /\ \A v \in Workers : Held(v)' \subseteq Held(v)
           /\ Fault \/ Calm
           /\ UNCHANGED <<upload, object, status, attempt, due, stale, used, documents, unsure>>
<1>1. PICK c \in batch[w], s \in {"opened", "failed"} :
        /\ batch' = [batch EXCEPT ![w] = @ \ {c}]
        /\ current' = [current EXCEPT ![w] = c]
        /\ step' = [step EXCEPT ![w] = s] /\ (Fault \/ Calm)
  BY DEF Open
<1>2. c \in Claim /\ c # Nil
  BY HeldTyped
<1>3. /\ batch' \in [Workers -> SUBSET Claim] /\ batch'[w] = batch[w] \ {c}
      /\ current' \in [Workers -> Claim \cup {Nil}] /\ current'[w] = c
      /\ step' \in [Workers -> Steps] /\ step'[w] = s
      /\ \A v \in Workers : v # w =>
            current'[v] = current[v] /\ step'[v] = step[v] /\ batch'[v] = batch[v]
  BY <1>1, <1>2 DEF TypeOK, Steps
<1>4. \A v \in Workers : current'[v] = Nil <=> step'[v] = "idle"
  BY <1>2, <1>3 DEF TypeOK
<1>5. \A v \in Workers : Held(v)' \subseteq Held(v)
  BY <1>2, <1>3 DEF Held
<1> QED
  BY <1>1, <1>3, <1>4, <1>5 DEF Open, row

\* A crash leaves the rows as they are and the worker with nothing.
LEMMA CrashEffect ==
    ASSUME TypeOK, NEW w \in Workers, Crash(w)
    PROVE  /\ batch' \in [Workers -> SUBSET Claim]
           /\ current' \in [Workers -> Claim \cup {Nil}] /\ step' \in [Workers -> Steps]
           /\ current'[w] = Nil /\ step'[w] = "idle"
           /\ \A v \in Workers : v # w => current'[v] = current[v] /\ step'[v] = step[v]
           /\ \A v \in Workers : Held(v)' \subseteq Held(v)
           /\ Fault
           /\ UNCHANGED <<upload, object, status, attempt, due, stale, used, documents, unsure>>
BY DEF Crash, TypeOK, Steps, Held, row

\* An upload ends in a row that is pending, or in none.
LEMMA UploadEffect ==
    ASSUME TypeOK, NEW j \in Jobs, Upload(j)
    PROVE  /\ upload' \in [Jobs -> {"new", "stored", "cleanup", "done"}]
           /\ \A i \in Jobs : i # j => upload'[i] = upload[i] /\ status'[i] = status[i]
           /\ object' \in SUBSET Jobs /\ object \ {j} \subseteq object' /\ unsure \subseteq unsure'
           /\ j \notin object' => upload[j] = "cleanup" \/ object' = object
           /\ status' \in [Jobs -> Statuses] /\ due' \in SUBSET Jobs /\ unsure' \in SUBSET Jobs
           /\ status'[j] = status[j] \/ (upload[j] = "stored" /\ status'[j] = "pending")
           /\ \/ upload[j] = "new" /\ upload'[j] = "stored" /\ j \in object' /\ status' = status
              \/ /\ upload[j] = "stored" /\ upload'[j] = "cleanup"
                 /\ status'[j] = status[j] \/ j \in unsure'
              \/ upload'[j] = "done"
           /\ Fault \/ Calm
           /\ UNCHANGED <<attempt, stale, used, documents, batch, current, step>>
<1>1. CASE Put(j)
  BY <1>1 DEF Put, TypeOK, row, local, Calm
<1>2. CASE Create(j)
  BY <1>2 DEF Create, TypeOK, local, Calm, Statuses
<1>3. CASE CreateFails(j)
  BY <1>3 DEF CreateFails, TypeOK, local, Statuses
<1>4. CASE CleanUp(j)
  BY <1>4 DEF CleanUp, TypeOK, row, local, Calm
<1>5. CASE UploadAbandoned(j)
  BY <1>5 DEF UploadAbandoned, TypeOK, row, local
<1> QED
  BY <1>1, <1>2, <1>3, <1>4, <1>5 DEF Upload

\* Every step keeps the types.
LEMMA TypeStep == TypeOK /\ Uploads /\ [Next]_vars => TypeOK'
<1> SUFFICES ASSUME TypeOK, Uploads, [Next]_vars PROVE TypeOK'
  OBVIOUS
<1>1. ASSUME NEW j \in Jobs, Upload(j) PROVE TypeOK'
  <2>1. stale' \in SUBSET {i \in Jobs : status'[i] = "processing"}
    BY <1>1, UploadEffect DEF TypeOK, Uploads
  <2> QED
    BY <1>1, <2>1, UploadEffect, BudgetTyped DEF TypeOK
<1>2. ASSUME NEW j \in Jobs, BackoffEnds(j) PROVE TypeOK'
  BY <1>2 DEF BackoffEnds, local, TypeOK
<1>3. ASSUME NEW j \in Jobs, ClaimAges(j) PROVE TypeOK'
  <2>1. lapses' \in 0..MaxLapses
    BY <1>3, KnowledgeIngestionAssumption DEF ClaimAges, TypeOK
  <2> QED
    BY <1>3, <2>1 DEF ClaimAges, local, TypeOK
<1>4. ASSUME NEW w \in Workers, ClaimPending(w) PROVE TypeOK'
  BY <1>4, ClaimEffect DEF TypeOK, Statuses
<1>5. ASSUME NEW w \in Workers, Open(w) PROVE TypeOK'
  BY <1>5, OpenEffect, BudgetTyped DEF TypeOK
<1>6. ASSUME NEW w \in Workers, Works(w) PROVE TypeOK'
  <2>1. object' \in SUBSET Jobs
    BY <1>6, WorksEffect DEF TypeOK
  <2> QED
    BY <1>6, <2>1, WorksEffect, MovesTyped, BudgetTyped DEF TypeOK
<1>7. ASSUME NEW w \in Workers, Settle(w) PROVE TypeOK'
  BY <1>7, SettleEffect, MovesTyped, BudgetTyped DEF TypeOK
<1>8. ASSUME NEW w \in Workers, Crash(w) PROVE TypeOK'
  <2>1. \A v \in Workers : current'[v] = Nil <=> step'[v] = "idle"
    BY <1>8, CrashEffect DEF TypeOK
  <2> QED
    BY <1>8, <2>1, CrashEffect, BudgetTyped DEF TypeOK
<1>9. CASE UNCHANGED vars
  BY <1>9 DEF vars, TypeOK
<1> QED
  BY <1>1, <1>2, <1>3, <1>4, <1>5, <1>6, <1>7, <1>8, <1>9 DEF Next, ProcessBatch, Works

-----------------------------------------------------------------------------
(* The invariant *)

\* A step that is no upload's deletes a payload only where a worker sweeps, and changes
\* the status of no row that is absent or settled.
LEMMA BatchStep ==
    ASSUME TypeOK, [Next]_vars, \A j \in Jobs : ~ Upload(j)
    PROVE  /\ UNCHANGED <<upload, unsure>>
           /\ \/ object' = object
              \/ \E w \in Workers :
                   /\ current[w] # Nil /\ step[w] = "sweeping"
                   /\ object' = object \ {current[w].id}
           /\ \A j \in Jobs : status'[j] # status[j] =>
                /\ status[j] \in {"pending", "failed", "processing"} /\ status'[j] # "absent"
                /\ Settled(j)' =>
                     \E w \in Workers :
                        /\ current[w] # Nil /\ current[w].id = j
                        /\ \/ status'[j] = "completed" /\ step[w] = "saved"
                           \/ status'[j] = "dead_letter" /\ current[w].attempt >= MaxAttempts
           /\ \A j \in Jobs : attempt[j] <= attempt'[j] /\ documents[j] <= documents'[j]
<1>1. CASE \/ \E j \in Jobs : BackoffEnds(j) \/ ClaimAges(j)
           \/ UNCHANGED vars
  BY <1>1 DEF BackoffEnds, ClaimAges, vars, TypeOK
<1>2. ASSUME NEW w \in Workers, ClaimPending(w)
      PROVE  /\ UNCHANGED <<upload, unsure, object, documents>>
             /\ \A j \in Jobs : status'[j] # status[j] =>
                  status[j] \in {"pending", "failed", "processing"} /\ status'[j] = "processing"
             /\ \A j \in Jobs : attempt[j] <= attempt'[j]
  BY <1>2, ClaimEffect DEF Claimable, TypeOK
<1>3. ASSUME NEW w \in Workers, Open(w) \/ Crash(w)
      PROVE  UNCHANGED <<upload, unsure, object, status, attempt, documents>>
  BY <1>3, OpenEffect, CrashEffect
<1>4. ASSUME NEW w \in Workers, Settle(w)
      PROVE  /\ UNCHANGED <<upload, unsure, object, attempt, documents>>
             /\ \A j \in Jobs : status'[j] # status[j] =>
                  /\ status[j] = "processing" /\ status'[j] # "absent"
                  /\ current[w] # Nil /\ current[w].id = j
                  /\ \/ status'[j] = "failed"
                     \/ status'[j] = "completed" /\ step[w] = "saved"
                     \/ status'[j] = "dead_letter" /\ current[w].attempt >= MaxAttempts
  BY <1>4, SettleEffect
<1>5. ASSUME NEW w \in Workers, Works(w)
      PROVE  /\ UNCHANGED <<upload, unsure, status, attempt>>
             /\ current[w] # Nil
             /\ \/ object' = object
                \/ object' = object \ {current[w].id} /\ step[w] = "sweeping"
             /\ \A j \in Jobs : documents[j] <= documents'[j]
  BY <1>5, WorksEffect
<1>6. CASE \E w \in Workers : ClaimPending(w)
  BY <1>2, <1>6 DEF TypeOK, Settled
<1>7. CASE \E w \in Workers : Open(w) \/ Crash(w)
  BY <1>3, <1>7 DEF TypeOK
<1>8. CASE \E w \in Workers : Settle(w)
  BY <1>4, <1>8 DEF TypeOK, Settled
<1>9. CASE \E w \in Workers : Works(w)
  BY <1>5, <1>9 DEF TypeOK
<1> QED
  BY <1>1, <1>6, <1>7, <1>8, <1>9 DEF Next, ProcessBatch, Works

\* A settled row keeps its status.
LEMMA SettledStep ==
    ASSUME TypeOK, Uploads, [Next]_vars, NEW j \in Jobs, Settled(j)
    PROVE  status'[j] = status[j]
<1>1. CASE \E i \in Jobs : Upload(i)
  BY <1>1, UploadEffect DEF Uploads, Settled
<1>2. CASE \A i \in Jobs : ~ Upload(i)
  BY <1>2, BatchStep DEF Settled
<1> QED
  BY <1>1, <1>2

\* Documents and attempts only grow.
LEMMA GrowStep ==
    ASSUME TypeOK, [Next]_vars, NEW j \in Jobs
    PROVE  attempt[j] <= attempt'[j] /\ documents[j] <= documents'[j]
<1>1. CASE \E i \in Jobs : Upload(i)
  BY <1>1, UploadEffect DEF TypeOK
<1>2. CASE \A i \in Jobs : ~ Upload(i)
  BY <1>2, BatchStep
<1> QED
  BY <1>1, <1>2

\* The order of an upload: payload, row, and the payload again if the row failed.
LEMMA UploadsStep ==
    ASSUME TypeOK, Uploads, Places, [Next]_vars
    PROVE  Uploads'
<1>1. ASSUME NEW j \in Jobs, Upload(j) PROVE Uploads'
  <2>1. ASSUME NEW i \in Jobs, i # j
        PROVE  /\ upload'[i] \in {"new", "stored"} => status'[i] = "absent"
               /\ upload'[i] = "stored" => i \in object'
               /\ upload'[i] = "cleanup" => status'[i] = "absent" \/ i \in unsure'
    BY <1>1, <2>1, UploadEffect DEF Uploads
  <2>2. /\ upload'[j] \in {"new", "stored"} => status'[j] = "absent"
        /\ upload'[j] = "stored" => j \in object'
        /\ upload'[j] = "cleanup" => status'[j] = "absent" \/ j \in unsure'
    BY <1>1, UploadEffect DEF Uploads
  <2> QED
    BY <2>1, <2>2 DEF Uploads
<1>2. CASE \A j \in Jobs : ~ Upload(j)
  <2>1. UNCHANGED <<upload, unsure>> /\ \A j \in Jobs : status[j] = "absent" => status'[j] = "absent"
    BY <1>2, BatchStep
  <2>2. ASSUME NEW j \in Jobs, upload[j] = "stored" PROVE j \in object'
    BY <1>2, <2>2, BatchStep DEF Uploads, Places, Settled
  <2> QED
    BY <2>1, <2>2 DEF Uploads
<1> QED
  BY <1>1, <1>2

\* Where a worker is it has got by its own steps, and nobody undoes them.
LEMMA PlacesStep ==
    ASSUME TypeOK, Uploads, Places, [Next]_vars
    PROVE  Places'
<1> DEFINE Placed(v) == current[v] # Nil =>
             /\ step[v] = "saved" => documents[current[v].id] >= 1
             /\ step[v] = "sweeping" => Settled(current[v].id)
<1>1. ASSUME NEW v \in Workers, current'[v] = current[v], step'[v] = step[v] PROVE Placed(v)'
  <2>1. SUFFICES ASSUME current[v] # Nil
                 PROVE  /\ step[v] = "saved" => documents'[current[v].id] >= 1
                        /\ step[v] = "sweeping" => Settled(current[v].id)'
    BY <1>1 DEF Settled
  <2>2. current[v].id \in Jobs
    BY <2>1, HeldTyped
  <2>3. step[v] = "saved" => documents'[current[v].id] >= 1
    <3>1. documents[current[v].id] \in Nat /\ documents'[current[v].id] \in Nat
      BY <2>2, TypeStep DEF TypeOK
    <3> QED
      BY <2>1, <2>2, <3>1, GrowStep DEF Places
  <2>4. step[v] = "sweeping" => Settled(current[v].id)'
    BY <1>1, <2>1, <2>2, SettledStep DEF Places, Settled
  <2> QED
    BY <2>3, <2>4
<1>2. ASSUME UNCHANGED <<current, step>> PROVE Places'
  BY <1>1, <1>2 DEF Places
<1>3. ASSUME NEW w \in Workers, Placed(w)',
             \A v \in Workers : v # w => current'[v] = current[v] /\ step'[v] = step[v]
      PROVE  Places'
  BY <1>1, <1>3 DEF Places
<1>4. CASE \/ \E j \in Jobs : Upload(j) \/ BackoffEnds(j) \/ ClaimAges(j)
           \/ \E w \in Workers : ClaimPending(w)
           \/ UNCHANGED vars
  BY <1>2, <1>4, UploadEffect, ClaimEffect DEF BackoffEnds, ClaimAges, local, vars
<1>5. ASSUME NEW w \in Workers, Open(w) PROVE Places'
  <2>1. Placed(w)'
    BY <1>5, OpenEffect
  <2> QED
    BY <1>3, <1>5, <2>1, OpenEffect
<1>6. ASSUME NEW w \in Workers, Works(w) PROVE Places'
  <2>1. current'[w] \in {current[w], Nil}
    BY <1>6, WorksEffect, MovesTyped
  <2>2. Placed(w)'
    BY <1>6, <2>1, WorksEffect
  <2> QED
    BY <1>3, <1>6, <2>2, WorksEffect, MovesTyped
<1>7. ASSUME NEW w \in Workers, Settle(w) PROVE Places'
  <2>1. CASE Done(w)
    <3>1. Placed(w)'
      BY <2>1 DEF Done, TypeOK
    <3> QED
      BY <1>3, <1>7, <3>1, SettleEffect, MovesTyped
  <2>2. CASE Settled(current[w].id)' /\ step' = [step EXCEPT ![w] = "sweeping"] /\ UNCHANGED current
    <3>1. step'[w] = "sweeping"
      BY <2>2 DEF TypeOK
    <3>2. Placed(w)'
      BY <2>2, <3>1
    <3> QED
      BY <1>3, <1>7, <3>2, SettleEffect, MovesTyped
  <2> QED
    BY <1>7, <2>1, <2>2, SettleEffect
<1>8. ASSUME NEW w \in Workers, Crash(w) PROVE Places'
  <2>1. Placed(w)'
    BY <1>8, CrashEffect
  <2> QED
    BY <1>3, <1>8, <2>1, CrashEffect
<1> QED
  BY <1>4, <1>5, <1>6, <1>7, <1>8 DEF Next, ProcessBatch, Works

\* A claim's number stays below its row's, whoever claims the row next.
LEMMA NumberedStep ==
    ASSUME TypeOK, Uploads, Numbered, [Next]_vars
    PROVE  Numbered'
<1>1. ASSUME NEW v \in Workers, NEW c \in Held(v) PROVE c.attempt <= attempt'[c.id]
  <2>1. c.id \in Jobs /\ c.attempt \in Nat
    BY HeldTyped
  <2>2. attempt[c.id] \in Nat /\ attempt'[c.id] \in Nat /\ attempt[c.id] <= attempt'[c.id]
    BY <2>1, GrowStep, TypeStep DEF TypeOK
  <2> QED
    BY <2>1, <2>2 DEF Numbered
<1>2. ASSUME NEW w \in Workers, ClaimPending(w) PROVE Numbered'
  <2>1. PICK ids \in SUBSET {j \in Jobs : Claimable(j)} :
          /\ attempt' = [j \in Jobs |-> IF j \in ids THEN attempt[j] + 1 ELSE attempt[j]]
          /\ batch'[w] = {[id |-> j, attempt |-> attempt[j] + 1] : j \in ids}
          /\ \A v \in Workers : v # w => batch'[v] = batch[v]
          /\ current[w] = Nil /\ UNCHANGED current
    BY <1>2, ClaimEffect
  <2>2. ASSUME NEW c \in Held(w)' PROVE c.attempt <= attempt'[c.id]
    <3>1. PICK j \in ids : c = [id |-> j, attempt |-> attempt[j] + 1]
      BY <2>1, <2>2 DEF Held
    <3> QED
      BY <2>1, <3>1 DEF TypeOK
  <2>3. \A v \in Workers : v # w => Held(v)' = Held(v)
    BY <2>1 DEF Held
  <2> QED
    BY <1>1, <2>2, <2>3 DEF Numbered
<1>3. CASE \A v \in Workers : Held(v)' \subseteq Held(v)
  BY <1>1, <1>3 DEF Numbered
<1>4. CASE \/ \E j \in Jobs : Upload(j) \/ BackoffEnds(j) \/ ClaimAges(j)
           \/ UNCHANGED vars
  BY <1>3, <1>4, UploadEffect DEF BackoffEnds, ClaimAges, local, vars, Held
<1>5. ASSUME NEW w \in Workers, Open(w) \/ Works(w) \/ Settle(w) \/ Crash(w)
      PROVE  \A v \in Workers : Held(v)' \subseteq Held(v)
  BY <1>5, OpenEffect, WorksEffect, SettleEffect, CrashEffect, MovesTyped
<1> QED
  BY <1>2, <1>3, <1>4, <1>5 DEF Next, ProcessBatch, Works

\* A final status is written where its reason is known.
LEMMA EarnedStep ==
    ASSUME TypeOK, Uploads, Places, Numbered, Earned, [Next]_vars
    PROVE  Earned'
<1> SUFFICES ASSUME NEW j \in Jobs, Settled(j)'
             PROVE  /\ status'[j] = "completed" => documents'[j] >= 1
                    /\ status'[j] = "dead_letter" => attempt'[j] >= MaxAttempts
  BY DEF Earned, CompletedHasDocument, DeadMeansExhausted, Settled
<1>1. /\ attempt[j] \in Nat /\ attempt'[j] \in Nat /\ attempt[j] <= attempt'[j]
      /\ documents[j] \in Nat /\ documents'[j] \in Nat /\ documents[j] <= documents'[j]
      /\ MaxAttempts \in Nat
  BY GrowStep, TypeStep, KnowledgeIngestionAssumption DEF TypeOK
<1>2. CASE status'[j] = status[j]
  BY <1>1, <1>2 DEF Earned, CompletedHasDocument, DeadMeansExhausted
<1>3. CASE status'[j] # status[j]
  <2>1. \A i \in Jobs : ~ Upload(i)
    BY <1>3, UploadEffect DEF Settled
  <2>2. PICK w \in Workers :
          /\ current[w] # Nil /\ current[w].id = j
          /\ \/ status'[j] = "completed" /\ step[w] = "saved"
             \/ status'[j] = "dead_letter" /\ current[w].attempt >= MaxAttempts
    BY <1>3, <2>1, BatchStep
  <2>3. current[w] \in Held(w) /\ current[w].attempt \in Nat
    BY <2>2, HeldTyped DEF Held
  <2> QED
    BY <1>1, <2>2, <2>3 DEF Places, Numbered
<1> QED
  BY <1>2, <1>3

\* Whatever deletes a payload, nobody will open it any more.
LEMMA PayloadStep ==
    ASSUME TypeOK, Uploads, Places, PayloadKept, [Next]_vars
    PROVE  PayloadKept'
<1> SUFFICES ASSUME NEW j \in Jobs, j \notin unsure', status'[j] # "absent", ~ Settled(j)'
             PROVE  j \in object'
  BY DEF PayloadKept, Settled
<1>1. ASSUME NEW i \in Jobs, Upload(i) PROVE j \in object'
  <2>1. j \notin unsure
    BY <1>1, UploadEffect
  <2>2. CASE i # j
    BY <1>1, <2>1, <2>2, UploadEffect DEF PayloadKept, Settled
  <2>3. CASE i = j
    <3>1. upload[j] = "stored" => j \in object
      BY DEF Uploads
    <3>2. upload[j] = "cleanup" => status[j] = "absent"
      BY <2>1 DEF Uploads
    <3>3. status'[j] = status[j] => j \in object /\ status[j] # "absent"
      BY <2>1 DEF PayloadKept, Settled
    <3> QED
      BY <1>1, <2>3, <3>1, <3>2, <3>3, UploadEffect
  <2> QED
    BY <2>2, <2>3
<1>2. CASE \A i \in Jobs : ~ Upload(i)
  <2>1. status[j] # "absent" /\ ~ Settled(j) /\ j \notin unsure
    BY <1>2, BatchStep, SettledStep DEF Settled
  <2>2. j \in object
    BY <2>1 DEF PayloadKept
  <2> QED
    BY <1>2, <2>1, <2>2, BatchStep DEF Places
<1> QED
  BY <1>1, <1>2

-----------------------------------------------------------------------------
(* Documents.  One too many is paid for by a fault or a lapse: Paid counts  *)
(* the documents of a job, the toll of a claim still open to anyone, and    *)
(* the claims that may still save one.                                      *)

\* Its last claim is held by a batch.
Newest(j) == \E w \in Workers : \E c \in Held(w) : c.id = j /\ c.attempt = attempt[j]

\* The row can be claimed without a further fault or lapse.
Free(j) ==
    \/ status[j] \in {"absent", "pending", "failed"}
    \/ status[j] = "processing" /\ (j \in stale \/ ~ Newest(j))

Toll(j) == IF Free(j) THEN 1 ELSE 0

\* The claims worker w has not brought to an end.
Hopes(w) ==
    batch[w] \cup (IF step[w] \in {"idle", "saved", "sweeping"} THEN {} ELSE {current[w]})

\* The numbers of the claims that may yet save a document, or make room for one that may.
MaySave(j) ==
    {k \in 0..attempt[j] : \E w \in Workers : \E c \in Hopes(w) : c.id = j /\ c.attempt = k}

\* A claim leaves its batch when it is opened.
Apart == \A w \in Workers : current[w] \notin batch[w]

Dead(j) == status[j] = "dead_letter"

Paid(j) ==
    documents[j] + Toll(j) + Cardinality(MaySave(j)) <= faults + lapses + (IF Dead(j) THEN 0 ELSE 1)

\* No two claims of a job have the same number, and a batch claims a job once.
Distinct ==
    \A v, w \in Workers : \A c \in Held(v), d \in Held(w) :
        c.id = d.id /\ (v = w \/ c.attempt = d.attempt) => v = w /\ c = d

\* What a step does to the account of one job.
Claims(j) ==
    /\ Free(j) /\ ~ Free(j)' /\ ~ Dead(j)'
    /\ MaySave(j)' \subseteq MaySave(j) \cup {attempt[j] + 1}
    /\ documents'[j] = documents[j] /\ Calm

Waits(j) ==
    /\ (Free(j)' => Free(j)) /\ (Dead(j)' => Dead(j))
    /\ MaySave(j)' \subseteq MaySave(j)
    /\ documents'[j] = documents[j] /\ Calm

Deviates(j) ==
    /\ Dead(j)' => Dead(j)
    /\ MaySave(j)' \subseteq MaySave(j)
    /\ \/ documents'[j] = documents[j]
       \/ documents'[j] = documents[j] + 1 /\ (Free(j)' => Free(j))
    /\ \/ faults' = faults + 1 /\ lapses' = lapses
       \/ faults' = faults /\ lapses' = lapses + 1

Ends(j) ==
    /\ \E k \in MaySave(j) : MaySave(j)' \subseteq MaySave(j) \ {k}
    /\ documents'[j] = documents[j] /\ Calm
    /\ \/ ~ Dead(j)'
       \/ Dead(j)' /\ ~ Free(j)'

Saves(j) ==
    /\ (Free(j)' => Free(j)) /\ (Dead(j)' => Dead(j))
    /\ \E k \in MaySave(j) : MaySave(j)' \subseteq MaySave(j) \ {k}
    /\ documents'[j] = documents[j] + 1 /\ Calm

\* Fewer elements count less, and one less by one.
LEMMA Fewer ==
    ASSUME NEW S, IsFiniteSet(S), NEW T, T \subseteq S
    PROVE  /\ IsFiniteSet(T)
           /\ Cardinality(T) \in Nat /\ Cardinality(S) \in Nat /\ Cardinality(T) <= Cardinality(S)
           /\ \A k \in S : T \subseteq S \ {k} => Cardinality(T) + 1 <= Cardinality(S)
<1>1. IsFiniteSet(T) /\ Cardinality(T) <= Cardinality(S)
  BY FS_Subset
<1>2. ASSUME NEW k \in S, T \subseteq S \ {k} PROVE Cardinality(T) + 1 <= Cardinality(S)
  <2>1. IsFiniteSet(S \ {k}) /\ Cardinality(S \ {k}) = Cardinality(S) - 1
    BY FS_RemoveElement
  <2>2. Cardinality(T) <= Cardinality(S \ {k})
    BY <1>2, <2>1, FS_Subset
  <2> QED
    BY <1>1, <2>1, <2>2, FS_CardinalityType
<1> QED
  BY <1>1, <1>2, FS_CardinalityType

\* One element more counts at most one more.
LEMMA OneMore ==
    ASSUME NEW S, IsFiniteSet(S), NEW T, NEW k, T \subseteq S \cup {k}
    PROVE  /\ IsFiniteSet(T)
           /\ Cardinality(T) \in Nat /\ Cardinality(S) \in Nat /\ Cardinality(T) <= Cardinality(S) + 1
<1>1. IsFiniteSet(S \cup {k}) /\ Cardinality(S \cup {k}) <= Cardinality(S) + 1
  <2>1. IsFiniteSet(S \cup {k}) /\ Cardinality(S) \in Nat
    BY FS_AddElement, FS_CardinalityType
  <2>2. Cardinality(S \cup {k}) = Cardinality(S) \/ Cardinality(S \cup {k}) = Cardinality(S) + 1
    BY FS_AddElement
  <2> QED
    BY <2>1, <2>2
<1>2. IsFiniteSet(T) /\ Cardinality(T) <= Cardinality(S \cup {k})
  BY <1>1, FS_Subset
<1> QED
  BY <1>1, <1>2, FS_CardinalityType

\* The numbers are finitely many, and the next one is not among them.
LEMMA CountsAre ==
    ASSUME TypeOK, NEW j \in Jobs
    PROVE  /\ IsFiniteSet(MaySave(j)) /\ Cardinality(MaySave(j)) \in Nat
           /\ documents[j] \in Nat /\ faults \in Nat /\ lapses \in Nat /\ Toll(j) \in {0, 1}
<1>1. attempt[j] \in Nat /\ documents[j] \in Nat /\ faults \in Nat /\ lapses \in Nat
  BY KnowledgeIngestionAssumption DEF TypeOK
<1>2. MaySave(j) \subseteq 0..attempt[j]
  BY DEF MaySave
<1>3. IsFiniteSet(0..attempt[j])
  <2>1. 0 \in Int /\ attempt[j] \in Int
    BY <1>1
  <2> QED
    BY <2>1, FS_Interval, Zenon
<1>4. IsFiniteSet(MaySave(j))
  BY <1>2, <1>3, FS_Subset
<1> QED
  BY <1>1, <1>4, FS_CardinalityType DEF Toll

\* What is counted is a number before and after a step.
LEMMA CountsStep ==
    TypeOK' => \A j \in Jobs :
                 /\ Cardinality(MaySave(j)') \in Nat /\ documents'[j] \in Nat
                 /\ faults' \in Nat /\ lapses' \in Nat /\ Toll(j)' \in {0, 1}
<1> DEFINE Counts ==
             \A j \in Jobs :
               /\ Cardinality(MaySave(j)) \in Nat /\ documents[j] \in Nat
               /\ faults \in Nat /\ lapses \in Nat /\ Toll(j) \in {0, 1}
<1>1. TypeOK => Counts
  BY CountsAre
<1>2. TypeOK' => Counts'
  <2> HIDE DEF Counts
  <2> QED
    BY <1>1, PTL
<1> QED
  BY <1>2

\* Each of these keeps the account in balance.
LEMMA Balances ==
    ASSUME TypeOK, TypeOK', NEW j \in Jobs, Paid(j),
           Claims(j) \/ Waits(j) \/ Deviates(j) \/ Ends(j) \/ Saves(j)
    PROVE  Paid(j)'
<1> DEFINE s == Cardinality(MaySave(j))
           s1 == Cardinality(MaySave(j)')
           t == Toll(j)
           t1 == Toll(j)'
           a == IF Dead(j) THEN 0 ELSE 1
           a1 == IF Dead(j)' THEN 0 ELSE 1
<1>1. /\ s \in Nat /\ t \in {0, 1} /\ documents[j] \in Nat /\ faults \in Nat /\ lapses \in Nat
      /\ a \in {0, 1} /\ IsFiniteSet(MaySave(j))
  BY CountsAre
<1>2. /\ s1 \in Nat /\ t1 \in {0, 1} /\ documents'[j] \in Nat /\ faults' \in Nat /\ lapses' \in Nat
      /\ a1 \in {0, 1}
  BY CountsStep
<1>3. documents[j] + t + s <= faults + lapses + a
  BY DEF Paid
<1>4. SUFFICES documents'[j] + t1 + s1 <= faults' + lapses' + a1
  BY DEF Paid
<1>5. ASSUME MaySave(j)' \subseteq MaySave(j) PROVE s1 <= s
  BY <1>1, <1>5, Fewer
<1>6. ASSUME \E k \in MaySave(j) : MaySave(j)' \subseteq MaySave(j) \ {k} PROVE s1 + 1 <= s
  <2>1. PICK k \in MaySave(j) : MaySave(j)' \subseteq MaySave(j) \ {k}
    BY <1>6
  <2> QED
    BY <1>1, <2>1, Fewer
<1>7. (Dead(j)' => Dead(j)) => a <= a1
  OBVIOUS
<1>8. CASE Claims(j)
  <2>1. t = 1 /\ t1 = 0 /\ s1 <= s + 1 /\ a1 = 1
    BY <1>1, <1>8, OneMore DEF Claims, Toll
  <2> HIDE DEF s, s1, t, t1, a, a1
  <2> QED
    BY <1>1, <1>2, <1>3, <1>8, <2>1 DEF Claims, Calm
<1>9. CASE Waits(j)
  <2>1. t1 <= t /\ s1 <= s /\ a <= a1
    BY <1>5, <1>7, <1>9 DEF Waits, Toll
  <2> HIDE DEF s, s1, t, t1, a, a1
  <2> QED
    BY <1>1, <1>2, <1>3, <1>9, <2>1 DEF Waits, Calm
<1>10. CASE Deviates(j)
  <2>1. s1 <= s /\ a <= a1
    BY <1>5, <1>7, <1>10 DEF Deviates
  <2>2. \/ documents'[j] = documents[j]
        \/ documents'[j] = documents[j] + 1 /\ t1 <= t
    BY <1>10 DEF Deviates, Toll
  <2> HIDE DEF s, s1, t, t1, a, a1
  <2>3. CASE faults' = faults + 1 /\ lapses' = lapses
    BY <1>1, <1>2, <1>3, <2>1, <2>2, <2>3
  <2>4. CASE faults' = faults /\ lapses' = lapses + 1
    BY <1>1, <1>2, <1>3, <2>1, <2>2, <2>4
  <2> QED
    BY <1>10, <2>3, <2>4 DEF Deviates
<1>11. CASE Ends(j)
  <2>1. s1 + 1 <= s
    BY <1>6, <1>11 DEF Ends
  <2>2. a1 = 1 \/ t1 = 0
    BY <1>11 DEF Ends, Toll
  <2> HIDE DEF s, s1, t, t1, a, a1
  <2> QED
    BY <1>1, <1>2, <1>3, <1>11, <2>1, <2>2 DEF Ends, Calm
<1>12. CASE Saves(j)
  <2>1. t1 <= t /\ s1 + 1 <= s /\ a <= a1
    BY <1>6, <1>7, <1>12 DEF Saves, Toll
  <2> HIDE DEF s, s1, t, t1, a, a1
  <2> QED
    BY <1>1, <1>2, <1>3, <1>12, <2>1 DEF Saves, Calm
<1> QED
  BY <1>8, <1>9, <1>10, <1>11, <1>12

\* What a worker holds after a step it held before, or it has just claimed it.
LEMMA HeldStep ==
    ASSUME TypeOK, [Next]_vars
    PROVE  \/ \E w \in Workers : ClaimPending(w)
           \/ \A v \in Workers : Held(v)' \subseteq Held(v)
<1>1. CASE \/ \E j \in Jobs : Upload(j) \/ BackoffEnds(j) \/ ClaimAges(j)
           \/ UNCHANGED vars
  BY <1>1, UploadEffect DEF BackoffEnds, ClaimAges, local, vars, Held
<1>2. ASSUME NEW w \in Workers, Open(w) \/ Works(w) \/ Settle(w) \/ Crash(w)
      PROVE  \A v \in Workers : Held(v)' \subseteq Held(v)
  BY <1>2, OpenEffect, WorksEffect, SettleEffect, CrashEffect, MovesTyped
<1> QED
  BY <1>1, <1>2 DEF Next, ProcessBatch, Works

\* Nothing is held twice after a step: what a batch claims has a number of its own.
LEMMA DistinctStep ==
    ASSUME TypeOK, Numbered, Distinct, [Next]_vars
    PROVE  Distinct'
<1>1. ASSUME NEW w \in Workers, ClaimPending(w) PROVE Distinct'
  <2>1. PICK ids \in SUBSET {j \in Jobs : Claimable(j)} :
          /\ batch'[w] = {[id |-> j, attempt |-> attempt[j] + 1] : j \in ids}
          /\ \A v \in Workers : v # w => batch'[v] = batch[v]
          /\ current[w] = Nil /\ UNCHANGED current
    BY <1>1, ClaimEffect
  <2>2. Held(w)' = batch'[w] /\ \A v \in Workers : v # w => Held(v)' = Held(v)
    BY <2>1 DEF Held
  <2>3. \A j \in Jobs : attempt[j] \in Nat
    BY DEF TypeOK
  <2>4. ASSUME NEW c \in Held(w)' PROVE /\ c.id \in ids /\ c.id \in Jobs
                                        /\ c = [id |-> c.id, attempt |-> attempt[c.id] + 1]
    BY <2>1, <2>2, <2>4
  <2>5. ASSUME NEW v \in Workers, v # w, NEW c \in Held(v)'
        PROVE  c \in Held(v) /\ c.id \in Jobs /\ c.attempt \in Nat /\ c.attempt <= attempt[c.id]
    BY <2>2, <2>5, HeldTyped DEF Numbered
  <2>6. ASSUME NEW u \in Workers, NEW v \in Workers, NEW c \in Held(u)', NEW d \in Held(v)',
               c.id = d.id, u = v \/ c.attempt = d.attempt
        PROVE  u = v /\ c = d
    <3>1. CASE u = w /\ v = w
      BY <2>4, <2>6, <3>1
    <3>2. CASE u = w /\ v # w
      <4>1. c.attempt = attempt[d.id] + 1 /\ d.attempt <= attempt[d.id] /\ d.attempt \in Nat
            /\ attempt[d.id] \in Nat
        BY <2>3, <2>4, <2>5, <2>6, <3>2
      <4> QED
        BY <2>6, <3>2, <4>1
    <3>3. CASE u # w /\ v = w
      <4>1. d.attempt = attempt[c.id] + 1 /\ c.attempt <= attempt[c.id] /\ c.attempt \in Nat
            /\ attempt[c.id] \in Nat
        BY <2>3, <2>4, <2>5, <2>6, <3>3
      <4> QED
        BY <2>6, <3>3, <4>1
    <3>4. CASE u # w /\ v # w
      BY <2>5, <2>6, <3>4 DEF Distinct
    <3> QED
      BY <3>1, <3>2, <3>3, <3>4
  <2> QED
    BY <2>6 DEF Distinct
<1>2. CASE \A w \in Workers : Held(w)' \subseteq Held(w)
  BY <1>2 DEF Distinct
<1> QED
  BY <1>1, <1>2, HeldStep

\* A step that leaves a job's row and documents alone waits, or is a deviation.
LEMMA Quiet ==
    ASSUME TypeOK, NEW j \in Jobs,
           status'[j] = status[j], j \in stale' => j \in stale, attempt'[j] = attempt[j],
           documents'[j] = documents[j], \A v \in Workers : Hopes(v)' \subseteq Hopes(v),
           Fault \/ (Calm /\ (status[j] = "processing" /\ Newest(j) => Newest(j)'))
    PROVE  Waits(j) \/ Deviates(j)
<1>1. MaySave(j)' \subseteq MaySave(j)
  BY DEF MaySave
<1>2. Dead(j)' => Dead(j)
  BY DEF Dead
<1>3. CASE Fault
  BY <1>1, <1>2, <1>3 DEF Fault, Deviates
<1>4. CASE Calm /\ (status[j] = "processing" /\ Newest(j) => Newest(j)')
  BY <1>1, <1>2, <1>4 DEF Waits, Free
<1> QED
  BY <1>3, <1>4

\* A batch's claim of a job takes its toll.
LEMMA ClaimAccount ==
    ASSUME TypeOK, NEW w \in Workers, ClaimPending(w), NEW j \in Jobs
    PROVE  Claims(j) \/ Waits(j) \/ Deviates(j)
<1>1. PICK ids \in SUBSET {i \in Jobs : Claimable(i)} :
        /\ status' = [i \in Jobs |-> IF i \in ids THEN "processing" ELSE status[i]]
        /\ attempt' = [i \in Jobs |-> IF i \in ids THEN attempt[i] + 1 ELSE attempt[i]]
        /\ stale' = stale \ ids
        /\ batch'[w] = {[id |-> i, attempt |-> attempt[i] + 1] : i \in ids}
        /\ \A v \in Workers : v # w => batch'[v] = batch[v]
        /\ current[w] = Nil
        /\ UNCHANGED <<upload, object, due, used, documents, current, step, unsure, faults, lapses>>
  BY ClaimEffect
<1>2. /\ Held(w)' = batch'[w] /\ Hopes(w)' = batch'[w] /\ batch[w] = {}
      /\ \A v \in Workers : v # w => Held(v)' = Held(v) /\ Hopes(v)' = Hopes(v)
  BY <1>1 DEF Held, Hopes, TypeOK, ClaimPending
<1>3. attempt[j] \in Nat /\ Calm
  BY <1>1 DEF TypeOK, Calm
<1>4. CASE j \in ids
  <2>1. attempt'[j] = attempt[j] + 1 /\ status'[j] = "processing" /\ j \notin stale'
    BY <1>1, <1>4
  <2>2. Free(j)
    BY <1>1, <1>4 DEF Claimable, Free
  <2>3. [id |-> j, attempt |-> attempt[j] + 1] \in Held(w)'
    BY <1>1, <1>2, <1>4
  <2>4. Newest(j)'
    BY <2>1, <2>3 DEF Newest
  <2>5. ~ Free(j)' /\ ~ Dead(j)'
    BY <2>1, <2>4 DEF Free, Dead
  <2>6. ASSUME NEW c \in Held(w)', c.id = j PROVE c.attempt = attempt[j] + 1
    BY <1>1, <1>2, <2>6
  <2>7. ASSUME NEW k \in MaySave(j)' PROVE k \in MaySave(j) \cup {attempt[j] + 1}
    <3>1. k \in 0..(attempt[j] + 1)
      BY <2>1, <2>7 DEF MaySave
    <3>2. PICK v \in Workers : \E c \in Hopes(v)' : c.id = j /\ c.attempt = k
      BY <2>7 DEF MaySave
    <3>3. CASE v = w
      BY <1>2, <2>6, <3>2, <3>3
    <3>4. CASE v # w
      <4>1. CASE k = attempt[j] + 1
        BY <4>1
      <4>2. CASE k # attempt[j] + 1
        <5>1. k \in 0..attempt[j]
          BY <1>3, <3>1, <4>2
        <5> QED
          BY <1>2, <3>2, <3>4, <5>1 DEF MaySave
      <4> QED
        BY <4>1, <4>2
    <3> QED
      BY <3>3, <3>4
  <2> QED
    BY <1>1, <1>3, <2>2, <2>5, <2>7 DEF Claims
<1>5. CASE j \notin ids
  <2>1. /\ attempt'[j] = attempt[j] /\ status'[j] = status[j] /\ (j \in stale' <=> j \in stale)
        /\ documents'[j] = documents[j]
    BY <1>1, <1>5
  <2>2. \A v \in Workers :
          /\ \A c \in Held(v) : c.id = j => c \in Held(v)'
          /\ \A c \in Hopes(v)' : c.id = j => c \in Hopes(v)
    <3>1. \A c \in batch'[w] : c.id # j
      BY <1>1, <1>5
    <3>2. Held(w) = {}
      BY DEF ClaimPending
    <3> QED
      BY <1>2, <3>1, <3>2
  <2>3. MaySave(j)' \subseteq MaySave(j)
    BY <2>1, <2>2 DEF MaySave
  <2>4. Newest(j) => Newest(j)'
    BY <2>1, <2>2 DEF Newest
  <2> QED
    BY <1>3, <2>1, <2>3, <2>4 DEF Waits, Free, Dead
<1> QED
  BY <1>4, <1>5

\* An open keeps the claim a hope.
LEMMA OpenAccount ==
    ASSUME TypeOK, NEW w \in Workers, Open(w), NEW j \in Jobs
    PROVE  Waits(j) \/ Deviates(j)
<1>1. PICK c \in batch[w], s \in {"opened", "failed"} :
        /\ batch' = [batch EXCEPT ![w] = @ \ {c}]
        /\ current' = [current EXCEPT ![w] = c]
        /\ step' = [step EXCEPT ![w] = s]
        /\ current[w] = Nil /\ (Fault \/ Calm)
  BY DEF Open
<1>2. UNCHANGED <<status, attempt, stale, documents>>
  BY DEF Open, row
<1>3. c # Nil /\ step[w] = "idle"
  BY <1>1, HeldTyped DEF TypeOK
<1>4. /\ batch'[w] = batch[w] \ {c} /\ current'[w] = c /\ step'[w] = s
      /\ \A v \in Workers : v # w =>
            current'[v] = current[v] /\ step'[v] = step[v] /\ batch'[v] = batch[v]
  BY <1>1 DEF TypeOK
<1>5. \A v \in Workers : Held(v)' = Held(v) /\ Hopes(v)' = Hopes(v)
  BY <1>1, <1>3, <1>4 DEF Held, Hopes
<1>6. Newest(j)' <=> Newest(j)
  BY <1>2, <1>5 DEF Newest
<1> QED
  BY <1>1, <1>2, <1>5, <1>6, Quiet

\* What a claim's step to s leaves in a worker's hands.
LEMMA GoesHopes ==
    ASSUME TypeOK, NEW w \in Workers, NEW s \in Steps \ {"idle"}, Goes(w, s), current[w] # Nil
    PROVE  /\ \A v \in Workers : Held(v)' = Held(v)
           /\ \A v \in Workers : v # w => Hopes(v)' = Hopes(v)
           /\ step[w] \notin {"saved", "sweeping"} => current[w] \in Hopes(w)
           /\ Hopes(w)' = IF s \in {"saved", "sweeping"} THEN batch[w] ELSE batch[w] \cup {current[w]}
           /\ step[w] \in {"saved", "sweeping"} => Hopes(w) = batch[w]
           /\ step[w] \notin {"saved", "sweeping"} => Hopes(w) = batch[w] \cup {current[w]}
<1>1. /\ step'[w] = s /\ UNCHANGED <<batch, current>>
      /\ \A v \in Workers : v # w => step'[v] = step[v]
  BY DEF Goes, TypeOK
<1>2. step[w] # "idle"
  BY DEF TypeOK
<1> QED
  BY <1>1, <1>2 DEF Held, Hopes

\* A worker that is done holds its batch.
LEMMA DoneHopes ==
    ASSUME TypeOK, NEW w \in Workers, Done(w)
    PROVE  /\ \A v \in Workers : v # w => Held(v)' = Held(v) /\ Hopes(v)' = Hopes(v)
           /\ Held(w)' = batch[w] /\ Hopes(w)' = batch[w]
           /\ Held(w) \subseteq batch[w] \cup {current[w]}
           /\ Hopes(w)' \subseteq Hopes(w)
<1>1. /\ step'[w] = "idle" /\ current'[w] = Nil /\ batch' = batch
      /\ \A v \in Workers : v # w => step'[v] = step[v] /\ current'[v] = current[v]
  BY DEF Done, TypeOK
<1> QED
  BY <1>1 DEF Held, Hopes

\* The claim a worker is at is none of its batch, nor of another's, by its number.
LEMMA OwnNumber ==
    ASSUME TypeOK, Numbered, Distinct, Apart, NEW w \in Workers, current[w] # Nil,
           NEW j \in Jobs, current[w].id = j, current[w] \in Hopes(w),
           attempt'[j] = attempt[j],
           \A v \in Workers : v # w => Hopes(v)' = Hopes(v), Hopes(w)' = batch[w]
    PROVE  \E k \in MaySave(j) : MaySave(j)' \subseteq MaySave(j) \ {k}
<1> DEFINE c == current[w]
<1>1. c \in Held(w) /\ c.attempt \in Nat /\ c.attempt <= attempt[j] /\ attempt[j] \in Nat
  BY HeldTyped DEF Held, Numbered, TypeOK
<1>2. c.attempt \in MaySave(j)
  BY <1>1 DEF MaySave
<1>3. \A v \in Workers : Hopes(v)' \subseteq Hopes(v) /\ Hopes(v) \subseteq Held(v)
  BY DEF Hopes, Held, TypeOK
<1>4. ASSUME NEW v \in Workers, NEW d \in Hopes(v)', d.id = j PROVE d.attempt # c.attempt
  <2>1. d \in Held(v) /\ (v = w => d # c)
    BY <1>3, <1>4 DEF Apart
  <2> QED
    BY <1>1, <1>4, <2>1 DEF Distinct
<1>5. MaySave(j)' \subseteq MaySave(j) \ {c.attempt}
  BY <1>3, <1>4 DEF MaySave
<1> QED
  BY <1>2, <1>5

\* A step on the way to the marks ends a hope only by saving a document.
LEMMA WorksAccount ==
    ASSUME TypeOK, Places, Apart, Numbered, Distinct, NEW w \in Workers, Works(w), NEW j \in Jobs
    PROVE  Waits(j) \/ Deviates(j) \/ Saves(j)
<1>1. /\ current[w] # Nil /\ current[w].id \in Jobs /\ (Fault \/ Calm)
      /\ UNCHANGED <<status, attempt, stale>>
  BY WorksEffect
<1>2. ASSUME NEW s \in {"failed", "reserved", "releasing"}, Goes(w, s),
             step[w] \in {"opened", "reserved", "releasing"}
      PROVE  /\ \A v \in Workers : Hopes(v)' = Hopes(v)
             /\ Newest(j) <=> Newest(j)'
  <2>1. \A v \in Workers : Held(v)' = Held(v) /\ Hopes(v)' = Hopes(v)
    BY <1>1, <1>2, GoesHopes DEF Steps
  <2> QED
    BY <1>1, <2>1 DEF Newest
<1>3. CASE Reserve(w) \/ ReserveFails(w) \/ IngestFails(w) \/ Release(w)
  <2>1. PICK s \in {"failed", "reserved", "releasing"} :
          Goes(w, s) /\ step[w] \in {"opened", "reserved", "releasing"}
    BY <1>3 DEF Reserve, ReserveFails, IngestFails, Release, At
  <2>2. documents' = documents
    BY <1>3 DEF Reserve, ReserveFails, IngestFails, Release
  <2>3. /\ \A v \in Workers : Hopes(v)' = Hopes(v)
        /\ Newest(j) <=> Newest(j)'
    BY <1>2, <2>1
  <2> QED
    BY <1>1, <2>2, <2>3, Quiet
<1>4. CASE Save(w)
  <2>1. /\ documents' = [documents EXCEPT ![current[w].id] = @ + 1] /\ step[w] = "reserved"
        /\ documents[j] \in Nat /\ j \in DOMAIN documents
    BY <1>4 DEF Save, At, TypeOK
  <2>2. CASE Goes(w, "releasing") /\ Fault
    <3>1. /\ \A v \in Workers : Hopes(v)' = Hopes(v)
          /\ Newest(j) <=> Newest(j)'
      BY <1>2, <2>1, <2>2
    <3>2. CASE j = current[w].id
      <4>1. documents'[j] = documents[j] + 1
        BY <2>1, <3>2
      <4>2. MaySave(j)' \subseteq MaySave(j) /\ (Dead(j)' => Dead(j)) /\ (Free(j)' => Free(j))
        BY <1>1, <3>1 DEF MaySave, Dead, Free
      <4> QED
        BY <2>2, <4>1, <4>2 DEF Deviates, Fault
    <3>3. CASE j # current[w].id
      BY <1>1, <2>1, <2>2, <3>1, <3>3, Quiet
    <3> QED
      BY <3>2, <3>3
  <2>3. CASE Goes(w, "saved") /\ Calm
    <3>1. /\ \A v \in Workers : Held(v)' = Held(v)
          /\ \A v \in Workers : v # w => Hopes(v)' = Hopes(v)
          /\ Hopes(w)' = batch[w] /\ Hopes(w) = batch[w] \cup {current[w]}
      BY <1>1, <2>1, <2>3, GoesHopes DEF Steps
    <3>2. Newest(j) <=> Newest(j)'
      BY <1>1, <3>1 DEF Newest
    <3>3. CASE j = current[w].id
      <4>1. documents'[j] = documents[j] + 1
        BY <2>1, <3>3
      <4>2. \E k \in MaySave(j) : MaySave(j)' \subseteq MaySave(j) \ {k}
        BY <1>1, <3>1, <3>3, OwnNumber
      <4>3. (Dead(j)' => Dead(j)) /\ (Free(j)' => Free(j))
        BY <1>1, <3>2 DEF Dead, Free
      <4> QED
        BY <2>3, <4>1, <4>2, <4>3 DEF Saves
    <3>4. CASE j # current[w].id
      BY <1>1, <2>1, <2>3, <3>1, <3>2, <3>4, Quiet
    <3> QED
      BY <3>3, <3>4
  <2> QED
    BY <1>4, <2>2, <2>3 DEF Save
<1>5. CASE Sweep(w)
  <2>1. Done(w) /\ step[w] = "sweeping" /\ documents' = documents
    BY <1>5 DEF Sweep, At
  <2>2. \A v \in Workers : Hopes(v)' \subseteq Hopes(v)
    BY <2>1, DoneHopes
  <2>3. status[j] = "processing" /\ Newest(j) => Newest(j)'
    <3>1. status[j] = "processing" => j # current[w].id
      BY <1>1, <2>1 DEF Places, Settled
    <3> QED
      BY <1>1, <2>1, <3>1, DoneHopes DEF Newest
  <2> QED
    BY <1>1, <2>1, <2>2, <2>3, Quiet
<1> QED
  BY <1>3, <1>4, <1>5 DEF Works

\* A mark that opens a job, or buries it, ends a hope of its.
LEMMA SettleAccount ==
    ASSUME TypeOK, Apart, Numbered, Distinct, NEW w \in Workers, Settle(w), NEW j \in Jobs
    PROVE  Waits(j) \/ Deviates(j) \/ Ends(j)
<1> DEFINE c == current[w]
<1>1. c # Nil /\ c.id \in Jobs
  BY SettleEffect
<1>2. PICK to \in {"completed", "failed", "dead_letter"}, after \in {"idle", "sweeping"} :
        /\ MarkOrGiveUp(w, to, after)
        /\ to = "failed" <=> after = "idle"
        /\ to = "completed" => step[w] = "saved"
        /\ to # "completed" => step[w] = "failed"
  BY DEF Settle, MarkCompleted, MarkFailed, MarkDeadLetter, At
<1>3. documents' = documents /\ attempt' = attempt
  BY <1>2 DEF MarkOrGiveUp
<1>4. CASE Done(w) /\ UNCHANGED <<status, due, stale>> /\ (Fault \/ (Calm /\ status[c.id] # "processing"))
  <2>1. \A v \in Workers : Hopes(v)' \subseteq Hopes(v)
    BY <1>4, DoneHopes
  <2>2. Calm => (status[j] = "processing" /\ Newest(j) => Newest(j)')
    <3>1. Calm => Fault \/ (status[j] = "processing" => j # c.id)
      BY <1>4
    <3>2. ~ (Calm /\ Fault)
      BY DEF Calm, Fault, TypeOK
    <3>3. j # c.id => (Newest(j) => Newest(j)')
      BY <1>3, <1>4, DoneHopes DEF Newest
    <3> QED
      BY <3>1, <3>2, <3>3
  <2> QED
    BY <1>3, <1>4, <2>1, <2>2, Quiet
<1>5. CASE /\ status[c.id] = "processing"
           /\ Mark(w, to)
           /\ IF after = "idle" THEN Done(w) ELSE Goes(w, after)
           /\ Calm
  <2>1. /\ status' = [status EXCEPT ![c.id] = to]
        /\ stale' = stale \ {c.id}
    BY <1>5 DEF Mark
  <2>2. /\ status'[c.id] = to
        /\ j # c.id => status'[j] = status[j] /\ (j \in stale' <=> j \in stale)
    BY <1>1, <2>1 DEF TypeOK
  <2>3. /\ \A v \in Workers : v # w => Held(v)' = Held(v) /\ Hopes(v)' = Hopes(v)
        /\ Hopes(w)' = batch[w]
        /\ \A d \in Held(w) : d # c => d \in Held(w)'
        /\ step[w] = "saved" => Hopes(w) = batch[w]
        /\ step[w] = "failed" => Hopes(w) = batch[w] \cup {c}
    <3>1. CASE after = "idle"
      <4>1. Done(w)
        BY <1>5, <3>1
      <4>2. step[w] = "saved" => Hopes(w) = batch[w]
        BY DEF Hopes
      <4>3. step[w] = "failed" => Hopes(w) = batch[w] \cup {c}
        BY DEF Hopes
      <4> QED
        BY <4>1, <4>2, <4>3, DoneHopes
    <3>2. CASE after = "sweeping"
      <4>1. Goes(w, "sweeping")
        BY <1>5, <3>2
      <4> QED
        BY <1>1, <4>1, GoesHopes DEF Steps
    <3> QED
      BY <3>1, <3>2
  <2>4. \A v \in Workers : Hopes(v)' \subseteq Hopes(v)
    BY <1>2, <2>3
  <2>5. CASE j # c.id
    <3>1. Newest(j) => Newest(j)'
      BY <1>3, <2>3, <2>5 DEF Newest
    <3> QED
      BY <1>3, <1>5, <2>2, <2>4, <2>5, <3>1, Quiet
  <2>6. CASE j = c.id /\ to = "completed"
    <3>1. ~ Free(j)' /\ ~ Dead(j)'
      BY <2>2, <2>6 DEF Free, Dead
    <3>2. MaySave(j)' \subseteq MaySave(j)
      BY <1>3, <2>4 DEF MaySave
    <3> QED
      BY <1>3, <1>5, <3>1, <3>2 DEF Waits
  <2>7. CASE j = c.id /\ to # "completed"
    <3>1. \E k \in MaySave(j) : MaySave(j)' \subseteq MaySave(j) \ {k}
      BY <1>1, <1>2, <1>3, <2>3, <2>7, OwnNumber
    <3>2. ~ Dead(j)' \/ (Dead(j)' /\ ~ Free(j)')
      BY <1>2, <2>2, <2>7 DEF Dead, Free
    <3> QED
      BY <1>3, <1>5, <3>1, <3>2 DEF Ends
  <2> QED
    BY <2>5, <2>6, <2>7
<1> QED
  BY <1>2, <1>4, <1>5 DEF MarkOrGiveUp

\* Every step keeps every job's account.
LEMMA PaidStep ==
    ASSUME TypeOK, TypeOK', Uploads, Places, Apart, Numbered, Distinct, [Next]_vars,
           NEW j \in Jobs, Paid(j)
    PROVE  Paid(j)'
<1> SUFFICES Claims(j) \/ Waits(j) \/ Deviates(j) \/ Ends(j) \/ Saves(j)
  BY Balances
<1>1. ASSUME NEW i \in Jobs, Upload(i) PROVE Waits(j) \/ Deviates(j)
  <2>1. /\ UNCHANGED <<attempt, stale, documents, batch, current, step>> /\ (Fault \/ Calm)
        /\ status'[j] = status[j] \/ (status[j] = "absent" /\ status'[j] = "pending")
    BY <1>1, UploadEffect DEF Uploads
  <2>2. \A w \in Workers : Held(w)' = Held(w) /\ Hopes(w)' = Hopes(w)
    BY <2>1 DEF Held, Hopes
  <2>3. MaySave(j)' \subseteq MaySave(j) /\ (Dead(j)' => Dead(j)) /\ (Free(j)' => Free(j))
    BY <2>1, <2>2 DEF MaySave, Dead, Free, Newest
  <2> QED
    BY <2>1, <2>3 DEF Waits, Deviates, Fault
<1>2. ASSUME NEW i \in Jobs, BackoffEnds(i) PROVE Waits(j) \/ Deviates(j)
  <2>1. UNCHANGED <<status, attempt, stale, documents, batch, current, step>> /\ Calm
    BY <1>2 DEF BackoffEnds, local, Calm
  <2>2. \A w \in Workers : Held(w)' = Held(w) /\ Hopes(w)' = Hopes(w)
    BY <2>1 DEF Held, Hopes
  <2>3. Newest(j) <=> Newest(j)'
    BY <2>1, <2>2 DEF Newest
  <2> QED
    BY <2>1, <2>2, <2>3, Quiet
<1>3. ASSUME NEW i \in Jobs, ClaimAges(i) PROVE Waits(j) \/ Deviates(j)
  <2>1. UNCHANGED <<status, attempt, documents, batch, current, step, faults>>
    BY <1>3 DEF ClaimAges, local
  <2>2. \A w \in Workers : Held(w)' = Held(w) /\ Hopes(w)' = Hopes(w)
    BY <2>1 DEF Held, Hopes
  <2>3. MaySave(j)' \subseteq MaySave(j) /\ (Dead(j)' => Dead(j))
    BY <2>1, <2>2 DEF MaySave, Dead
  <2>4. CASE Holders(i) = {} /\ UNCHANGED lapses
    <3>1. j = i => status[j] = "processing" /\ ~ Newest(j)
      BY <1>3, <2>4 DEF ClaimAges, Holders, Newest
    <3>2. j # i => (j \in stale' <=> j \in stale)
      BY <1>3 DEF ClaimAges
    <3>3. Free(j)' => Free(j)
      BY <2>1, <2>2, <3>1, <3>2 DEF Free, Newest
    <3> QED
      BY <2>1, <2>3, <2>4, <3>3 DEF Waits, Calm
  <2>5. CASE lapses' = lapses + 1
    BY <2>1, <2>3, <2>5 DEF Deviates
  <2> QED
    BY <1>3, <2>4, <2>5 DEF ClaimAges
<1>4. ASSUME NEW w \in Workers, Crash(w) PROVE Waits(j) \/ Deviates(j)
  <2>1. Fault /\ UNCHANGED <<status, attempt, stale, documents>>
    BY <1>4, CrashEffect
  <2>2. \A v \in Workers : Hopes(v)' \subseteq Hopes(v)
    <3>1. /\ batch'[w] = {} /\ step'[w] = "idle"
          /\ \A v \in Workers : v # w =>
                current'[v] = current[v] /\ step'[v] = step[v] /\ batch'[v] = batch[v]
      BY <1>4 DEF Crash, TypeOK
    <3> QED
      BY <3>1 DEF Hopes
  <2> QED
    BY <2>1, <2>2, Quiet
<1>5. CASE UNCHANGED vars
  <2>1. UNCHANGED <<status, attempt, stale, documents, batch, current, step, faults, lapses>>
    BY <1>5 DEF vars
  <2>2. \A w \in Workers : Held(w)' = Held(w) /\ Hopes(w)' = Hopes(w)
    BY <2>1 DEF Held, Hopes
  <2>3. Newest(j) <=> Newest(j)'
    BY <2>1, <2>2 DEF Newest
  <2> QED
    BY <2>1, <2>2, <2>3, Quiet DEF Calm
<1> QED
  BY <1>1, <1>2, <1>3, <1>4, <1>5, ClaimAccount, OpenAccount, WorksAccount, SettleAccount
     DEF Next, ProcessBatch, Works

\* A claim that is opened leaves its batch, and comes back to none.
LEMMA ApartStep ==
    ASSUME TypeOK, Apart, [Next]_vars
    PROVE  Apart'
<1>1. CASE \/ \E j \in Jobs : Upload(j) \/ BackoffEnds(j) \/ ClaimAges(j)
           \/ UNCHANGED vars
  BY <1>1, UploadEffect DEF BackoffEnds, ClaimAges, local, vars, Apart
<1>2. ASSUME NEW w \in Workers, ClaimPending(w) PROVE Apart'
  <2>1. /\ batch' \in [Workers -> SUBSET Claim] /\ UNCHANGED current /\ current[w] = Nil
        /\ \A v \in Workers : v # w => batch'[v] = batch[v]
    BY <1>2, ClaimEffect
  <2> QED
    BY <2>1, NilIsNoClaim DEF Apart
<1>3. ASSUME NEW w \in Workers, Open(w) PROVE Apart'
  <2>1. PICK c \in batch[w] :
          /\ batch' = [batch EXCEPT ![w] = @ \ {c}]
          /\ current' = [current EXCEPT ![w] = c]
    BY <1>3 DEF Open
  <2>2. /\ batch'[w] = batch[w] \ {c} /\ current'[w] = c
        /\ \A v \in Workers : v # w => current'[v] = current[v] /\ batch'[v] = batch[v]
    BY <2>1 DEF TypeOK
  <2> QED
    BY <2>2 DEF Apart
<1>4. ASSUME NEW w \in Workers, Works(w) \/ Settle(w) PROVE Apart'
  <2>1. Moves(w)
    BY <1>4, WorksEffect, SettleEffect
  <2>2. UNCHANGED batch
    BY <2>1 DEF Moves, Done, Goes
  <2>3. \A v \in Workers : current'[v] \in {current[v], Nil} /\ Nil \notin batch[v]
    BY <2>1, MovesTyped, NilIsNoClaim DEF TypeOK
  <2> QED
    BY <2>2, <2>3 DEF Apart
<1>5. ASSUME NEW w \in Workers, Crash(w) PROVE Apart'
  <2>1. /\ batch'[w] = {}
        /\ \A v \in Workers : v # w => current'[v] = current[v] /\ batch'[v] = batch[v]
    BY <1>5 DEF Crash, TypeOK
  <2> QED
    BY <2>1 DEF Apart
<1> QED
  BY <1>1, <1>2, <1>3, <1>4, <1>5 DEF Next, ProcessBatch, Works

-----------------------------------------------------------------------------
(* Quota and payloads, to one deviation for each fault. *)

Counted == IsFiniteSet(Documents) /\ IsFiniteSet(Reserving) /\ QuotaExplained

\* The payloads of closed uploads whose job is absent or settled, but for those that a
\* worker is about to delete: it settled the job itself.
Left ==
    {j \in object : /\ status[j] = "absent" \/ Settled(j)
                    /\ upload[j] = "done"
                    /\ \A w \in Workers : step[w] = "sweeping" => current[w].id # j}

Few == IsFiniteSet(object) /\ Cardinality(Left) <= faults

\* One more document is one more.
LEMMA DocumentSaved ==
    ASSUME TypeOK, NEW i \in Jobs, documents' = [documents EXCEPT ![i] = @ + 1], IsFiniteSet(Documents)
    PROVE  /\ IsFiniteSet(Documents') /\ Cardinality(Documents) \in Nat
           /\ Cardinality(Documents') = Cardinality(Documents) + 1
<1> DEFINE d == <<i, documents[i] + 1>>
<1>1. /\ documents[i] \in Nat /\ documents'[i] = documents[i] + 1
      /\ \A j \in Jobs : documents[j] \in Nat /\ (j # i => documents'[j] = documents[j])
  BY DEF TypeOK
<1>2. d \notin Documents
  BY <1>1 DEF Documents
<1>3. 1..(documents[i] + 1) = (1..documents[i]) \cup {documents[i] + 1}
  BY <1>1
<1>4. Documents' = Documents \cup {d}
  <2>1. ASSUME NEW e \in Documents' PROVE e \in Documents \cup {d}
    <3>1. PICK j \in Jobs : e \in {<<j, k>> : k \in 1..documents'[j]}
      BY <2>1 DEF Documents
    <3>2. CASE j = i
      BY <1>1, <1>3, <3>1, <3>2 DEF Documents
    <3>3. CASE j # i
      BY <1>1, <3>1, <3>3 DEF Documents
    <3> QED
      BY <3>2, <3>3
  <2>2. ASSUME NEW e \in Documents PROVE e \in Documents'
    <3>1. PICK j \in Jobs : e \in {<<j, k>> : k \in 1..documents[j]}
      BY <2>2 DEF Documents
    <3>2. e \in {<<j, k>> : k \in 1..documents'[j]}
      BY <1>1, <1>3, <3>1
    <3> QED
      BY <3>2 DEF Documents
  <2>3. d \in Documents'
    BY <1>1, <1>3 DEF Documents
  <2> QED
    BY <2>1, <2>2, <2>3
<1> HIDE DEF d
<1> QED
  BY <1>2, <1>4, FS_AddElement, FS_CardinalityType

\* A worker that moves to s reserves, or has ceased to.
LEMMA ReservingMoves ==
    ASSUME TypeOK, NEW w \in Workers, NEW s \in Steps, step' = [step EXCEPT ![w] = s],
           IsFiniteSet(Reserving)
    PROVE  /\ IsFiniteSet(Reserving') /\ Cardinality(Reserving) \in Nat /\ Cardinality(Reserving') \in Nat
           /\ LET n == Cardinality(Reserving)
                  m == Cardinality(Reserving')
              IN  IF s \in {"reserved", "releasing"} <=> step[w] \in {"reserved", "releasing"}
                  THEN m = n
                  ELSE IF s \in {"reserved", "releasing"} THEN m = n + 1 ELSE m = n - 1
<1>1. /\ step'[w] = s /\ \A v \in Workers : v # w => step'[v] = step[v]
  BY DEF TypeOK
<1>2. CASE s \in {"reserved", "releasing"}
  <2>1. Reserving' = Reserving \cup {w} /\ (w \in Reserving <=> step[w] \in {"reserved", "releasing"})
    BY <1>1, <1>2 DEF Reserving
  <2>2. IsFiniteSet(Reserving \cup {w}) /\
        Cardinality(Reserving \cup {w})
          = IF w \in Reserving THEN Cardinality(Reserving) ELSE Cardinality(Reserving) + 1
    BY FS_AddElement
  <2> QED
    BY <1>2, <2>1, <2>2, FS_CardinalityType
<1>3. CASE s \notin {"reserved", "releasing"}
  <2>1. Reserving' = Reserving \ {w} /\ (w \in Reserving <=> step[w] \in {"reserved", "releasing"})
    BY <1>1, <1>3 DEF Reserving
  <2>2. IsFiniteSet(Reserving \ {w}) /\
        Cardinality(Reserving \ {w})
          = IF w \in Reserving THEN Cardinality(Reserving) - 1 ELSE Cardinality(Reserving)
    BY FS_RemoveElement
  <2> QED
    BY <1>3, <2>1, <2>2, FS_CardinalityType
<1> QED
  BY <1>2, <1>3

\* What a step does to the counter, by the change of what is stored and reserved.
LEMMA CountedStep ==
    ASSUME TypeOK, TypeOK', Counted, [Next]_vars
    PROVE  Counted'
<1>a. PICK d, d1, r, r1 :
        /\ d = Cardinality(Documents) /\ d1 = Cardinality(Documents')
        /\ r = Cardinality(Reserving) /\ r1 = Cardinality(Reserving')
  OBVIOUS
<1>1. /\ d \in Nat /\ r \in Nat /\ used \in Nat /\ faults \in Nat
      /\ used' \in Nat /\ faults' \in Nat /\ faults <= faults'
  <2>1. faults \in Nat /\ faults' \in Nat /\ used \in Nat /\ used' \in Nat
    BY KnowledgeIngestionAssumption DEF TypeOK
  <2>2. \/ faults' = faults \/ faults' = faults + 1
    <3>1. CASE \E j \in Jobs : Upload(j) \/ BackoffEnds(j) \/ ClaimAges(j)
      BY <3>1, UploadEffect DEF BackoffEnds, ClaimAges, Fault, Calm
    <3>2. CASE \E w \in Workers : ProcessBatch(w)
      BY <3>2, ClaimEffect, OpenEffect, WorksEffect, SettleEffect, CrashEffect
         DEF ProcessBatch, Works, Fault, Calm
    <3>3. CASE UNCHANGED vars
      BY <3>3 DEF vars
    <3> QED
      BY <3>1, <3>2, <3>3 DEF Next
  <2> QED
    BY <1>a, <2>1, <2>2, FS_CardinalityType DEF Counted
<1>2. d + r <= used + faults /\ used <= d + r + faults
  BY <1>a DEF Counted, QuotaExplained, Stored, Reserved
<1>3. ASSUME IsFiniteSet(Documents'), IsFiniteSet(Reserving'),
             \/ d1 = d /\ r1 = r /\ used' = used
             \/ d1 = d /\ r1 = r + 1 /\ used' = used + 1
             \/ d1 = d + 1 /\ r1 = r - 1 /\ used' = used
             \/ d1 = d /\ r1 = r - 1 /\ used' = (IF used > 0 THEN used - 1 ELSE 0)
             \/ d1 = d + 1 /\ r1 = r /\ used' = used /\ faults' = faults + 1
             \/ d1 = d /\ r1 = r /\ used' = used + 1 /\ faults' = faults + 1
             \/ d1 = d /\ r1 = r - 1 /\ used' = used /\ faults' = faults + 1
      PROVE  Counted'
  <2>1. d1 \in Nat /\ r1 \in Nat
    BY <1>a, <1>3, FS_CardinalityType
  <2>2. d1 + r1 <= used' + faults' /\ used' <= d1 + r1 + faults'
    <3>1. PICK e \in Nat, q \in Nat, u \in Nat, f \in Nat, e1 \in Nat, q1 \in Nat, u1 \in Nat, f1 \in Nat :
            /\ e = d /\ q = r /\ u = used /\ f = faults
            /\ e1 = d1 /\ q1 = r1 /\ u1 = used' /\ f1 = faults'
      BY <1>1, <2>1, Zenon
    <3>2. e + q <= u + f /\ u <= e + q + f /\ f <= f1
      BY <1>1, <1>2, <3>1
    <3>3. \/ e1 = e /\ q1 = q /\ u1 = u
          \/ e1 = e /\ q1 = q + 1 /\ u1 = u + 1
          \/ e1 = e + 1 /\ q1 = q - 1 /\ u1 = u
          \/ e1 = e /\ q1 = q - 1 /\ u1 = (IF u > 0 THEN u - 1 ELSE 0)
          \/ e1 = e + 1 /\ q1 = q /\ u1 = u /\ f1 = f + 1
          \/ e1 = e /\ q1 = q /\ u1 = u + 1 /\ f1 = f + 1
          \/ e1 = e /\ q1 = q - 1 /\ u1 = u /\ f1 = f + 1
      BY <1>3, <3>1, Zenon
    <3>4. e1 + q1 <= u1 + f1 /\ u1 <= e1 + q1 + f1
      BY <3>2, <3>3
    <3> QED
      BY <3>1, <3>4
  <2> QED
    BY <1>a, <1>3, <2>2 DEF Counted, QuotaExplained, Stored, Reserved
<1>4. ASSUME UNCHANGED documents PROVE IsFiniteSet(Documents') /\ d1 = d
  BY <1>a, <1>4 DEF Documents, Counted
<1>5. ASSUME NEW w \in Workers, NEW s \in Steps, step' = [step EXCEPT ![w] = s]
      PROVE  /\ IsFiniteSet(Reserving') /\ r1 \in Nat
             /\ IF s \in {"reserved", "releasing"} <=> step[w] \in {"reserved", "releasing"}
                THEN r1 = r
                ELSE IF s \in {"reserved", "releasing"} THEN r1 = r + 1 ELSE r1 = r - 1
  BY <1>a, <1>5, ReservingMoves DEF Counted
<1>6. CASE UNCHANGED <<documents, step, used>>
  <2>1. IsFiniteSet(Reserving') /\ r1 = r
    BY <1>a, <1>6 DEF Reserving, Counted
  <2>2. IsFiniteSet(Documents') /\ d1 = d
    BY <1>4, <1>6
  <2> QED
    BY <1>3, <1>6, <2>1, <2>2
<1>7. ASSUME NEW w \in Workers, NEW s \in Steps, step' = [step EXCEPT ![w] = s],
             s \in {"reserved", "releasing"} <=> step[w] \in {"reserved", "releasing"},
             UNCHANGED <<documents, used>>
      PROVE  Counted'
  <2>1. IsFiniteSet(Reserving') /\ r1 = r
    BY <1>5, <1>7
  <2>2. IsFiniteSet(Documents') /\ d1 = d
    BY <1>4, <1>7
  <2> QED
    BY <1>3, <1>7, <2>1, <2>2
<1>8. ASSUME NEW w \in Workers, Reserve(w) \/ ReserveFails(w) PROVE Counted'
  <2>1. step[w] = "opened" /\ UNCHANGED documents
    BY <1>8 DEF Reserve, ReserveFails, At
  <2>2. IsFiniteSet(Documents') /\ d1 = d
    BY <1>4, <2>1
  <2>3. CASE Goes(w, "reserved") /\ used' = used + 1
    <3>1. IsFiniteSet(Reserving') /\ r1 = r + 1
      BY <1>5, <2>1, <2>3 DEF Goes, Steps
    <3> QED
      BY <1>3, <2>2, <2>3, <3>1
  <2>4. CASE Goes(w, "failed") /\ used' = used
    BY <1>7, <2>1, <2>4 DEF Goes, Steps
  <2>5. CASE Goes(w, "failed") /\ used' = used + 1 /\ Fault
    <3>1. IsFiniteSet(Reserving') /\ r1 = r
      BY <1>5, <2>1, <2>5 DEF Goes, Steps
    <3>2. faults' = faults + 1
      BY <2>5 DEF Fault
    <3> QED
      BY <1>3, <2>2, <2>5, <3>1, <3>2
  <2> QED
    BY <1>8, <2>3, <2>4, <2>5 DEF Reserve, ReserveFails
<1>9. ASSUME NEW w \in Workers, Save(w) PROVE Counted'
  <2>1. step[w] = "reserved" /\ current[w].id \in Jobs /\ UNCHANGED used
    BY <1>9, HeldTyped DEF Save, At
  <2>2. IsFiniteSet(Documents') /\ d1 = d + 1
    BY <1>a, <1>9, <2>1, DocumentSaved DEF Save, Counted
  <2>3. CASE Goes(w, "saved") /\ Calm
    <3>1. IsFiniteSet(Reserving') /\ r1 = r - 1
      BY <1>5, <2>1, <2>3 DEF Goes, Steps
    <3> QED
      BY <1>3, <2>1, <2>2, <3>1
  <2>4. CASE Goes(w, "releasing") /\ Fault
    <3>1. IsFiniteSet(Reserving') /\ r1 = r
      BY <1>5, <2>1, <2>4 DEF Goes, Steps
    <3>2. faults' = faults + 1
      BY <2>4 DEF Fault
    <3> QED
      BY <1>3, <2>1, <2>2, <3>1, <3>2
  <2> QED
    BY <1>9, <2>3, <2>4 DEF Save
<1>10. ASSUME NEW w \in Workers, Release(w) PROVE Counted'
  <2>1. step[w] = "releasing" /\ UNCHANGED documents /\ Goes(w, "failed")
    BY <1>10 DEF Release, At
  <2>2. IsFiniteSet(Documents') /\ d1 = d
    BY <1>4, <2>1
  <2>3. IsFiniteSet(Reserving') /\ r1 = r - 1 /\ r1 \in Nat
    BY <1>5, <2>1 DEF Goes, Steps
  <2>4. \/ used' = (IF used > 0 THEN used - 1 ELSE 0) /\ faults' = faults
        \/ used' = used /\ faults' = faults + 1
    BY <1>10 DEF Release, Calm, Fault
  <2> QED
    BY <1>3, <2>2, <2>3, <2>4
<1>11. ASSUME NEW w \in Workers, Crash(w) PROVE Counted'
  <2>1. step' = [step EXCEPT ![w] = "idle"] /\ UNCHANGED <<documents, used>> /\ faults' = faults + 1
    BY <1>11 DEF Crash, Fault
  <2>2. IsFiniteSet(Documents') /\ d1 = d
    BY <1>4, <2>1
  <2>3. IsFiniteSet(Reserving') /\ r1 \in {r, r - 1} /\ r1 \in Nat
    BY <1>5, <2>1 DEF Steps
  <2> QED
    BY <1>3, <2>1, <2>2, <2>3
<1>12. ASSUME NEW w \in Workers, IngestFails(w) PROVE Counted'
  BY <1>7, <1>12 DEF IngestFails, At, Goes, Steps
<1>13. ASSUME NEW w \in Workers, Sweep(w) \/ Settle(w) PROVE Counted'
  <2>1. step[w] \in {"saved", "failed", "sweeping"} /\ UNCHANGED <<documents, used>>
    BY <1>13 DEF Sweep, Settle, MarkCompleted, MarkFailed, MarkDeadLetter, MarkOrGiveUp, At
  <2>2. PICK s \in {"idle", "sweeping"} : step' = [step EXCEPT ![w] = s]
    BY <1>13, SettleEffect DEF Sweep, Done
  <2> QED
    BY <1>7, <2>1, <2>2 DEF Steps
<1>14. ASSUME NEW w \in Workers, Open(w) PROVE Counted'
  <2>1. step[w] = "idle" /\ UNCHANGED <<documents, used>>
    BY <1>14 DEF Open, TypeOK
  <2>2. PICK s \in {"opened", "failed"} : step' = [step EXCEPT ![w] = s]
    BY <1>14 DEF Open
  <2> QED
    BY <1>7, <2>1, <2>2 DEF Steps
<1>15. CASE \/ \E j \in Jobs : Upload(j) \/ BackoffEnds(j) \/ ClaimAges(j)
            \/ \E w \in Workers : ClaimPending(w)
            \/ UNCHANGED vars
  BY <1>6, <1>15, UploadEffect, ClaimEffect DEF BackoffEnds, ClaimAges, local, vars
<1> QED
  BY <1>8, <1>9, <1>10, <1>11, <1>12, <1>13, <1>14, <1>15 DEF Next, ProcessBatch

\* A payload more is left behind only with a fault.
LEMMA FewKeeps ==
    ASSUME TypeOK, TypeOK', Few, NEW x, object' \subseteq object \cup {x},
           \/ Left' \subseteq Left
           \/ Left' \subseteq Left \cup {x} /\ faults' = faults + 1,
           Fault \/ UNCHANGED faults
    PROVE  Few'
<1>1. IsFiniteSet(object) /\ IsFiniteSet(object') /\ IsFiniteSet(Left)
  <2>1. IsFiniteSet(object') /\ IsFiniteSet(object)
    BY OneMore DEF Few
  <2> QED
    BY <2>1, Fewer DEF Left
<1>2. PICK n \in Nat, m \in Nat, f \in Nat, f1 \in Nat :
        n = Cardinality(Left) /\ m = Cardinality(Left') /\ f = faults /\ f1 = faults'
  <2>1. faults \in Nat /\ faults' \in Nat
    BY KnowledgeIngestionAssumption DEF TypeOK
  <2>2. Cardinality(Left) \in Nat /\ Cardinality(Left') \in Nat
    BY <1>1, OneMore, Fewer
  <2> QED
    BY <2>1, <2>2
<1>3. n <= f
  BY <1>2 DEF Few
<1>4. CASE Left' \subseteq Left
  <2>1. m <= n
    BY <1>1, <1>2, <1>4, Fewer
  <2>2. f1 = f \/ f1 = f + 1
    BY <1>2 DEF Fault
  <2>3. m <= f1
    BY <1>3, <2>1, <2>2
  <2> QED
    BY <1>1, <1>2, <2>3 DEF Few
<1>5. CASE Left' \subseteq Left \cup {x} /\ faults' = faults + 1
  <2>1. m <= n + 1
    BY <1>1, <1>2, <1>5, OneMore
  <2>2. f1 = f + 1
    BY <1>2, <1>5
  <2>3. m <= f1
    BY <1>3, <2>1, <2>2
  <2> QED
    BY <1>1, <1>2, <2>3 DEF Few
<1> QED
  BY <1>4, <1>5

\* Who leaves a payload behind has failed to delete it, or has crashed.
LEMMA FewStep ==
    ASSUME TypeOK, TypeOK', Uploads, Places, Few, [Next]_vars
    PROVE  Few'
<1> DEFINE Idle(v, j) == step[v] = "sweeping" => current[v].id # j
<1>1. ASSUME object' \subseteq object, Left' \subseteq Left, Fault \/ UNCHANGED faults PROVE Few'
  <2>1. object' \subseteq object \cup {Nil}
    BY <1>1
  <2> QED
    BY <1>1, <2>1, FewKeeps
<1>2. ASSUME NEW j \in Jobs, Upload(j) PROVE Few'
  <2>1. UNCHANGED <<current, step>> /\ (Fault \/ UNCHANGED faults)
    BY <1>2, UploadEffect DEF Calm
  <2>2. /\ \A i \in Jobs : i # j => upload'[i] = upload[i] /\ status'[i] = status[i]
        /\ object' \subseteq Jobs
    BY <1>2, UploadEffect
  <2>3. \A i \in Left' : i # j => (i \in object => i \in Left)
    BY <2>1, <2>2 DEF Left, Settled
  <2>4. CASE Put(j)
    <3>1. object' = object \cup {j} /\ upload'[j] = "stored"
      BY <2>4 DEF Put, TypeOK
    <3>2. Left' \subseteq Left
      BY <2>3, <3>1 DEF Left
    <3> QED
      BY <2>1, <3>1, <3>2, FewKeeps
  <2>5. CASE Create(j) \/ CreateFails(j)
    <3>1. object' = object /\ (upload'[j] = "cleanup" \/ status'[j] = "pending")
      BY <2>5 DEF Create, CreateFails, TypeOK
    <3>2. Left' \subseteq Left
      BY <2>3, <3>1 DEF Left, Settled
    <3> QED
      BY <1>1, <2>1, <3>1, <3>2
  <2>6. CASE CleanUp(j)
    <3>1. object' = object \ {j}
      BY <2>6 DEF CleanUp
    <3>2. Left' \subseteq Left
      BY <2>3, <3>1 DEF Left
    <3> QED
      BY <1>1, <2>1, <3>1, <3>2
  <2>7. CASE UploadAbandoned(j)
    <3>1. object' = object /\ Fault
      BY <2>7 DEF UploadAbandoned
    <3>2. Left' \subseteq Left \cup {j}
      BY <2>3, <3>1 DEF Left
    <3> QED
      BY <3>1, <3>2, FewKeeps DEF Fault
  <2> QED
    BY <1>2, <2>4, <2>5, <2>6, <2>7 DEF Upload
<1>3. CASE \/ \E j \in Jobs : BackoffEnds(j) \/ ClaimAges(j)
           \/ UNCHANGED vars
  <2>1. UNCHANGED <<object, status, upload, current, step, faults>>
    BY <1>3 DEF BackoffEnds, ClaimAges, local, vars
  <2>2. Left' = Left
    BY <2>1 DEF Left, Settled
  <2> QED
    BY <1>1, <2>1, <2>2
<1>4. ASSUME NEW w \in Workers, ClaimPending(w) PROVE Few'
  <2>1. /\ UNCHANGED <<object, upload, current, step, faults>>
        /\ \A j \in Jobs : status'[j] = status[j] \/ status'[j] = "processing"
    BY <1>4, ClaimEffect
  <2>2. Left' \subseteq Left
    BY <2>1 DEF Left, Settled, TypeOK
  <2> QED
    BY <1>1, <2>1, <2>2
<1>5. ASSUME NEW w \in Workers, object' \subseteq object, UNCHANGED upload,
             \A v \in Workers : v # w => current'[v] = current[v] /\ step'[v] = step[v],
             \A j \in object' : (status'[j] = "absent" \/ Settled(j)') /\ Idle(w, j)' =>
                /\ status[j] = "absent" \/ Settled(j)
                /\ Idle(w, j)
      PROVE  Left' \subseteq Left
  <2>1. SUFFICES ASSUME NEW j \in Left' PROVE j \in Left
    OBVIOUS
  <2>2. j \in object' /\ (status'[j] = "absent" \/ Settled(j)') /\ \A v \in Workers : Idle(v, j)'
    BY <2>1 DEF Left
  <2>3. \A v \in Workers : Idle(v, j)
    BY <1>5, <2>2
  <2> QED
    BY <1>5, <2>1, <2>2, <2>3 DEF Left
<1>6. ASSUME NEW w \in Workers, Open(w) PROVE Few'
  <2>1. UNCHANGED <<object, upload, status>> /\ (Fault \/ UNCHANGED faults) /\ step[w] = "idle"
        /\ \A v \in Workers : v # w => current'[v] = current[v] /\ step'[v] = step[v]
    BY <1>6, OpenEffect DEF Calm, Open, TypeOK
  <2>2. Left' \subseteq Left
    BY <1>5, <2>1 DEF Settled
  <2> QED
    BY <1>1, <2>1, <2>2
<1>7. ASSUME NEW w \in Workers, Works(w), ~ Sweep(w) PROVE Few'
  <2>1. UNCHANGED <<object, upload, status>> /\ (Fault \/ UNCHANGED faults) /\ step[w] # "sweeping"
        /\ \A v \in Workers : v # w => current'[v] = current[v] /\ step'[v] = step[v]
    <3>1. object' = object /\ step[w] # "sweeping"
      BY <1>7 DEF Works, Reserve, ReserveFails, IngestFails, Save, Release, At
    <3> QED
      BY <1>7, <3>1, WorksEffect, MovesTyped DEF Calm
  <2>2. Left' \subseteq Left
    BY <1>5, <2>1 DEF Settled
  <2> QED
    BY <1>1, <2>1, <2>2
<1>8. ASSUME NEW w \in Workers, Sweep(w) PROVE Few'
  <2>1. UNCHANGED <<upload, status>> /\ (Fault \/ UNCHANGED faults)
        /\ \A v \in Workers : v # w => current'[v] = current[v] /\ step'[v] = step[v]
    BY <1>8 DEF Sweep, Done, row, Calm, TypeOK
  <2>2. CASE object' = object \ {current[w].id}
    <3>1. Left' \subseteq Left
      BY <1>5, <2>1, <2>2 DEF Settled
    <3> QED
      BY <1>1, <2>1, <2>2, <3>1
  <2>3. CASE UNCHANGED object /\ Fault
    <3>1. \A j \in Left' : j # current[w].id => j \in Left
      <4>1. SUFFICES ASSUME NEW j \in Left', j # current[w].id PROVE j \in Left
        OBVIOUS
      <4>2. \A v \in Workers : Idle(v, j)
        BY <2>1, <4>1 DEF Left
      <4> QED
        BY <2>1, <2>3, <4>1, <4>2 DEF Left, Settled
    <3> QED
      BY <2>3, <3>1, FewKeeps DEF Fault
  <2> QED
    BY <1>8, <2>2, <2>3 DEF Sweep
<1>9. ASSUME NEW w \in Workers, Crash(w) PROVE Few'
  <2>1. UNCHANGED <<object, upload, status>> /\ Fault
        /\ \A v \in Workers : v # w => current'[v] = current[v] /\ step'[v] = step[v]
    BY <1>9, CrashEffect
  <2>2. \A j \in Left' : j # current[w].id => j \in Left
    <3>1. SUFFICES ASSUME NEW j \in Left', j # current[w].id PROVE j \in Left
      OBVIOUS
    <3>2. \A v \in Workers : Idle(v, j)
      BY <2>1, <3>1 DEF Left
    <3> QED
      BY <2>1, <3>1, <3>2 DEF Left, Settled
  <2> QED
    BY <2>1, <2>2, FewKeeps DEF Fault
<1>10. ASSUME NEW w \in Workers, Settle(w) PROVE Few'
  <2>1. UNCHANGED <<object, upload>> /\ (Fault \/ UNCHANGED faults) /\ step[w] \in {"saved", "failed"}
        /\ current[w] # Nil /\ current[w].id \in Jobs
        /\ \A v \in Workers : v # w => current'[v] = current[v] /\ step'[v] = step[v]
    <3>1. step[w] \in {"saved", "failed"}
      BY <1>10 DEF Settle, MarkCompleted, MarkFailed, MarkDeadLetter, At
    <3> QED
      BY <1>10, <3>1, SettleEffect, MovesTyped DEF Calm
  <2>2. PICK to \in {"completed", "failed", "dead_letter"}, after \in {"idle", "sweeping"} :
          MarkOrGiveUp(w, to, after) /\ (to = "failed" <=> after = "idle")
    BY <1>10 DEF Settle, MarkCompleted, MarkFailed, MarkDeadLetter
  <2>3. CASE UNCHANGED status
    <3>1. Left' \subseteq Left
      BY <1>5, <2>1, <2>3 DEF Settled
    <3> QED
      BY <1>1, <2>1, <3>1
  <2>4. CASE Mark(w, to) /\ IF after = "idle" THEN Done(w) ELSE Goes(w, after)
    <3>1. /\ status'[current[w].id] = to
          /\ \A j \in Jobs : j # current[w].id => status'[j] = status[j]
      BY <2>1, <2>4 DEF Mark, TypeOK
    <3>2. to # "failed" => step'[w] = "sweeping" /\ current'[w] = current[w]
      BY <2>2, <2>4 DEF Goes, TypeOK
    <3>3. \A j \in object' : (status'[j] = "absent" \/ Settled(j)') /\ Idle(w, j)' =>
             (status[j] = "absent" \/ Settled(j)) /\ Idle(w, j)
      <4>1. SUFFICES ASSUME NEW j \in object', status'[j] = "absent" \/ Settled(j)', Idle(w, j)'
                     PROVE  (status[j] = "absent" \/ Settled(j)) /\ Idle(w, j)
        OBVIOUS
      <4>2. j \in Jobs /\ Idle(w, j)
        BY <2>1, <4>1 DEF TypeOK
      <4>3. j # current[w].id
        BY <3>1, <3>2, <4>1 DEF Settled
      <4> QED
        BY <3>1, <4>1, <4>2, <4>3 DEF Settled
    <3>4. Left' \subseteq Left
      BY <1>5, <2>1, <3>3
    <3> QED
      BY <1>1, <2>1, <3>4
  <2> QED
    BY <2>2, <2>3, <2>4 DEF MarkOrGiveUp
<1> QED
  BY <1>2, <1>3, <1>4, <1>6, <1>7, <1>8, <1>9, <1>10 DEF Next, ProcessBatch, Works

-----------------------------------------------------------------------------
(* The invariant holds *)

IInv ==
    /\ TypeOK /\ Uploads /\ Places /\ Numbered /\ Earned /\ PayloadKept
    /\ Apart /\ Distinct /\ Counted /\ Few
    /\ \A j \in Jobs : Paid(j)

\* Before the first upload there is nothing to claim.
LEMMA InitIInv == Init => IInv
<1> SUFFICES ASSUME Init PROVE IInv
  OBVIOUS
<1>1. TypeOK
  BY KnowledgeIngestionAssumption DEF Init, TypeOK, Statuses, Steps
<1>2. \A w \in Workers : Held(w) = {}
  BY DEF Init, Held
<1>3. Uploads /\ Places /\ Numbered
  BY <1>2 DEF Init, Uploads, Places, Numbered
<1>4. Earned /\ PayloadKept
  BY DEF Init, Earned, CompletedHasDocument, DeadMeansExhausted, PayloadKept
<1>5. Apart /\ Distinct
  BY <1>2 DEF Init, Apart, Distinct
<1>6. Counted
  <2>1. Documents = {} /\ Reserving = {}
    BY DEF Init, Documents, Reserving
  <2>2. Stored = 0 /\ Reserved = 0 /\ IsFiniteSet(Documents) /\ IsFiniteSet(Reserving)
    BY <2>1, FS_EmptySet DEF Stored, Reserved
  <2> QED
    BY <2>2 DEF Init, Counted, QuotaExplained
<1>7. Few
  <2>1. object = {} /\ Left = {} /\ faults = 0
    BY DEF Init, Left
  <2> QED
    BY <2>1, FS_EmptySet DEF Few
<1>8. ASSUME NEW j \in Jobs PROVE Paid(j)
  <2>1. \A w \in Workers : Hopes(w) = {}
    BY DEF Init, Hopes
  <2>2. MaySave(j) = {}
    BY <2>1 DEF MaySave
  <2>3. Cardinality(MaySave(j)) = 0 /\ documents[j] = 0 /\ faults = 0 /\ lapses = 0
    BY <2>2, FS_EmptySet DEF Init
  <2>4. Toll(j) = 1 /\ ~ Dead(j)
    BY DEF Init, Toll, Free, Dead
  <2> QED
    BY <2>3, <2>4 DEF Paid
<1> QED
  BY <1>1, <1>3, <1>4, <1>5, <1>6, <1>7, <1>8 DEF IInv

\* Every step keeps the invariant.
LEMMA IInvStep == IInv /\ [Next]_vars => IInv'
<1> SUFFICES ASSUME IInv, [Next]_vars PROVE IInv'
  OBVIOUS
<1>1. TypeOK' /\ Uploads' /\ Places' /\ Numbered' /\ Earned' /\ PayloadKept'
  BY TypeStep, UploadsStep, PlacesStep, NumberedStep, EarnedStep, PayloadStep DEF IInv
<1>2. Apart' /\ Distinct' /\ Counted' /\ Few'
  BY <1>1, ApartStep, DistinctStep, CountedStep, FewStep DEF IInv
<1>3. \A j \in Jobs : Paid(j)'
  BY <1>1, PaidStep DEF IInv
<1> QED
  BY <1>1, <1>2, <1>3 DEF IInv

\* The invariant holds in every reachable state.
LEMMA IInvHolds == Spec => []IInv
  BY InitIInv, IInvStep, PTL DEF Spec

-----------------------------------------------------------------------------
(* Theorems *)

\* Columns, stores and places keep their types, and a worker is in the middle of
\* processJob exactly when it has a current claim.
THEOREM TypeCorrect == Spec => []TypeOK
<1>1. IInv => TypeOK
  BY DEF IInv
<1> QED
  BY <1>1, IInvHolds, PTL

\* Whatever overlaps, crashes or fails, the payload of an open job is there to be read,
\* but for an upload whose Create committed and reported an error.
THEOREM PayloadHolds == Spec => []PayloadKept
<1>1. IInv => PayloadKept
  BY DEF IInv
<1> QED
  BY <1>1, IInvHolds, PTL

\* A completed job has its document and a dead one had all its attempts, whichever of
\* the overlapping batches marked it.
THEOREM FinalStatusEarned == Spec => [](CompletedHasDocument /\ DeadMeansExhausted)
<1>1. IInv => CompletedHasDocument /\ DeadMeansExhausted
  BY DEF IInv, Earned
<1> QED
  BY <1>1, IInvHolds, PTL

\* The object store, the counter, the documents and the rows agree up to one deviation
\* for each fault or lapse, however the steps of uploads and batches interleave.
THEOREM StoresHold == Spec => []StoresAgree
<1>1. ASSUME IInv PROVE StoresAgree
  <2>1. DocumentsExplained
    <3>1. SUFFICES ASSUME NEW j \in Jobs
                   PROVE  documents[j] <= faults + lapses + (IF status[j] = "dead_letter" THEN 0 ELSE 1)
      BY DEF DocumentsExplained
    <3>2. /\ Cardinality(MaySave(j)) \in Nat /\ documents[j] \in Nat
          /\ faults \in Nat /\ lapses \in Nat /\ Toll(j) \in {0, 1}
      BY <1>1, CountsAre DEF IInv
    <3> QED
      BY <1>1, <3>2 DEF IInv, Paid, Dead
  <2>2. OrphansExplained
    <3> DEFINE Orphans == {j \in object : /\ status[j] = "absent" \/ Settled(j)
                                          /\ upload[j] = "done" /\ Holders(j) = {}}
    <3>1. Orphans \subseteq Left
      <4>1. SUFFICES ASSUME NEW j \in Orphans, NEW w \in Workers, step[w] = "sweeping"
                     PROVE  current[w].id # j
        BY DEF Left
      <4>2. current[w] \in Held(w)
        BY <1>1, <4>1 DEF IInv, TypeOK, Held
      <4> QED
        BY <4>1, <4>2 DEF Holders
    <3>2. IsFiniteSet(Left) /\ Cardinality(Left) <= faults
      BY <1>1, Fewer DEF IInv, Few, Left
    <3>3. faults \in Nat
      BY <1>1, KnowledgeIngestionAssumption DEF IInv, TypeOK
    <3>4. Cardinality(Orphans) <= Cardinality(Left) /\ Cardinality(Orphans) \in Nat
          /\ Cardinality(Left) \in Nat
      BY <3>1, <3>2, Fewer
    <3>5. PICK n \in Nat, m \in Nat, f \in Nat :
            n = Cardinality(Orphans) /\ m = Cardinality(Left) /\ f = faults
      BY <3>3, <3>4
    <3>6. n <= f
      BY <3>2, <3>4, <3>5
    <3> QED
      BY <3>5, <3>6 DEF OrphansExplained
  <2> QED
    BY <1>1, <2>1, <2>2 DEF IInv, Counted, Earned, StoresAgree
<1> QED
  BY <1>1, IInvHolds, PTL

\* No late mark changes a settled job, and no batch claims it again.
THEOREM SettledHolds == Spec => SettledStays
<1>1. IInv /\ [Next]_vars => [\A j \in Jobs : Settled(j) => status'[j] = status[j]]_vars
  BY SettledStep DEF IInv
<1> QED
  BY <1>1, IInvHolds, PTL DEF Spec, SettledStays
=============================================================================
