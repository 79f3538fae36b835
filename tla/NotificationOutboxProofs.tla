---------------------- MODULE NotificationOutboxProofs ----------------------
(***************************************************************************)
(* For any rows, workers and bounds: the types; that a settled row stays   *)
(* as it is and its status is the one a delivery earned; that without a    *)
(* lapse the claims of running batches are exclusive; and that every claim *)
(* past the limit and every duplicate is paid for.                         *)
(*                                                                         *)
(* A mark names no claim, so exclusiveness rests on what a batch knows of  *)
(* the rows it holds: nobody can have claimed them since, as they are in   *)
(* processing and not stale.                                               *)
(***************************************************************************)
EXTENDS NotificationOutbox, FiniteSetTheorems, TLAPS

\* A claim leaves its batch when it is delivered.
Apart == \A w \in Workers : current[w] \notin batch[w]

\* What a batch has been told of the claim it is about to mark.
Told ==
    \A w \in Workers : current[w] # Nil =>
        IF sent[w] THEN current[w].id \in confirmed ELSE current[w].id \notin InApp

\* A claim's attempt is one its row has had.
Numbered == \A w \in Workers : \A c \in Held(w) : c.attempt <= attempt[c.id]

Earned == DeliveredMeansSent /\ DeadMeansExhausted

-----------------------------------------------------------------------------
(* Types and what a worker holds *)

\* What is held is a claim, of a row.
LEMMA HeldTyped ==
    ASSUME TypeOK, NEW w \in Workers
    PROVE  /\ Held(w) \subseteq Claim
           /\ batch[w] \subseteq Claim
           /\ current[w] = Nil \/ current[w] \in Claim
           /\ \A c \in Claim : c.id \in Rows /\ c.attempt \in Nat
BY NilIsNoClaim DEF TypeOK, Held, Claim

\* A mark changes the status of no row but one in processing, which is no longer stale.
LEMMA MarkEffect ==
    ASSUME TypeOK, NEW w \in Workers, NEW to \in Statuses, current[w] # Nil, Mark(w, to)
    PROVE  /\ current[w].id \in Rows
           /\ status' \in [Rows -> Statuses]
           /\ \A n \in Rows : status'[n] # status[n] =>
                n = current[w].id /\ status[n] = "processing" /\ status'[n] = to
           /\ due' \in SUBSET Rows
           /\ stale' \in SUBSET {n \in Rows : status'[n] \in {"processing", "read"}}
           /\ stale' \subseteq stale
           /\ current' = [current EXCEPT ![w] = Nil]
           /\ UNCHANGED <<attempt, batch, sent, sends, confirmed, ambiguous, faults, lapses>>
<1>1. current[w].id \in Rows
  BY HeldTyped
<1>2. CASE status[current[w].id] = "processing"
  BY <1>1, <1>2 DEF Mark, TypeOK, history
<1>3. CASE status[current[w].id] # "processing"
  BY <1>1, <1>3 DEF Mark, TypeOK, history
<1> QED
  BY <1>2, <1>3

\* The three marks are one, with a status of its own each.
LEMMA MarksAre ==
    ASSUME NEW w \in Workers, MarkDelivered(w) \/ MarkFailed(w) \/ MarkDeadLetter(w)
    PROVE  /\ current[w] # Nil
           /\ \E to \in Statuses :
                /\ Mark(w, to)
                /\ to = "delivered" => sent[w]
                /\ to = "dead_letter" => ~ sent[w] /\ current[w].attempt >= MaxAttempts
                /\ to \in {"delivered", "dead_letter", "failed"}
BY DEF MarkDelivered, MarkFailed, MarkDeadLetter, Statuses

\* A delivery moves a claim from the batch to its own place.
LEMMA DeliveredEffect ==
    ASSUME TypeOK, NEW w \in Workers, current[w] = Nil, NEW c \in batch[w], NEW ok \in BOOLEAN,
           Delivered(w, c, ok)
    PROVE  /\ batch' \in [Workers -> SUBSET Claim] /\ current' \in [Workers -> Claim \cup {Nil}]
           /\ sent' \in [Workers -> BOOLEAN]
           /\ current'[w] = c /\ sent'[w] = ok /\ batch'[w] = batch[w] \ {c}
           /\ \A v \in Workers : v # w =>
                current'[v] = current[v] /\ sent'[v] = sent[v] /\ batch'[v] = batch[v]
           /\ \A v \in Workers : Held(v)' = Held(v)
           /\ UNCHANGED <<status, attempt, due, stale, faults, lapses>>
<1>1. c \in Claim /\ c # Nil
  BY HeldTyped, NilIsNoClaim
<1>2. /\ batch' \in [Workers -> SUBSET Claim] /\ current' \in [Workers -> Claim \cup {Nil}]
      /\ sent' \in [Workers -> BOOLEAN]
      /\ current'[w] = c /\ sent'[w] = ok /\ batch'[w] = batch[w] \ {c}
      /\ \A v \in Workers : v # w =>
           current'[v] = current[v] /\ sent'[v] = sent[v] /\ batch'[v] = batch[v]
  BY <1>1 DEF Delivered, TypeOK
<1>3. \A v \in Workers : Held(v)' = Held(v)
  BY <1>1, <1>2 DEF Held
<1> QED
  BY <1>2, <1>3 DEF Delivered, row

\* A batch that is claimed numbers its claims after its rows.
LEMMA ClaimEffect ==
    ASSUME TypeOK, NEW w \in Workers, ClaimPending(w)
    PROVE  \E ids \in SUBSET {n \in Rows : Claimable(n)} :
             /\ status' = [n \in Rows |-> IF n \in ids THEN "processing" ELSE status[n]]
             /\ attempt' = [n \in Rows |-> IF n \in ids THEN attempt[n] + 1 ELSE attempt[n]]
             /\ stale' = stale \ ids
             /\ batch'[w] = {[id |-> n, attempt |-> attempt[n] + 1] : n \in ids}
             /\ batch' \in [Workers -> SUBSET Claim]
             /\ \A v \in Workers : v # w => batch'[v] = batch[v]
             /\ current[w] = Nil /\ batch[w] = {}
             /\ UNCHANGED <<due, current, sent, sends, confirmed, ambiguous, faults, lapses>>
<1>1. PICK ids \in SUBSET {n \in Rows : Claimable(n)} :
        /\ status' = [n \in Rows |-> IF n \in ids THEN "processing" ELSE status[n]]
        /\ attempt' = [n \in Rows |-> IF n \in ids THEN attempt[n] + 1 ELSE attempt[n]]
        /\ stale' = stale \ ids
        /\ batch' = [batch EXCEPT ![w] = {[id |-> n, attempt |-> attempt[n] + 1] : n \in ids}]
  BY DEF ClaimPending
<1>2. {[id |-> n, attempt |-> attempt[n] + 1] : n \in ids} \subseteq Claim
  BY DEF TypeOK, Claim
<1>3. /\ batch'[w] = {[id |-> n, attempt |-> attempt[n] + 1] : n \in ids}
      /\ batch' \in [Workers -> SUBSET Claim]
      /\ \A v \in Workers : v # w => batch'[v] = batch[v]
  BY <1>1, <1>2 DEF TypeOK
<1>4. current[w] = Nil /\ batch[w] = {}
  BY DEF ClaimPending, Held
<1> QED
  BY <1>1, <1>3, <1>4 DEF ClaimPending, history

\* Every step keeps the types.
LEMMA TypeStep == TypeOK /\ [Next]_vars => TypeOK'
<1> SUFFICES ASSUME TypeOK, [Next]_vars PROVE TypeOK'
  OBVIOUS
<1> USE DEF TypeOK
<1>1. ASSUME NEW n \in Rows, Create(n) PROVE TypeOK'
  BY <1>1 DEF Create, history, Statuses
<1>2. ASSUME NEW n \in Rows, BackoffEnds(n) PROVE TypeOK'
  BY <1>2 DEF BackoffEnds, history
<1>3. ASSUME NEW n \in Rows, ClaimAges(n) PROVE TypeOK'
  <2>1. lapses' \in 0..MaxLapses
    BY <1>3, NotificationOutboxAssumption DEF ClaimAges
  <2> QED
    BY <1>3, <2>1 DEF ClaimAges, history
<1>4. ASSUME NEW n \in Rows, ReadNotification(n) PROVE TypeOK'
  BY <1>4 DEF ReadNotification, history, Statuses
<1>5. ASSUME NEW w \in Workers, ClaimPending(w) PROVE TypeOK'
  BY <1>5, ClaimEffect DEF Statuses
<1>6. ASSUME NEW w \in Workers, DeliverSucceeds(w) PROVE TypeOK'
  <2>1. PICK c \in batch[w] : /\ Delivered(w, c, TRUE) /\ confirmed' = confirmed \cup {c.id}
                              /\ sends' = [sends EXCEPT ![c.id] = @ + 1]
    BY <1>6 DEF DeliverSucceeds
  <2>2. c.id \in Rows
    BY HeldTyped
  <2>3. confirmed' \in SUBSET Rows /\ sends' \in [Rows -> Nat]
    BY <2>1, <2>2
  <2> QED
    BY <1>6, <2>1, <2>3, DeliveredEffect DEF DeliverSucceeds
<1>7. ASSUME NEW w \in Workers, DeliverFails(w) PROVE TypeOK'
  <2>1. PICK c \in batch[w] :
          /\ Delivered(w, c, FALSE)
          /\ \/ UNCHANGED <<sends, ambiguous>>
             \/ /\ sends' = [sends EXCEPT ![c.id] = @ + 1]
                /\ ambiguous' = [ambiguous EXCEPT ![c.id] = @ + 1]
    BY <1>7 DEF DeliverFails
  <2>2. c.id \in Rows
    BY HeldTyped
  <2>3. sends' \in [Rows -> Nat] /\ ambiguous' \in [Rows -> Nat]
    BY <2>1, <2>2
  <2> QED
    BY <1>7, <2>1, <2>3, DeliveredEffect DEF DeliverFails
<1>8. ASSUME NEW w \in Workers, MarkDelivered(w) \/ MarkFailed(w) \/ MarkDeadLetter(w) PROVE TypeOK'
  BY <1>8, MarksAre, MarkEffect
<1>9. ASSUME NEW w \in Workers, MarkLost(w) \/ Crash(w) PROVE TypeOK'
  <2>1. faults' \in 0..MaxFaults /\ UNCHANGED lapses
    BY <1>9, NotificationOutboxAssumption DEF MarkLost, Crash, Fault
  <2> QED
    BY <1>9, <2>1 DEF MarkLost, Crash, row, history
<1>10. CASE UNCHANGED vars
  BY <1>10 DEF vars
<1> QED
  BY <1>1, <1>2, <1>3, <1>4, <1>5, <1>6, <1>7, <1>8, <1>9, <1>10 DEF Next, ProcessBatch

-----------------------------------------------------------------------------
(* The invariant *)

\* What a step does to the rows: a settled one is at most read, and others get
\* where their marks say.
LEMMA StatusStep ==
    ASSUME TypeOK, Told, [Next]_vars, NEW n \in Rows, status'[n] # status[n]
    PROVE  \/ status[n] = "absent" /\ status'[n] = "pending"
           \/ status'[n] = "read"
           \/ status[n] \in {"pending", "failed", "processing"} /\ status'[n] = "processing"
           \/ /\ status[n] = "processing"
              /\ \E w \in Workers :
                   /\ current[w] # Nil /\ current[w].id = n
                   /\ \/ status'[n] = "failed"
                      \/ status'[n] = "delivered" /\ n \in confirmed
                      \/ status'[n] = "dead_letter" /\ n \notin InApp /\ current[w].attempt >= MaxAttempts
<1>1. ASSUME NEW m \in Rows, Create(m) PROVE status[n] = "absent" /\ status'[n] = "pending"
  BY <1>1 DEF Create, TypeOK
<1>2. ASSUME NEW m \in Rows, ReadNotification(m) PROVE status'[n] = "read"
  BY <1>2 DEF ReadNotification, TypeOK
<1>3. ASSUME NEW w \in Workers, ClaimPending(w)
      PROVE  status[n] \in {"pending", "failed", "processing"} /\ status'[n] = "processing"
  BY <1>3, ClaimEffect DEF Claimable
<1>4. ASSUME NEW w \in Workers, MarkDelivered(w) \/ MarkFailed(w) \/ MarkDeadLetter(w)
      PROVE  /\ status[n] = "processing" /\ current[w] # Nil /\ current[w].id = n
             /\ \/ status'[n] = "failed"
                \/ status'[n] = "delivered" /\ n \in confirmed
                \/ status'[n] = "dead_letter" /\ n \notin InApp /\ current[w].attempt >= MaxAttempts
  BY <1>4, MarksAre, MarkEffect DEF Told
<1>5. CASE \/ \E m \in Rows : BackoffEnds(m) \/ ClaimAges(m)
           \/ \E w \in Workers : DeliverSucceeds(w) \/ DeliverFails(w) \/ MarkLost(w) \/ Crash(w)
           \/ UNCHANGED vars
  BY <1>5 DEF BackoffEnds, ClaimAges, DeliverSucceeds, DeliverFails, Delivered, MarkLost, Crash, row, vars
<1> QED
  BY <1>1, <1>2, <1>3, <1>4, <1>5 DEF Next, ProcessBatch

\* What a worker holds after a step it held before, or it has just claimed it.
LEMMA HeldStep ==
    ASSUME TypeOK, Apart, Told, [Next]_vars
    PROVE  /\ Apart' /\ Told'
           /\ \/ \E w \in Workers : ClaimPending(w)
              \/ UNCHANGED attempt /\ \A w \in Workers : Held(w)' \subseteq Held(w)
<1>1. CASE \E n \in Rows : Create(n) \/ BackoffEnds(n) \/ ClaimAges(n) \/ ReadNotification(n)
  BY <1>1 DEF Create, BackoffEnds, ClaimAges, ReadNotification, history, Apart, Told, Held
<1>2. ASSUME NEW w \in Workers, ClaimPending(w) PROVE Apart' /\ Told'
  <2>1. PICK ids \in SUBSET {n \in Rows : Claimable(n)} :
          /\ batch' \in [Workers -> SUBSET Claim]
          /\ \A v \in Workers : v # w => batch'[v] = batch[v]
          /\ current[w] = Nil
          /\ UNCHANGED <<current, sent, confirmed>>
    BY <1>2, ClaimEffect
  <2>2. Apart'
    BY <2>1, NilIsNoClaim DEF Apart
  <2> QED
    BY <2>1, <2>2 DEF Told
<1>3. ASSUME NEW w \in Workers, DeliverSucceeds(w) \/ DeliverFails(w)
      PROVE  Apart' /\ Told' /\ UNCHANGED attempt /\ \A v \in Workers : Held(v)' = Held(v)
  <2>1. PICK c \in batch[w], ok \in BOOLEAN :
          /\ current[w] = Nil /\ Delivered(w, c, ok)
          /\ IF ok THEN confirmed' = confirmed \cup {c.id} ELSE confirmed' = confirmed /\ c.id \notin InApp
    BY <1>3 DEF DeliverSucceeds, DeliverFails
  <2>2. /\ current'[w] = c /\ sent'[w] = ok /\ batch'[w] = batch[w] \ {c}
        /\ \A v \in Workers : v # w =>
             current'[v] = current[v] /\ sent'[v] = sent[v] /\ batch'[v] = batch[v]
        /\ \A v \in Workers : Held(v)' = Held(v)
        /\ UNCHANGED attempt
    BY <2>1, DeliveredEffect
  <2>3. Apart'
    BY <2>2 DEF Apart
  <2>4. Told'
    BY <2>1, <2>2 DEF Told
  <2> QED
    BY <2>2, <2>3, <2>4
<1>4. ASSUME NEW w \in Workers,
             \/ MarkDelivered(w) \/ MarkFailed(w) \/ MarkDeadLetter(w) \/ MarkLost(w) \/ Crash(w)
      PROVE  Apart' /\ Told' /\ UNCHANGED attempt /\ \A v \in Workers : Held(v)' \subseteq Held(v)
  <2>1. /\ current' = [current EXCEPT ![w] = Nil]
        /\ batch' = batch \/ batch' = [batch EXCEPT ![w] = {}]
        /\ UNCHANGED <<attempt, sent, confirmed>>
    BY <1>4, MarksAre, MarkEffect DEF MarkLost, Crash, row, history
  <2>2. /\ current'[w] = Nil /\ \A v \in Workers : v # w => current'[v] = current[v]
        /\ \A v \in Workers : batch'[v] \subseteq batch[v] /\ batch'[v] \subseteq Claim
    BY <2>1 DEF TypeOK
  <2>3. Apart'
    BY <2>2, NilIsNoClaim DEF Apart
  <2>4. Told'
    BY <2>1, <2>2 DEF Told
  <2> QED
    BY <2>1, <2>2, <2>3, <2>4 DEF Held
<1>5. CASE UNCHANGED vars
  BY <1>5 DEF vars, Apart, Told, Held
<1> QED
  BY <1>1, <1>2, <1>3, <1>4, <1>5 DEF Next, ProcessBatch

\* Attempts and confirmations only grow, and a lapse is not forgotten.
LEMMA GrowStep ==
    ASSUME TypeOK, [Next]_vars
    PROVE  /\ \A n \in Rows : attempt[n] <= attempt'[n]
           /\ confirmed \subseteq confirmed'
           /\ lapses' = 0 => lapses = 0
<1>1. ASSUME NEW w \in Workers, ClaimPending(w)
      PROVE  (\A n \in Rows : attempt[n] <= attempt'[n]) /\ UNCHANGED <<confirmed, lapses>>
  BY <1>1, ClaimEffect DEF TypeOK
<1>2. ASSUME NEW w \in Workers, MarkDelivered(w) \/ MarkFailed(w) \/ MarkDeadLetter(w)
      PROVE  UNCHANGED <<attempt, confirmed, lapses>>
  BY <1>2, MarksAre, MarkEffect
<1>3. CASE UNCHANGED attempt
  BY <1>1, <1>2, <1>3
     DEF Next, ProcessBatch, Create, BackoffEnds, ClaimAges, ReadNotification, DeliverSucceeds,
         DeliverFails, Delivered, MarkLost, Crash, Fault, history, vars, TypeOK
<1>4. CASE attempt' # attempt
  BY <1>1, <1>2, <1>4
     DEF Next, ProcessBatch, Create, BackoffEnds, ClaimAges, ReadNotification, DeliverSucceeds,
         DeliverFails, Delivered, MarkLost, Crash, row, vars
<1> QED
  BY <1>3, <1>4

\* A claim's number stays below its row's, whoever claims the row next.
LEMMA NumberedStep ==
    ASSUME TypeOK, Apart, Told, Numbered, [Next]_vars
    PROVE  Numbered'
<1>1. ASSUME NEW w \in Workers, ClaimPending(w) PROVE Numbered'
  <2>1. PICK ids \in SUBSET {n \in Rows : Claimable(n)} :
          /\ attempt' = [n \in Rows |-> IF n \in ids THEN attempt[n] + 1 ELSE attempt[n]]
          /\ batch'[w] = {[id |-> n, attempt |-> attempt[n] + 1] : n \in ids}
          /\ \A v \in Workers : v # w => batch'[v] = batch[v]
          /\ current[w] = Nil /\ UNCHANGED current
    BY <1>1, ClaimEffect
  <2>2. ASSUME NEW c \in Held(w)' PROVE c.attempt <= attempt'[c.id]
    <3>1. PICK n \in ids : c = [id |-> n, attempt |-> attempt[n] + 1]
      BY <2>1, <2>2 DEF Held
    <3> QED
      BY <2>1, <3>1 DEF TypeOK
  <2>3. ASSUME NEW v \in Workers, v # w, NEW c \in Held(v)' PROVE c.attempt <= attempt'[c.id]
    <3>1. c \in Held(v) /\ c.id \in Rows /\ c.attempt \in Nat /\ c.attempt <= attempt[c.id]
      BY <2>1, <2>3, HeldTyped DEF Held, Numbered
    <3>2. attempt[c.id] \in Nat /\ attempt'[c.id] \in Nat /\ attempt[c.id] <= attempt'[c.id]
      BY <2>1, <3>1 DEF TypeOK
    <3> QED
      BY <3>1, <3>2
  <2> QED
    BY <2>2, <2>3 DEF Numbered
<1>2. CASE UNCHANGED attempt /\ \A w \in Workers : Held(w)' \subseteq Held(w)
  BY <1>2 DEF Numbered
<1> QED
  BY <1>1, <1>2, HeldStep

\* A final status is written on the word of a delivery, late or not.
LEMMA EarnedStep ==
    ASSUME TypeOK, Told, Numbered, Earned, [Next]_vars
    PROVE  Earned'
<1>1. ASSUME NEW n \in Rows, status'[n] = "delivered" PROVE n \in confirmed'
  BY <1>1, StatusStep, GrowStep DEF Earned, DeliveredMeansSent
<1>2. ASSUME NEW n \in Rows, status'[n] = "dead_letter" PROVE attempt'[n] >= MaxAttempts /\ n \notin InApp
  <2>1. attempt[n] \in Nat /\ attempt'[n] \in Nat /\ attempt[n] <= attempt'[n] /\ MaxAttempts \in Nat
    BY GrowStep, TypeStep, NotificationOutboxAssumption DEF TypeOK
  <2>2. CASE status[n] = "dead_letter"
    BY <2>1, <2>2 DEF Earned, DeadMeansExhausted
  <2>3. CASE status[n] # "dead_letter"
    <3>1. PICK w \in Workers : /\ current[w] # Nil /\ current[w].id = n
                               /\ n \notin InApp /\ current[w].attempt >= MaxAttempts
      BY <1>2, <2>3, StatusStep
    <3>2. current[w] \in Held(w) /\ current[w].attempt \in Nat
      BY <3>1, HeldTyped DEF Held
    <3> QED
      BY <2>1, <3>1, <3>2 DEF Numbered
  <2> QED
    BY <2>2, <2>3
<1> QED
  BY <1>1, <1>2 DEF Earned, DeliveredMeansSent, DeadMeansExhausted

\* Nobody else can claim, mark or age a row that a running batch holds.
LEMMA ExclusiveStep ==
    ASSUME TypeOK, Apart, Told, ClaimsExclusive, [Next]_vars
    PROVE  ClaimsExclusive'
<1> SUFFICES ASSUME lapses' = 0
             PROVE  \A u, v \in Workers : \A c \in Held(u)' :
                      /\ attempt'[c.id] = c.attempt
                      /\ status'[c.id] \in {"processing", "read"} /\ c.id \notin stale'
                      /\ \A d \in Held(v)' : c.id = d.id => u = v /\ c = d
  BY DEF ClaimsExclusive
<1> DEFINE Sole(u, v, c) ==
             /\ attempt[c.id] = c.attempt
             /\ status[c.id] \in {"processing", "read"} /\ c.id \notin stale
             /\ \A d \in Held(v) : c.id = d.id => u = v /\ c = d
<1>1. \A u, v \in Workers : \A c \in Held(u) : Sole(u, v, c)
  BY GrowStep DEF ClaimsExclusive
<1>2. \A u \in Workers : \A c \in Held(u) : c.id \in Rows
  BY HeldTyped
<1>3. ASSUME UNCHANGED attempt, \A u \in Workers : Held(u)' \subseteq Held(u),
             \A u \in Workers : \A c \in Held(u)' :
                status'[c.id] \in {"processing", "read"} /\ c.id \notin stale'
      PROVE  \A u, v \in Workers : \A c \in Held(u)' : Sole(u, v, c)'
  BY <1>1, <1>3
<1>4. ASSUME NEW n \in Rows, Create(n) \/ BackoffEnds(n) \/ ReadNotification(n)
      PROVE  \A u, v \in Workers : \A c \in Held(u)' : Sole(u, v, c)'
  <2>1. /\ UNCHANGED <<attempt, stale>> /\ \A u \in Workers : Held(u)' = Held(u)
        /\ \A m \in Rows : status[m] \in {"processing", "read"} => status'[m] \in {"processing", "read"}
    BY <1>4 DEF Create, BackoffEnds, ReadNotification, Held, TypeOK
  <2> QED
    BY <1>1, <1>2, <1>3, <2>1
<1>5. ASSUME NEW n \in Rows, ClaimAges(n)
      PROVE  \A u, v \in Workers : \A c \in Held(u)' : Sole(u, v, c)'
  <2>1. Holders(n) = {}
    BY <1>5 DEF ClaimAges, TypeOK
  <2>2. \A u \in Workers : \A c \in Held(u) : c.id # n
    BY <2>1 DEF Holders
  <2>3. /\ UNCHANGED <<attempt, status>> /\ stale' = stale \cup {n}
        /\ \A u \in Workers : Held(u)' = Held(u)
    BY <1>5 DEF ClaimAges, Held
  <2> QED
    BY <1>1, <1>3, <2>2, <2>3
<1>6. ASSUME NEW w \in Workers, ClaimPending(w)
      PROVE  \A u, v \in Workers : \A c \in Held(u)' : Sole(u, v, c)'
  <2>1. PICK ids \in SUBSET {n \in Rows : Claimable(n)} :
          /\ status' = [n \in Rows |-> IF n \in ids THEN "processing" ELSE status[n]]
          /\ attempt' = [n \in Rows |-> IF n \in ids THEN attempt[n] + 1 ELSE attempt[n]]
          /\ stale' = stale \ ids
          /\ batch'[w] = {[id |-> n, attempt |-> attempt[n] + 1] : n \in ids}
          /\ \A v \in Workers : v # w => batch'[v] = batch[v]
          /\ current[w] = Nil /\ batch[w] = {} /\ UNCHANGED current
    BY <1>6, ClaimEffect
  <2>2. Held(w)' = batch'[w] /\ \A v \in Workers : v # w => Held(v)' = Held(v)
    BY <2>1 DEF Held
  <2>3. ASSUME NEW v \in Workers, v # w, NEW c \in Held(v)
        PROVE  c.id \notin ids
    BY <1>1, <2>3 DEF Claimable
  <2>4. ASSUME NEW c \in Held(w)'
        PROVE  /\ c.id \in ids /\ c = [id |-> c.id, attempt |-> attempt[c.id] + 1]
    BY <2>1, <2>2, <2>4
  <2>5. ASSUME NEW u \in Workers, NEW v \in Workers, NEW c \in Held(u)' PROVE Sole(u, v, c)'
    <3>1. CASE u = w
      <4>1. /\ attempt'[c.id] = c.attempt /\ status'[c.id] = "processing" /\ c.id \notin stale'
        BY <2>1, <2>4, <2>5, <3>1
      <4>2. ASSUME NEW d \in Held(v)', c.id = d.id PROVE u = v /\ c = d
        BY <2>2, <2>3, <2>4, <2>5, <3>1, <4>2
      <4> QED
        BY <4>1, <4>2
    <3>2. CASE u # w
      <4>1. c \in Held(u) /\ c.id \in Rows /\ c.id \notin ids
        BY <1>2, <2>2, <2>3, <2>5, <3>2
      <4>2. attempt'[c.id] = c.attempt /\ status'[c.id] \in {"processing", "read"} /\ c.id \notin stale'
        BY <1>1, <2>1, <4>1
      <4>3. ASSUME NEW d \in Held(v)', c.id = d.id PROVE u = v /\ c = d
        BY <1>1, <2>2, <2>4, <4>1, <4>3
      <4> QED
        BY <4>2, <4>3
    <3> QED
      BY <3>1, <3>2
  <2> QED
    BY <2>5
<1>7. ASSUME NEW w \in Workers, MarkDelivered(w) \/ MarkFailed(w) \/ MarkDeadLetter(w)
      PROVE  \A u, v \in Workers : \A c \in Held(u)' : Sole(u, v, c)'
  <2>1. /\ current[w] # Nil
        /\ \A n \in Rows : status'[n] # status[n] => n = current[w].id
        /\ stale' \subseteq stale /\ current' = [current EXCEPT ![w] = Nil]
        /\ UNCHANGED <<attempt, batch>>
    BY <1>7, MarksAre, MarkEffect
  <2>2. /\ Held(w)' = batch[w] /\ batch[w] \subseteq Held(w) /\ current[w] \in Held(w)
        /\ \A v \in Workers : v # w => Held(v)' = Held(v)
    BY <2>1 DEF Held, TypeOK
  <2>3. ASSUME NEW u \in Workers, NEW c \in Held(u)' PROVE c.id # current[w].id
    BY <1>1, <2>2, <2>3 DEF Apart
  <2>4. \A u \in Workers : Held(u)' \subseteq Held(u)
    BY <2>2
  <2>5. ASSUME NEW u \in Workers, NEW c \in Held(u)'
        PROVE  status'[c.id] \in {"processing", "read"} /\ c.id \notin stale'
    BY <1>1, <1>2, <2>1, <2>3, <2>4, <2>5
  <2> QED
    BY <1>3, <2>1, <2>4, <2>5
<1>8. CASE \/ \E w \in Workers : DeliverSucceeds(w) \/ DeliverFails(w) \/ MarkLost(w) \/ Crash(w)
           \/ UNCHANGED vars
  <2>1. UNCHANGED <<status, attempt, stale>>
    BY <1>8 DEF DeliverSucceeds, DeliverFails, Delivered, MarkLost, Crash, row, vars
  <2>2. ASSUME NEW w \in Workers, DeliverSucceeds(w) \/ DeliverFails(w)
        PROVE  \A u \in Workers : Held(u)' = Held(u)
    BY <2>2, DeliveredEffect DEF DeliverSucceeds, DeliverFails
  <2>3. ASSUME NEW w \in Workers, MarkLost(w) \/ Crash(w)
        PROVE  \A u \in Workers : Held(u)' \subseteq Held(u)
    BY <2>3 DEF MarkLost, Crash, Held, TypeOK
  <2>4. \A u \in Workers : Held(u)' \subseteq Held(u)
    BY <1>8, <2>2, <2>3 DEF vars, Held
  <2> QED
    BY <1>1, <1>3, <2>1, <2>4
<1> QED
  BY <1>4, <1>5, <1>6, <1>7, <1>8 DEF Next, ProcessBatch

-----------------------------------------------------------------------------
(* Deviations.  A claim past the limit and a second success are paid for by a *)
(* fault or a lapse each: Paid counts what has been spent on a row, the toll  *)
(* of a claim that is still open to anyone, and the claims that may still     *)
(* fail below the limit, and those that may still succeed.                    *)

\* Its last claim is held by a batch.
Newest(n) == \E w \in Workers : \E c \in Held(w) : c.id = n /\ c.attempt = attempt[n]

\* The row can be claimed without a further fault or lapse.
Open(n) ==
    \/ status[n] \in {"absent", "pending", "failed"}
    \/ status[n] = "processing" /\ (n \in stale \/ ~ Newest(n))

Toll(n) == IF Open(n) THEN 1 ELSE 0

\* The claims worker w has not succeeded with.
Hopes(w) == batch[w] \cup (IF current[w] = Nil \/ sent[w] THEN {} ELSE {current[w]})

\* The numbers of the claims, present and to come, that may fail below the limit.
MayFail(n) ==
    {k \in 1..(MaxAttempts - 1) :
        k > attempt[n] \/ \E w \in Workers : \E c \in Held(w) : c.id = n /\ c.attempt = k}

\* The numbers of the claims that may yet succeed.
MaySucceed(n) ==
    {k \in 0..attempt[n] : \E w \in Workers : \E c \in Hopes(w) : c.id = n /\ c.attempt = k}

Paid(n) ==
    /\ attempt[n] + Toll(n) + Cardinality(MayFail(n)) <= MaxAttempts + faults + lapses
    /\ sends[n] + Toll(n) + Cardinality(MaySucceed(n)) <= 1 + ambiguous[n] + faults + lapses

\* Claims of a row are numbered from 1, no two have the same number, and a batch
\* claims a row once.
Distinct ==
    \A v, w \in Workers : \A c \in Held(v) :
        /\ c.attempt >= 1
        /\ \A d \in Held(w) : c.id = d.id /\ (v = w \/ c.attempt = d.attempt) => v = w /\ c = d

\* What a step does to the account of one row.
Claims(n) ==
    /\ Open(n) /\ ~ Open(n)' /\ attempt'[n] = attempt[n] + 1
    /\ MayFail(n)' \subseteq MayFail(n)
    /\ MaySucceed(n)' \subseteq MaySucceed(n) \cup {attempt[n] + 1}
    /\ UNCHANGED <<sends, ambiguous, faults, lapses>>

Keeps(n) ==
    /\ attempt'[n] = attempt[n]
    /\ MayFail(n)' \subseteq MayFail(n)
    /\ MaySucceed(n)' \subseteq MaySucceed(n)

Waits(n) ==
    /\ Keeps(n) /\ (Open(n)' => Open(n)) /\ UNCHANGED <<faults, lapses>>
    /\ \/ sends'[n] = sends[n] /\ ambiguous'[n] = ambiguous[n]
       \/ sends'[n] = sends[n] + 1 /\ ambiguous'[n] = ambiguous[n] + 1

Deviates(n) ==
    /\ Keeps(n) /\ UNCHANGED <<sends, ambiguous>>
    /\ \/ faults' = faults + 1 /\ lapses' = lapses
       \/ faults' = faults /\ lapses' = lapses + 1

Fails(n) ==
    /\ attempt'[n] = attempt[n] /\ UNCHANGED <<sends, ambiguous, faults, lapses>>
    /\ \E k \in MayFail(n) \cap MaySucceed(n) :
         MayFail(n)' \subseteq MayFail(n) \ {k} /\ MaySucceed(n)' \subseteq MaySucceed(n) \ {k}

Succeeds(n) ==
    /\ Keeps(n) /\ (Open(n)' => Open(n)) /\ UNCHANGED <<ambiguous, faults, lapses>>
    /\ sends'[n] = sends[n] + 1
    /\ \E k \in MaySucceed(n) : MaySucceed(n)' \subseteq MaySucceed(n) \ {k}

\* Both sets of numbers are finite.
LEMMA CountsAre ==
    ASSUME TypeOK, NEW n \in Rows
    PROVE  /\ IsFiniteSet(MayFail(n)) /\ Cardinality(MayFail(n)) \in Nat
           /\ IsFiniteSet(MaySucceed(n)) /\ Cardinality(MaySucceed(n)) \in Nat
           /\ attempt[n] \in Nat /\ sends[n] \in Nat /\ ambiguous[n] \in Nat
           /\ faults \in Nat /\ lapses \in Nat /\ Toll(n) \in {0, 1}
           /\ attempt[n] + 1 \notin MaySucceed(n)
<1>1. attempt[n] \in Nat /\ sends[n] \in Nat /\ ambiguous[n] \in Nat /\ faults \in Nat /\ lapses \in Nat
  BY NotificationOutboxAssumption DEF TypeOK
<1>2. MayFail(n) \subseteq 1..(MaxAttempts - 1) /\ MaySucceed(n) \subseteq 0..attempt[n]
  BY DEF MayFail, MaySucceed
<1>3. IsFiniteSet(1..(MaxAttempts - 1)) /\ IsFiniteSet(0..attempt[n])
  <2>1. 0 \in Int /\ 1 \in Int /\ MaxAttempts - 1 \in Int /\ attempt[n] \in Int
    BY <1>1, NotificationOutboxAssumption
  <2> QED
    BY <2>1, FS_Interval, Zenon
<1>4. IsFiniteSet(MayFail(n)) /\ IsFiniteSet(MaySucceed(n))
  BY <1>2, <1>3, FS_Subset
<1>5. attempt[n] + 1 \notin MaySucceed(n)
  BY <1>1, <1>2
<1> QED
  BY <1>1, <1>4, <1>5, FS_CardinalityType DEF Toll

\* What is counted is a number before and after a step.
LEMMA CountsStep ==
    TypeOK' => \A n \in Rows :
                 /\ Cardinality(MayFail(n)') \in Nat /\ Cardinality(MaySucceed(n)') \in Nat
                 /\ attempt'[n] \in Nat /\ sends'[n] \in Nat /\ ambiguous'[n] \in Nat
                 /\ faults' \in Nat /\ lapses' \in Nat /\ Toll(n)' \in {0, 1}
<1> DEFINE Counts ==
             \A n \in Rows :
               /\ Cardinality(MayFail(n)) \in Nat /\ Cardinality(MaySucceed(n)) \in Nat
               /\ attempt[n] \in Nat /\ sends[n] \in Nat /\ ambiguous[n] \in Nat
               /\ faults \in Nat /\ lapses \in Nat /\ Toll(n) \in {0, 1}
<1>1. TypeOK => Counts
  BY CountsAre
<1>2. TypeOK' => Counts'
  <2> HIDE DEF Counts
  <2> QED
    BY <1>1, PTL
<1> QED
  BY <1>2

\* Fewer numbers count less, and one less by one.
LEMMA Fewer ==
    ASSUME NEW S, IsFiniteSet(S), NEW T, T \subseteq S
    PROVE  /\ Cardinality(T) \in Nat /\ Cardinality(S) \in Nat /\ Cardinality(T) <= Cardinality(S)
           /\ \A k \in S : T \subseteq S \ {k} => Cardinality(T) + 1 <= Cardinality(S)
<1>1. IsFiniteSet(T) /\ Cardinality(T) <= Cardinality(S)
  BY FS_Subset
<1>2. ASSUME NEW k \in S, T \subseteq S \ {k} PROVE Cardinality(T) + 1 <= Cardinality(S)
  <2>1. IsFiniteSet(S \ {k}) /\ Cardinality(S \ {k}) = Cardinality(S) - 1
    BY FS_RemoveElement
  <2>2. Cardinality(T) <= Cardinality(S \ {k})
    BY <1>2, <2>1, FS_Subset
  <2> QED
    BY <1>1, <2>1, <2>2, FS_CardinalityType
<1> QED
  BY <1>1, <1>2, FS_CardinalityType

\* One number more counts at most one more.
LEMMA OneMore ==
    ASSUME NEW S, IsFiniteSet(S), NEW T, NEW k, T \subseteq S \cup {k}
    PROVE  Cardinality(T) \in Nat /\ Cardinality(T) <= Cardinality(S) + 1
<1>1. IsFiniteSet(S \cup {k}) /\ Cardinality(S \cup {k}) <= Cardinality(S) + 1
  <2>1. IsFiniteSet(S \cup {k}) /\ Cardinality(S) \in Nat
    BY FS_AddElement, FS_CardinalityType
  <2>2. Cardinality(S \cup {k}) = Cardinality(S) \/ Cardinality(S \cup {k}) = Cardinality(S) + 1
    BY FS_AddElement
  <2> QED
    BY <2>1, <2>2
<1>2. IsFiniteSet(T) /\ Cardinality(T) <= Cardinality(S \cup {k})
  BY <1>1, FS_Subset
<1> QED
  BY <1>1, <1>2, FS_CardinalityType

\* Each of these keeps the account in balance.
LEMMA Balances ==
    ASSUME TypeOK, TypeOK', NEW n \in Rows, Paid(n),
           Claims(n) \/ Waits(n) \/ Deviates(n) \/ Fails(n) \/ Succeeds(n)
    PROVE  Paid(n)'
<1> DEFINE f == Cardinality(MayFail(n))
           s == Cardinality(MaySucceed(n))
           f1 == Cardinality(MayFail(n)')
           s1 == Cardinality(MaySucceed(n)')
           t == Toll(n)
           t1 == Toll(n)'
<1>1. /\ f \in Nat /\ s \in Nat /\ t \in {0, 1} /\ attempt[n] \in Nat /\ sends[n] \in Nat
      /\ ambiguous[n] \in Nat /\ faults \in Nat /\ lapses \in Nat /\ MaxAttempts \in Nat
      /\ IsFiniteSet(MayFail(n)) /\ IsFiniteSet(MaySucceed(n))
  BY CountsAre, NotificationOutboxAssumption
<1>2. /\ f1 \in Nat /\ s1 \in Nat /\ t1 \in {0, 1} /\ attempt'[n] \in Nat /\ sends'[n] \in Nat
      /\ ambiguous'[n] \in Nat /\ faults' \in Nat /\ lapses' \in Nat
  BY CountsStep
<1>3. /\ attempt[n] + t + f <= MaxAttempts + faults + lapses
      /\ sends[n] + t + s <= 1 + ambiguous[n] + faults + lapses
  BY DEF Paid
<1>4. SUFFICES /\ attempt'[n] + t1 + f1 <= MaxAttempts + faults' + lapses'
               /\ sends'[n] + t1 + s1 <= 1 + ambiguous'[n] + faults' + lapses'
  BY DEF Paid
<1>5. CASE Claims(n)
  <2>1. t = 1 /\ t1 = 0
    BY <1>5 DEF Claims, Toll
  <2>2. f1 <= f /\ s1 <= s + 1
    BY <1>1, <1>5, Fewer, OneMore DEF Claims
  <2> HIDE DEF f, s, f1, s1, t, t1
  <2> QED
    BY <1>1, <1>2, <1>3, <1>5, <2>1, <2>2 DEF Claims
<1>6. ASSUME Keeps(n) PROVE f1 <= f /\ s1 <= s
  BY <1>1, <1>6, Fewer DEF Keeps
<1>7. CASE Waits(n)
  <2>1. t1 <= t
    BY <1>7 DEF Waits, Toll
  <2>2. f1 <= f /\ s1 <= s
    BY <1>6, <1>7 DEF Waits
  <2> HIDE DEF f, s, f1, s1, t, t1
  <2> QED
    BY <1>1, <1>2, <1>3, <1>7, <2>1, <2>2 DEF Waits, Keeps
<1>8. CASE Deviates(n)
  <2>1. f1 <= f /\ s1 <= s
    BY <1>6, <1>8 DEF Deviates
  <2> HIDE DEF f, s, f1, s1, t, t1
  <2>2. attempt'[n] = attempt[n] /\ sends'[n] = sends[n] /\ ambiguous'[n] = ambiguous[n]
    BY <1>8 DEF Deviates, Keeps
  <2>3. CASE faults' = faults + 1 /\ lapses' = lapses
    BY <1>1, <1>2, <1>3, <2>1, <2>2, <2>3
  <2>4. CASE faults' = faults /\ lapses' = lapses + 1
    BY <1>1, <1>2, <1>3, <2>1, <2>2, <2>4
  <2> QED
    BY <1>8, <2>3, <2>4 DEF Deviates
<1>9. CASE Fails(n)
  <2>1. f1 + 1 <= f /\ s1 + 1 <= s
    <3>1. PICK k \in MayFail(n) \cap MaySucceed(n) :
            MayFail(n)' \subseteq MayFail(n) \ {k} /\ MaySucceed(n)' \subseteq MaySucceed(n) \ {k}
      BY <1>9 DEF Fails
    <3> QED
      BY <1>1, <3>1, Fewer
  <2> HIDE DEF f, s, f1, s1, t, t1
  <2> QED
    BY <1>1, <1>2, <1>3, <1>9, <2>1 DEF Fails
<1>10. CASE Succeeds(n)
  <2>1. t1 <= t
    BY <1>10 DEF Succeeds, Toll
  <2>2. f1 <= f
    BY <1>6, <1>10 DEF Succeeds
  <2>3. s1 + 1 <= s
    <3>1. PICK k \in MaySucceed(n) : MaySucceed(n)' \subseteq MaySucceed(n) \ {k}
      BY <1>10 DEF Succeeds
    <3> QED
      BY <1>1, <3>1, Fewer
  <2> HIDE DEF f, s, f1, s1, t, t1
  <2> QED
    BY <1>1, <1>2, <1>3, <1>10, <2>1, <2>2, <2>3 DEF Succeeds, Keeps
<1> QED
  BY <1>5, <1>7, <1>8, <1>9, <1>10

\* Nothing is held twice after a step: what a batch claims has a number of its own.
LEMMA DistinctStep ==
    ASSUME TypeOK, Apart, Told, Numbered, Distinct, [Next]_vars
    PROVE  Distinct'
<1>1. ASSUME NEW w \in Workers, ClaimPending(w) PROVE Distinct'
  <2>1. PICK ids \in SUBSET {n \in Rows : Claimable(n)} :
          /\ batch'[w] = {[id |-> n, attempt |-> attempt[n] + 1] : n \in ids}
          /\ \A v \in Workers : v # w => batch'[v] = batch[v]
          /\ current[w] = Nil /\ UNCHANGED current
    BY <1>1, ClaimEffect
  <2>2. Held(w)' = batch'[w] /\ \A v \in Workers : v # w => Held(v)' = Held(v)
    BY <2>1 DEF Held
  <2>3. \A n \in Rows : attempt[n] \in Nat
    BY DEF TypeOK
  <2>4. ASSUME NEW c \in Held(w)' PROVE /\ c.id \in ids /\ c.id \in Rows
                                        /\ c = [id |-> c.id, attempt |-> attempt[c.id] + 1]
    BY <2>1, <2>2, <2>4
  <2>5. ASSUME NEW v \in Workers, v # w, NEW c \in Held(v)'
        PROVE  c \in Held(v) /\ c.id \in Rows /\ c.attempt \in Nat /\ c.attempt <= attempt[c.id]
    BY <2>2, <2>5, HeldTyped DEF Numbered
  <2>6. ASSUME NEW u \in Workers, NEW v \in Workers, NEW c \in Held(u)', NEW d \in Held(v)',
               c.id = d.id, u = v \/ c.attempt = d.attempt
        PROVE  u = v /\ c = d
    <3>1. CASE u = w /\ v = w
      BY <2>4, <2>6, <3>1
    <3>2. CASE u = w /\ v # w
      <4>1. c.attempt = attempt[d.id] + 1 /\ d.attempt <= attempt[d.id] /\ d.attempt \in Nat
            /\ attempt[d.id] \in Nat
        BY <2>3, <2>4, <2>5, <2>6, <3>2
      <4> QED
        BY <2>6, <3>2, <4>1
    <3>3. CASE u # w /\ v = w
      <4>1. d.attempt = attempt[c.id] + 1 /\ c.attempt <= attempt[c.id] /\ c.attempt \in Nat
            /\ attempt[c.id] \in Nat
        BY <2>3, <2>4, <2>5, <2>6, <3>3
      <4> QED
        BY <2>6, <3>3, <4>1
    <3>4. CASE u # w /\ v # w
      BY <2>5, <2>6, <3>4 DEF Distinct
    <3> QED
      BY <3>1, <3>2, <3>3, <3>4
  <2>7. ASSUME NEW u \in Workers, NEW c \in Held(u)' PROVE c.attempt >= 1
    <3>1. CASE u = w
      <4>1. c.attempt = attempt[c.id] + 1 /\ attempt[c.id] \in Nat
        BY <2>3, <2>4, <2>7, <3>1
      <4> QED
        BY <4>1
    <3>2. CASE u # w
      BY <2>2, <2>7, <3>2 DEF Distinct
    <3> QED
      BY <3>1, <3>2
  <2> QED
    BY <2>6, <2>7 DEF Distinct
<1>2. CASE UNCHANGED attempt /\ \A w \in Workers : Held(w)' \subseteq Held(w)
  BY <1>2 DEF Distinct
<1> QED
  BY <1>1, <1>2, HeldStep

\* Whoever holds less has no more claims that may fail or succeed.
LEMMA Shrinks ==
    ASSUME NEW n \in Rows, attempt'[n] = attempt[n],
           \A w \in Workers : Held(w)' \subseteq Held(w) /\ Hopes(w)' \subseteq Hopes(w)
    PROVE  Keeps(n)
BY DEF Keeps, MayFail, MaySucceed

\* A batch's claim of a row takes its toll.
LEMMA ClaimAccount ==
    ASSUME TypeOK, NEW w \in Workers, ClaimPending(w), NEW n \in Rows
    PROVE  Claims(n) \/ Waits(n)
<1>1. PICK ids \in SUBSET {m \in Rows : Claimable(m)} :
        /\ status' = [m \in Rows |-> IF m \in ids THEN "processing" ELSE status[m]]
        /\ attempt' = [m \in Rows |-> IF m \in ids THEN attempt[m] + 1 ELSE attempt[m]]
        /\ stale' = stale \ ids
        /\ batch'[w] = {[id |-> m, attempt |-> attempt[m] + 1] : m \in ids}
        /\ \A v \in Workers : v # w => batch'[v] = batch[v]
        /\ current[w] = Nil /\ batch[w] = {}
        /\ UNCHANGED <<due, current, sent, sends, confirmed, ambiguous, faults, lapses>>
  BY ClaimEffect
<1>2. /\ Held(w)' = batch'[w] /\ Hopes(w)' = batch'[w] /\ Held(w) = {} /\ Hopes(w) = {}
      /\ \A v \in Workers : v # w => Held(v)' = Held(v) /\ Hopes(v)' = Hopes(v)
  BY <1>1 DEF Held, Hopes
<1>3. attempt[n] \in Nat /\ MaxAttempts \in Nat
  BY NotificationOutboxAssumption DEF TypeOK
<1>4. CASE n \in ids
  <2>1. attempt'[n] = attempt[n] + 1 /\ status'[n] = "processing" /\ n \notin stale'
    BY <1>1, <1>4
  <2>2. Open(n)
    BY <1>1, <1>4 DEF Claimable, Open
  <2>3. [id |-> n, attempt |-> attempt[n] + 1] \in Held(w)'
    BY <1>1, <1>2, <1>4
  <2>4. Newest(n)'
    BY <2>1, <2>3 DEF Newest
  <2>5. ~ Open(n)'
    BY <2>1, <2>4 DEF Open
  <2>6. ASSUME NEW c \in Held(w)', c.id = n PROVE c.attempt = attempt[n] + 1
    BY <1>1, <1>2, <2>6
  <2>7. ASSUME NEW k \in MayFail(n)' PROVE k \in MayFail(n)
    <3>1. k \in 1..(MaxAttempts - 1)
      BY <2>7 DEF MayFail
    <3>2. CASE k > attempt'[n]
      BY <1>3, <2>1, <3>1, <3>2 DEF MayFail
    <3>3. CASE \E v \in Workers : \E c \in Held(v)' : c.id = n /\ c.attempt = k
      <4>1. PICK v \in Workers : \E c \in Held(v)' : c.id = n /\ c.attempt = k
        BY <3>3
      <4>2. CASE v = w
        BY <1>3, <2>6, <3>1, <4>1, <4>2 DEF MayFail
      <4>3. CASE v # w
        BY <1>2, <3>1, <4>1, <4>3 DEF MayFail
      <4> QED
        BY <4>2, <4>3
    <3> QED
      BY <2>7, <3>2, <3>3 DEF MayFail
  <2>8. ASSUME NEW k \in MaySucceed(n)' PROVE k \in MaySucceed(n) \cup {attempt[n] + 1}
    <3>1. k \in 0..(attempt[n] + 1)
      BY <2>1, <2>8 DEF MaySucceed
    <3>2. PICK v \in Workers : \E c \in Hopes(v)' : c.id = n /\ c.attempt = k
      BY <2>8 DEF MaySucceed
    <3>3. CASE v = w
      BY <1>2, <2>6, <3>2, <3>3
    <3>4. CASE v # w
      <4>1. CASE k = attempt[n] + 1
        BY <4>1
      <4>2. CASE k # attempt[n] + 1
        <5>1. k \in 0..attempt[n]
          BY <1>3, <3>1, <4>2
        <5> QED
          BY <1>2, <3>2, <3>4, <5>1 DEF MaySucceed
      <4> QED
        BY <4>1, <4>2
    <3> QED
      BY <3>3, <3>4
  <2> QED
    BY <1>1, <2>1, <2>2, <2>5, <2>7, <2>8 DEF Claims
<1>5. CASE n \notin ids
  <2>1. attempt'[n] = attempt[n] /\ status'[n] = status[n] /\ (n \in stale' <=> n \in stale)
    BY <1>1, <1>5
  <2>2. \A v \in Workers :
          /\ \A c \in Held(v)' : c.id = n => c \in Held(v)
          /\ \A c \in Held(v) : c.id = n => c \in Held(v)'
          /\ \A c \in Hopes(v)' : c.id = n => c \in Hopes(v)
    BY <1>1, <1>2, <1>5
  <2>3. Keeps(n)
    BY <2>1, <2>2 DEF Keeps, MayFail, MaySucceed
  <2>4. Newest(n)' <=> Newest(n)
    BY <2>1, <2>2 DEF Newest
  <2> QED
    BY <1>1, <2>1, <2>3, <2>4 DEF Waits, Open
<1> QED
  BY <1>4, <1>5

\* A delivery that succeeds is no longer one that may.
LEMMA DeliveryAccount ==
    ASSUME TypeOK, Apart, Numbered, Distinct, NEW w \in Workers,
           DeliverSucceeds(w) \/ DeliverFails(w), NEW n \in Rows
    PROVE  Waits(n) \/ Succeeds(n)
<1>1. PICK c \in batch[w], ok \in BOOLEAN :
        /\ current[w] = Nil /\ Delivered(w, c, ok)
        /\ ok => sends' = [sends EXCEPT ![c.id] = @ + 1] /\ UNCHANGED ambiguous
        /\ ~ ok => \/ UNCHANGED <<sends, ambiguous>>
                   \/ /\ sends' = [sends EXCEPT ![c.id] = @ + 1]
                      /\ ambiguous' = [ambiguous EXCEPT ![c.id] = @ + 1]
  BY DEF DeliverSucceeds, DeliverFails
<1>2. /\ current'[w] = c /\ sent'[w] = ok /\ batch'[w] = batch[w] \ {c}
      /\ \A v \in Workers : v # w =>
           current'[v] = current[v] /\ sent'[v] = sent[v] /\ batch'[v] = batch[v]
      /\ \A v \in Workers : Held(v)' = Held(v)
      /\ UNCHANGED <<status, attempt, due, stale, faults, lapses>>
  BY <1>1, DeliveredEffect
<1>3. c \in Held(w) /\ c \in Claim /\ c.id \in Rows /\ c.attempt \in Nat /\ c # Nil
  BY <1>1, HeldTyped, NilIsNoClaim DEF Held
<1>4. /\ Hopes(w)' = IF ok THEN Hopes(w) \ {c} ELSE Hopes(w)
      /\ \A v \in Workers : v # w => Hopes(v)' = Hopes(v)
  BY <1>1, <1>2, <1>3 DEF Hopes
<1>5. Keeps(n)
  <2>1. \A v \in Workers : Held(v)' \subseteq Held(v) /\ Hopes(v)' \subseteq Hopes(v)
    BY <1>2, <1>4
  <2> QED
    BY <1>2, <2>1, Shrinks
<1>6. Open(n)' <=> Open(n)
  BY <1>2 DEF Open, Newest
<1>7. sends[n] \in Nat /\ ambiguous[n] \in Nat /\ n \in DOMAIN sends /\ n \in DOMAIN ambiguous
  BY DEF TypeOK
<1>8. CASE ~ ok \/ n # c.id
  <2>1. \/ sends'[n] = sends[n] /\ ambiguous'[n] = ambiguous[n]
        \/ sends'[n] = sends[n] + 1 /\ ambiguous'[n] = ambiguous[n] + 1
    BY <1>1, <1>7, <1>8
  <2> QED
    BY <1>2, <1>5, <1>6, <2>1 DEF Waits
<1>9. CASE ok /\ n = c.id
  <2>1. sends'[n] = sends[n] + 1 /\ UNCHANGED ambiguous
    BY <1>1, <1>7, <1>9
  <2>2. c.attempt \in MaySucceed(n)
    <3>1. c \in Hopes(w) /\ c.attempt \in 0..attempt[n]
      BY <1>3, <1>9 DEF Hopes, Numbered, TypeOK
    <3> QED
      BY <1>9, <3>1 DEF MaySucceed
  <2>3. ASSUME NEW v \in Workers, NEW d \in Hopes(v)', d.id = n PROVE d.attempt # c.attempt
    <3>1. d \in Held(v)
      <4>1. d \in Held(v)'
        BY <2>3 DEF Hopes, Held
      <4> QED
        BY <1>2, <4>1
    <3>2. v = w => d # c
      BY <1>4, <1>9, <2>3
    <3> QED
      BY <1>3, <1>9, <2>3, <3>1, <3>2 DEF Distinct
  <2>4. MaySucceed(n)' \subseteq MaySucceed(n) \ {c.attempt}
    BY <1>5, <2>3 DEF Keeps, MaySucceed
  <2> QED
    BY <1>2, <1>5, <1>6, <2>1, <2>2, <2>4 DEF Succeeds
<1> QED
  BY <1>8, <1>9

\* A mark ends a claim; it opens the row only to end a claim that might fail.
LEMMA MarkAccount ==
    ASSUME TypeOK, Apart, Numbered, Distinct, NEW w \in Workers,
           MarkDelivered(w) \/ MarkFailed(w) \/ MarkDeadLetter(w), NEW n \in Rows
    PROVE  Waits(n) \/ Fails(n)
<1> DEFINE c == current[w]
<1>1. PICK to \in {"delivered", "failed", "dead_letter"} :
        /\ c # Nil /\ Mark(w, to)
        /\ to = "failed" => ~ sent[w] /\ c.attempt < MaxAttempts
  BY DEF MarkDelivered, MarkFailed, MarkDeadLetter
<1>2. /\ c.id \in Rows
      /\ \A m \in Rows : status'[m] # status[m] => m = c.id /\ status[m] = "processing" /\ status'[m] = to
      /\ stale' \subseteq stale
      /\ current' = [current EXCEPT ![w] = Nil]
      /\ UNCHANGED <<attempt, batch, sent, sends, confirmed, ambiguous, faults, lapses>>
  BY <1>1, MarkEffect DEF Statuses
<1>3. c \in Held(w) /\ c \in Claim /\ c.attempt \in Nat
  BY <1>1, HeldTyped DEF Held
<1>4. /\ current'[w] = Nil
      /\ \A v \in Workers : v # w => current'[v] = current[v]
  BY <1>2 DEF TypeOK
<1>5. /\ Held(w)' = Held(w) \ {c} /\ Hopes(w)' = Hopes(w) \ {c}
      /\ \A v \in Workers : v # w => Held(v)' = Held(v) /\ Hopes(v)' = Hopes(v)
  BY <1>1, <1>2, <1>4 DEF Held, Hopes, Apart
<1>6. Keeps(n)
  <2>1. \A v \in Workers : Held(v)' \subseteq Held(v) /\ Hopes(v)' \subseteq Hopes(v)
    BY <1>5
  <2> QED
    BY <1>2, <2>1, Shrinks
<1>7. CASE n # c.id
  <2>1. status'[n] = status[n] /\ (n \in stale' => n \in stale)
    BY <1>2, <1>7
  <2>2. Newest(n) => Newest(n)'
    <3>1. \A v \in Workers : \A d \in Held(v) : d.id = n => d \in Held(v)'
      BY <1>5, <1>7
    <3> QED
      BY <1>2, <3>1 DEF Newest
  <2> QED
    BY <1>2, <1>6, <2>1, <2>2 DEF Waits, Open
<1>8. CASE n = c.id /\ to # "failed"
  <2>1. CASE status'[n] = status[n] /\ status[n] # "processing"
    BY <1>2, <1>6, <2>1 DEF Waits, Open
  <2>2. CASE status[n] = "processing"
    <3>1. status'[n] = to
      BY <1>1, <1>2, <1>8, <2>2 DEF Mark, TypeOK
    <3> QED
      BY <1>1, <1>2, <1>6, <1>8, <3>1 DEF Waits, Open
  <2> QED
    BY <1>2, <2>1, <2>2
<1>9. CASE n = c.id /\ to = "failed"
  <2>1. ~ sent[w] /\ c.attempt < MaxAttempts /\ c.attempt >= 1 /\ c.attempt <= attempt[n]
        /\ MaxAttempts \in Nat /\ attempt[n] \in Nat
    BY <1>1, <1>3, <1>9, NotificationOutboxAssumption DEF Distinct, Numbered, TypeOK
  <2>2. c.attempt \in 1..(MaxAttempts - 1) /\ c.attempt \in 0..attempt[n]
    BY <1>3, <2>1
  <2>3. c.attempt \in MayFail(n) \cap MaySucceed(n)
    <3>1. c \in Hopes(w)
      BY <1>1, <2>1 DEF Hopes
    <3> QED
      BY <1>3, <1>9, <2>2, <3>1 DEF MayFail, MaySucceed
  <2>4. ASSUME NEW v \in Workers, NEW d, d \in Held(v)' \/ d \in Hopes(v)', d.id = n
        PROVE  d.attempt # c.attempt
    <3>1. d \in Held(v)'
      BY <2>4 DEF Held, Hopes
    <3>2. d \in Held(v) /\ (v = w => d # c)
      BY <1>5, <3>1
    <3> QED
      BY <1>3, <1>9, <2>4, <3>2 DEF Distinct
  <2>5. MayFail(n)' \subseteq MayFail(n) \ {c.attempt}
    <3>1. ~ (c.attempt > attempt'[n])
      BY <1>2, <1>3, <2>1
    <3> QED
      BY <1>6, <2>4, <3>1 DEF Keeps, MayFail
  <2>6. MaySucceed(n)' \subseteq MaySucceed(n) \ {c.attempt}
    BY <1>6, <2>4 DEF Keeps, MaySucceed
  <2> QED
    BY <1>2, <2>3, <2>5, <2>6 DEF Fails
<1> QED
  BY <1>7, <1>8, <1>9

\* Every step keeps every row's account.
LEMMA PaidStep ==
    ASSUME TypeOK, TypeOK', Apart, Told, Numbered, Distinct, [Next]_vars, NEW n \in Rows, Paid(n)
    PROVE  Paid(n)'
<1> SUFFICES Claims(n) \/ Waits(n) \/ Deviates(n) \/ Fails(n) \/ Succeeds(n)
  BY Balances
<1>1. ASSUME NEW m \in Rows, Create(m) \/ BackoffEnds(m) \/ ReadNotification(m) PROVE Waits(n)
  <2>1. /\ UNCHANGED <<attempt, stale, batch, current, sent, sends, ambiguous, faults, lapses>>
        /\ status'[n] \notin {status[n], "pending", "read"} => FALSE
        /\ status'[n] = "pending" => status[n] \in {"absent", "pending"}
    BY <1>1 DEF Create, BackoffEnds, ReadNotification, history, TypeOK
  <2>2. \A w \in Workers : Held(w)' = Held(w) /\ Hopes(w)' = Hopes(w)
    BY <2>1 DEF Held, Hopes
  <2>3. Keeps(n)
    BY <2>1, <2>2, Shrinks
  <2> QED
    BY <2>1, <2>2, <2>3 DEF Waits, Open, Newest
<1>2. ASSUME NEW m \in Rows, ClaimAges(m) PROVE Waits(n) \/ Deviates(n)
  <2>1. UNCHANGED <<status, attempt, batch, current, sent, sends, ambiguous, faults>>
    BY <1>2 DEF ClaimAges, history
  <2>2. \A w \in Workers : Held(w)' = Held(w) /\ Hopes(w)' = Hopes(w)
    BY <2>1 DEF Held, Hopes
  <2>3. Keeps(n)
    BY <2>1, <2>2, Shrinks
  <2>4. CASE Holders(m) = {} /\ UNCHANGED lapses
    <3>1. n = m => status[n] = "processing" /\ ~ Newest(n)
      BY <1>2, <2>4 DEF ClaimAges, Holders, Newest
    <3>2. n # m => (n \in stale' <=> n \in stale)
      BY <1>2 DEF ClaimAges
    <3> QED
      BY <2>1, <2>2, <2>3, <2>4, <3>1, <3>2 DEF Waits, Open, Newest
  <2>5. CASE lapses' = lapses + 1
    BY <2>1, <2>3, <2>5 DEF Deviates
  <2> QED
    BY <1>2, <2>4, <2>5 DEF ClaimAges
<1>3. ASSUME NEW w \in Workers, MarkLost(w) \/ Crash(w) PROVE Deviates(n)
  <2>1. /\ faults' = faults + 1 /\ UNCHANGED <<lapses, attempt, sent, sends, ambiguous>>
        /\ current' = [current EXCEPT ![w] = Nil]
        /\ batch' = batch \/ batch' = [batch EXCEPT ![w] = {}]
    BY <1>3 DEF MarkLost, Crash, Fault, row, history
  <2>2. \A v \in Workers : Held(v)' \subseteq Held(v) /\ Hopes(v)' \subseteq Hopes(v)
    BY <2>1 DEF Held, Hopes, TypeOK
  <2>3. Keeps(n)
    BY <2>1, <2>2, Shrinks
  <2> QED
    BY <2>1, <2>3 DEF Deviates
<1>4. CASE UNCHANGED vars
  <2>1. /\ UNCHANGED <<status, stale, attempt, sends, ambiguous, faults, lapses>>
        /\ \A w \in Workers : Held(w)' = Held(w) /\ Hopes(w)' = Hopes(w)
    BY <1>4 DEF vars, Held, Hopes
  <2>2. Keeps(n)
    BY <2>1, Shrinks
  <2> QED
    BY <2>1, <2>2 DEF Waits, Open, Newest
<1> QED
  BY <1>1, <1>2, <1>3, <1>4, ClaimAccount, DeliveryAccount, MarkAccount DEF Next, ProcessBatch

-----------------------------------------------------------------------------
(* The invariant holds *)

IInv ==
    /\ TypeOK /\ Apart /\ Told /\ Numbered /\ Earned /\ ClaimsExclusive
    /\ Distinct /\ \A n \in Rows : Paid(n)

\* Before the first row there is nothing to hold.
LEMMA InitIInv == Init => IInv
<1> SUFFICES ASSUME Init PROVE IInv
  OBVIOUS
<1>1. TypeOK
  BY NotificationOutboxAssumption DEF Init, TypeOK, Statuses
<1>2. \A w \in Workers : Held(w) = {}
  BY DEF Init, Held
<1>3. Apart /\ Told
  BY DEF Init, Apart, Told
<1>4. Numbered /\ ClaimsExclusive
  BY <1>2 DEF Numbered, ClaimsExclusive
<1>5. Earned
  BY DEF Init, Earned, DeliveredMeansSent, DeadMeansExhausted
<1>6. Distinct
  BY <1>2 DEF Distinct
<1>7. ASSUME NEW n \in Rows PROVE Paid(n)
  <2>1. \A w \in Workers : Hopes(w) = {}
    BY DEF Init, Hopes
  <2>2. attempt[n] = 0 /\ sends[n] = 0 /\ ambiguous[n] = 0 /\ faults = 0 /\ lapses = 0
    BY DEF Init
  <2>3. Toll(n) = 1
    BY DEF Init, Toll, Open
  <2>4. Cardinality(MayFail(n)) <= MaxAttempts - 1
    <3>1. 1 \in Int /\ MaxAttempts - 1 \in Int
      BY NotificationOutboxAssumption
    <3>2. IsFiniteSet(1..(MaxAttempts - 1)) /\ Cardinality(1..(MaxAttempts - 1)) = MaxAttempts - 1
      <4>1. /\ IsFiniteSet(1..(MaxAttempts - 1))
            /\ Cardinality(1..(MaxAttempts - 1))
                 = IF 1 > MaxAttempts - 1 THEN 0 ELSE (MaxAttempts - 1) - 1 + 1
        BY <3>1, FS_Interval, Zenon
      <4> QED
        BY <4>1, NotificationOutboxAssumption
    <3>3. MayFail(n) \subseteq 1..(MaxAttempts - 1)
      BY DEF MayFail
    <3> QED
      BY <3>2, <3>3, Fewer
  <2>5. Cardinality(MaySucceed(n)) = 0
    <3>1. MaySucceed(n) = {}
      BY <2>1 DEF MaySucceed
    <3> QED
      BY <3>1, FS_EmptySet
  <2>6. Cardinality(MayFail(n)) \in Nat /\ MaxAttempts \in Nat
    BY <1>1, CountsAre, NotificationOutboxAssumption
  <2> HIDE DEF Init
  <2> QED
    BY <2>2, <2>3, <2>4, <2>5, <2>6 DEF Paid
<1> QED
  BY <1>1, <1>3, <1>4, <1>5, <1>6, <1>7 DEF IInv

\* Every step keeps the invariant.
LEMMA IInvStep == IInv /\ [Next]_vars => IInv'
<1> SUFFICES ASSUME IInv, [Next]_vars PROVE IInv'
  OBVIOUS
<1>1. TypeOK' /\ Apart' /\ Told' /\ Numbered' /\ Earned' /\ ClaimsExclusive' /\ Distinct'
  BY TypeStep, HeldStep, NumberedStep, EarnedStep, ExclusiveStep, DistinctStep DEF IInv
<1>2. \A n \in Rows : Paid(n)'
  BY <1>1, PaidStep DEF IInv
<1> QED
  BY <1>1, <1>2 DEF IInv

\* The invariant holds in every reachable state.
LEMMA IInvHolds == Spec => []IInv
  BY InitIInv, IInvStep, PTL DEF Spec

-----------------------------------------------------------------------------
(* Theorems *)

\* Columns, batches and counts keep their types; only a claimed row has a claimed_at.
THEOREM TypeCorrect == Spec => []TypeOK
<1>1. IInv => TypeOK
  BY DEF IInv
<1> QED
  BY <1>1, IInvHolds, PTL

\* While no claim lapses, a row is in one batch, at its column's attempt, and nobody but
\* its reader changes it, whatever crashes and lost marks leave behind.
THEOREM ExclusiveHolds == Spec => []ClaimsExclusive
<1>1. IInv => ClaimsExclusive
  BY DEF IInv
<1> QED
  BY <1>1, IInvHolds, PTL

\* However late and from whichever claim a mark comes, a row is delivered only if a
\* delivery of it succeeded, and dead only at the limit and never in the application.
THEOREM FinalStatusEarned == Spec => [](DeliveredMeansSent /\ DeadMeansExhausted)
<1>1. IInv => DeliveredMeansSent /\ DeadMeansExhausted
  BY DEF IInv, Earned
<1> QED
  BY <1>1, IInvHolds, PTL

\* Each claim of a row past the limit and each duplicate of a notification is paid for
\* by a fault or a lapse, one for each, and its final status is earned.
THEOREM DeviationsHold == Spec => []DeviationsExplained
<1>1. ASSUME IInv PROVE DeviationsExplained
  <2>1. ASSUME NEW n \in Rows
        PROVE  /\ attempt[n] <= MaxAttempts + faults + lapses
               /\ sends[n] <= 1 + ambiguous[n] + faults + lapses
    <3>1. Paid(n)
      BY <1>1 DEF IInv
    <3>2. /\ Cardinality(MayFail(n)) \in Nat /\ Cardinality(MaySucceed(n)) \in Nat
          /\ attempt[n] \in Nat /\ sends[n] \in Nat /\ ambiguous[n] \in Nat
          /\ faults \in Nat /\ lapses \in Nat /\ Toll(n) \in {0, 1} /\ MaxAttempts \in Nat
      BY <1>1, CountsAre, NotificationOutboxAssumption DEF IInv
    <3> QED
      BY <3>1, <3>2 DEF Paid
  <2> QED
    BY <1>1, <2>1 DEF IInv, Earned, DeviationsExplained, AttemptsBounded, DuplicatesExplained
<1> QED
  BY <1>1, IInvHolds, PTL

\* No batch claims a settled row again, and no late mark changes it.
THEOREM SettledHolds == Spec => SettledStays
<1>1. IInv /\ [Next]_vars =>
        [\A n \in Rows :
            /\ status[n] \in {"delivered", "dead_letter"} => status'[n] \in {status[n], "read"}
            /\ status[n] = "read" => status'[n] = "read"]_vars
  BY StatusStep DEF IInv
<1> QED
  BY <1>1, IInvHolds, PTL DEF Spec, SettledStays
=============================================================================
