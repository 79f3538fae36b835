------------------------------ MODULE JobProofs ------------------------------
(***************************************************************************)
(* What TLAPS proves of JobQueue, for every set of jobs, workers and       *)
(* operators and every bound, and, after it, of JobSchedule, for every     *)
(* number of replicas, every clock skew and delay, and every TTL that      *)
(* satisfies TTLSuffices.                                                  *)
(***************************************************************************)
EXTENDS JobQueue, JobSchedule, TLAPS

USE DEF history, budgets

(* Bump keeps a count within 0..MaxAttempts (the attempt counter of queue.go:315). *)
LEMMA BumpType == \A n \in 0..MaxAttempts : Bump(n) \in 0..MaxAttempts
  BY JobQueueAssumption DEF Bump

(* A worker that is not idle holds a job, and one inside handle an envelope. *)
LEMMA WorkerFacts ==
  ASSUME TypeOK, NEW w \in Workers
  PROVE  /\ worker[w] \in WorkerState
         /\ worker[w].pc # "idle" => worker[w].id \in Jobs
         /\ worker[w].pc = "loading" =>
                worker[w] = [pc |-> "loading", id |-> worker[w].id, copy |-> Nil]
         /\ worker[w].pc \in {"running", "succeeded", "failed"} =>
                /\ worker[w].copy \in Envelope
                /\ worker[w] = [pc |-> worker[w].pc, id |-> worker[w].id, copy |-> worker[w].copy]
  <1>1. worker[w] \in WorkerState
    BY DEF TypeOK
  <1> QED
    BY <1>1 DEF WorkerState, Idle

(* The priority of an envelope is one of Priorities. *)
LEMMA EnvelopeFacts ==
  ASSUME NEW e \in Envelope
  PROVE  e.attempt \in 0..MaxAttempts /\ e.priority \in Priorities
  BY DEF Envelope

(* Moving a worker inside handle keeps the workers well typed. *)
LEMMA GoesType ==
  ASSUME worker \in [Workers -> WorkerState],
         NEW w \in Workers, NEW pc \in {"running", "succeeded", "failed"},
         NEW id \in Jobs, NEW e \in Envelope, Goes(w, pc, id, e)
  PROVE  worker' \in [Workers -> WorkerState]
  <1>1. [pc |-> pc, id |-> id, copy |-> e] \in WorkerState
    BY DEF WorkerState
  <1> QED
    BY <1>1 DEF Goes

(* Pushing a job on a ready list keeps the lists well typed. *)
LEMMA RPushType ==
  ASSUME ready \in [Priorities -> Seq(Jobs)], NEW p \in Priorities, NEW id \in Jobs, RPush(p, id)
  PROVE  ready' \in [Priorities -> Seq(Jobs)]
  <1>1. Append(ready[p], id) \in Seq(Jobs)
    OBVIOUS
  <1> QED
    BY <1>1 DEF RPush

(* Requeueing, too: an id goes to the list its priority entry names. *)
LEMMA RequeueType ==
  ASSUME ready \in [Priorities -> Seq(Jobs)], priorities \in [Jobs -> Priorities \cup {Nil}],
         NEW id \in Jobs, Requeue(id)
  PROVE  ready' \in [Priorities -> Seq(Jobs)]
  <1>1. CASE priorities[id] = Nil
    BY <1>1 DEF Requeue
  <1>2. CASE priorities[id] # Nil
    BY <1>2, RPushType DEF Requeue
  <1> QED
    BY <1>1, <1>2

(* Type correctness: no script and no interleaving of scripts puts an ill-typed  *)
(* value under a key, in a lease or in a local copy.                             *)
THEOREM TypeCorrect == Spec => []TypeOK
  <1>1. Init => TypeOK
    BY JobQueueAssumption DEF Init, TypeOK, WorkerState, ReplayState, NoReplay
  <1>2. TypeOK /\ [Next]_vars => TypeOK'
    <2> SUFFICES ASSUME TypeOK, [Next]_vars
                 PROVE  TypeOK'
      OBVIOUS
    <2> USE JobQueueAssumption
    <2>1. ASSUME NEW id \in Jobs, NEW p \in Priorities, NEW later \in BOOLEAN,
                 Enqueue(id, p, later)
          PROVE  TypeOK'
      <3>1. ready' \in [Priorities -> Seq(Jobs)]
        BY <2>1, RPushType DEF Enqueue, TypeOK
      <3>2. [attempt |-> 0, priority |-> p] \in Envelope
        BY DEF Envelope
      <3>3. jobs' \in [Jobs -> Envelope \cup {Nil}]
        BY <2>1, <3>2 DEF Enqueue, Store, TypeOK
      <3> QED
        BY <2>1, <3>1, <3>3 DEF Enqueue, TypeOK
    <2>2. ASSUME NEW id \in Jobs, Promote(id)
          PROVE  TypeOK'
      <3>1. ready' \in [Priorities -> Seq(Jobs)]
        BY <2>2, RequeueType DEF Promote, TypeOK
      <3> QED
        BY <2>2, <3>1 DEF Promote, TypeOK
    <2>3. ASSUME NEW id \in Jobs, Reclaim(id)
          PROVE  TypeOK'
      <3>1. ready' \in [Priorities -> Seq(Jobs)]
        BY <2>3, RequeueType DEF Reclaim, TypeOK
      <3> QED
        BY <2>3, <3>1 DEF Reclaim, TypeOK
    <2>4. ASSUME NEW id \in Jobs, LeaseExpires(id)
          PROVE  TypeOK'
      BY <2>4 DEF LeaseExpires, TypeOK
    <2>5. ASSUME NEW w \in Workers, Claim(w)
          PROVE  TypeOK'
      BY <2>5 DEF Claim, ClaimScript, Goes, TypeOK, WorkerState
    <2>6. CASE ClaimLost
      BY <2>6 DEF ClaimLost, ClaimScript, Fault, TypeOK
    <2>7. ASSUME NEW w \in Workers, Load(w)
          PROVE  TypeOK'
      BY <2>7, WorkerFacts, GoesType DEF Load, TypeOK
    <2>8. ASSUME NEW w \in Workers, LoadFails(w)
          PROVE  TypeOK'
      BY <2>8, WorkerFacts DEF LoadFails, TypeOK, WorkerState
    <2>9. ASSUME NEW w \in Workers, HandlerSucceeds(w)
          PROVE  TypeOK'
      BY <2>9, WorkerFacts, GoesType DEF HandlerSucceeds, TypeOK
    <2>10. ASSUME NEW w \in Workers, HandlerFails(w)
           PROVE  TypeOK'
      <3> DEFINE c == [worker[w].copy EXCEPT !.attempt = Bump(@)]
      <3>1. worker[w].pc = "running"
        BY <2>10 DEF HandlerFails
      <3>2. worker[w].copy \in Envelope /\ worker[w].id \in Jobs
        BY <3>1, WorkerFacts
      <3>3. c \in Envelope
        BY <3>2, BumpType DEF Envelope
      <3>4. worker' \in [Workers -> WorkerState]
        BY <2>10, <3>2, <3>3, GoesType DEF HandlerFails, TypeOK
      <3>5. failures' \in [Jobs -> 0..MaxAttempts]
        BY <2>10, BumpType DEF HandlerFails, TypeOK
      <3> QED
        BY <2>10, <3>4, <3>5 DEF HandlerFails, TypeOK
    <2>11. ASSUME NEW w \in Workers, RenewLease(w)
           PROVE  TypeOK'
      BY <2>11 DEF RenewLease, TypeOK
    <2>12. ASSUME NEW w \in Workers, Ack(w)
           PROVE  TypeOK'
      BY <2>12, WorkerFacts DEF Ack, LetGo, TypeOK, WorkerState
    <2>13. ASSUME NEW w \in Workers, Retry(w)
           PROVE  TypeOK'
      BY <2>13, WorkerFacts DEF Retry, LetGo, TypeOK, WorkerState
    <2>14. ASSUME NEW w \in Workers, DeadLetter(w)
           PROVE  TypeOK'
      BY <2>14, WorkerFacts DEF DeadLetter, LetGo, TypeOK, WorkerState
    <2>15. ASSUME NEW w \in Workers, Abandon(w)
           PROVE  TypeOK'
      BY <2>15, WorkerFacts DEF Abandon, Fault, TypeOK, WorkerState
    <2>16. ASSUME NEW o \in Operators, ReplayList(o)
           PROVE  TypeOK'
      BY <2>16 DEF ReplayList, NoReplay, ReplayState, TypeOK
    <2>17. ASSUME NEW o \in Operators, NEW id \in Jobs, ReplayGet(o, id)
           PROVE  TypeOK'
      BY <2>17 DEF ReplayGet, ReplayState, TypeOK
    <2>18. ASSUME NEW o \in Operators, ReplayGivesUp(o)
           PROVE  TypeOK'
      BY <2>18 DEF ReplayGivesUp, NoReplay, ReplayState, TypeOK
    <2>19. ASSUME NEW o \in Operators, ReplayMove(o)
           PROVE  TypeOK'
      <3> DEFINE id == replay[o].id
                 p == replay[o].copy.priority
      <3>1. id \in Jobs /\ replay[o].copy \in Envelope
        BY <2>19 DEF ReplayMove, ReplayState, TypeOK
      <3>2. p \in Priorities
        BY <3>1, EnvelopeFacts
      <3>3. replay' \in [Operators -> ReplayState]
        <4>1. replay[o].todo \in SUBSET Jobs
          BY DEF TypeOK, ReplayState
        <4>2. [todo |-> replay[o].todo \ {id}, id |-> Nil, copy |-> Nil] \in ReplayState
          BY <4>1 DEF ReplayState
        <4> QED
          BY <2>19, <4>2 DEF ReplayMove, TypeOK
      <3>4. CASE id \in dlq
        <4>1. ready' \in [Priorities -> Seq(Jobs)]
          BY <2>19, <3>1, <3>2, <3>4, RPushType DEF ReplayMove, TypeOK
        <4>2. [attempt |-> 0, priority |-> p] \in Envelope
          BY <3>2 DEF Envelope
        <4>3. jobs' \in [Jobs -> Envelope \cup {Nil}]
          BY <2>19, <3>1, <3>4, <4>2 DEF ReplayMove, Store, TypeOK
        <4>4. failures' \in [Jobs -> 0..MaxAttempts]
          <5>1. 0 \in 0..MaxAttempts
            BY JobQueueAssumption
          <5>2. failures' = [failures EXCEPT ![id] = 0]
            BY <2>19, <3>4 DEF ReplayMove
          <5> QED
            BY <5>1, <5>2 DEF TypeOK
        <4>6. dlq' \in SUBSET Jobs
          BY <2>19, <3>4 DEF ReplayMove, TypeOK
        <4>5. UNCHANGED <<priorities, delayed, lease, worker, budgets, accepted, succeeded>>
          BY <2>19 DEF ReplayMove
        <4> QED
          BY <3>3, <4>1, <4>3, <4>4, <4>5, <4>6 DEF TypeOK
      <3>5. CASE id \notin dlq
        BY <2>19, <3>3, <3>5 DEF ReplayMove, TypeOK
      <3> QED
        BY <3>4, <3>5
    <2>20. CASE UNCHANGED vars
      BY <2>20 DEF vars, TypeOK
    <2> QED
      BY <2>1, <2>2, <2>3, <2>4, <2>5, <2>6, <2>7, <2>8, <2>9, <2>10, <2>11, <2>12, <2>13,
         <2>14, <2>15, <2>16, <2>17, <2>18, <2>19, <2>20
         DEF Next, Maintenance, Work, Replay
  <1> QED
    BY <1>1, <1>2, PTL DEF Spec

-----------------------------------------------------------------------------
(* Where the ids are: what pushing on and popping from the ready lists does. *)

(* RPUSH adds exactly the pushed id. *)
LEMMA PushReady ==
  ASSUME ready \in [Priorities -> Seq(Jobs)], NEW p \in Priorities, NEW id \in Jobs, RPush(p, id)
  PROVE  \A x : InReady(x)' <=> InReady(x) \/ x = id
  <1>1. /\ ready'[p] = Append(ready[p], id)
        /\ \A q \in Priorities : q # p => ready'[q] = ready[q]
    BY DEF RPush
  <1>2. /\ Len(ready'[p]) = Len(ready[p]) + 1
        /\ \A i \in 1..Len(ready[p]) : ready'[p][i] = ready[p][i]
        /\ ready'[p][Len(ready[p]) + 1] = id
        /\ Len(ready[p]) \in Nat
    BY <1>1
  <1>3. ASSUME NEW x, InReady(x)
        PROVE  InReady(x)'
    <2>0. PICK q \in Priorities : \E i \in 1..Len(ready[q]) : ready[q][i] = x
      BY <1>3 DEF InReady
    <2>1. PICK i \in 1..Len(ready[q]) : ready[q][i] = x
      BY <2>0
    <2>2. i \in 1..Len(ready'[q]) /\ ready'[q][i] = x
      <3>1. CASE q = p
        BY <1>2, <2>1, <3>1
      <3>2. CASE q # p
        BY <1>1, <2>1, <3>2
      <3> QED
        BY <3>1, <3>2
    <2> QED
      BY <2>2 DEF InReady
  <1>4. InReady(id)'
    BY <1>2 DEF InReady
  <1>5. ASSUME NEW x, InReady(x)', x # id
        PROVE  InReady(x)
    <2>0. PICK q \in Priorities : \E i \in 1..Len(ready'[q]) : ready'[q][i] = x
      BY <1>5 DEF InReady
    <2>1. PICK i \in 1..Len(ready'[q]) : ready'[q][i] = x
      BY <2>0
    <2>2. i \in 1..Len(ready[q]) /\ ready[q][i] = x
      BY <1>1, <1>2, <1>5, <2>1
    <2> QED
      BY <2>2 DEF InReady
  <1> QED
    BY <1>3, <1>4, <1>5

(* LPOP takes an id that is there; every other id stays and none appears. *)
LEMMA PopReady ==
  ASSUME ready \in [Priorities -> Seq(Jobs)], NEW p \in Priorities, NEW id \in Jobs, ClaimScript(p, id)
  PROVE  /\ InReady(id)
         /\ \A x : InReady(x)' => InReady(x)
         /\ \A x : InReady(x) => InReady(x)' \/ x = id
  <1>1. /\ ready'[p] = Tail(ready[p]) /\ ready[p] # <<>> /\ id = ready[p][1]
        /\ \A q \in Priorities : q # p => ready'[q] = ready[q]
    BY DEF ClaimScript
  <1>2. /\ Len(ready[p]) \in Nat /\ Len(ready[p]) > 0
        /\ Len(ready'[p]) = Len(ready[p]) - 1
        /\ \A i \in 1..Len(ready'[p]) : ready'[p][i] = ready[p][i + 1]
    BY <1>1
  <1>3. InReady(id)
    BY <1>1, <1>2 DEF InReady
  <1>4. ASSUME NEW x, InReady(x)'
        PROVE  InReady(x)
    <2>0. PICK q \in Priorities : \E i \in 1..Len(ready'[q]) : ready'[q][i] = x
      BY <1>4 DEF InReady
    <2>1. PICK i \in 1..Len(ready'[q]) : ready'[q][i] = x
      BY <2>0
    <2>2. CASE q = p
      <3>1. i + 1 \in 1..Len(ready[p]) /\ ready[p][i + 1] = x
        BY <1>2, <2>1, <2>2
      <3> QED
        BY <3>1 DEF InReady
    <2>3. CASE q # p
      BY <1>1, <2>1, <2>3 DEF InReady
    <2> QED
      BY <2>2, <2>3
  <1>5. ASSUME NEW x, InReady(x), x # id
        PROVE  InReady(x)'
    <2>0. PICK q \in Priorities : \E i \in 1..Len(ready[q]) : ready[q][i] = x
      BY <1>5 DEF InReady
    <2>1. PICK i \in 1..Len(ready[q]) : ready[q][i] = x
      BY <2>0
    <2>2. CASE q = p
      <3>1. i # 1
        BY <1>1, <1>5, <2>1, <2>2
      <3>2. i - 1 \in 1..Len(ready'[p]) /\ ready'[p][i - 1] = x
        BY <1>2, <2>1, <2>2, <3>1
      <3> QED
        BY <3>2 DEF InReady
    <2>3. CASE q # p
      BY <1>1, <2>1, <2>3 DEF InReady
    <2> QED
      BY <2>2, <2>3
  <1> QED
    BY <1>3, <1>4, <1>5

(* Requeueing an id that has a priority puts it in a list; without one it changes nothing. *)
LEMMA RequeueReady ==
  ASSUME TypeOK, NEW id \in Jobs, Requeue(id)
  PROVE  /\ \A x : InReady(x) => InReady(x)'
         /\ \A x : InReady(x)' => InReady(x) \/ x = id
         /\ priorities[id] # Nil => InReady(id)'
  <1>1. CASE priorities[id] = Nil
    BY <1>1 DEF Requeue, InReady
  <1>2. CASE priorities[id] # Nil
    <2>1. priorities[id] \in Priorities /\ ready \in [Priorities -> Seq(Jobs)]
      BY <1>2 DEF TypeOK
    <2> QED
      BY <1>2, <2>1, PushReady DEF Requeue
  <1> QED
    BY <1>1, <1>2

(* An action that leaves the lists alone leaves every id where it is in them. *)
LEMMA SameReady ==
  ASSUME UNCHANGED ready
  PROVE  \A x : InReady(x)' <=> InReady(x)
  BY DEF InReady

(* A replay that is between its read and its script holds an id and an envelope. *)
LEMMA ReplayFacts ==
  ASSUME TypeOK, NEW o \in Operators
  PROVE  /\ replay[o].todo \subseteq Jobs
         /\ replay[o].id # Nil => replay[o].id \in Jobs /\ replay[o].copy \in Envelope
  BY DEF TypeOK, ReplayState

-----------------------------------------------------------------------------
(* Traced is inductive: nothing turns up in a queue or in a worker's hands that *)
(* was not accepted, and no copy disagrees with the priority hash.              *)
THEOREM TracedHolds == Spec => []Traced
  <1>1. Init => Traced
    BY DEF Init, Traced, Queued, InReady, Idle, NoReplay
  <1>2. TypeOK /\ Traced /\ [Next]_vars => Traced'
    <2> SUFFICES ASSUME TypeOK, Traced, [Next]_vars
                 PROVE  Traced'
      OBVIOUS
    <2> USE JobQueueAssumption, NilIsNoEnvelope
    <2>1. ASSUME NEW id \in Jobs, NEW p \in Priorities, NEW later \in BOOLEAN,
                 Enqueue(id, p, later)
          PROVE  Traced'
      <3>1. \A x : InReady(x)' => InReady(x) \/ x = id
        BY <2>1, PushReady, SameReady DEF Enqueue, TypeOK
      <3>2. \A x \in Jobs : Queued(x)' => Queued(x) \/ x = id
        BY <2>1, <3>1 DEF Enqueue, Queued
      <3>3. /\ jobs'[id] = [attempt |-> 0, priority |-> p] /\ priorities'[id] = p
            /\ \A x \in Jobs \ {id} : jobs'[x] = jobs[x] /\ priorities'[x] = priorities[x]
        BY <2>1 DEF Enqueue, Store, TypeOK
      <3>4. accepted' = accepted \cup {id} /\ id \notin accepted
            /\ UNCHANGED <<worker, replay, succeeded>>
        BY <2>1 DEF Enqueue
      <3>5. \A v \in Workers : worker[v].copy # Nil => worker[v].id \in Jobs \ {id}
        <4> TAKE v \in Workers
        <4>1. worker[v] = Idle \/ worker[v].id \in Jobs
          BY WorkerFacts DEF WorkerState
        <4>2. CASE worker[v] = Idle
          BY <4>2 DEF Idle
        <4>3. CASE worker[v].id \in Jobs
          BY <3>4, <4>3 DEF Traced
        <4> QED
          BY <4>1, <4>2, <4>3
      <3>6. \A o \in Operators : replay[o].id # Nil => replay[o].id \in Jobs \ {id}
        BY <3>4, ReplayFacts DEF Traced
      <3>7. \A x \in Jobs :
                /\ Queued(x)' \/ jobs'[x] # Nil \/ priorities'[x] # Nil => x \in accepted'
                /\ jobs'[x] # Nil => priorities'[x] \in {Nil, jobs'[x].priority}
        <4> TAKE x \in Jobs
        <4>1. CASE x = id
          BY <3>3, <3>4, <4>1
        <4>2. CASE x # id
          BY <3>2, <3>3, <3>4, <4>2 DEF Traced
        <4> QED
          BY <4>1, <4>2
      <3> QED
        BY <3>3, <3>4, <3>5, <3>6, <3>7 DEF Traced
    <2>2. ASSUME NEW id \in Jobs, Promote(id)
          PROVE  Traced'
      <3>1. \A x \in Jobs : Queued(x)' => Queued(x)
        BY <2>2, RequeueReady DEF Promote, Queued
      <3> QED
        BY <2>2, <3>1 DEF Promote, Traced
    <2>3. ASSUME NEW id \in Jobs, Reclaim(id)
          PROVE  Traced'
      <3>1. \A x \in Jobs : Queued(x)' => Queued(x)
        BY <2>3, RequeueReady DEF Reclaim, Queued, TypeOK
      <3> QED
        BY <2>3, <3>1 DEF Reclaim, Traced
    <2>4. ASSUME NEW id \in Jobs, LeaseExpires(id)
          PROVE  Traced'
      <3>1. \A x \in Jobs : Queued(x)' => Queued(x)
        BY <2>4, SameReady DEF LeaseExpires, Queued, TypeOK
      <3> QED
        BY <2>4, <3>1 DEF LeaseExpires, Traced
    <2>5. ASSUME NEW w \in Workers, Claim(w)
          PROVE  Traced'
      <3>1. PICK p \in Priorities, id \in Jobs : ClaimScript(p, id) /\ Goes(w, "loading", id, Nil)
        BY <2>5 DEF Claim
      <3>2. InReady(id) /\ \A x : InReady(x)' => InReady(x)
        BY <3>1, PopReady DEF TypeOK
      <3>3. \A x \in Jobs : Queued(x)' => Queued(x)
        BY <2>5, <3>1, <3>2 DEF Claim, ClaimScript, Queued, TypeOK
      <3>4. id \in accepted
        BY <3>2 DEF Traced, Queued
      <3>5. /\ worker'[w] = [pc |-> "loading", id |-> id, copy |-> Nil]
            /\ \A v \in Workers \ {w} : worker'[v] = worker[v]
        BY <3>1 DEF Goes, TypeOK
      <3> QED
        BY <2>5, <3>3, <3>4, <3>5 DEF Claim, Traced
    <2>6. CASE ClaimLost
      <3>1. PICK p \in Priorities, id \in Jobs : ClaimScript(p, id)
        BY <2>6 DEF ClaimLost
      <3>2. InReady(id) /\ \A x : InReady(x)' => InReady(x)
        BY <3>1, PopReady DEF TypeOK
      <3>3. \A x \in Jobs : Queued(x)' => Queued(x)
        BY <2>6, <3>1, <3>2 DEF ClaimLost, ClaimScript, Queued, TypeOK
      <3> QED
        BY <2>6, <3>3 DEF ClaimLost, Traced
    <2>7. ASSUME NEW w \in Workers, Load(w)
          PROVE  Traced'
      <3>1. \A x \in Jobs : Queued(x)' => Queued(x)
        BY <2>7, SameReady DEF Load, Queued
      <3>2. /\ worker'[w] = [pc |-> "running", id |-> worker[w].id, copy |-> jobs[worker[w].id]]
            /\ \A v \in Workers \ {w} : worker'[v] = worker[v]
            /\ worker[w].id \in Jobs /\ jobs[worker[w].id] # Nil
        BY <2>7, WorkerFacts DEF Load, Goes, TypeOK
      <3> QED
        BY <2>7, <3>1, <3>2 DEF Load, Traced
    <2>8. ASSUME NEW w \in Workers, LoadFails(w)
          PROVE  Traced'
      <3>1. \A x \in Jobs : Queued(x)' => Queued(x)
        BY <2>8, SameReady, WorkerFacts DEF LoadFails, Queued, TypeOK
      <3>2. /\ worker'[w] = Idle
            /\ \A v \in Workers \ {w} : worker'[v] = worker[v]
        BY <2>8 DEF LoadFails, TypeOK
      <3> QED
        BY <2>8, <3>1, <3>2 DEF LoadFails, Traced, Idle
    <2>9. ASSUME NEW w \in Workers, HandlerSucceeds(w)
          PROVE  Traced'
      <3>1. \A x \in Jobs : Queued(x)' => Queued(x)
        BY <2>9, SameReady DEF HandlerSucceeds, Queued
      <3>2. /\ worker'[w] = [pc |-> "succeeded", id |-> worker[w].id, copy |-> worker[w].copy]
            /\ \A v \in Workers \ {w} : worker'[v] = worker[v]
        BY <2>9 DEF HandlerSucceeds, Goes, TypeOK
      <3> QED
        BY <2>9, <3>1, <3>2 DEF HandlerSucceeds, Traced
    <2>10. ASSUME NEW w \in Workers, HandlerFails(w)
           PROVE  Traced'
      <3> DEFINE c == [worker[w].copy EXCEPT !.attempt = Bump(@)]
      <3>1. \A x \in Jobs : Queued(x)' => Queued(x)
        BY <2>10, SameReady DEF HandlerFails, Queued
      <3>2. /\ worker'[w] = [pc |-> "failed", id |-> worker[w].id, copy |-> c]
            /\ \A v \in Workers \ {w} : worker'[v] = worker[v]
        BY <2>10 DEF HandlerFails, Goes, TypeOK
      <3>3. worker[w].copy \in Envelope
        BY <2>10, WorkerFacts DEF HandlerFails
      <3>4. c.priority = worker[w].copy.priority /\ worker[w].copy # Nil
        BY <3>3 DEF Envelope
      <3>5. UNCHANGED <<jobs, priorities, replay, accepted, succeeded>>
        BY <2>10 DEF HandlerFails
      <3> HIDE DEF c
      <3> QED
        BY <3>1, <3>2, <3>4, <3>5 DEF Traced
    <2>11. ASSUME NEW w \in Workers, RenewLease(w)
           PROVE  Traced'
      <3>1. \A x \in Jobs : Queued(x)' => Queued(x)
        BY <2>11, SameReady, WorkerFacts DEF RenewLease, Queued, TypeOK
      <3> QED
        BY <2>11, <3>1 DEF RenewLease, Traced
    <2>12. ASSUME NEW w \in Workers, Ack(w)
           PROVE  Traced'
      <3>1. \A x \in Jobs : Queued(x)' => Queued(x)
        BY <2>12, SameReady, WorkerFacts DEF Ack, LetGo, Queued, TypeOK
      <3>2. /\ worker'[w] = Idle
            /\ \A v \in Workers \ {w} : worker'[v] = worker[v]
        BY <2>12 DEF Ack, LetGo, TypeOK
      <3>3. \A x \in Jobs : /\ jobs'[x] \in {Nil, jobs[x]}
                            /\ priorities'[x] \in {Nil, priorities[x]}
        BY <2>12 DEF Ack, TypeOK
      <3> QED
        BY <2>12, <3>1, <3>2, <3>3, WorkerFacts, ReplayFacts DEF Ack, Traced, Idle, WorkerState
    <2>13. ASSUME NEW w \in Workers, Retry(w) \/ DeadLetter(w)
           PROVE  Traced'
      <3>1. worker[w].id \in Jobs /\ worker[w].copy \in Envelope /\ worker[w].copy # Nil
        BY <2>13, WorkerFacts DEF Retry, DeadLetter
      <3>2. worker[w].id \in accepted
        BY <3>1 DEF Traced
      <3>3. \A x \in Jobs : Queued(x)' => Queued(x) \/ x = worker[w].id
        BY <2>13, SameReady DEF Retry, DeadLetter, LetGo, Queued, TypeOK
      <3>4. /\ worker'[w] = Idle
            /\ \A v \in Workers \ {w} : worker'[v] = worker[v]
        BY <2>13 DEF Retry, DeadLetter, LetGo, TypeOK
      <3>5. /\ jobs'[worker[w].id] = worker[w].copy
            /\ \A x \in Jobs \ {worker[w].id} : jobs'[x] = jobs[x]
        BY <2>13, <3>1 DEF Retry, DeadLetter, TypeOK
      <3>6. UNCHANGED <<priorities, replay, accepted, succeeded>>
        BY <2>13 DEF Retry, DeadLetter
      <3> QED
        BY <3>1, <3>2, <3>3, <3>4, <3>5, <3>6 DEF Traced, Idle
    <2>15. ASSUME NEW w \in Workers, Abandon(w)
           PROVE  Traced'
      <3>1. \A x \in Jobs : Queued(x)' => Queued(x)
        BY <2>15, SameReady DEF Abandon, Queued
      <3>2. /\ worker'[w] = Idle
            /\ \A v \in Workers \ {w} : worker'[v] = worker[v]
        BY <2>15 DEF Abandon, TypeOK
      <3> QED
        BY <2>15, <3>1, <3>2 DEF Abandon, Traced, Idle
    <2>16. ASSUME NEW o \in Operators, ReplayList(o) \/ ReplayGivesUp(o)
           PROVE  Traced'
      <3>1. \A x \in Jobs : Queued(x)' => Queued(x)
        BY <2>16, SameReady DEF ReplayList, ReplayGivesUp, Queued
      <3>2. dlq \subseteq accepted
        BY DEF Traced, Queued, TypeOK
      <3>3. /\ replay'[o].id = Nil /\ replay'[o].todo \subseteq accepted
            /\ \A r \in Operators \ {o} : replay'[r] = replay[r]
        BY <2>16, <3>2 DEF ReplayList, ReplayGivesUp, NoReplay, TypeOK
      <3> QED
        BY <2>16, <3>1, <3>3 DEF ReplayList, ReplayGivesUp, Traced
    <2>17. ASSUME NEW o \in Operators, NEW id \in Jobs, ReplayGet(o, id)
           PROVE  Traced'
      <3>1. \A x \in Jobs : Queued(x)' => Queued(x)
        BY <2>17, SameReady DEF ReplayGet, Queued
      <3>2. /\ replay'[o] = [todo |-> replay[o].todo, id |-> id, copy |-> jobs[id]]
            /\ \A r \in Operators \ {o} : replay'[r] = replay[r]
        BY <2>17 DEF ReplayGet, TypeOK
      <3> QED
        BY <2>17, <3>1, <3>2 DEF ReplayGet, Traced
    <2>19. ASSUME NEW o \in Operators, ReplayMove(o)
           PROVE  Traced'
      <3> DEFINE id == replay[o].id
                 p == replay[o].copy.priority
      <3>1. id \in Jobs /\ p \in Priorities /\ id \in accepted /\ priorities[id] \in {Nil, p}
        BY <2>19, ReplayFacts, EnvelopeFacts DEF ReplayMove, Traced
      <3>2. /\ replay'[o].todo \subseteq accepted /\ replay'[o].id = Nil
            /\ \A r \in Operators \ {o} : replay'[r] = replay[r]
        BY <2>19 DEF ReplayMove, Traced, TypeOK
      <3>3. \A x : InReady(x)' => InReady(x) \/ x = id
        BY <2>19, <3>1, PushReady, SameReady DEF ReplayMove, TypeOK
      <3>4. \A x \in Jobs : Queued(x)' => Queued(x) \/ x = id
        BY <2>19, <3>3 DEF ReplayMove, Queued
      <3>5. \A x \in Jobs : jobs'[x] = jobs[x] \/ (x = id /\ jobs'[x].priority = p)
        <4>1. \/ jobs' = [jobs EXCEPT ![id] = [attempt |-> 0, priority |-> p]]
              \/ jobs' = jobs
          BY <2>19 DEF ReplayMove, Store
        <4>2. jobs \in [Jobs -> Envelope \cup {Nil}]
          BY DEF TypeOK
        <4> HIDE DEF id, p
        <4> QED
          BY <3>1, <4>1, <4>2
      <3>6. UNCHANGED <<priorities, worker, accepted, succeeded>>
        BY <2>19 DEF ReplayMove
      <3> QED
        BY <3>1, <3>2, <3>4, <3>5, <3>6 DEF Traced
    <2>20. CASE UNCHANGED vars
      BY <2>20, SameReady DEF vars, Traced, Queued
    <2> QED
      BY <2>1, <2>2, <2>3, <2>4, <2>5, <2>6, <2>7, <2>8, <2>9, <2>10, <2>11, <2>12, <2>13,
         <2>15, <2>16, <2>17, <2>19, <2>20
         DEF Next, Maintenance, Work, Replay
  <1> QED
    BY <1>1, <1>2, TypeCorrect, PTL DEF Spec

(* A job NoJobLost speaks of has an entry in the priority hash. *)
LEMMA LivePriority ==
  ASSUME TypeOK, NoJobLost, NEW x \in accepted \ succeeded
  PROVE  priorities[x] # Nil
  <1>1. jobs[x] \in Envelope /\ priorities[x] = jobs[x].priority
    BY DEF NoJobLost, TypeOK
  <1> QED
    BY <1>1, EnvelopeFacts, JobQueueAssumption

-----------------------------------------------------------------------------
(* At least once, for every number of crashes, lapsed leases, lost answers and    *)
(* concurrent replays: if no envelope read fails, a job whose handler has not     *)
(* succeeded stays in some queue, with the envelope and the priority it needs.    *)
THEOREM NoJobIsLost ==
  ASSUME MaxLoadErrors = 0
  PROVE  Spec => []NoJobLost
  <1>1. Init => NoJobLost
    BY DEF Init, NoJobLost
  <1>2. TypeOK /\ Traced /\ NoJobLost /\ [Next]_vars => NoJobLost'
    <2> SUFFICES ASSUME TypeOK, Traced, NoJobLost, [Next]_vars
                 PROVE  NoJobLost'
      OBVIOUS
    <2> USE JobQueueAssumption, NilIsNoEnvelope
    <2>1. ASSUME NEW id \in Jobs, NEW p \in Priorities, NEW later \in BOOLEAN,
                 Enqueue(id, p, later)
          PROVE  NoJobLost'
      <3>1. InReady(id)' \/ id \in delayed'
        BY <2>1, PushReady DEF Enqueue, TypeOK
      <3>2. \A x : InReady(x) => InReady(x)'
        BY <2>1, PushReady, SameReady DEF Enqueue, TypeOK
      <3>3. Queued(id)' /\ \A x \in Jobs : Queued(x) => Queued(x)'
        BY <2>1, <3>1, <3>2 DEF Enqueue, Queued
      <3>4. /\ jobs'[id] = [attempt |-> 0, priority |-> p] /\ priorities'[id] = p
            /\ \A x \in Jobs \ {id} : jobs'[x] = jobs[x] /\ priorities'[x] = priorities[x]
        BY <2>1 DEF Enqueue, Store, TypeOK
      <3>5. [attempt |-> 0, priority |-> p] \in Envelope
        BY DEF Envelope
      <3>6. accepted' = accepted \cup {id} /\ succeeded' = succeeded /\ accepted' \subseteq Jobs
        BY <2>1 DEF Enqueue, TypeOK
      <3> QED
        BY <3>3, <3>4, <3>5, <3>6 DEF NoJobLost
    <2>2. ASSUME NEW id \in Jobs, Promote(id) \/ Reclaim(id)
          PROVE  NoJobLost'
      <3>1. Requeue(id) /\ UNCHANGED <<jobs, priorities, accepted, succeeded>>
        BY <2>2 DEF Promote, Reclaim
      <3>2. /\ \A x : InReady(x) => InReady(x)'
            /\ priorities[id] # Nil => InReady(id)'
        BY <3>1, RequeueReady
      <3>3. \A x \in Jobs \ {id} : Queued(x) => Queued(x)'
        BY <2>2, <3>2 DEF Promote, Reclaim, Queued, TypeOK
      <3>4. \A x \in accepted \ succeeded : priorities[x] # Nil
        BY LivePriority
      <3>5. \A x \in accepted \ succeeded : Queued(x)'
        BY <3>2, <3>3, <3>4 DEF NoJobLost, Queued, TypeOK
      <3> QED
        BY <3>1, <3>5 DEF NoJobLost
    <2>4. ASSUME NEW id \in Jobs, LeaseExpires(id)
          PROVE  NoJobLost'
      <3>1. \A x \in Jobs : Queued(x) => Queued(x)'
        BY <2>4, SameReady DEF LeaseExpires, Queued, TypeOK
      <3> QED
        BY <2>4, <3>1 DEF LeaseExpires, NoJobLost, TypeOK
    <2>5. ASSUME NEW p \in Priorities, NEW id \in Jobs, ClaimScript(p, id),
                 UNCHANGED <<jobs, priorities, delayed, dlq, accepted, succeeded>>
          PROVE  NoJobLost'
      <3>1. \A x : InReady(x) => InReady(x)' \/ x = id
        BY <2>5, PopReady DEF TypeOK
      <3>2. \A x \in Jobs : Queued(x) => Queued(x)'
        BY <2>5, <3>1 DEF ClaimScript, Queued, TypeOK
      <3> QED
        BY <2>5, <3>2 DEF NoJobLost, TypeOK
    <2>6. ASSUME UNCHANGED <<jobs, priorities, ready, delayed, lease, dlq, accepted>>,
                 succeeded \subseteq succeeded'
          PROVE  NoJobLost'
      <3>1. \A x \in Jobs : Queued(x) => Queued(x)'
        BY <2>6, SameReady DEF Queued
      <3> QED
        BY <2>6, <3>1 DEF NoJobLost, TypeOK
    <2>8. ASSUME NEW w \in Workers, LoadFails(w)
          PROVE  NoJobLost'
      <3>1. worker[w].id \in Jobs /\ jobs[worker[w].id] = Nil
        BY <2>8, WorkerFacts DEF LoadFails, TypeOK
      <3>2. worker[w].id \notin accepted \ succeeded
        BY <3>1 DEF NoJobLost
      <3>3. \A x \in Jobs \ {worker[w].id} : Queued(x) => Queued(x)'
        BY <2>8, SameReady DEF LoadFails, Queued, TypeOK
      <3> QED
        BY <2>8, <3>2, <3>3 DEF LoadFails, NoJobLost, TypeOK
    <2>11. ASSUME NEW w \in Workers, RenewLease(w)
           PROVE  NoJobLost'
      <3>1. \A x \in Jobs : Queued(x) => Queued(x)'
        BY <2>11, SameReady DEF RenewLease, Queued, TypeOK
      <3> QED
        BY <2>11, <3>1 DEF RenewLease, NoJobLost, TypeOK
    <2>12. ASSUME NEW w \in Workers, Ack(w)
           PROVE  NoJobLost'
      <3>1. worker[w].id \in succeeded
        BY <2>12 DEF Ack, Traced
      <3>2. \A x \in Jobs \ {worker[w].id} :
              /\ Queued(x) => Queued(x)'
              /\ jobs'[x] = jobs[x] /\ priorities'[x] = priorities[x]
        BY <2>12, SameReady DEF Ack, LetGo, Queued, TypeOK
      <3> QED
        BY <2>12, <3>1, <3>2 DEF Ack, NoJobLost, TypeOK
    <2>13. ASSUME NEW w \in Workers, Retry(w) \/ DeadLetter(w)
           PROVE  NoJobLost'
      <3> DEFINE id == worker[w].id
      <3>1. id \in Jobs /\ worker[w].copy \in Envelope
        BY <2>13, WorkerFacts DEF Retry, DeadLetter
      <3>2. priorities[id] \in {Nil, worker[w].copy.priority}
        BY <3>1 DEF Traced
      <3>3. id \in delayed' \/ id \in dlq'
        BY <2>13 DEF Retry, DeadLetter
      <3>4. \A x \in Jobs \ {id} : (Queued(x) => Queued(x)') /\ jobs'[x] = jobs[x]
        BY <2>13, SameReady DEF Retry, DeadLetter, LetGo, Queued, TypeOK
      <3>5. jobs'[id] = worker[w].copy
        BY <2>13, <3>1 DEF Retry, DeadLetter, TypeOK
      <3>6. UNCHANGED <<priorities, accepted, succeeded>> /\ accepted \subseteq Jobs
        BY <2>13 DEF Retry, DeadLetter, TypeOK
      <3>7. id \in accepted \ succeeded => priorities[id] # Nil
        BY LivePriority
      <3> HIDE DEF id
      <3>8. \A x \in Jobs : x = id => Queued(x)'
        BY <3>3 DEF Queued
      <3>9. ASSUME NEW x \in accepted' \ succeeded'
            PROVE  Queued(x)' /\ jobs'[x] # Nil /\ priorities'[x] = jobs'[x].priority
        <4>1. CASE x = id
          BY <3>1, <3>2, <3>5, <3>6, <3>7, <3>8, <4>1
        <4>2. CASE x # id
          BY <3>4, <3>6, <4>2 DEF NoJobLost
        <4> QED
          BY <4>1, <4>2
      <3> QED
        BY <3>9 DEF NoJobLost
    <2>19. ASSUME NEW o \in Operators, ReplayMove(o)
           PROVE  NoJobLost'
      <3> DEFINE id == replay[o].id
                 p == replay[o].copy.priority
      <3>1. id \in Jobs /\ p \in Priorities /\ priorities[id] \in {Nil, p}
        BY <2>19, ReplayFacts, EnvelopeFacts DEF ReplayMove, Traced
      <3>2. UNCHANGED <<priorities, accepted, succeeded, delayed, lease>> /\ accepted \subseteq Jobs
        BY <2>19 DEF ReplayMove, TypeOK
      <3>3. CASE id \notin dlq
        <4>1. UNCHANGED <<jobs, ready, dlq>>
          BY <2>19, <3>3 DEF ReplayMove
        <4> QED
          BY <3>2, <4>1, <2>6
      <3>4. CASE id \in dlq
        <4>1. RPush(p, id) /\ jobs' = [jobs EXCEPT ![id] = [attempt |-> 0, priority |-> p]]
              /\ dlq' = dlq \ {id}
          BY <2>19, <3>4 DEF ReplayMove, Store
        <4>2. \A x : InReady(x)' <=> InReady(x) \/ x = id
          BY <3>1, <4>1, PushReady DEF TypeOK
        <4>3. id \in accepted \ succeeded => priorities[id] # Nil
          BY LivePriority
        <4>4. [attempt |-> 0, priority |-> p] \in Envelope
          BY <3>1 DEF Envelope
        <4>5. jobs \in [Jobs -> Envelope \cup {Nil}]
          BY DEF TypeOK
        <4> HIDE DEF id, p
        <4>6. \A x \in Jobs : Queued(x) => Queued(x)'
          BY <3>2, <4>1, <4>2 DEF Queued
        <4>7. ASSUME NEW x \in accepted' \ succeeded'
              PROVE  Queued(x)' /\ jobs'[x] # Nil /\ priorities'[x] = jobs'[x].priority
          <5>1. CASE x = id
            BY <3>1, <3>2, <4>1, <4>3, <4>4, <4>5, <4>6, <5>1 DEF NoJobLost
          <5>2. CASE x # id
            BY <3>1, <3>2, <4>1, <4>5, <4>6, <5>2 DEF NoJobLost
          <5> QED
            BY <5>1, <5>2
        <4> QED
          BY <4>7 DEF NoJobLost
      <3> QED
        BY <3>3, <3>4
    <2>20. ASSUME NEW w \in Workers, Claim(w)
           PROVE  NoJobLost'
      BY <2>20, <2>5 DEF Claim
    <2>21. CASE ClaimLost
      BY <2>21, <2>5 DEF ClaimLost
    <2>22. ASSUME NEW w \in Workers,
                  Load(w) \/ HandlerSucceeds(w) \/ HandlerFails(w) \/ Abandon(w)
           PROVE  NoJobLost'
      BY <2>22, <2>6 DEF Load, HandlerSucceeds, HandlerFails, Abandon
    <2>23. ASSUME NEW o \in Operators,
                  \/ ReplayList(o) \/ ReplayGivesUp(o)
                  \/ \E id \in Jobs : ReplayGet(o, id)
           PROVE  NoJobLost'
      BY <2>23, <2>6 DEF ReplayList, ReplayGivesUp, ReplayGet
    <2>24. CASE UNCHANGED vars
      BY <2>24, <2>6 DEF vars
    <2> QED
      BY <2>1, <2>2, <2>4, <2>8, <2>11, <2>12, <2>13, <2>19, <2>20, <2>21, <2>22, <2>23, <2>24
         DEF Next, Maintenance, Work, Replay
  <1> QED
    BY <1>1, <1>2, TypeCorrect, TracedHolds, PTL DEF Spec

-----------------------------------------------------------------------------
(* While leases outlive their workers: every id is in one place.             *)

(* No id is twice in the ready lists. *)
ListedOnce(r) ==
    \A p, q \in Priorities : \A i \in 1..Len(r[p]), j \in 1..Len(r[q]) :
        r[p][i] = r[q][j] => p = q /\ i = j

(* RPUSH of an id that is in no list keeps each id listed once. *)
LEMMA PushListedOnce ==
  ASSUME ready \in [Priorities -> Seq(Jobs)], NEW p \in Priorities, NEW id \in Jobs,
         RPush(p, id), ~InReady(id), ListedOnce(ready)
  PROVE  ListedOnce(ready')
  <1>1. /\ ready'[p] = Append(ready[p], id)
        /\ \A q \in Priorities : q # p => ready'[q] = ready[q]
    BY DEF RPush
  <1>2. /\ Len(ready[p]) \in Nat
        /\ Len(ready'[p]) = Len(ready[p]) + 1
        /\ \A i \in 1..Len(ready[p]) : ready'[p][i] = ready[p][i]
        /\ ready'[p][Len(ready[p]) + 1] = id
    BY <1>1
  <1>3. ASSUME NEW q \in Priorities, NEW i \in 1..Len(ready'[q])
        PROVE  \/ i \in 1..Len(ready[q]) /\ ready'[q][i] = ready[q][i] /\ ready'[q][i] # id
               \/ q = p /\ i = Len(ready[p]) + 1 /\ ready'[q][i] = id
    <2>1. CASE q # p
      BY <1>1, <2>1 DEF InReady
    <2>2. CASE q = p /\ i # Len(ready[p]) + 1
      BY <1>2, <2>2 DEF InReady
    <2>3. CASE q = p /\ i = Len(ready[p]) + 1
      BY <1>2, <2>3
    <2> QED
      BY <2>1, <2>2, <2>3
  <1>4. ASSUME NEW q \in Priorities, NEW s \in Priorities,
               NEW i \in 1..Len(ready'[q]), NEW j \in 1..Len(ready'[s]),
               ready'[q][i] = ready'[s][j]
        PROVE  q = s /\ i = j
    <2>1. CASE ready'[q][i] = id
      BY <1>3, <1>4, <2>1
    <2>2. CASE ready'[q][i] # id
      <3>1. /\ i \in 1..Len(ready[q]) /\ ready'[q][i] = ready[q][i]
            /\ j \in 1..Len(ready[s]) /\ ready'[s][j] = ready[s][j]
        BY <1>3, <1>4, <2>2
      <3>2. ready[q][i] = ready[s][j]
        BY <1>4, <3>1
      <3> QED
        BY <3>1, <3>2 DEF ListedOnce
    <2> QED
      BY <2>1, <2>2
  <1> QED
    BY <1>4 DEF ListedOnce

(* LPOP keeps each id listed once, and the popped id is in no list any more. *)
LEMMA PopListedOnce ==
  ASSUME ready \in [Priorities -> Seq(Jobs)], NEW p \in Priorities, NEW id \in Jobs,
         ClaimScript(p, id), ListedOnce(ready)
  PROVE  ListedOnce(ready') /\ ~InReady(id)'
  <1>1. /\ ready'[p] = Tail(ready[p]) /\ ready[p] # <<>> /\ id = ready[p][1]
        /\ \A q \in Priorities : q # p => ready'[q] = ready[q]
    BY DEF ClaimScript
  <1>2. /\ Len(ready[p]) \in Nat /\ Len(ready[p]) > 0
        /\ Len(ready'[p]) = Len(ready[p]) - 1
        /\ \A i \in 1..Len(ready'[p]) : ready'[p][i] = ready[p][i + 1]
    BY <1>1
  <1>3. ASSUME NEW q \in Priorities, NEW i \in 1..Len(ready'[q])
        PROVE  \/ q = p /\ i + 1 \in 1..Len(ready[p]) /\ i + 1 # 1 /\ ready'[q][i] = ready[p][i + 1]
               \/ q # p /\ i \in 1..Len(ready[q]) /\ ready'[q][i] = ready[q][i]
    <2>1. CASE q = p
      BY <1>2, <2>1
    <2>2. CASE q # p
      BY <1>1, <2>2
    <2> QED
      BY <2>1, <2>2
  <1>4. ASSUME NEW q \in Priorities, NEW s \in Priorities,
               NEW i \in 1..Len(ready'[q]), NEW j \in 1..Len(ready'[s]),
               ready'[q][i] = ready'[s][j]
        PROVE  q = s /\ i = j
    <2>1. CASE q = p /\ s = p
      <3>1. i + 1 = j + 1
        BY <1>3, <1>4, <2>1 DEF ListedOnce
      <3> QED
        BY <2>1, <3>1
    <2>2. CASE q = p /\ s # p
      BY <1>3, <1>4, <2>2 DEF ListedOnce
    <2>3. CASE q # p /\ s = p
      BY <1>3, <1>4, <2>3 DEF ListedOnce
    <2>4. CASE q # p /\ s # p
      BY <1>3, <1>4, <2>4 DEF ListedOnce
    <2> QED
      BY <2>1, <2>2, <2>3, <2>4
  <1>5. ASSUME NEW q \in Priorities, NEW i \in 1..Len(ready'[q])
        PROVE  ready'[q][i] # id
    <2>1. 1 \in 1..Len(ready[p])
      BY <1>2
    <2> QED
      BY <1>1, <1>3, <2>1 DEF ListedOnce
  <1> QED
    BY <1>4, <1>5 DEF ListedOnce, InReady

(* OnePlace, said of the lists and of each id. *)
InOnePlace(id) ==
    /\ InReady(id) => id \notin delayed /\ lease[id] = "none" /\ id \notin dlq
    /\ id \in delayed => lease[id] = "none" /\ id \notin dlq
    /\ id \in dlq => lease[id] = "none"

(* OnePlace is exactly that, before a step and after it. *)
LEMMA OnePlaceSplit == OnePlace <=> ListedOnce(ready) /\ \A id \in Jobs : InOnePlace(id)
  BY DEF OnePlace, ListedOnce, InOnePlace

LEMMA OnePlaceSplitNext ==
  ListedOnce(ready') /\ (\A id \in Jobs : InOnePlace(id)') => OnePlace'
  BY DEF OnePlace, ListedOnce, InOnePlace

(* While leases outlive their workers no crash, lost answer, failed load or replay *)
(* puts an id in two places, hands a job to two workers or strips a queued one of *)
(* its envelope: the scripts move ids and never copy them.  After a failed load   *)
(* an id may be in no place at all.                                               *)
THEOREM MovedHolds ==
  ASSUME MaxLapses = 0
  PROVE  Spec => []MovedNotCopied
  <1> USE DEF MovedNotCopied
  <1>1. Init => MovedNotCopied
    BY DEF Init, OnePlace, RunsAlone, QueuedHasEnvelope, Queued, InReady, Idle
  <1>2. TypeOK /\ Traced /\ MovedNotCopied /\ [Next]_vars => MovedNotCopied'
    <2> SUFFICES ASSUME TypeOK, Traced, OnePlace, RunsAlone, QueuedHasEnvelope, [Next]_vars
                 PROVE  OnePlace' /\ RunsAlone' /\ QueuedHasEnvelope'
      OBVIOUS
    <2> USE JobQueueAssumption, NilIsNoEnvelope
    <2>0. ListedOnce(ready) /\ \A id \in Jobs : InOnePlace(id)
      BY OnePlaceSplit
    <2>1. ASSUME NEW id \in Jobs, NEW p \in Priorities, NEW later \in BOOLEAN,
                 Enqueue(id, p, later)
          PROVE  OnePlace' /\ RunsAlone' /\ QueuedHasEnvelope'
      <3>1. /\ ~Queued(id)
            /\ \A w \in Workers : worker[w].id # id
        <4>1. id \notin accepted
          BY <2>1 DEF Enqueue
        <4> QED
          BY <4>1 DEF Traced
      <3>2. ListedOnce(ready') /\ \A x : InReady(x)' => InReady(x) \/ (x = id /\ ~later)
        <4>1. CASE later
          BY <2>1, <2>0, <4>1, SameReady DEF Enqueue
        <4>2. CASE ~later
          BY <2>1, <2>0, <3>1, <4>2, PushListedOnce, PushReady DEF Enqueue, Queued, TypeOK
        <4> QED
          BY <4>1, <4>2
      <3>3. \A x \in Jobs : InOnePlace(x)'
        BY <2>0, <2>1, <3>1, <3>2 DEF Enqueue, InOnePlace, Queued
      <3>4. OnePlace'
        BY <3>2, <3>3, OnePlaceSplitNext
      <3>5. RunsAlone'
        BY <2>1 DEF Enqueue, RunsAlone
      <3>6. /\ jobs'[id] = [attempt |-> 0, priority |-> p] /\ priorities'[id] = p
            /\ \A x \in Jobs \ {id} : jobs'[x] = jobs[x] /\ priorities'[x] = priorities[x]
        BY <2>1 DEF Enqueue, Store, TypeOK
      <3>7. [attempt |-> 0, priority |-> p] \in Envelope
        BY DEF Envelope
      <3>8. \A x \in Jobs \ {id} : Queued(x)' => Queued(x)
        BY <2>1, <3>2 DEF Enqueue, Queued
      <3> QED
        BY <3>4, <3>5, <3>6, <3>7, <3>8 DEF QueuedHasEnvelope
    <2>2. ASSUME NEW id \in Jobs, Promote(id) \/ Reclaim(id)
          PROVE  OnePlace' /\ RunsAlone' /\ QueuedHasEnvelope'
      <3>1. Requeue(id) /\ UNCHANGED <<jobs, priorities, dlq, worker>>
        BY <2>2 DEF Promote, Reclaim
      <3>2. Queued(id) /\ ~InReady(id) /\ id \notin dlq
            /\ (id \in delayed \/ lease[id] = "expired")
        BY <2>0, <2>2 DEF Promote, Reclaim, Queued, InOnePlace
      <3>3. jobs[id] # Nil /\ priorities[id] = jobs[id].priority
        BY <3>2 DEF QueuedHasEnvelope
      <3>4. priorities[id] \in Priorities
        BY <3>3, EnvelopeFacts DEF TypeOK
      <3>5. RPush(priorities[id], id)
        BY <3>1, <3>4 DEF Requeue
      <3>6. ListedOnce(ready') /\ \A x : InReady(x)' <=> InReady(x) \/ x = id
        BY <2>0, <3>2, <3>4, <3>5, PushListedOnce, PushReady DEF TypeOK
      <3>7. /\ id \notin delayed' /\ lease'[id] = "none"
            /\ \A x \in Jobs \ {id} : (x \in delayed' <=> x \in delayed) /\ lease'[x] = lease[x]
        BY <2>0, <2>2 DEF Promote, Reclaim, InOnePlace, TypeOK
      <3>8. \A x \in Jobs : InOnePlace(x)'
        BY <2>0, <3>1, <3>2, <3>6, <3>7 DEF InOnePlace
      <3>9. OnePlace'
        BY <3>6, <3>8, OnePlaceSplitNext
      <3>10. \A w \in Workers : worker[w].id # id
        BY <2>0, <2>2, JobQueueAssumption DEF Promote, Reclaim, InOnePlace, RunsAlone
      <3>11. RunsAlone'
        <4>1. \A w \in Workers : worker[w].id # Nil => worker[w].id \in Jobs
          BY DEF TypeOK, WorkerState, Idle
        <4> QED
          BY <3>1, <3>7, <3>10, <4>1 DEF RunsAlone
      <3>12. QueuedHasEnvelope'
        <4>1. \A x \in Jobs \ {id} : Queued(x)' => Queued(x)
          BY <3>1, <3>6, <3>7 DEF Queued
        <4> QED
          BY <3>1, <3>3, <4>1 DEF QueuedHasEnvelope
      <3> QED
        BY <3>9, <3>11, <3>12
    <2>3. \A w \in Workers : worker[w].id # Nil => worker[w].id \in Jobs
      BY DEF TypeOK, WorkerState, Idle
    <2>4. ASSUME NEW id \in Jobs, LeaseExpires(id)
          PROVE  OnePlace' /\ RunsAlone' /\ QueuedHasEnvelope'
      <3>1. /\ Holders(id) = {} /\ lease[id] = "live" /\ lease' = [lease EXCEPT ![id] = "expired"]
            /\ UNCHANGED <<jobs, priorities, ready, delayed, dlq, worker>>
        BY <2>4 DEF LeaseExpires, TypeOK
      <3>2. \A w \in Workers : worker[w].id # id
        BY <3>1 DEF Holders
      <3>3. \A x \in Jobs : (lease'[x] = "none" <=> lease[x] = "none") /\ (x # id => lease'[x] = lease[x])
        BY <3>1 DEF TypeOK
      <3>4. OnePlace'
        <4>1. \A x \in Jobs : InOnePlace(x)'
          BY <2>0, <3>1, <3>3, SameReady DEF InOnePlace
        <4> QED
          BY <2>0, <3>1, <4>1, OnePlaceSplitNext
      <3>5. RunsAlone'
        BY <2>3, <3>1, <3>2, <3>3 DEF RunsAlone
      <3>6. QueuedHasEnvelope'
        BY <3>1, <3>3, SameReady DEF QueuedHasEnvelope, Queued
      <3> QED
        BY <3>4, <3>5, <3>6
    <2>5. ASSUME NEW p \in Priorities, NEW id \in Jobs, ClaimScript(p, id),
                 UNCHANGED <<jobs, priorities, delayed, dlq>>,
                 \/ UNCHANGED worker
                 \/ \E w \in Workers : worker[w] = Idle /\ Goes(w, "loading", id, Nil)
          PROVE  OnePlace' /\ RunsAlone' /\ QueuedHasEnvelope'
      <3>1. /\ InReady(id) /\ ListedOnce(ready') /\ ~InReady(id)'
            /\ \A x : InReady(x)' => InReady(x)
        BY <2>0, <2>5, PopReady, PopListedOnce DEF TypeOK
      <3>2. /\ lease[id] = "none" /\ id \notin delayed /\ id \notin dlq
            /\ lease'[id] = "live" /\ \A x \in Jobs \ {id} : lease'[x] = lease[x]
        BY <2>0, <2>5, <3>1 DEF ClaimScript, InOnePlace, TypeOK
      <3>3. OnePlace'
        <4>1. \A x \in Jobs : InOnePlace(x)'
          BY <2>0, <2>5, <3>1, <3>2 DEF InOnePlace
        <4> QED
          BY <3>1, <4>1, OnePlaceSplitNext
      <3>4. \A v \in Workers : worker[v].id # id
        BY <3>2, JobQueueAssumption DEF RunsAlone
      <3>5. RunsAlone'
        <4>1. CASE UNCHANGED worker
          BY <2>3, <3>2, <3>4, <4>1 DEF RunsAlone
        <4>2. ASSUME NEW w \in Workers, worker[w] = Idle, Goes(w, "loading", id, Nil)
              PROVE  RunsAlone'
          <5>1. worker'[w].id = id /\ \A v \in Workers \ {w} : worker'[v] = worker[v]
            BY <4>2 DEF Goes, TypeOK
          <5> QED
            BY <2>3, <3>2, <3>4, <5>1 DEF RunsAlone
        <4> QED
          BY <2>5, <4>1, <4>2
      <3>6. QueuedHasEnvelope'
        <4>1. \A x \in Jobs : Queued(x)' => Queued(x)
          BY <2>5, <3>1, <3>2 DEF Queued
        <4> QED
          BY <2>5, <4>1 DEF QueuedHasEnvelope
      <3> QED
        BY <3>3, <3>5, <3>6
    <2>6. ASSUME UNCHANGED <<jobs, priorities, ready, delayed, lease, dlq>>,
                 \A w \in Workers : worker'[w].id \in {Nil, worker[w].id}
          PROVE  OnePlace' /\ RunsAlone' /\ QueuedHasEnvelope'
      <3>1. OnePlace' /\ QueuedHasEnvelope'
        BY <2>6, SameReady DEF OnePlace, QueuedHasEnvelope, Queued
      <3>2. RunsAlone'
        BY <2>6 DEF RunsAlone
      <3> QED
        BY <3>1, <3>2
    <2>7. ASSUME NEW w \in Workers, worker[w].id \in Jobs, LetGo(w), UNCHANGED ready,
                 LoadFails(w) \/ Ack(w) \/ Retry(w) \/ DeadLetter(w)
          PROVE  OnePlace' /\ RunsAlone' /\ QueuedHasEnvelope'
      <3> DEFINE id == worker[w].id
      <3>1. /\ id \in Jobs /\ lease'[id] = "none"
            /\ \A x \in Jobs \ {id} : lease'[x] = lease[x]
        BY <2>7 DEF LetGo, TypeOK
      <3>2. worker'[w].id = Nil /\ \A v \in Workers \ {w} : worker'[v] = worker[v]
        BY <2>7 DEF LetGo, TypeOK, Idle
      <3>3. lease[id] = "live" /\ \A v \in Workers \ {w} : worker[v].id # id
        BY <3>1, JobQueueAssumption DEF RunsAlone
      <3>4. ~InReady(id) /\ id \notin delayed /\ id \notin dlq
            /\ jobs[id] # Nil /\ priorities[id] = jobs[id].priority
        BY <2>0, <3>1, <3>3 DEF InOnePlace, QueuedHasEnvelope, Queued
      <3>5. /\ \A x \in Jobs \ {id} : (x \in delayed' <=> x \in delayed) /\ (x \in dlq' <=> x \in dlq)
                                      /\ jobs'[x] = jobs[x] /\ priorities'[x] = priorities[x]
            /\ id \in delayed' => id \notin dlq'
        BY <2>7, <3>4 DEF LoadFails, Ack, Retry, DeadLetter, TypeOK
      <3>6. id \in delayed' \/ id \in dlq' => jobs'[id] # Nil /\ priorities'[id] = jobs'[id].priority
        <4>1. CASE LoadFails(w) \/ Ack(w)
          BY <3>4, <4>1 DEF LoadFails, Ack
        <4>2. CASE Retry(w) \/ DeadLetter(w)
          <5>1. worker[w].copy \in Envelope
            BY <4>2, WorkerFacts DEF Retry, DeadLetter
          <5>2. priorities[id] \in {Nil, worker[w].copy.priority}
            BY <5>1 DEF Traced
          <5>3. priorities[id] # Nil
            BY <3>1, <3>4, EnvelopeFacts DEF TypeOK
          <5>4. jobs'[id] = worker[w].copy /\ UNCHANGED priorities
            BY <2>7, <4>2 DEF Retry, DeadLetter, TypeOK
          <5> QED
            BY <5>1, <5>2, <5>3, <5>4
        <4> QED
          BY <2>7, <4>1, <4>2
      <3> HIDE DEF id
      <3>7. OnePlace'
        <4>1. \A x \in Jobs : InOnePlace(x)'
          BY <2>0, <2>7, <3>1, <3>4, <3>5, SameReady DEF InOnePlace
        <4> QED
          BY <2>0, <2>7, <4>1, OnePlaceSplitNext
      <3>8. RunsAlone'
        BY <2>3, <3>1, <3>2, <3>3 DEF RunsAlone
      <3>9. QueuedHasEnvelope'
        <4>1. \A x \in Jobs \ {id} : Queued(x)' => Queued(x)
          BY <2>7, <3>1, <3>5, SameReady DEF Queued
        <4>2. \A x \in Jobs : x = id /\ Queued(x)' => x \in delayed' \/ x \in dlq'
          BY <2>7, <3>1, <3>4, SameReady DEF Queued
        <4> QED
          BY <3>5, <3>6, <4>1, <4>2 DEF QueuedHasEnvelope
      <3> QED
        BY <3>7, <3>8, <3>9
    <2>8. ASSUME NEW w \in Workers, RenewLease(w)
          PROVE  FALSE
      <3>1. worker[w].id \in Jobs
        BY <2>8, WorkerFacts DEF RenewLease, Handling
      <3> QED
        BY <2>8, <3>1 DEF RenewLease, RunsAlone
    <2>9. ASSUME NEW o \in Operators, ReplayMove(o)
          PROVE  OnePlace' /\ RunsAlone' /\ QueuedHasEnvelope'
      <3> DEFINE id == replay[o].id
                 p == replay[o].copy.priority
      <3>1. id \in Jobs /\ p \in Priorities /\ priorities[id] \in {Nil, p}
        BY <2>9, ReplayFacts, EnvelopeFacts DEF ReplayMove, Traced
      <3>2. UNCHANGED <<priorities, delayed, lease, worker>>
        BY <2>9 DEF ReplayMove
      <3>3. CASE id \notin dlq
        BY <2>6, <2>9, <3>2, <3>3 DEF ReplayMove
      <3>4. CASE id \in dlq
        <4>1. /\ RPush(p, id) /\ jobs' = [jobs EXCEPT ![id] = [attempt |-> 0, priority |-> p]]
              /\ dlq' = dlq \ {id}
          BY <2>9, <3>4 DEF ReplayMove, Store
        <4>2. Queued(id) /\ ~InReady(id) /\ id \notin delayed /\ lease[id] = "none"
          BY <2>0, <3>1, <3>4 DEF InOnePlace, Queued
        <4>3. priorities[id] = p
          <5>1. jobs[id] \in Envelope /\ priorities[id] = jobs[id].priority
            BY <3>1, <4>2 DEF QueuedHasEnvelope, TypeOK
          <5> QED
            BY <3>1, <5>1, EnvelopeFacts
        <4>4. [attempt |-> 0, priority |-> p] \in Envelope
          BY <3>1 DEF Envelope
        <4> HIDE DEF id, p
        <4>5. ListedOnce(ready') /\ \A x : InReady(x)' <=> InReady(x) \/ x = id
          BY <2>0, <3>1, <4>1, <4>2, PushListedOnce, PushReady DEF TypeOK
        <4>6. OnePlace'
          <5>1. \A x \in Jobs : InOnePlace(x)'
            BY <2>0, <3>2, <4>1, <4>2, <4>5 DEF InOnePlace
          <5> QED
            BY <4>5, <5>1, OnePlaceSplitNext
        <4>7. RunsAlone'
          BY <3>2 DEF RunsAlone
        <4>8. QueuedHasEnvelope'
          <5>1. \A x \in Jobs \ {id} : (Queued(x)' => Queued(x)) /\ jobs'[x] = jobs[x]
            BY <3>2, <4>1, <4>5 DEF Queued, TypeOK
          <5>2. jobs'[id] = [attempt |-> 0, priority |-> p]
            BY <3>1, <4>1 DEF TypeOK
          <5> QED
            BY <3>2, <4>3, <4>4, <5>1, <5>2 DEF QueuedHasEnvelope
        <4> QED
          BY <4>6, <4>7, <4>8
      <3> QED
        BY <3>3, <3>4
    <2>10. ASSUME NEW w \in Workers, Claim(w)
           PROVE  OnePlace' /\ RunsAlone' /\ QueuedHasEnvelope'
      BY <2>10, <2>5 DEF Claim
    <2>11. CASE ClaimLost
      BY <2>11, <2>5 DEF ClaimLost
    <2>12. ASSUME NEW w \in Workers,
                  Load(w) \/ HandlerSucceeds(w) \/ HandlerFails(w) \/ Abandon(w)
           PROVE  OnePlace' /\ RunsAlone' /\ QueuedHasEnvelope'
      <3>1. \A v \in Workers : worker'[v].id \in {Nil, worker[v].id}
        <4>1. \E s : s.id \in {Nil, worker[w].id} /\ worker' = [worker EXCEPT ![w] = s]
          BY <2>12 DEF Load, HandlerSucceeds, HandlerFails, Abandon, Goes, Idle
        <4> QED
          BY <4>1 DEF TypeOK
      <3> QED
        BY <2>6, <2>12, <3>1 DEF Load, HandlerSucceeds, HandlerFails, Abandon
    <2>13. ASSUME NEW w \in Workers, LoadFails(w) \/ Ack(w) \/ Retry(w) \/ DeadLetter(w)
           PROVE  OnePlace' /\ RunsAlone' /\ QueuedHasEnvelope'
      <3>1. worker[w].id \in Jobs
        BY <2>13, WorkerFacts DEF LoadFails, Ack, Retry, DeadLetter
      <3>2. LetGo(w) /\ UNCHANGED ready
        BY <2>13 DEF LoadFails, Ack, Retry, DeadLetter, LetGo
      <3> QED
        BY <2>7, <2>13, <3>1, <3>2
    <2>14. ASSUME NEW o \in Operators,
                  \/ ReplayList(o) \/ ReplayGivesUp(o)
                  \/ \E id \in Jobs : ReplayGet(o, id)
           PROVE  OnePlace' /\ RunsAlone' /\ QueuedHasEnvelope'
      BY <2>6, <2>14 DEF ReplayList, ReplayGivesUp, ReplayGet
    <2>15. CASE UNCHANGED vars
      BY <2>6, <2>15 DEF vars
    <2> QED
      BY <2>1, <2>2, <2>4, <2>8, <2>9, <2>10, <2>11, <2>12, <2>13, <2>14, <2>15
         DEF Next, Maintenance, Work, Replay
  <1> QED
    BY <1>1, <1>2, TypeCorrect, TracedHolds, PTL DEF Spec

-----------------------------------------------------------------------------
(* While leases outlive their workers: what a worker holds is the newest copy. *)

(* The attempt count of a worker's copy is between that of the stored envelope  *)
(* and the failures counted for the job: nothing was written over what it loaded. *)
CopiesInOrder ==
    /\ succeeded \subseteq accepted
    /\ \A id \in Jobs : jobs[id] # Nil => jobs[id].attempt <= failures[id]
    /\ \A w \in Workers :
          worker[w].copy # Nil =>
              /\ jobs[worker[w].id].attempt <= worker[w].copy.attempt
              /\ worker[w].copy.attempt <= failures[worker[w].id]

(* A job in a worker's hands has its envelope stored and is not dead-lettered. *)
LEMMA HeldFacts ==
  ASSUME TypeOK, MovedNotCopied, NEW w \in Workers, worker[w].id \in Jobs
  PROVE  /\ worker[w].id \notin dlq
         /\ jobs[worker[w].id] \in Envelope
         /\ \A v \in Workers \ {w} : worker[v].id # worker[w].id
  <1>1. /\ lease[worker[w].id] = "live"
        /\ \A v \in Workers : worker[v].id = worker[w].id => v = w
    BY JobQueueAssumption DEF MovedNotCopied, RunsAlone
  <1>2. worker[w].id \notin dlq
    BY <1>1 DEF MovedNotCopied, OnePlace
  <1>3. jobs[worker[w].id] # Nil
    BY <1>1 DEF MovedNotCopied, QueuedHasEnvelope, Queued
  <1> QED
    BY <1>1, <1>2, <1>3 DEF TypeOK

(* Counting a failure keeps the order of two counts, and never lowers one. *)
LEMMA BumpMonotone ==
  \A m, n \in 0..MaxAttempts : m <= n => Bump(m) <= Bump(n) /\ m <= Bump(m)
  BY JobQueueAssumption DEF Bump

(* CopiesInOrder is inductive, given that ids are moved and not copied. *)
LEMMA CopiesHold ==
  ASSUME MaxLapses = 0
  PROVE  Spec => []CopiesInOrder
  <1>1. Init => CopiesInOrder
    BY DEF Init, CopiesInOrder, Idle
  <1>2. TypeOK /\ Traced /\ MovedNotCopied /\ CopiesInOrder /\ [Next]_vars => CopiesInOrder'
    <2> SUFFICES ASSUME TypeOK, Traced, MovedNotCopied, CopiesInOrder, [Next]_vars
                 PROVE  CopiesInOrder'
      OBVIOUS
    <2> USE JobQueueAssumption, NilIsNoEnvelope
    <2>0. /\ \A v \in Workers : worker[v].copy # Nil => worker[v].id \in Jobs /\ worker[v].copy \in Envelope
          /\ \A x \in Jobs : failures[x] \in 0..MaxAttempts
          /\ \A x \in Jobs : jobs[x] # Nil => jobs[x].attempt \in 0..MaxAttempts
      BY EnvelopeFacts DEF TypeOK, WorkerState, Idle
    <2>1. ASSUME NEW id \in Jobs, NEW p \in Priorities, NEW later \in BOOLEAN,
                 Enqueue(id, p, later)
          PROVE  CopiesInOrder'
      <3>1. /\ jobs'[id] = [attempt |-> 0, priority |-> p]
            /\ \A x \in Jobs \ {id} : jobs'[x] = jobs[x]
        BY <2>1 DEF Enqueue, Store, TypeOK
      <3>2. \A v \in Workers : worker[v].id # id
        BY <2>1 DEF Enqueue, Traced
      <3>3. UNCHANGED <<worker, succeeded, failures>> /\ accepted \subseteq accepted'
        BY <2>1 DEF Enqueue
      <3>4. jobs'[id].attempt = 0
        BY <3>1
      <3> QED
        BY <2>0, <3>1, <3>2, <3>3, <3>4 DEF CopiesInOrder
    <2>2. ASSUME UNCHANGED <<jobs, worker, accepted, succeeded, failures>>
          PROVE  CopiesInOrder'
      BY <2>2 DEF CopiesInOrder
    <2>3. ASSUME NEW w \in Workers,
                 Claim(w) \/ LoadFails(w) \/ Abandon(w) \/ Ack(w)
          PROVE  CopiesInOrder'
      <3>1. \E s : s.copy = Nil /\ worker' = [worker EXCEPT ![w] = s]
        BY <2>3 DEF Claim, LoadFails, Abandon, Ack, LetGo, Goes, Idle
      <3>2. worker'[w].copy = Nil /\ \A v \in Workers \ {w} : worker'[v] = worker[v]
        BY <3>1 DEF TypeOK
      <3>3. UNCHANGED <<accepted, succeeded, failures>>
        BY <2>3 DEF Claim, LoadFails, Abandon, Ack
      <3>4. /\ \A x \in Jobs : jobs'[x] \in {Nil, jobs[x]}
            /\ \A v \in Workers \ {w} : worker[v].copy # Nil => jobs'[worker[v].id] = jobs[worker[v].id]
        <4>1. CASE Ack(w)
          <5>1. worker[w].id \in Jobs
            BY <4>1, WorkerFacts DEF Ack
          <5>2. jobs' = [jobs EXCEPT ![worker[w].id] = Nil]
            BY <4>1 DEF Ack
          <5> QED
            BY <2>0, <5>1, <5>2, HeldFacts DEF TypeOK
        <4>2. CASE UNCHANGED jobs
          BY <4>2
        <4> QED
          BY <2>3, <4>1, <4>2 DEF Claim, LoadFails, Abandon
      <3> QED
        BY <3>2, <3>3, <3>4 DEF CopiesInOrder
    <2>4. ASSUME NEW w \in Workers, Load(w)
          PROVE  CopiesInOrder'
      <3>1. worker[w].id \in Jobs
        BY <2>4, WorkerFacts DEF Load
      <3>2. /\ worker'[w].id = worker[w].id /\ worker'[w].copy = jobs[worker[w].id]
            /\ \A v \in Workers \ {w} : worker'[v] = worker[v]
            /\ jobs[worker[w].id] # Nil
        BY <2>4 DEF Load, Goes, TypeOK
      <3>3. UNCHANGED <<jobs, accepted, succeeded, failures>>
        BY <2>4 DEF Load
      <3> QED
        BY <2>0, <3>1, <3>2, <3>3 DEF CopiesInOrder
    <2>5. ASSUME NEW w \in Workers, HandlerSucceeds(w)
          PROVE  CopiesInOrder'
      <3>1. worker[w].id \in Jobs /\ worker[w].id \in accepted
        BY <2>5, WorkerFacts DEF HandlerSucceeds, Traced
      <3>2. /\ worker'[w].id = worker[w].id /\ worker'[w].copy = worker[w].copy
            /\ \A v \in Workers \ {w} : worker'[v] = worker[v]
        BY <2>5 DEF HandlerSucceeds, Goes, TypeOK
      <3>3. UNCHANGED <<jobs, accepted, failures>> /\ succeeded' = succeeded \cup {worker[w].id}
        BY <2>5 DEF HandlerSucceeds
      <3> QED
        BY <3>1, <3>2, <3>3 DEF CopiesInOrder
    <2>6. ASSUME NEW w \in Workers, HandlerFails(w)
          PROVE  CopiesInOrder'
      <3> DEFINE id == worker[w].id
                 c  == worker[w].copy
      <3>1. id \in Jobs /\ c \in Envelope /\ c # Nil
        BY <2>6, WorkerFacts DEF HandlerFails
      <3>2. /\ worker'[w].id = id /\ worker'[w].copy = [c EXCEPT !.attempt = Bump(@)]
            /\ \A v \in Workers \ {w} : worker'[v] = worker[v]
        BY <2>6 DEF HandlerFails, Goes, TypeOK
      <3>3. /\ failures'[id] = Bump(failures[id])
            /\ \A x \in Jobs \ {id} : failures'[x] = failures[x]
            /\ UNCHANGED <<jobs, accepted, succeeded>>
        BY <2>6, <3>1 DEF HandlerFails, TypeOK
      <3>4. worker'[w].copy.attempt = Bump(c.attempt)
        BY <3>1, <3>2 DEF Envelope
      <3>5. /\ jobs[id].attempt <= c.attempt /\ c.attempt <= failures[id]
            /\ jobs[id] \in Envelope
            /\ \A v \in Workers \ {w} : worker[v].id # id
        BY <3>1, HeldFacts DEF CopiesInOrder
      <3>6. /\ c.attempt \in 0..MaxAttempts /\ failures[id] \in 0..MaxAttempts
            /\ jobs[id].attempt \in 0..MaxAttempts
        BY <2>0, <3>1, <3>5, EnvelopeFacts
      <3>7. /\ jobs[id].attempt <= Bump(c.attempt) /\ Bump(c.attempt) <= Bump(failures[id])
            /\ jobs[id].attempt <= Bump(failures[id])
        <4>1. c.attempt <= Bump(c.attempt) /\ Bump(c.attempt) <= Bump(failures[id])
          BY <3>5, <3>6, BumpMonotone
        <4>2. Bump(c.attempt) \in Nat /\ Bump(failures[id]) \in Nat
          BY <3>6, BumpType
        <4> HIDE DEF id, c
        <4> QED
          BY <3>5, <3>6, <4>1, <4>2
      <3>8. ASSUME NEW x \in Jobs, jobs'[x] # Nil
            PROVE  jobs'[x].attempt <= failures'[x]
        BY <3>3, <3>7, <3>8 DEF CopiesInOrder
      <3>9. ASSUME NEW v \in Workers, worker'[v].copy # Nil
            PROVE  /\ jobs'[worker'[v].id].attempt <= worker'[v].copy.attempt
                   /\ worker'[v].copy.attempt <= failures'[worker'[v].id]
        <4>1. CASE v = w
          BY <3>2, <3>3, <3>4, <3>7, <4>1
        <4>2. CASE v # w
          BY <2>0, <3>2, <3>3, <3>5, <3>9, <4>2 DEF CopiesInOrder
        <4> QED
          BY <4>1, <4>2
      <3> QED
        BY <3>3, <3>8, <3>9 DEF CopiesInOrder
    <2>7. ASSUME NEW w \in Workers, Retry(w) \/ DeadLetter(w)
          PROVE  CopiesInOrder'
      <3> DEFINE id == worker[w].id
                 c  == worker[w].copy
      <3>1. id \in Jobs /\ c \in Envelope /\ c # Nil
        BY <2>7, WorkerFacts DEF Retry, DeadLetter
      <3>2. /\ worker'[w].copy = Nil
            /\ \A v \in Workers \ {w} : worker'[v] = worker[v]
        BY <2>7 DEF Retry, DeadLetter, LetGo, Idle, TypeOK
      <3>3. /\ jobs'[id] = c
            /\ \A x \in Jobs \ {id} : jobs'[x] = jobs[x]
            /\ UNCHANGED <<accepted, succeeded, failures>>
        BY <2>7, <3>1 DEF Retry, DeadLetter, TypeOK
      <3>4. c.attempt <= failures[id] /\ \A v \in Workers \ {w} : worker[v].id # id
        BY <3>1, HeldFacts DEF CopiesInOrder
      <3> HIDE DEF id, c
      <3> QED
        BY <2>0, <3>2, <3>3, <3>4 DEF CopiesInOrder
    <2>8. ASSUME NEW o \in Operators, ReplayMove(o)
          PROVE  CopiesInOrder'
      <3> DEFINE id == replay[o].id
                 p == replay[o].copy.priority
      <3>1. id \in Jobs /\ UNCHANGED <<worker, accepted, succeeded>>
        BY <2>8, ReplayFacts DEF ReplayMove
      <3>2. CASE id \notin dlq
        BY <2>2, <2>8, <3>1, <3>2 DEF ReplayMove
      <3>3. CASE id \in dlq
        <4>1. \A v \in Workers : worker[v].copy # Nil => worker[v].id # id
          BY <2>0, <3>3, HeldFacts
        <4>2. /\ jobs' = [jobs EXCEPT ![id] = [attempt |-> 0, priority |-> p]]
              /\ failures' = [failures EXCEPT ![id] = 0]
          BY <2>8, <3>3 DEF ReplayMove, Store
        <4> HIDE DEF id, p
        <4>3. /\ jobs'[id].attempt = 0 /\ failures'[id] = 0
              /\ \A x \in Jobs \ {id} : jobs'[x] = jobs[x] /\ failures'[x] = failures[x]
          BY <3>1, <4>2 DEF TypeOK
        <4> QED
          BY <2>0, <3>1, <4>1, <4>3 DEF CopiesInOrder
      <3> QED
        BY <3>2, <3>3
    <2> QED
      <3>1. ASSUME NEW id \in Jobs, Promote(id) \/ Reclaim(id) \/ LeaseExpires(id)
            PROVE  CopiesInOrder'
        BY <2>2, <3>1 DEF Promote, Reclaim, LeaseExpires
      <3>2. ASSUME NEW w \in Workers, RenewLease(w)
            PROVE  CopiesInOrder'
        BY <2>2, <3>2 DEF RenewLease
      <3>3. CASE ClaimLost
        BY <2>2, <3>3 DEF ClaimLost
      <3>4. ASSUME NEW o \in Operators,
                   \/ ReplayList(o) \/ ReplayGivesUp(o)
                   \/ \E id \in Jobs : ReplayGet(o, id)
            PROVE  CopiesInOrder'
        BY <2>2, <3>4 DEF ReplayList, ReplayGivesUp, ReplayGet
      <3>5. CASE UNCHANGED vars
        BY <2>2, <3>5 DEF vars
      <3> QED
        BY <2>1, <2>3, <2>4, <2>5, <2>6, <2>7, <2>8, <3>1, <3>2, <3>3, <3>4, <3>5
           DEF Next, Maintenance, Work, Replay
  <1>3. Spec => []MovedNotCopied
    BY MovedHolds
  <1> QED
    BY <1>1, <1>2, <1>3, TypeCorrect, TracedHolds, PTL DEF Spec

(* What a worker holds counts one failure more than what is stored if its call    *)
(* failed, and else as many; and only a dead letter has used up its attempts.     *)
CountsFollow ==
    /\ \A id \in Jobs : jobs[id] # Nil /\ id \notin dlq => jobs[id].attempt < MaxAttempts
    /\ \A w \in Workers :
          worker[w].copy # Nil =>
              worker[w].copy.attempt
                  = jobs[worker[w].id].attempt + (IF worker[w].pc = "failed" THEN 1 ELSE 0)

(* CountsFollow is inductive, given that ids are moved and not copied. *)
LEMMA CountsHold ==
  ASSUME MaxLapses = 0
  PROVE  Spec => []CountsFollow
  <1>1. Init => CountsFollow
    BY DEF Init, CountsFollow, Idle
  <1>2. TypeOK /\ Traced /\ MovedNotCopied /\ CountsFollow /\ [Next]_vars => CountsFollow'
    <2> SUFFICES ASSUME TypeOK, Traced, MovedNotCopied, CountsFollow, [Next]_vars
                 PROVE  CountsFollow'
      OBVIOUS
    <2> USE JobQueueAssumption, NilIsNoEnvelope
    <2>0. /\ \A v \in Workers : worker[v].copy # Nil => worker[v].id \in Jobs /\ worker[v].copy \in Envelope
          /\ \A x \in Jobs : jobs[x] # Nil => jobs[x].attempt \in 0..MaxAttempts
      BY EnvelopeFacts DEF TypeOK, WorkerState, Idle
    <2>1. ASSUME NEW id \in Jobs, NEW p \in Priorities, NEW later \in BOOLEAN,
                 Enqueue(id, p, later)
          PROVE  CountsFollow'
      <3>1. /\ jobs'[id] = [attempt |-> 0, priority |-> p]
            /\ \A x \in Jobs \ {id} : jobs'[x] = jobs[x]
        BY <2>1 DEF Enqueue, Store, TypeOK
      <3>2. \A v \in Workers : worker[v].id # id
        BY <2>1 DEF Enqueue, Traced
      <3>3. UNCHANGED <<worker, dlq>>
        BY <2>1 DEF Enqueue
      <3>4. jobs'[id].attempt = 0 /\ 0 < MaxAttempts
        BY <3>1
      <3> QED
        BY <2>0, <3>1, <3>2, <3>3, <3>4 DEF CountsFollow
    <2>2. ASSUME UNCHANGED <<jobs, worker, dlq>>
          PROVE  CountsFollow'
      BY <2>2 DEF CountsFollow
    <2>3. ASSUME NEW w \in Workers,
                 Claim(w) \/ LoadFails(w) \/ Abandon(w) \/ Ack(w)
          PROVE  CountsFollow'
      <3>1. \E s : s.copy = Nil /\ worker' = [worker EXCEPT ![w] = s]
        BY <2>3 DEF Claim, LoadFails, Abandon, Ack, LetGo, Goes, Idle
      <3>2. worker'[w].copy = Nil /\ \A v \in Workers \ {w} : worker'[v] = worker[v]
        BY <3>1 DEF TypeOK
      <3>3. dlq' = dlq
        BY <2>3 DEF Claim, LoadFails, Abandon, Ack
      <3>4. /\ \A x \in Jobs : jobs'[x] \in {Nil, jobs[x]}
            /\ \A v \in Workers \ {w} : worker[v].copy # Nil => jobs'[worker[v].id] = jobs[worker[v].id]
        <4>1. CASE Ack(w)
          <5>1. worker[w].id \in Jobs
            BY <4>1, WorkerFacts DEF Ack
          <5>2. jobs' = [jobs EXCEPT ![worker[w].id] = Nil]
            BY <4>1 DEF Ack
          <5> QED
            BY <2>0, <5>1, <5>2, HeldFacts DEF TypeOK
        <4>2. CASE UNCHANGED jobs
          BY <4>2
        <4> QED
          BY <2>3, <4>1, <4>2 DEF Claim, LoadFails, Abandon
      <3> QED
        BY <3>2, <3>3, <3>4 DEF CountsFollow
    <2>4. ASSUME NEW w \in Workers, Load(w)
          PROVE  CountsFollow'
      <3>1. worker[w].id \in Jobs
        BY <2>4, WorkerFacts DEF Load
      <3>2. /\ worker'[w].id = worker[w].id /\ worker'[w].copy = jobs[worker[w].id]
            /\ worker'[w].pc = "running"
            /\ \A v \in Workers \ {w} : worker'[v] = worker[v]
            /\ jobs[worker[w].id] # Nil
        BY <2>4 DEF Load, Goes, TypeOK
      <3>3. UNCHANGED <<jobs, dlq>>
        BY <2>4 DEF Load
      <3> QED
        BY <2>0, <3>1, <3>2, <3>3 DEF CountsFollow
    <2>5. ASSUME NEW w \in Workers, HandlerSucceeds(w)
          PROVE  CountsFollow'
      <3>1. /\ worker'[w].id = worker[w].id /\ worker'[w].copy = worker[w].copy
            /\ worker'[w].pc = "succeeded" /\ worker[w].pc = "running"
            /\ \A v \in Workers \ {w} : worker'[v] = worker[v]
        BY <2>5 DEF HandlerSucceeds, Goes, TypeOK
      <3>2. UNCHANGED <<jobs, dlq>>
        BY <2>5 DEF HandlerSucceeds
      <3> QED
        BY <3>1, <3>2 DEF CountsFollow
    <2>6. ASSUME NEW w \in Workers, HandlerFails(w)
          PROVE  CountsFollow'
      <3> DEFINE id == worker[w].id
                 c  == worker[w].copy
      <3>1. id \in Jobs /\ c \in Envelope /\ c # Nil /\ worker[w].pc = "running"
        BY <2>6, WorkerFacts DEF HandlerFails
      <3>2. /\ worker'[w].id = id /\ worker'[w].copy = [c EXCEPT !.attempt = Bump(@)]
            /\ worker'[w].pc = "failed"
            /\ \A v \in Workers \ {w} : worker'[v] = worker[v]
        BY <2>6 DEF HandlerFails, Goes, TypeOK
      <3>3. UNCHANGED <<jobs, dlq>>
        BY <2>6 DEF HandlerFails
      <3>4. worker'[w].copy.attempt = Bump(c.attempt)
        BY <3>1, <3>2 DEF Envelope
      <3>5. id \notin dlq /\ jobs[id] \in Envelope
        BY <3>1, HeldFacts
      <3>6. c.attempt = jobs[id].attempt /\ jobs[id].attempt < MaxAttempts
        <4>1. c.attempt = jobs[id].attempt + 0
          BY <3>1 DEF CountsFollow
        <4>2. jobs[id].attempt \in 0..MaxAttempts
          BY <2>0, <3>1, <3>5
        <4>3. jobs[id].attempt < MaxAttempts
          BY <3>1, <3>5 DEF CountsFollow
        <4> HIDE DEF id, c
        <4> QED
          BY <4>1, <4>2, <4>3
      <3>7. Bump(c.attempt) = jobs[id].attempt + 1
        BY <3>6 DEF Bump
      <3> HIDE DEF id, c
      <3>8. ASSUME NEW v \in Workers, worker'[v].copy # Nil
            PROVE  worker'[v].copy.attempt
                     = jobs'[worker'[v].id].attempt + (IF worker'[v].pc = "failed" THEN 1 ELSE 0)
        <4>1. CASE v = w
          BY <3>2, <3>3, <3>4, <3>7, <4>1
        <4>2. CASE v # w
          BY <3>2, <3>3, <3>8, <4>2 DEF CountsFollow
        <4> QED
          BY <4>1, <4>2
      <3> QED
        BY <3>3, <3>8 DEF CountsFollow
    <2>7. ASSUME NEW w \in Workers, Retry(w) \/ DeadLetter(w)
          PROVE  CountsFollow'
      <3> DEFINE id == worker[w].id
                 c  == worker[w].copy
      <3>1. id \in Jobs /\ c \in Envelope /\ c # Nil
        BY <2>7, WorkerFacts DEF Retry, DeadLetter
      <3>2. /\ worker'[w].copy = Nil
            /\ \A v \in Workers \ {w} : worker'[v] = worker[v]
        BY <2>7 DEF Retry, DeadLetter, LetGo, Idle, TypeOK
      <3>3. /\ jobs'[id] = c
            /\ \A x \in Jobs \ {id} : jobs'[x] = jobs[x]
            /\ \/ c.attempt < MaxAttempts /\ dlq' = dlq
               \/ dlq' = dlq \cup {id}
        BY <2>7, <3>1 DEF Retry, DeadLetter, TypeOK
      <3>4. \A v \in Workers \ {w} : worker[v].id # id
        BY <3>1, HeldFacts
      <3> HIDE DEF id, c
      <3> QED
        BY <2>0, <3>1, <3>2, <3>3, <3>4 DEF CountsFollow
    <2>8. ASSUME NEW o \in Operators, ReplayMove(o)
          PROVE  CountsFollow'
      <3> DEFINE id == replay[o].id
                 p == replay[o].copy.priority
      <3>1. id \in Jobs /\ UNCHANGED worker
        BY <2>8, ReplayFacts DEF ReplayMove
      <3>2. CASE id \notin dlq
        BY <2>2, <2>8, <3>1, <3>2 DEF ReplayMove
      <3>3. CASE id \in dlq
        <4>1. \A v \in Workers : worker[v].copy # Nil => worker[v].id # id
          BY <2>0, <3>3, HeldFacts
        <4>2. /\ jobs' = [jobs EXCEPT ![id] = [attempt |-> 0, priority |-> p]]
              /\ dlq' = dlq \ {id}
          BY <2>8, <3>3 DEF ReplayMove, Store
        <4> HIDE DEF id, p
        <4>3. /\ jobs'[id].attempt = 0 /\ 0 < MaxAttempts
              /\ \A x \in Jobs \ {id} : jobs'[x] = jobs[x]
          BY <3>1, <4>2 DEF TypeOK
        <4> QED
          BY <2>0, <3>1, <4>1, <4>2, <4>3 DEF CountsFollow
      <3> QED
        BY <3>2, <3>3
    <2> QED
      <3>1. ASSUME NEW id \in Jobs, Promote(id) \/ Reclaim(id) \/ LeaseExpires(id)
            PROVE  CountsFollow'
        BY <2>2, <3>1 DEF Promote, Reclaim, LeaseExpires
      <3>2. ASSUME NEW w \in Workers, RenewLease(w)
            PROVE  CountsFollow'
        BY <2>2, <3>2 DEF RenewLease
      <3>3. CASE ClaimLost
        BY <2>2, <3>3 DEF ClaimLost
      <3>4. ASSUME NEW o \in Operators,
                   \/ ReplayList(o) \/ ReplayGivesUp(o)
                   \/ \E id \in Jobs : ReplayGet(o, id)
            PROVE  CountsFollow'
        BY <2>2, <3>4 DEF ReplayList, ReplayGivesUp, ReplayGet
      <3>5. CASE UNCHANGED vars
        BY <2>2, <3>5 DEF vars
      <3> QED
        BY <2>1, <2>3, <2>4, <2>5, <2>6, <2>7, <2>8, <3>1, <3>2, <3>3, <3>4, <3>5
           DEF Next, Maintenance, Work, Replay
  <1>3. Spec => []MovedNotCopied
    BY MovedHolds
  <1> QED
    BY <1>1, <1>2, <1>3, TypeCorrect, TracedHolds, PTL DEF Spec

-----------------------------------------------------------------------------
(* What the writes of the settling and replaying scripts do to the envelopes.  *)

(* No stale write, for every number of crashes, lost answers and failed loads:  *)
(* while leases outlive their workers only a replay takes an attempt count back, *)
(* and nothing writes the envelope of an acknowledged job again.                 *)
THEOREM NoStaleWritesHolds ==
  ASSUME MaxLapses = 0
  PROVE  Spec => NoStaleWrites
  <1> DEFINE Grows ==
                 \A id \in Jobs :
                    jobs[id] # Nil /\ jobs'[id] # Nil /\ jobs'[id].attempt < jobs[id].attempt
                        => id \in dlq /\ id \notin dlq'
             StaysGone == \A id \in accepted : jobs[id] = Nil => jobs'[id] = Nil
  <1>1. TypeOK /\ Traced /\ MovedNotCopied /\ CopiesInOrder /\ [Next]_vars => Grows /\ StaysGone
    <2> SUFFICES ASSUME TypeOK, Traced, MovedNotCopied, CopiesInOrder, [Next]_vars
                 PROVE  Grows /\ StaysGone
      OBVIOUS
    <2> USE JobQueueAssumption, NilIsNoEnvelope
    <2>0. \A x \in Jobs : jobs[x] # Nil => jobs[x].attempt \in Nat
      BY EnvelopeFacts DEF TypeOK
    <2>1. ASSUME UNCHANGED jobs
          PROVE  Grows /\ StaysGone
      BY <2>0, <2>1 DEF TypeOK
    <2>2. ASSUME NEW id \in Jobs, NEW p \in Priorities, NEW later \in BOOLEAN,
                 Enqueue(id, p, later)
          PROVE  Grows /\ StaysGone
      <3>1. id \notin accepted /\ jobs[id] = Nil
        BY <2>2 DEF Enqueue, Traced
      <3>2. \A x \in Jobs \ {id} : jobs'[x] = jobs[x]
        BY <2>2 DEF Enqueue, Store, TypeOK
      <3>3. Grows
        BY <2>0, <3>1, <3>2
      <3>4. StaysGone
        BY <3>1, <3>2 DEF TypeOK
      <3> QED
        BY <3>3, <3>4
    <2>3. ASSUME NEW w \in Workers, Ack(w)
          PROVE  Grows /\ StaysGone
      <3>1. \A x \in Jobs : jobs'[x] = Nil \/ jobs'[x] = jobs[x]
        BY <2>3 DEF Ack, TypeOK
      <3>2. Grows
        BY <2>0, <3>1
      <3>3. StaysGone
        BY <3>1 DEF TypeOK
      <3> QED
        BY <3>2, <3>3
    <2>4. ASSUME NEW w \in Workers, Retry(w) \/ DeadLetter(w)
          PROVE  Grows /\ StaysGone
      <3> DEFINE id == worker[w].id
                 c  == worker[w].copy
      <3>1. id \in Jobs /\ c \in Envelope /\ c # Nil
        BY <2>4, WorkerFacts DEF Retry, DeadLetter
      <3>2. /\ jobs'[id] = c
            /\ \A x \in Jobs \ {id} : jobs'[x] = jobs[x]
        BY <2>4, <3>1 DEF Retry, DeadLetter, TypeOK
      <3>3. jobs[id] \in Envelope /\ jobs[id].attempt <= c.attempt
        BY <3>1, HeldFacts DEF CopiesInOrder
      <3>4. c.attempt \in Nat /\ jobs[id].attempt \in Nat
        BY <3>1, <3>3, EnvelopeFacts
      <3> HIDE DEF id, c
      <3> QED
        BY <2>0, <3>1, <3>2, <3>3, <3>4 DEF TypeOK
    <2>5. ASSUME NEW o \in Operators, ReplayMove(o)
          PROVE  Grows /\ StaysGone
      <3> DEFINE id == replay[o].id
                 p == replay[o].copy.priority
      <3>1. id \in Jobs
        BY <2>5, ReplayFacts DEF ReplayMove
      <3>2. CASE id \notin dlq
        BY <2>1, <2>5, <3>2 DEF ReplayMove
      <3>3. CASE id \in dlq
        <4>1. jobs[id] # Nil
          BY <3>1, <3>3 DEF MovedNotCopied, QueuedHasEnvelope, Queued
        <4>2. /\ jobs' = [jobs EXCEPT ![id] = [attempt |-> 0, priority |-> p]]
              /\ dlq' = dlq \ {id}
          BY <2>5, <3>3 DEF ReplayMove, Store
        <4> HIDE DEF id, p
        <4>3. \A x \in Jobs \ {id} : jobs'[x] = jobs[x]
          BY <4>2 DEF TypeOK
        <4>4. Grows
          BY <2>0, <3>3, <4>2, <4>3
        <4>5. StaysGone
          BY <4>1, <4>3 DEF TypeOK
        <4> QED
          BY <4>4, <4>5
      <3> QED
        BY <3>2, <3>3
    <2> HIDE DEF Grows, StaysGone
    <2>6. ASSUME NEW id \in Jobs, Maintenance(id) \/ LeaseExpires(id)
          PROVE  Grows /\ StaysGone
      BY <2>1, <2>6 DEF Maintenance, Promote, Reclaim, LeaseExpires
    <2>7. ASSUME NEW w \in Workers, Work(w)
          PROVE  Grows /\ StaysGone
      BY <2>1, <2>3, <2>4, <2>7
         DEF Work, Claim, Load, LoadFails, HandlerSucceeds, HandlerFails, RenewLease, Abandon
    <2>8. CASE ClaimLost
      BY <2>1, <2>8 DEF ClaimLost
    <2>9. ASSUME NEW o \in Operators, Replay(o)
          PROVE  Grows /\ StaysGone
      BY <2>1, <2>5, <2>9 DEF Replay, ReplayList, ReplayGivesUp, ReplayGet
    <2>10. CASE UNCHANGED vars
      BY <2>1, <2>10 DEF vars
    <2> QED
      BY <2>2, <2>6, <2>7, <2>8, <2>9, <2>10 DEF Next
  <1>2. TypeOK /\ Traced /\ MovedNotCopied /\ CopiesInOrder /\ [Next]_vars
            => [Grows]_vars /\ [StaysGone]_vars
    BY <1>1
  <1>3. Spec => []MovedNotCopied /\ []CopiesInOrder
    BY MovedHolds, CopiesHold
  <1>4. Spec => [][Grows]_vars /\ [][StaysGone]_vars
    <2> HIDE DEF Grows, StaysGone
    <2> QED
      BY <1>2, <1>3, TypeCorrect, TracedHolds, PTL DEF Spec
  <1> QED
    BY <1>4 DEF NoStaleWrites, AttemptsOnlyGrow, AckedStaysGone

-----------------------------------------------------------------------------
(* The queue implements JobLifecycle. *)

(* A step that keeps what the lifecycle sees of a job but for its history. *)
Same(x) == Status(x)' = Status(x) /\ Tries(x)' = Tries(x)

(* A job whose entries under every key stay is the same. *)
Untouched(x) ==
    /\ InReady(x)' <=> InReady(x)
    /\ x \in delayed' <=> x \in delayed
    /\ x \in dlq' <=> x \in dlq
    /\ x \in accepted' <=> x \in accepted
    /\ lease'[x] = lease[x] /\ jobs'[x] = jobs[x]

LEMMA UntouchedIsSame ==
  ASSUME NEW x, Untouched(x)
  PROVE  Same(x)
  BY DEF Untouched, Same, Status, Tries, Pending

(* So is one that stays pending, wherever it is. *)
LEMMA PendingIsSame ==
  ASSUME NEW x, x \in accepted, x \in accepted', Pending(x), Pending(x)', jobs'[x] = jobs[x]
  PROVE  Same(x)
  BY DEF Same, Status, Tries

(* A job in a worker's hands is pending, and only its lease makes it so. *)
LEMMA HeldIsPending ==
  ASSUME TypeOK, Traced, MovedNotCopied, NEW w \in Workers, worker[w].id \in Jobs
  PROVE  /\ Status(worker[w].id) = "pending" /\ worker[w].id \in accepted
         /\ ~InReady(worker[w].id) /\ worker[w].id \notin delayed \cup dlq
         /\ jobs[worker[w].id] # Nil
  <1>1. lease[worker[w].id] = "live" /\ worker[w].id \in accepted
    BY JobQueueAssumption DEF MovedNotCopied, RunsAlone, Traced
  <1>2. Status(worker[w].id) = "pending"
    BY <1>1 DEF Status, Pending
  <1>3. ~InReady(worker[w].id) /\ worker[w].id \notin delayed \cup dlq
    BY <1>1 DEF MovedNotCopied, OnePlace
  <1>4. jobs[worker[w].id] # Nil
    BY <1>1 DEF MovedNotCopied, QueuedHasEnvelope, Queued
  <1> QED
    BY <1>1, <1>2, <1>3, <1>4

(* The lifecycle's status and tries after a step that changes one job. *)
LEMMA Mapped ==
  ASSUME NEW id \in Jobs, \A x \in Jobs \ {id} : Same(x), NEW s, NEW t,
         Status(id)' = s, Tries(id)' = t
  PROVE  /\ [x \in Jobs |-> Status(x)]' = [[x \in Jobs |-> Status(x)] EXCEPT ![id] = s]
         /\ [x \in Jobs |-> Tries(x)]' = [[x \in Jobs |-> Tries(x)] EXCEPT ![id] = t]
         /\ s = Status(id) => [x \in Jobs |-> Status(x)]' = [x \in Jobs |-> Status(x)]
         /\ t = Tries(id) => [x \in Jobs |-> Tries(x)]' = [x \in Jobs |-> Tries(x)]
  BY DEF Same

(* A step that changes no job is a stutter of the lifecycle, if it keeps the history. *)
LEMMA StutterStep ==
  ASSUME \A x \in Jobs : Same(x), UNCHANGED <<failures, succeeded, loadErrors>>
  PROVE  UNCHANGED Lifecycle!vars
  <1>1. [id \in Jobs |-> Status(id)]' = [id \in Jobs |-> Status(id)]
    BY DEF Same
  <1>2. [id \in Jobs |-> Tries(id)]' = [id \in Jobs |-> Tries(id)]
    BY DEF Same
  <1> QED
    BY <1>1, <1>2 DEF Lifecycle!vars

(* Steps that move one job as the lifecycle allows, and keep the history. *)
LEMMA MoveStep ==
  ASSUME NEW id \in Jobs, \A x \in Jobs \ {id} : Same(x), NEW s, NEW t,
         Status(id)' = s, Tries(id)' = t,
         UNCHANGED <<failures, succeeded, loadErrors>>,
         \/ Status(id) = "new" /\ s = "pending" /\ t = Tries(id)
         \/ /\ Status(id) = "pending" /\ Tries(id) < failures[id] /\ t = Tries(id) + 1
            /\ \/ s = "pending" /\ t < MaxAttempts
               \/ s = "dead" /\ t = MaxAttempts
         \/ Status(id) = "pending" /\ id \in succeeded /\ s = "gone" /\ t = 0
  PROVE  Lifecycle!Next
  <1> DEFINE st == [x \in Jobs |-> Status(x)]
             tr == [x \in Jobs |-> Tries(x)]
  <1>1. st[id] = Status(id) /\ tr[id] = Tries(id)
    OBVIOUS
  <1>2. /\ st' = [st EXCEPT ![id] = s] /\ tr' = [tr EXCEPT ![id] = t]
        /\ (s = Status(id) => st' = st) /\ (t = Tries(id) => tr' = tr)
    BY Mapped
  <1>4. CASE Status(id) = "new" /\ s = "pending" /\ t = Tries(id)
    <2>1. Lifecycle!Accept(id)
      BY <1>1, <1>2, <1>4 DEF Lifecycle!Accept, Lifecycle!Turns
    <2> QED
      BY <2>1 DEF Lifecycle!Next
  <1>5. CASE /\ Status(id) = "pending" /\ Tries(id) < failures[id] /\ t = Tries(id) + 1
             /\ s = "pending" /\ t < MaxAttempts
    <2>1. Lifecycle!Retry(id)
      BY <1>1, <1>2, <1>5 DEF Lifecycle!Retry, Lifecycle!Counted
    <2> QED
      BY <2>1 DEF Lifecycle!Next
  <1>6. CASE /\ Status(id) = "pending" /\ Tries(id) < failures[id] /\ t = Tries(id) + 1
             /\ s = "dead" /\ t = MaxAttempts
    <2>1. Lifecycle!Bury(id)
      BY <1>1, <1>2, <1>6 DEF Lifecycle!Bury, Lifecycle!Turns, Lifecycle!Counted
    <2> QED
      BY <2>1 DEF Lifecycle!Next
  <1>7. CASE Status(id) = "pending" /\ id \in succeeded /\ s = "gone" /\ t = 0
    <2>1. Lifecycle!Finish(id)
      BY <1>1, <1>2, <1>7 DEF Lifecycle!Finish, Lifecycle!Turns
    <2> QED
      BY <2>1 DEF Lifecycle!Next
  <1> QED
    BY <1>4, <1>5, <1>6, <1>7

(* With leases that outlive their workers the queue keeps the promise of JobLifecycle, *)
(* whatever crashes, lost answers, failed loads and concurrent replays do: a job       *)
(* leaves the queues only after a success, after MaxAttempts counted failures or by a  *)
(* failed load, and only a replay brings one back.                                     *)
THEOREM Implements ==
  ASSUME MaxLapses = 0
  PROVE  Spec => ImplementsLifecycle
  <1>1. Init => Lifecycle!Init
    <2> SUFFICES ASSUME Init
                 PROVE  Lifecycle!Init
      OBVIOUS
    <2>1. \A id \in Jobs : Status(id) = "new" /\ Tries(id) = 0 /\ id \notin succeeded
      BY DEF Init, Status, Tries
    <2>2. failures = [id \in Jobs |-> 0] /\ loadErrors = 0
      BY DEF Init
    <2>3. succeeded = {}
      BY DEF Init
    <2>4. /\ [id \in Jobs |-> Status(id)] = [id \in Jobs |-> "new"]
          /\ [id \in Jobs |-> Tries(id)] = [id \in Jobs |-> 0]
      BY <2>1
    <2> QED
      BY <2>2, <2>3, <2>4 DEF Lifecycle!Init
  <1>2. TypeOK /\ Traced /\ MovedNotCopied /\ CopiesInOrder /\ CountsFollow /\ [Next]_vars
            => [Lifecycle!Next]_(Lifecycle!vars)
    <2> SUFFICES ASSUME TypeOK, Traced, MovedNotCopied, CopiesInOrder, CountsFollow, [Next]_vars
                 PROVE  Lifecycle!Next \/ UNCHANGED Lifecycle!vars
      OBVIOUS
    <2> USE JobQueueAssumption, NilIsNoEnvelope
    <2>1. ASSUME UNCHANGED <<jobs, ready, delayed, lease, dlq, accepted, succeeded, failures, loadErrors>>
          PROVE  Lifecycle!Next \/ UNCHANGED Lifecycle!vars
      <3>1. \A x \in Jobs : Untouched(x)
        BY <2>1, SameReady DEF Untouched
      <3> QED
        BY <2>1, <3>1, UntouchedIsSame, StutterStep
    <2>2. ASSUME NEW id \in Jobs, NEW p \in Priorities, NEW later \in BOOLEAN,
                 Enqueue(id, p, later)
          PROVE  Lifecycle!Next \/ UNCHANGED Lifecycle!vars
      <3>1. /\ id \notin accepted /\ accepted' = accepted \cup {id}
            /\ UNCHANGED <<lease, dlq, succeeded, failures, loadErrors>>
        BY <2>2 DEF Enqueue
      <3>2. \A x : InReady(x)' <=> InReady(x) \/ (x = id /\ ~later)
        BY <2>2, PushReady, SameReady DEF Enqueue, TypeOK
      <3>3. delayed' = IF later THEN delayed \cup {id} ELSE delayed
        BY <2>2 DEF Enqueue
      <3>4. /\ jobs'[id] = [attempt |-> 0, priority |-> p]
            /\ \A x \in Jobs \ {id} : jobs'[x] = jobs[x]
        BY <2>2 DEF Enqueue, Store, TypeOK
      <3>5. \A x \in Jobs \ {id} : Untouched(x)
        BY <3>1, <3>2, <3>3, <3>4 DEF Untouched
      <3>6. Pending(id)' /\ id \in accepted'
        BY <3>1, <3>2, <3>3 DEF Pending
      <3>7. Status(id) = "new" /\ Status(id)' = "pending"
        BY <3>1, <3>6 DEF Status
      <3>8. jobs[id] = Nil
        BY <3>1 DEF Traced
      <3>9. jobs'[id] # Nil
        <4>1. [attempt |-> 0, priority |-> p] \in Envelope
          BY DEF Envelope
        <4> QED
          BY <3>4, <4>1
      <3>10. Tries(id)' = Tries(id)
        BY <3>4, <3>8, <3>9 DEF Tries
      <3> QED
        BY <3>1, <3>5, <3>7, <3>10, UntouchedIsSame, MoveStep
    <2>3. ASSUME NEW w \in Workers, HandlerSucceeds(w)
          PROVE  Lifecycle!Next \/ UNCHANGED Lifecycle!vars
      <3>1. PICK x \in Jobs : x = worker[w].id
        BY <2>3, WorkerFacts DEF HandlerSucceeds
      <3>2. Status(x) = "pending"
        BY <3>1, HeldIsPending
      <3>3. /\ succeeded' = succeeded \cup {x}
            /\ UNCHANGED <<jobs, ready, delayed, lease, dlq, accepted, failures, loadErrors>>
        BY <2>3, <3>1 DEF HandlerSucceeds
      <3>4. \A y \in Jobs : Same(y)
        <4>1. \A y \in Jobs : Untouched(y)
          BY <3>3, SameReady DEF Untouched
        <4> QED
          BY <4>1, UntouchedIsSame
      <3> DEFINE st == [y \in Jobs |-> Status(y)]
                 tr == [y \in Jobs |-> Tries(y)]
      <3>5. st' = st /\ tr' = tr /\ st[x] = "pending"
        BY <3>2, <3>4 DEF Same
      <3>7. Lifecycle!Succeed(x)
        BY <3>3, <3>5 DEF Lifecycle!Succeed
      <3> QED
        BY <3>7 DEF Lifecycle!Next
    <2>4. ASSUME NEW w \in Workers, HandlerFails(w)
          PROVE  Lifecycle!Next \/ UNCHANGED Lifecycle!vars
      <3>1. PICK x \in Jobs : x = worker[w].id
        BY <2>4, WorkerFacts DEF HandlerFails
      <3>2. Status(x) = "pending"
        BY <3>1, HeldIsPending
      <3>3. /\ failures' = [failures EXCEPT ![x] = Bump(@)]
            /\ UNCHANGED <<jobs, ready, delayed, lease, dlq, accepted, succeeded, loadErrors>>
        BY <2>4, <3>1 DEF HandlerFails
      <3>4. \A y \in Jobs : Same(y)
        <4>1. \A y \in Jobs : Untouched(y)
          BY <3>3, SameReady DEF Untouched
        <4> QED
          BY <4>1, UntouchedIsSame
      <3>5. CASE failures[x] < MaxAttempts
        <4> DEFINE st == [y \in Jobs |-> Status(y)]
                   tr == [y \in Jobs |-> Tries(y)]
        <4>1. st' = st /\ tr' = tr /\ st[x] = "pending"
          BY <3>2, <3>3, <3>4 DEF Same
        <4>2. failures' = [failures EXCEPT ![x] = failures[x] + 1]
          BY <3>3, <3>5 DEF Bump, TypeOK
        <4>3. Lifecycle!Fail(x)
          BY <3>3, <3>5, <4>1, <4>2 DEF Lifecycle!Fail
        <4> QED
          BY <4>3 DEF Lifecycle!Next
      <3>6. CASE ~ (failures[x] < MaxAttempts)
        <4>1. failures' = failures
          BY <3>3, <3>6 DEF Bump, TypeOK
        <4> QED
          BY <3>3, <3>4, <4>1, StutterStep
      <3> QED
        BY <3>5, <3>6
    <2>5. ASSUME NEW w \in Workers, Retry(w) \/ DeadLetter(w)
          PROVE  Lifecycle!Next \/ UNCHANGED Lifecycle!vars
      <3>1. PICK x \in Jobs : x = worker[w].id
        BY <2>5, WorkerFacts DEF Retry, DeadLetter
      <3>2. /\ Status(x) = "pending" /\ x \in accepted
            /\ ~InReady(x) /\ x \notin delayed \cup dlq /\ jobs[x] # Nil
        BY <3>1, HeldIsPending
      <3> DEFINE c == worker[w].copy
      <3>3. c \in Envelope /\ c # Nil /\ worker[w].pc = "failed"
        BY <2>5, WorkerFacts DEF Retry, DeadLetter
      <3>4. /\ UNCHANGED <<ready, accepted, succeeded, failures, loadErrors>>
            /\ jobs' = [jobs EXCEPT ![x] = c]
            /\ lease' = [lease EXCEPT ![x] = "none"]
        BY <2>5, <3>1 DEF Retry, DeadLetter, LetGo
      <3>5. /\ Tries(x) = jobs[x].attempt /\ c.attempt = Tries(x) + 1
            /\ c.attempt <= failures[x]
        BY <3>1, <3>2, <3>3 DEF CountsFollow, CopiesInOrder, Tries
      <3>6. /\ c.attempt \in 0..MaxAttempts /\ Tries(x) \in 0..MaxAttempts
            /\ failures[x] \in 0..MaxAttempts
        BY <3>2, <3>3, <3>5, EnvelopeFacts DEF TypeOK
      <3>7. \/ /\ delayed' = delayed \cup {x} /\ dlq' = dlq /\ c.attempt < MaxAttempts
            \/ /\ dlq' = dlq \cup {x} /\ delayed' = delayed /\ c.attempt >= MaxAttempts
        BY <2>5, <3>1 DEF Retry, DeadLetter
      <3> HIDE DEF c
      <3>8. jobs'[x] = c /\ lease'[x] = "none"
        BY <3>4 DEF TypeOK
      <3>9. Tries(x)' = Tries(x) + 1 /\ Tries(x) < failures[x]
        <4>1. Tries(x)' = c.attempt
          BY <3>3, <3>8 DEF Tries
        <4> QED
          BY <3>5, <3>6, <4>1
      <3>10. \A y \in Jobs \ {x} : Untouched(y)
        BY <3>4, <3>7, SameReady DEF Untouched, TypeOK
      <3>11. ~InReady(x)'
        BY <3>2, <3>4, SameReady
      <3>12. \/ Status(x)' = "pending" /\ Tries(x) + 1 < MaxAttempts
             \/ Status(x)' = "dead" /\ Tries(x) + 1 = MaxAttempts
        <4>1. CASE delayed' = delayed \cup {x} /\ c.attempt < MaxAttempts
          BY <3>2, <3>4, <3>5, <4>1 DEF Status, Pending
        <4>2. CASE dlq' = dlq \cup {x} /\ delayed' = delayed /\ c.attempt >= MaxAttempts
          <5>1. Tries(x) + 1 = MaxAttempts
            BY <3>5, <3>6, <4>2
          <5>2. ~Pending(x)'
            BY <3>2, <3>8, <3>11, <4>2 DEF Pending
          <5> QED
            BY <3>2, <3>4, <4>2, <5>1, <5>2 DEF Status
        <4> QED
          BY <3>7, <4>1, <4>2
      <3> QED
        BY <3>2, <3>4, <3>9, <3>10, <3>12, UntouchedIsSame, MoveStep
    <2>6. ASSUME NEW w \in Workers, Ack(w)
          PROVE  Lifecycle!Next \/ UNCHANGED Lifecycle!vars
      <3>1. PICK x \in Jobs : x = worker[w].id
        BY <2>6, WorkerFacts DEF Ack
      <3>2. /\ Status(x) = "pending" /\ x \in accepted
            /\ ~InReady(x) /\ x \notin delayed \cup dlq
        BY <3>1, HeldIsPending
      <3>3. x \in succeeded
        BY <2>6, <3>1 DEF Ack, Traced
      <3>4. /\ UNCHANGED <<ready, delayed, dlq, accepted, succeeded, failures, loadErrors>>
            /\ jobs' = [jobs EXCEPT ![x] = Nil] /\ lease' = [lease EXCEPT ![x] = "none"]
        BY <2>6, <3>1 DEF Ack, LetGo
      <3>5. \A y \in Jobs \ {x} : Untouched(y)
        BY <3>4, SameReady DEF Untouched, TypeOK
      <3>6. jobs'[x] = Nil /\ lease'[x] = "none" /\ ~InReady(x)'
        BY <3>2, <3>4, SameReady DEF TypeOK
      <3>7. Status(x)' = "gone" /\ Tries(x)' = 0
        BY <3>2, <3>4, <3>6 DEF Status, Pending, Tries
      <3> QED
        BY <3>2, <3>3, <3>4, <3>5, <3>7, UntouchedIsSame, MoveStep
    <2>7. ASSUME NEW w \in Workers, LoadFails(w)
          PROVE  Lifecycle!Next \/ UNCHANGED Lifecycle!vars
      <3>1. PICK x \in Jobs : x = worker[w].id
        BY <2>7, WorkerFacts DEF LoadFails
      <3>2. /\ Status(x) = "pending" /\ x \in accepted
            /\ ~InReady(x) /\ x \notin delayed \cup dlq /\ jobs[x] # Nil
        BY <3>1, HeldIsPending
      <3>3. /\ UNCHANGED <<jobs, ready, delayed, dlq, accepted, succeeded, failures>>
            /\ lease' = [lease EXCEPT ![x] = "none"] /\ loadErrors' = loadErrors + 1
        BY <2>7, <3>1, <3>2 DEF LoadFails
      <3>4. \A y \in Jobs \ {x} : Untouched(y)
        BY <3>3, SameReady DEF Untouched, TypeOK
      <3>5. lease'[x] = "none" /\ ~InReady(x)'
        BY <3>2, <3>3, SameReady DEF TypeOK
      <3>6. Status(x)' = "lost" /\ Tries(x)' = Tries(x)
        BY <3>2, <3>3, <3>5 DEF Status, Pending, Tries
      <3> DEFINE st == [y \in Jobs |-> Status(y)]
                 tr == [y \in Jobs |-> Tries(y)]
      <3>7. st' = [st EXCEPT ![x] = "lost"] /\ tr' = tr
        BY <3>4, <3>6, UntouchedIsSame, Mapped
      <3>8. st[x] = "pending"
        BY <3>2, <3>3
      <3>9. Lifecycle!Lose(x)
        BY <3>3, <3>7, <3>8 DEF Lifecycle!Lose, Lifecycle!Turns
      <3> QED
        BY <3>9 DEF Lifecycle!Next
    <2>8. ASSUME NEW o \in Operators, ReplayMove(o)
          PROVE  Lifecycle!Next \/ UNCHANGED Lifecycle!vars
      <3>1. PICK x \in Jobs : x = replay[o].id
        BY <2>8, ReplayFacts DEF ReplayMove
      <3>2. CASE x \notin dlq
        BY <2>1, <2>8, <3>1, <3>2 DEF ReplayMove
      <3>3. CASE x \in dlq
        <4> DEFINE p == replay[o].copy.priority
        <4>1. p \in Priorities
          BY <2>8, ReplayFacts, EnvelopeFacts DEF ReplayMove
        <4>2. /\ dlq' = dlq \ {x} /\ failures' = [failures EXCEPT ![x] = 0] /\ RPush(p, x)
              /\ jobs' = [jobs EXCEPT ![x] = [attempt |-> 0, priority |-> p]]
              /\ UNCHANGED <<delayed, lease, accepted, succeeded, loadErrors>>
          BY <2>8, <3>1, <3>3 DEF ReplayMove, Store
        <4> HIDE DEF p
        <4>3. \A y : InReady(y)' <=> InReady(y) \/ y = x
          BY <4>1, <4>2, PushReady DEF TypeOK
        <4>4. x \in accepted /\ ~Pending(x)
          BY <3>3 DEF Traced, Queued, Pending, MovedNotCopied, OnePlace
        <4>5. Status(x) = "dead"
          BY <3>3, <4>4 DEF Status
        <4>6. Status(x)' = "pending"
          BY <4>2, <4>3, <4>4 DEF Status, Pending
        <4>7. jobs'[x] = [attempt |-> 0, priority |-> p] /\ jobs'[x] # Nil
          <5>1. [attempt |-> 0, priority |-> p] \in Envelope
            BY <4>1 DEF Envelope
          <5> QED
            BY <4>2, <5>1 DEF TypeOK
        <4>8. Tries(x)' = 0
          BY <4>7 DEF Tries
        <4>9. \A y \in Jobs \ {x} : Untouched(y)
          BY <4>2, <4>3 DEF Untouched, TypeOK
        <4> DEFINE st == [y \in Jobs |-> Status(y)]
                   tr == [y \in Jobs |-> Tries(y)]
        <4>10. st' = [st EXCEPT ![x] = "pending"] /\ tr' = [tr EXCEPT ![x] = 0]
          BY <4>6, <4>8, <4>9, UntouchedIsSame, Mapped
        <4>11. st[x] = "dead"
          BY <4>2, <4>5
        <4>12. Lifecycle!Revive(x)
          BY <4>2, <4>10, <4>11 DEF Lifecycle!Revive, Lifecycle!Turns
        <4> QED
          BY <4>12 DEF Lifecycle!Next
      <3> QED
        BY <3>2, <3>3
    <2>9. ASSUME NEW x \in Jobs, Promote(x) \/ Reclaim(x)
          PROVE  Lifecycle!Next \/ UNCHANGED Lifecycle!vars
      <3>1. /\ Pending(x) /\ Queued(x)
            /\ Requeue(x)
            /\ UNCHANGED <<jobs, dlq, accepted, succeeded, failures, loadErrors>>
        BY <2>9 DEF Promote, Reclaim, Pending, Queued
      <3>2. priorities[x] # Nil /\ x \in accepted
        <4>1. jobs[x] \in Envelope /\ priorities[x] = jobs[x].priority
          BY <3>1 DEF MovedNotCopied, QueuedHasEnvelope, TypeOK
        <4> QED
          BY <3>1, <4>1, EnvelopeFacts DEF Traced
      <3>3. \A y : InReady(y)' <=> InReady(y) \/ y = x
        BY <3>1, <3>2, RequeueReady
      <3>4. \A y \in Jobs \ {x} : Untouched(y)
        BY <2>9, <3>1, <3>3 DEF Untouched, Promote, Reclaim, TypeOK
      <3>5. Same(x)
        <4>1. Pending(x)'
          BY <3>3 DEF Pending
        <4> QED
          BY <3>1, <3>2, <4>1, PendingIsSame
      <3> QED
        BY <3>1, <3>4, <3>5, UntouchedIsSame, StutterStep
    <2>10. ASSUME NEW x \in Jobs, lease[x] # "none", lease'[x] # "none",
                  \A y \in Jobs \ {x} : lease'[y] = lease[y],
                  UNCHANGED <<jobs, ready, delayed, dlq, accepted, succeeded, failures, loadErrors>>
           PROVE  Lifecycle!Next \/ UNCHANGED Lifecycle!vars
      <3>1. \A y \in Jobs \ {x} : Untouched(y)
        BY <2>10, SameReady DEF Untouched
      <3>2. Same(x)
        <4>1. Pending(x) /\ Pending(x)' /\ x \in accepted
          BY <2>10 DEF Pending, Traced, Queued
        <4> QED
          BY <2>10, <4>1, PendingIsSame
      <3> QED
        BY <2>10, <3>1, <3>2, UntouchedIsSame, StutterStep
    <2>11. ASSUME NEW p \in Priorities, NEW x \in Jobs, ClaimScript(p, x),
                  UNCHANGED <<jobs, delayed, dlq, accepted, succeeded, failures, loadErrors>>
           PROVE  Lifecycle!Next \/ UNCHANGED Lifecycle!vars
      <3>1. /\ InReady(x)
            /\ \A y : InReady(y)' => InReady(y)
            /\ \A y : InReady(y) => InReady(y)' \/ y = x
        BY <2>11, PopReady DEF TypeOK
      <3>2. lease' = [lease EXCEPT ![x] = "live"]
        BY <2>11 DEF ClaimScript
      <3>3. \A y \in Jobs \ {x} : Untouched(y)
        BY <2>11, <3>1, <3>2 DEF Untouched, TypeOK
      <3>4. Same(x)
        <4>1. Pending(x) /\ Pending(x)' /\ x \in accepted
          BY <3>1, <3>2 DEF Pending, Traced, Queued, TypeOK
        <4> QED
          BY <2>11, <4>1, PendingIsSame
      <3> QED
        BY <2>11, <3>3, <3>4, UntouchedIsSame, StutterStep
    <2>12. ASSUME NEW id \in Jobs, LeaseExpires(id)
           PROVE  Lifecycle!Next \/ UNCHANGED Lifecycle!vars
      BY <2>10, <2>12 DEF LeaseExpires, TypeOK
    <2>13. ASSUME NEW w \in Workers, RenewLease(w)
           PROVE  Lifecycle!Next \/ UNCHANGED Lifecycle!vars
      <3>1. worker[w].id \in Jobs
        BY <2>13, WorkerFacts DEF RenewLease, Handling
      <3> QED
        BY <2>10, <2>13, <3>1 DEF RenewLease, TypeOK
    <2>14. ASSUME NEW w \in Workers, Claim(w)
           PROVE  Lifecycle!Next \/ UNCHANGED Lifecycle!vars
      BY <2>11, <2>14 DEF Claim
    <2>15. CASE ClaimLost
      BY <2>11, <2>15 DEF ClaimLost, Fault
    <2>16. ASSUME NEW w \in Workers, Load(w) \/ Abandon(w)
           PROVE  Lifecycle!Next \/ UNCHANGED Lifecycle!vars
      BY <2>1, <2>16 DEF Load, Abandon, Fault
    <2>17. ASSUME NEW o \in Operators, ReplayList(o) \/ ReplayGivesUp(o) \/ \E id \in Jobs : ReplayGet(o, id)
           PROVE  Lifecycle!Next \/ UNCHANGED Lifecycle!vars
      BY <2>1, <2>17 DEF ReplayList, ReplayGivesUp, ReplayGet
    <2>18. CASE UNCHANGED vars
      BY <2>1, <2>18 DEF vars
    <2> QED
      BY <2>2, <2>3, <2>4, <2>5, <2>6, <2>7, <2>8, <2>9, <2>12, <2>13, <2>14, <2>15, <2>16, <2>17, <2>18
         DEF Next, Maintenance, Work, Replay
  <1>3. Spec => []MovedNotCopied /\ []CopiesInOrder /\ []CountsFollow
    BY MovedHolds, CopiesHold, CountsHold
  <1> QED
    BY <1>1, <1>2, <1>3, TypeCorrect, TracedHolds, PTL
       DEF Spec, ImplementsLifecycle, Lifecycle!Spec

-----------------------------------------------------------------------------
(* The periodic schedules                                                    *)


\* The division of Period: the quotient brackets its numerator.
LEMMA DivFacts ==
    ASSUME NEW n \in Nat
    PROVE  /\ n \div Every \in Nat
           /\ (n \div Every) * Every <= n
           /\ n < (n \div Every + 1) * Every
<1>1. Every \in Nat \ {0}
    BY JobScheduleAssumption
<1> QED
    BY <1>1, SMTT(30)

\* Distinct multiples of Every are Every apart, so quotients follow their numerators.
LEMMA DivMonotonic ==
    ASSUME NEW m \in Nat, NEW n \in Nat, m <= n
    PROVE  m \div Every <= n \div Every
<1>1. Every \in Nat \ {0}
    BY JobScheduleAssumption
<1> QED
    BY <1>1, SMTT(30)

\* A clock within bounds names a period of the model.
LEMMA PeriodFacts ==
    ASSUME ScheduleTypeOK, NEW r \in Replicas
    PROVE  /\ Period(r) \in Periods
           /\ Period(r) * Every <= now + MaxSkew
           /\ now < (Period(r) + 1) * Every
<1> DEFINE n == now + skew[r]
<1>1. now \in Nat /\ now <= MaxTime /\ skew[r] \in Nat /\ skew[r] <= MaxSkew
    BY JobScheduleAssumption DEF ScheduleTypeOK, Times
<1>2. n \in Nat /\ MaxTime + MaxSkew \in Nat /\ n <= MaxTime + MaxSkew /\ n <= now + MaxSkew /\ now <= n
    BY <1>1, JobScheduleAssumption
<1>3. Period(r) = n \div Every
    BY DEF Period
<1> HIDE DEF n
<1>4. n \div Every \in Nat /\ (n \div Every) * Every <= n /\ n < (n \div Every + 1) * Every
    BY <1>2, DivFacts
<1>5. (MaxTime + MaxSkew) \div Every \in Nat
    BY <1>2, DivFacts
<1>6. n \div Every <= (MaxTime + MaxSkew) \div Every
    BY <1>2, DivMonotonic
<1>7. (n \div Every) * Every \in Nat /\ (n \div Every + 1) * Every \in Nat
    BY <1>4, JobScheduleAssumption
<1>8. Period(r) \in Periods
    BY <1>3, <1>4, <1>5, <1>6 DEF Periods
<1>9. Period(r) * Every <= now + MaxSkew
    BY <1>3, <1>1, <1>2, <1>4, <1>7, JobScheduleAssumption
<1>10. now < (Period(r) + 1) * Every
    BY <1>3, <1>1, <1>2, <1>4, <1>7
<1> QED
    BY <1>8, <1>9, <1>10

\* Type correctness: the clock, the passes, the keys and the counts of a schedule
\* keep their types under every step of every replica.
THEOREM ScheduleTypeCorrect == ScheduleSpec => []ScheduleTypeOK
<1>1. ScheduleInit => ScheduleTypeOK
  <2>1. 0 \in Times /\ 0 \in 0..MaxFailed
    BY JobScheduleAssumption DEF Times
  <2> QED
    BY <2>1 DEF ScheduleInit, ScheduleTypeOK
<1>2. ScheduleTypeOK /\ [ScheduleNext]_scheduleVars => ScheduleTypeOK'
  <2> SUFFICES ASSUME ScheduleTypeOK, [ScheduleNext]_scheduleVars PROVE ScheduleTypeOK'
    OBVIOUS
  <2>0. now \in Nat /\ MaxTime \in Nat /\ MaxFailed \in Nat /\ TTL \in Nat
    BY JobScheduleAssumption DEF ScheduleTypeOK, Times
  <2>1. CASE Tick
    <3>1. now + 1 \in Times
      BY <2>0, <2>1 DEF Tick, Times, ScheduleTypeOK
    <3> QED
      BY <2>1, <3>1 DEF Tick, ScheduleTypeOK
  <2>2. ASSUME NEW r \in Replicas, Begin(r) PROVE ScheduleTypeOK'
    <3>1. [period |-> Period(r), at |-> now] \in [period : Periods, at : Times]
      BY PeriodFacts DEF ScheduleTypeOK
    <3> QED
      BY <2>2, <3>1 DEF Begin, ScheduleTypeOK
  <2>3. ASSUME NEW r \in Replicas, Push(r) PROVE ScheduleTypeOK'
    <3>1. pass[r].period \in Periods
      BY <2>3 DEF Push, ScheduleTypeOK
    <3>2. now + TTL \in Nat
      BY <2>0
    <3> QED
      BY <2>3, <3>1, <3>2 DEF Push, End, ScheduleTypeOK
  <2>4. ASSUME NEW r \in Replicas, Suppressed(r) PROVE ScheduleTypeOK'
    BY <2>4 DEF Suppressed, End, ScheduleTypeOK
  <2>5. ASSUME NEW r \in Replicas, PushFails(r) PROVE ScheduleTypeOK'
    BY <2>0, <2>5 DEF PushFails, End, ScheduleTypeOK
  <2>6. ASSUME NEW r \in Replicas, Crash(r) PROVE ScheduleTypeOK'
    BY <2>6 DEF Crash, End, ScheduleTypeOK
  <2>7. CASE UNCHANGED scheduleVars
    BY <2>7 DEF scheduleVars, ScheduleTypeOK
  <2> QED
    BY <2>1, <2>2, <2>3, <2>4, <2>5, <2>6, <2>7 DEF ScheduleNext
<1> QED
    BY <1>1, <1>2, PTL DEF ScheduleSpec

\* The key of a pushed period outlives the period: it expires no earlier than TTL
\* after the fastest clock entered it.  This is the invariant OneJobPerPeriod rests on.
THEOREM KeyHolds == ScheduleSpec => []KeyOutlivesPeriod
<1>1. ScheduleInit => KeyOutlivesPeriod
    BY DEF ScheduleInit, KeyOutlivesPeriod
<1>2. ScheduleTypeOK /\ KeyOutlivesPeriod /\ [ScheduleNext]_scheduleVars => KeyOutlivesPeriod'
  <2> SUFFICES ASSUME ScheduleTypeOK, KeyOutlivesPeriod, [ScheduleNext]_scheduleVars PROVE KeyOutlivesPeriod'
    OBVIOUS
  <2>0. now \in Nat /\ MaxDelay \in Nat /\ MaxSkew \in Nat /\ TTL \in Nat /\ Every \in Nat
    BY JobScheduleAssumption DEF ScheduleTypeOK, Times
  <2>t. \A r \in Replicas : pass[r] # NoPass => pass[r].at \in Nat /\ pass[r].period \in Periods
    BY JobScheduleAssumption DEF ScheduleTypeOK, Times
  <2>1. CASE Tick
    <3>1. now' = now + 1 /\ UNCHANGED <<pass, expires, pushed>>
      BY <2>1 DEF Tick
    <3>2. \A r \in Replicas : pass[r] # NoPass => now < pass[r].at + MaxDelay
      BY <2>1 DEF Tick
    <3> QED
      BY <2>0, <2>t, <3>1, <3>2 DEF KeyOutlivesPeriod
  <2>2. ASSUME NEW r \in Replicas, Begin(r) PROVE KeyOutlivesPeriod'
    <3>1. UNCHANGED <<now, expires, pushed>>
      BY <2>2 DEF Begin
    <3>2. ASSUME NEW s \in Replicas, pass'[s] # NoPass
          PROVE  /\ pass'[s].at <= now /\ now <= pass'[s].at + MaxDelay
                 /\ pass'[s].period * Every <= pass'[s].at + MaxSkew
                 /\ pass'[s].at < (pass'[s].period + 1) * Every
      <4>1. CASE s = r
        <5>1. pass'[s].period = Period(r) /\ pass'[s].at = now
          BY <2>2, <4>1 DEF Begin, ScheduleTypeOK
        <5> QED
          BY <2>0, <5>1, PeriodFacts
      <4>2. CASE s # r
        <5>1. pass'[s] = pass[s]
          BY <2>2, <4>2 DEF Begin, ScheduleTypeOK
        <5> QED
          BY <3>2, <5>1 DEF KeyOutlivesPeriod
      <4> QED
        BY <4>1, <4>2
    <3> QED
      BY <3>1, <3>2 DEF KeyOutlivesPeriod
  <2>e. ASSUME NEW r \in Replicas, End(r)
        PROVE  /\ now' = now
               /\ \A s \in Replicas : pass'[s] # NoPass => pass'[s] = pass[s]
    BY <2>e DEF End, ScheduleTypeOK
  <2>3. ASSUME NEW r \in Replicas, Push(r) PROVE KeyOutlivesPeriod'
    <3> DEFINE q == pass[r].period
    <3>1. now' = now /\ \A s \in Replicas : pass'[s] # NoPass => pass'[s] = pass[s]
      BY <2>3, <2>e DEF Push
    <3>2. q \in Periods /\ q * Every <= pass[r].at + MaxSkew /\ pass[r].at <= now /\ pass[r].at \in Nat
      BY <2>3, <2>t DEF Push, KeyOutlivesPeriod
    <3>3. expires' = [expires EXCEPT ![q] = now + TTL] /\ pushed' = [pushed EXCEPT ![q] = @ + 1]
      BY <2>3 DEF Push
    <3>4. Periods \subseteq Int
      BY DEF Periods
    <3> HIDE DEF q
    <3>5. ASSUME NEW p \in Periods, pushed'[p] # 0
          PROVE  p * Every + TTL <= expires'[p] + MaxSkew
      <4>1. CASE p = q
        <5>1. expires'[p] = now + TTL
          BY <3>3, <4>1 DEF ScheduleTypeOK
        <5>2. p * Every \in Int
          BY <2>0, <3>4
        <5> QED
          BY <2>0, <3>2, <4>1, <5>1, <5>2
      <4>2. CASE p # q
        <5>1. expires'[p] = expires[p] /\ pushed'[p] = pushed[p]
          BY <3>3, <4>2 DEF ScheduleTypeOK
        <5> QED
          BY <3>5, <5>1 DEF KeyOutlivesPeriod
      <4> QED
        BY <4>1, <4>2
    <3> QED
      BY <3>1, <3>5 DEF KeyOutlivesPeriod
  <2>4. ASSUME NEW r \in Replicas, Suppressed(r) \/ PushFails(r) \/ Crash(r) PROVE KeyOutlivesPeriod'
    <3>1. End(r) /\ UNCHANGED <<expires, pushed>>
      BY <2>4 DEF Suppressed, PushFails, Crash
    <3>2. now' = now /\ \A s \in Replicas : pass'[s] # NoPass => pass'[s] = pass[s]
      BY <3>1, <2>e
    <3> QED
      BY <3>1, <3>2 DEF KeyOutlivesPeriod
  <2>5. CASE UNCHANGED scheduleVars
    BY <2>5 DEF scheduleVars, KeyOutlivesPeriod
  <2> QED
    BY <2>1, <2>2, <2>3, <2>4, <2>5 DEF ScheduleNext
<1> QED
    BY <1>1, <1>2, ScheduleTypeCorrect, PTL DEF ScheduleSpec

\* A period of a schedule gets at most one job, for any number of replicas with
\* clocks at most MaxSkew apart and scripts at most MaxDelay late, as long as the
\* idempotency key lives Every + MaxSkew + MaxDelay.
THEOREM OneJob ==
    ASSUME TTLSuffices
    PROVE  ScheduleSpec => []OneJobPerPeriod
<1>1. ScheduleInit => OneJobPerPeriod
    BY DEF ScheduleInit, OneJobPerPeriod
<1>2. ScheduleTypeOK /\ KeyOutlivesPeriod /\ OneJobPerPeriod /\ [ScheduleNext]_scheduleVars => OneJobPerPeriod'
  <2> SUFFICES ASSUME ScheduleTypeOK, KeyOutlivesPeriod, OneJobPerPeriod, [ScheduleNext]_scheduleVars
               PROVE  OneJobPerPeriod'
    OBVIOUS
  <2>1. ASSUME NEW r \in Replicas, Push(r) PROVE OneJobPerPeriod'
    <3> DEFINE q == pass[r].period
    <3>1. q \in Periods /\ pass[r].at \in Nat /\ now \in Nat
      BY <2>1, JobScheduleAssumption DEF Push, ScheduleTypeOK, Times
    <3>2. pushed' = [pushed EXCEPT ![q] = @ + 1] /\ expires[q] <= now
      BY <2>1 DEF Push
    <3>3. now <= pass[r].at + MaxDelay /\ pass[r].at < (q + 1) * Every
      BY <2>1 DEF Push, KeyOutlivesPeriod
    <3>4. pushed[q] # 0 => q * Every + TTL <= expires[q] + MaxSkew
      BY <3>1 DEF KeyOutlivesPeriod
    <3>5. q \in Int /\ expires[q] \in Int /\ pushed[q] \in Nat
      BY <3>1 DEF ScheduleTypeOK, Periods
    <3> HIDE DEF q
    <3>6. q * Every \in Int /\ (q + 1) * Every = q * Every + Every
      BY <3>5, JobScheduleAssumption
    <3>7. pushed[q] = 0
      BY <3>1, <3>2, <3>3, <3>4, <3>5, <3>6, JobScheduleAssumption, TTLSuffices DEF TTLSuffices
    <3> QED
      BY <3>1, <3>2, <3>7 DEF OneJobPerPeriod, ScheduleTypeOK
  <2>2. CASE UNCHANGED pushed
    BY <2>2 DEF OneJobPerPeriod
  <2> QED
    BY <2>1, <2>2 DEF ScheduleNext, Tick, Begin, Suppressed, PushFails, Crash, scheduleVars
<1> QED
    BY <1>1, <1>2, ScheduleTypeCorrect, KeyHolds, PTL DEF ScheduleSpec

-----------------------------------------------------------------------------
(* No period is skipped. *)

\* A number between two successive multiples of Every has one quotient.
LEMMA DivUnique ==
    ASSUME NEW n \in Nat, NEW p \in Nat, p * Every <= n, n < (p + 1) * Every
    PROVE  n \div Every = p
<1> DEFINE q == n \div Every
<1>1. q \in Nat /\ q * Every <= n /\ n < (q + 1) * Every
    BY DivFacts
<1> HIDE DEF q
<1>2. Every \in Nat /\ Every > 0
    BY JobScheduleAssumption
<1>3. ASSUME NEW a \in Nat, NEW b \in Nat, a < b, b * Every <= n
      PROVE  (a + 1) * Every <= n
  <2>1. PICK d \in Nat : b = (a + 1) + d
    BY <1>3
  <2>2. b * Every = (a + 1) * Every + d * Every /\ d * Every \in Nat /\ (a + 1) * Every \in Nat
    BY <1>2, <2>1
  <2> QED
    BY <1>3, <2>2
<1>4. ~(q < p)
    BY <1>1, <1>2, <1>3
<1>5. ~(p < q)
    BY <1>1, <1>2, <1>3
<1> QED
    BY <1>1, <1>4, <1>5 DEF q

\* A steady replica read its clock no longer ago than a pass and a gap may last, and
\* a period without a job never had a key.
SteadyKeepsPace ==
    /\ \A s \in Steady :
        /\ last[s] <= now
        /\ pass[s] = NoPass => now <= last[s] + MaxGap
        /\ pass[s] # NoPass => pass[s].at = last[s] /\ now <= last[s] + MaxDelay
    /\ \A p \in Periods : pushed[p] = 0 => expires[p] = 0

\* SteadyKeepsPace is inductive.
LEMMA PaceHolds ==
    ASSUME GapsSuffice
    PROVE  ScheduleSpec => []SteadyKeepsPace
<1>1. ScheduleInit => SteadyKeepsPace
    BY JobScheduleAssumption DEF ScheduleInit, SteadyKeepsPace
<1>2. ScheduleTypeOK /\ SteadyKeepsPace /\ [ScheduleNext]_scheduleVars => SteadyKeepsPace'
  <2> SUFFICES ASSUME ScheduleTypeOK, SteadyKeepsPace, [ScheduleNext]_scheduleVars PROVE SteadyKeepsPace'
    OBVIOUS
  <2>0. /\ now \in Nat /\ MaxDelay \in Nat /\ MaxGap \in Nat /\ TTL \in Nat /\ MaxDelay <= MaxGap
        /\ Steady \subseteq Replicas
        /\ \A s \in Steady : last[s] \in Nat
        /\ \A p \in Periods : pushed[p] \in Nat
    BY GapsSuffice, JobScheduleAssumption DEF ScheduleTypeOK, Times, GapsSuffice
  <2>1. CASE Tick
    BY <2>0, <2>1 DEF Tick, SteadyKeepsPace
  <2>2. ASSUME NEW r \in Replicas, Begin(r) PROVE SteadyKeepsPace'
    <3>1. UNCHANGED <<now, expires, pushed>>
      BY <2>2 DEF Begin
    <3>2. ASSUME NEW s \in Steady
          PROVE  /\ last'[s] <= now
                 /\ pass'[s] = NoPass => now <= last'[s] + MaxGap
                 /\ pass'[s] # NoPass => pass'[s].at = last'[s] /\ now <= last'[s] + MaxDelay
      <4>1. CASE s = r
        <5>1. last'[s] = now /\ pass'[s] = [period |-> Period(r), at |-> now]
          BY <2>2, <4>1 DEF Begin, ScheduleTypeOK
        <5> QED
          BY <2>0, <5>1
      <4>2. CASE s # r
        <5>1. last'[s] = last[s] /\ pass'[s] = pass[s]
          BY <2>0, <2>2, <4>2 DEF Begin, ScheduleTypeOK
        <5> QED
          BY <5>1 DEF SteadyKeepsPace
      <4> QED
        BY <4>1, <4>2
    <3> QED
      BY <3>1, <3>2 DEF SteadyKeepsPace
  <2>3. ASSUME NEW r \in Replicas, End(r),
               \A p \in Periods : pushed'[p] = 0 => pushed[p] = 0 /\ expires'[p] = expires[p]
        PROVE  SteadyKeepsPace'
    <3>1. UNCHANGED <<now, last>> /\ \A s \in Replicas : pass'[s] \in {NoPass, pass[s]}
      BY <2>3 DEF End, ScheduleTypeOK
    <3> QED
      BY <2>0, <2>3, <3>1 DEF SteadyKeepsPace
  <2>4. ASSUME NEW r \in Replicas, Push(r) PROVE SteadyKeepsPace'
    <3> DEFINE q == pass[r].period
    <3>1. q \in Periods /\ pushed' = [pushed EXCEPT ![q] = @ + 1]
          /\ expires' = [expires EXCEPT ![q] = now + TTL]
      BY <2>4 DEF Push, ScheduleTypeOK
    <3> HIDE DEF q
    <3>2. \A p \in Periods : pushed'[p] = 0 => pushed[p] = 0 /\ expires'[p] = expires[p]
      BY <2>0, <3>1 DEF ScheduleTypeOK
    <3> QED
      BY <2>3, <2>4, <3>2 DEF Push
  <2>5. ASSUME NEW r \in Replicas, Suppressed(r) \/ PushFails(r) \/ Crash(r) PROVE SteadyKeepsPace'
    BY <2>3, <2>5 DEF Suppressed, PushFails, Crash
  <2>6. CASE UNCHANGED scheduleVars
    BY <2>6 DEF scheduleVars, SteadyKeepsPace
  <2> QED
    BY <2>1, <2>2, <2>4, <2>5, <2>6 DEF ScheduleNext
<1> QED
    BY <1>1, <1>2, ScheduleTypeCorrect, PTL DEF ScheduleSpec

\* While a period p has no job, a steady replica's latest pass began before p did on
\* its clock, but for one gap per failed script and one for the pass it is in.
PassesToSpare ==
    \A s \in Steady, p \in Periods \ {0} :
        pushed[p] = 0 =>
            \/ last[s] + skew[s] < p * Every + failed * MaxGap
            \/ /\ pass[s] # NoPass /\ pass[s].period = p
               /\ last[s] + skew[s] < p * Every + (failed + 1) * MaxGap

\* One more failure allows one more gap, and MaxFailed of them leave one in the period.
LEMMA GapFacts ==
    ASSUME ScheduleTypeOK, GapsSuffice
    PROVE  /\ failed * MaxGap \in Nat
           /\ (failed + 1) * MaxGap = failed * MaxGap + MaxGap
           /\ (failed + 1) * MaxGap <= Every
<1>1. failed \in Nat /\ MaxFailed \in Nat /\ failed <= MaxFailed /\ MaxGap \in Nat
    BY JobScheduleAssumption DEF ScheduleTypeOK
<1>2. PICK d \in Nat : MaxFailed = failed + d
    BY <1>1
<1>3. (MaxFailed + 1) * MaxGap = (failed + 1) * MaxGap + d * MaxGap /\ d * MaxGap \in Nat
    BY <1>1, <1>2
<1>4. (failed + 1) * MaxGap = failed * MaxGap + MaxGap /\ failed * MaxGap \in Nat
    BY <1>1
<1>5. (MaxFailed + 1) * MaxGap <= Every /\ Every \in Nat
    BY GapsSuffice, JobScheduleAssumption DEF GapsSuffice
<1> QED
    BY <1>1, <1>3, <1>4, <1>5

\* PassesToSpare is inductive.
LEMMA SpareHolds ==
    ASSUME GapsSuffice
    PROVE  ScheduleSpec => []PassesToSpare
<1> USE GapsSuffice
<1>1. ScheduleInit => PassesToSpare
  <2> SUFFICES ASSUME ScheduleInit, NEW s \in Steady, NEW p \in Periods \ {0}
               PROVE  last[s] + skew[s] < p * Every + failed * MaxGap
    BY DEF PassesToSpare
  <2>1. last[s] = 0 /\ failed = 0 /\ skew[s] \in 0..MaxSkew
    BY JobScheduleAssumption DEF ScheduleInit
  <2>2. PICK d \in Nat : p = d + 1
    BY DEF Periods
  <2>3. p * Every = d * Every + Every /\ d * Every \in Nat /\ Every \in Nat
    BY <2>2, JobScheduleAssumption
  <2>4. MaxSkew < Every /\ 0 * MaxGap = 0 /\ MaxSkew \in Nat
    BY JobScheduleAssumption DEF GapsSuffice
  <2> QED
    BY <2>1, <2>3, <2>4
<1>2. ScheduleTypeOK /\ SteadyKeepsPace /\ PassesToSpare /\ [ScheduleNext]_scheduleVars => PassesToSpare'
  <2> SUFFICES ASSUME ScheduleTypeOK, SteadyKeepsPace, PassesToSpare, [ScheduleNext]_scheduleVars PROVE PassesToSpare'
    OBVIOUS
  <2>0. /\ now \in Nat /\ MaxGap \in Nat /\ Every \in Nat /\ failed \in Nat
        /\ Steady \subseteq Replicas
        /\ \A s \in Steady : last[s] \in Nat /\ skew[s] \in Nat
    <3>1. now \in Nat /\ MaxGap \in Nat /\ Every \in Nat /\ failed \in Nat /\ Steady \subseteq Replicas
      BY JobScheduleAssumption DEF ScheduleTypeOK, Times
    <3>2. \A s \in Steady : last[s] \in Nat /\ skew[s] \in Nat
      BY JobScheduleAssumption DEF ScheduleTypeOK, Times
    <3> QED
      BY <3>1, <3>2
  <2>n. \A p \in Periods : p \in Nat /\ pushed[p] \in Nat
    BY DEF ScheduleTypeOK, Periods
  <2>p. \A p \in Nat : p * Every \in Nat /\ (p + 1) * Every = p * Every + Every
    BY JobScheduleAssumption
  <2>1. CASE Tick \/ UNCHANGED scheduleVars
    BY <2>1 DEF Tick, scheduleVars, PassesToSpare
  <2>2. ASSUME NEW r \in Replicas, Begin(r) PROVE PassesToSpare'
    <3>1. UNCHANGED <<now, skew, pushed, failed>> /\ pass[r] = NoPass
      BY <2>2 DEF Begin
    <3>2. ASSUME NEW s \in Steady, NEW p \in Periods \ {0}, pushed[p] = 0
          PROVE  \/ last'[s] + skew[s] < p * Every + failed * MaxGap
                 \/ /\ pass'[s] # NoPass /\ pass'[s].period = p
                    /\ last'[s] + skew[s] < p * Every + (failed + 1) * MaxGap
      <4>1. CASE s # r
        <5>1. last'[s] = last[s] /\ pass'[s] = pass[s]
          BY <2>0, <2>2, <4>1 DEF Begin, ScheduleTypeOK
        <5> QED
          BY <3>2, <5>1 DEF PassesToSpare
      <4>2. CASE s = r
        <5>1. last'[s] = now /\ pass'[s] = [period |-> Period(s), at |-> now]
          BY <2>0, <2>2, <4>2 DEF Begin, ScheduleTypeOK
        <5>2. last[s] + skew[s] < p * Every + failed * MaxGap /\ now <= last[s] + MaxGap
          BY <3>1, <3>2, <4>2 DEF PassesToSpare, SteadyKeepsPace
        <5>g. /\ failed * MaxGap \in Nat /\ (failed + 1) * MaxGap = failed * MaxGap + MaxGap
              /\ (failed + 1) * MaxGap <= Every
              /\ p * Every \in Nat /\ (p + 1) * Every = p * Every + Every
              /\ last[s] \in Nat /\ skew[s] \in Nat
          BY <2>0, <2>n, <2>p, GapFacts
        <5>3. now + skew[s] < p * Every + (failed + 1) * MaxGap
          BY <2>0, <5>2, <5>g
        <5>4. CASE now + skew[s] < p * Every + failed * MaxGap
          BY <5>1, <5>4
        <5>5. CASE ~(now + skew[s] < p * Every + failed * MaxGap)
          <6>1. p * Every <= now + skew[s] /\ now + skew[s] < (p + 1) * Every
            BY <2>0, <5>3, <5>5, <5>g
          <6>2. Period(s) = p
            BY <2>0, <2>n, <6>1, DivUnique DEF Period
          <6>3. [period |-> Period(s), at |-> now] # NoPass
            BY <2>0, <2>n, <6>2, NoPassAssumption
          <6> QED
            BY <5>1, <5>3, <6>2, <6>3
        <5> QED
          BY <5>4, <5>5
      <4> QED
        BY <4>1, <4>2
    <3> QED
      BY <3>1, <3>2 DEF PassesToSpare
  <2>3. ASSUME NEW r \in Replicas, Push(r) PROVE PassesToSpare'
    <3>1. UNCHANGED <<now, skew, last, failed>> /\ pass' = [pass EXCEPT ![r] = NoPass]
          /\ pushed' = [pushed EXCEPT ![pass[r].period] = @ + 1]
          /\ pass[r].period \in Periods
      BY <2>3 DEF Push, End, ScheduleTypeOK
    <3>2. ASSUME NEW s \in Steady, NEW p \in Periods \ {0}, pushed'[p] = 0
          PROVE  \/ last[s] + skew[s] < p * Every + failed * MaxGap
                 \/ /\ pass'[s] # NoPass /\ pass'[s].period = p
                    /\ last[s] + skew[s] < p * Every + (failed + 1) * MaxGap
      <4>1. pushed[p] = 0 /\ pass[r].period # p
        BY <2>n, <3>1, <3>2 DEF ScheduleTypeOK
      <4>2. s # r => pass'[s] = pass[s]
        BY <2>0, <3>1 DEF ScheduleTypeOK
      <4> QED
        BY <4>1, <4>2 DEF PassesToSpare
    <3> QED
      BY <3>1, <3>2 DEF PassesToSpare
  <2>4. ASSUME NEW r \in Replicas, Suppressed(r) PROVE PassesToSpare'
    <3>1. UNCHANGED <<now, skew, last, failed, pushed>> /\ pass' = [pass EXCEPT ![r] = NoPass]
          /\ pass[r].period \in Periods /\ expires[pass[r].period] > now
      BY <2>4 DEF Suppressed, End, ScheduleTypeOK
    <3>2. pushed[pass[r].period] # 0
      BY <2>0, <3>1 DEF SteadyKeepsPace
    <3>3. \A s \in Steady : s # r => pass'[s] = pass[s]
      BY <2>0, <3>1 DEF ScheduleTypeOK
    <3> QED
      BY <3>1, <3>2, <3>3 DEF PassesToSpare
  <2>5. ASSUME NEW r \in Replicas, PushFails(r) PROVE PassesToSpare'
    <3>1. UNCHANGED <<now, skew, last, pushed>> /\ failed' = failed + 1
      BY <2>5 DEF PushFails, End
    <3>2. ASSUME NEW s \in Steady, NEW p \in Periods \ {0}, pushed[p] = 0
          PROVE  last[s] + skew[s] < p * Every + (failed + 1) * MaxGap
      BY <2>0, <2>n, <2>p, <3>2, GapFacts DEF PassesToSpare
    <3> QED
      BY <3>1, <3>2 DEF PassesToSpare
  <2>6. ASSUME NEW r \in Replicas, Crash(r) PROVE PassesToSpare'
    <3>1. UNCHANGED <<now, skew, last, failed, pushed>> /\ \A s \in Steady : pass'[s] = pass[s]
      BY <2>0, <2>6 DEF Crash, End, ScheduleTypeOK
    <3> QED
      BY <3>1 DEF PassesToSpare
  <2> QED
    BY <2>1, <2>2, <2>3, <2>4, <2>5, <2>6 DEF ScheduleNext
<1>3. ScheduleSpec => []SteadyKeepsPace
    BY PaceHolds
<1> QED
    BY <1>1, <1>2, <1>3, ScheduleTypeCorrect, PTL DEF ScheduleSpec

\* No period of a schedule is skipped: with one replica that keeps running, and a pass
\* to spare in each period for every script that fails, a period that is over for every
\* clock has its job, however the other replicas crash, lag or disagree on the time.
THEOREM EveryPeriodHolds ==
    ASSUME GapsSuffice
    PROVE  ScheduleSpec => []EveryPeriodHasAJob
<1>1. ScheduleTypeOK /\ SteadyKeepsPace /\ PassesToSpare => EveryPeriodHasAJob
  <2> SUFFICES ASSUME ScheduleTypeOK, SteadyKeepsPace, PassesToSpare, NEW p \in Periods \ {0},
                      (p + 1) * Every + MaxDelay <= now, pushed[p] = 0
               PROVE  FALSE
    BY DEF EveryPeriodHasAJob, ScheduleTypeOK
  <2>1. PICK s \in Steady : TRUE
    BY GapsSuffice DEF GapsSuffice
  <2>2. /\ now \in Nat /\ MaxGap \in Nat /\ MaxDelay \in Nat /\ MaxDelay <= MaxGap /\ Every \in Nat
        /\ last[s] \in Nat /\ skew[s] \in Nat
        /\ p * Every \in Nat /\ (p + 1) * Every = p * Every + Every
    BY GapsSuffice, JobScheduleAssumption DEF ScheduleTypeOK, Times, Periods, GapsSuffice
  <2>3. CASE last[s] + skew[s] < p * Every + failed * MaxGap
    <3>1. now <= last[s] + MaxGap
      BY <2>1, <2>2 DEF SteadyKeepsPace
    <3> QED
      BY <2>2, <2>3, <3>1, GapFacts, GapsSuffice
  <2>4. CASE pass[s] # NoPass /\ last[s] + skew[s] < p * Every + (failed + 1) * MaxGap
    <3>1. now <= last[s] + MaxDelay
      BY <2>1, <2>4 DEF SteadyKeepsPace
    <3> QED
      BY <2>2, <2>4, <3>1, GapFacts, GapsSuffice
  <2> QED
    BY <2>1, <2>3, <2>4 DEF PassesToSpare
<1>2. ScheduleSpec => []SteadyKeepsPace /\ []PassesToSpare
    BY GapsSuffice, PaceHolds, SpareHolds
<1> QED
    BY <1>1, <1>2, ScheduleTypeCorrect, PTL
=============================================================================
