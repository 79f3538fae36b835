---------------------------- MODULE RecordsProofs ----------------------------
(* Theorems about Records and the meter it books on, for every set of        *)
(* records, requests, plans and events and any number of months.             *)
EXTENDS Records, FiniteSetTheorems, TLAPS

-----------------------------------------------------------------------------
(* Type correctness *)

\* The steps of the meter alone keep its types.
LEMMA MeterTypes ==
    ASSUME MeterTypeOK,
           \/ NextMonth \/ ConfigurePrices \/ (\E e \in Events : ApplyEvent(e))
           \/ SubscribeFree \/ Book \/ GiveBack \/ UNCHANGED meter
    PROVE  MeterTypeOK'
<1> USE UsageMeterAssumption DEF MeterTypeOK, plans, meter, Months
<1>0. \A p \in Plans : Larger(granted, Limit[p]) \in Nat
    BY DEF Larger
<1>1. CASE NextMonth
    BY <1>1 DEF NextMonth
<1>2. CASE ConfigurePrices
    BY <1>2 DEF ConfigurePrices
<1>3. ASSUME NEW e \in Events, ApplyEvent(e) PROVE MeterTypeOK'
    <2>1. EventPlan[e] \in Plans
        OBVIOUS
    <2>2. applied' \in Seq(Events)
        BY <1>3 DEF ApplyEvent
    <2> QED
        BY <1>0, <1>3, <2>1, <2>2 DEF ApplyEvent, Adopt
<1>4. CASE SubscribeFree
    BY <1>0, <1>4 DEF SubscribeFree, Adopt
<1>5. CASE Book
    BY <1>5 DEF Book
<1>6. CASE GiveBack
    <2>1. usage' \in [Months -> Nat]
        BY <1>6 DEF GiveBack
    <2> QED
        BY <1>6, <2>1 DEF GiveBack
<1>7. CASE UNCHANGED meter
    BY <1>7
<1> QED
    BY <1>1, <1>2, <1>3, <1>4, <1>5, <1>6, <1>7

\* What a request holds in each of its phases.
LEMMA RequestShape ==
    ASSUME request \in [Actors -> RequestState], NEW r \in Actors
    PROVE  /\ At(r, "overview") \/ At(r, "subscribing") \/ At(r, "inserting") => request[r].op \in Creating
           /\ At(r, "booking") => request[r].op \in Creating /\ request[r].limit \in Nat
           /\ At(r, "filing") \/ At(r, "undoing") => request[r].id \in Records
           /\ At(r, "updating") => request[r].id \in Records /\ request[r].version \in Nat
           /\ At(r, "archiving") => /\ request[r].id \in Records /\ request[r].version \in Nat
                                    /\ request[r].by \in {"user", "undo"}
           /\ Submitting(r) => request[r].id \in Records
    BY DEF At, RequestState, Idle, Submitting

\* A record that is there has its columns.
LEMMA RecordShape ==
    ASSUME record \in [Records -> RecordState], NEW i \in Records
    PROVE  /\ record[i] = Absent \/ record[i].status \in {"active", "archived"}
           /\ record[i].status \in {"active", "archived"} =>
                record[i] \in [status : {"active", "archived"}, version : Nat, op : Creating,
                               by : {"nobody", "user", "undo"}, acknowledged : BOOLEAN]
    BY DEF RecordState, Absent

\* A request's own step writes one entry of request, and one of record at most.
LEMMA RequestTypes ==
    ASSUME TypeOK, NEW r \in Actors, Reads(r) \/ Writes(r)
    PROVE  request' \in [Actors -> RequestState]
<1> USE DEF TypeOK, Goes, RequestState, Idle
<1>1. CASE StartCreate(r)
    BY <1>1 DEF StartCreate
<1>2. CASE Overview(r)
    <2>1. \A p \in Plans : Limit[p] \in Nat
        BY UsageMeterAssumption
    <2> QED
        BY <1>2, <2>1, RequestShape DEF Overview
<1>3. CASE Undo(r)
    BY <1>3, RequestShape DEF Undo
<1>4. CASE Subscribe(r)
    BY <1>4, RequestShape, UsageMeterAssumption DEF Subscribe
<1>5. CASE Consume(r)
    BY <1>5, RequestShape DEF Consume
<1>6. CASE FileFails(r)
    BY <1>6, RequestShape DEF FileFails
<1>7. CASE InsertFails(r) \/ File(r) \/ Update(r) \/ ArchiveRecord(r) \/ Refund(r) \/ Refused(r) \/ GiveUp(r)
    BY <1>7 DEF InsertFails, File, Update, ArchiveRecord, Refund, Refused, GiveUp
<1> QED
    BY <1>1, <1>2, <1>3, <1>4, <1>5, <1>6, <1>7 DEF Reads, Writes

LEMMA RowTypes ==
    ASSUME TypeOK, NEW r \in Actors, Reads(r) \/ Writes(r)
    PROVE  /\ entity' \in {"active", "archived"}
           /\ record' \in [Records -> RecordState]
           /\ submission' \in SUBSET Records
           /\ lapsed' \in SUBSET Records
<1> USE DEF TypeOK, rows
<1>1. CASE Reads(r)
    BY <1>1 DEF Reads, StartCreate, Overview, Undo
<1>2. CASE Subscribe(r) \/ Consume(r) \/ InsertFails(r) \/ Refund(r) \/ Refused(r)
    BY <1>2 DEF Subscribe, Consume, InsertFails, Refund, Refused
<1>3. CASE File(r) \/ FileFails(r) \/ GiveUp(r)
    BY <1>3, RequestShape DEF File, FileFails, GiveUp
<1>4. CASE Update(r)
    <2> DEFINE i == request[r].id
    <2>1. i \in Records /\ record[i].status = "active"
        BY <1>4, RequestShape DEF Update, Current
    <2>2. [record[i] EXCEPT !.version = @ + 1] \in RecordState
        BY <2>1, RecordShape DEF RecordState
    <2>3. record' = [record EXCEPT ![i] = [record[i] EXCEPT !.version = @ + 1]]
        BY <1>4, <2>1 DEF Update
    <2> QED
        BY <1>4, <2>1, <2>2, <2>3 DEF Update
<1>5. CASE ArchiveRecord(r)
    <2> DEFINE i == request[r].id
               Columns == [status : {"active", "archived"}, version : Nat, op : Creating,
                           by : {"nobody", "user", "undo"}, acknowledged : BOOLEAN]
               b == [record[i] EXCEPT !.status = "archived"]
               c == [b EXCEPT !.version = @ + 1]
               a == [c EXCEPT !.by = request[r].by]
    <2>1. i \in Records /\ record[i].status = "active" /\ request[r].by \in {"user", "undo"}
        BY <1>5, RequestShape DEF ArchiveRecord, Current
    <2>2. a \in RecordState
        <3>1. b \in Columns
            BY <2>1, RecordShape
        <3>2. c \in Columns
            <4> HIDE DEF b
            <4> QED
                BY <3>1
        <3>3. a \in Columns
            <4> HIDE DEF c
            <4> QED
                BY <2>1, <3>2
        <3> QED
            BY <3>3 DEF RecordState
    <2>3. record' = [record EXCEPT ![i] = a]
        BY <1>5, <2>1 DEF ArchiveRecord
    <2> QED
        BY <1>5, <2>1, <2>2, <2>3 DEF ArchiveRecord
<1> QED
    BY <1>1, <1>2, <1>3, <1>4, <1>5 DEF Writes

\* Type correctness: the meter, the rows and the requests keep their types.
THEOREM TypeCorrect == Spec => []TypeOK
<1>1. Init => TypeOK
    BY UsageMeterAssumption
    DEF Init, MeterInit, TypeOK, MeterTypeOK, Months, RecordState, RequestState, Idle
<1>2. TypeOK /\ [Next]_vars => TypeOK'
    <2> SUFFICES ASSUME TypeOK, [Next]_vars PROVE TypeOK'
        OBVIOUS
    <2>1. ASSUME NEW r \in Actors, Reads(r) \/ Writes(r) PROVE TypeOK'
        <3>1. MeterTypeOK'
            <4>1. \/ SubscribeFree \/ Book \/ GiveBack \/ UNCHANGED meter
                BY <2>1 DEF Reads, Writes, StartCreate, Overview, Undo, Subscribe, Consume, InsertFails, File,
                    FileFails, Update, ArchiveRecord, Refund, Refused, GiveUp, Subscribed
            <4> QED
                BY <4>1, MeterTypes DEF TypeOK
        <3> QED
            BY <2>1, <3>1, RequestTypes, RowTypes DEF TypeOK
    <2>2. ASSUME NEW r \in Actors, NEW i \in Records, Insert(r, i) \/ InsertUnanswered(r, i) PROVE TypeOK'
        <3>1. MeterTypeOK'
            BY <2>2, MeterTypes DEF Insert, InsertUnanswered, TypeOK
        <3>2. At(r, "inserting") /\ request[r].op \in Creating
            BY <2>2, RequestShape DEF Insert, InsertUnanswered, TypeOK
        <3>3. record' \in [Records -> RecordState]
            <4>1. \A b \in BOOLEAN : New(request[r].op, b) \in RecordState
                BY <3>2 DEF New, RecordState
            <4>2. \E b \in BOOLEAN : record' = [record EXCEPT ![i] = New(request[r].op, b)]
                BY <2>2 DEF Insert, InsertUnanswered
            <4> QED
                BY <4>1, <4>2 DEF TypeOK
        <3>4. request' \in [Actors -> RequestState]
            <4>1. CASE Insert(r, i)
                BY <4>1 DEF Insert, TypeOK, RequestState, Goes, Idle
            <4>2. CASE InsertUnanswered(r, i)
                BY <4>2 DEF InsertUnanswered, TypeOK, RequestState, Goes
            <4> QED
                BY <2>2, <4>1, <4>2
        <3> QED
            BY <2>2, <3>1, <3>3, <3>4 DEF Insert, InsertUnanswered, TypeOK
    <2>3. ASSUME NEW r \in Actors, NEW i \in Records, StartUpdate(r, i) \/ StartDelete(r, i) PROVE TypeOK'
        <3>1. MeterTypeOK'
            BY <2>3, MeterTypes DEF StartUpdate, StartDelete, Shown, TypeOK
        <3>2. record[i].version \in Nat
            BY <2>3, RecordShape DEF StartUpdate, StartDelete, Shown, TypeOK
        <3>3. request' \in [Actors -> RequestState]
            BY <2>3, <3>2 DEF StartUpdate, StartDelete, Shown, TypeOK, RequestState, Goes
        <3> QED
            BY <2>3, <3>1, <3>3 DEF StartUpdate, StartDelete, Shown, TypeOK, rows
    <2>4. CASE ArchiveEntity
        BY <2>4, MeterTypes DEF ArchiveEntity, TypeOK
    <2>5. CASE (NextMonth \/ ConfigurePrices \/ \E e \in Events : ApplyEvent(e)) /\ Others
        BY <2>5, MeterTypes DEF Others, TypeOK, rows
    <2>6. CASE UNCHANGED vars
        BY <2>6, MeterTypes DEF vars, TypeOK, rows
    <2> QED
        BY <2>1, <2>2, <2>3, <2>4, <2>5, <2>6 DEF Next
<1> QED
    BY <1>1, <1>2, PTL DEF Spec

-----------------------------------------------------------------------------
(* The quota *)

\* What was read or is in force was granted.
LimitsGranted ==
    /\ subscription # NoPlan => Limit[subscription] <= granted
    /\ \A r \in Actors : At(r, "booking") => request[r].limit <= granted

\* A plan comes into force with its limit granted, and no limit is taken back.
LEMMA GrantedGrows ==
    ASSUME MeterTypeOK, subscription # NoPlan => Limit[subscription] <= granted,
           \/ SubscribeFree \/ (\E e \in Events : ApplyEvent(e))
           \/ UNCHANGED <<subscription, granted>>
    PROVE  /\ granted <= granted' /\ granted' \in Nat
           /\ subscription' # NoPlan => Limit[subscription'] <= granted'
<1> USE UsageMeterAssumption DEF MeterTypeOK
<1>1. ASSUME NEW p \in Plans, Adopt(p)
      PROVE  /\ granted <= granted' /\ granted' \in Nat
             /\ subscription' # NoPlan => Limit[subscription'] <= granted'
    BY <1>1 DEF Adopt, Larger
<1>2. CASE SubscribeFree
    BY <1>1, <1>2 DEF SubscribeFree
<1>3. ASSUME NEW e \in Events, ApplyEvent(e) PROVE \E p \in Plans : Adopt(p)
    BY <1>3 DEF ApplyEvent
<1> QED
    BY <1>1, <1>2, <1>3

\* What a request learns in a step of its own is a granted limit.
LEMMA LimitsStayGranted ==
    ASSUME TypeOK, LimitsGranted, [Next]_vars
    PROVE  LimitsGranted' /\ granted <= granted' /\ granted' \in Nat
<1>1. /\ granted <= granted' /\ granted' \in Nat
      /\ subscription' # NoPlan => Limit[subscription'] <= granted'
    <2>1. \/ SubscribeFree \/ (\E e \in Events : ApplyEvent(e))
          \/ UNCHANGED <<subscription, granted>>
        BY DEF Next, vars, meter, plans, Reads, Writes, StartCreate, Overview, Undo, Subscribe, Consume,
            InsertFails, File, FileFails, Update, ArchiveRecord, Refund, Refused, GiveUp, Insert,
            InsertUnanswered, StartUpdate, StartDelete, Shown, ArchiveEntity, NextMonth, ConfigurePrices,
            Subscribed, Book, GiveBack
    <2> QED
        BY <2>1, GrantedGrows DEF TypeOK, LimitsGranted
<1>2. ASSUME NEW q \in Actors, At(q, "booking")'
      PROVE  request'[q].limit <= granted'
    <2> USE DEF TypeOK, MeterTypeOK
    <2>1. CASE request'[q] = request[q]
        <3>1. At(q, "booking") /\ request[q].limit <= granted /\ request[q].limit \in Nat
            BY <1>2, <2>1, RequestShape DEF At, LimitsGranted
        <3> QED
            BY <1>1, <2>1, <3>1
    <2>2. CASE request'[q] # request[q]
        <3>1. Overview(q) \/ Subscribe(q)
            <4>1. ASSUME NEW r \in Actors, NEW x, Goes(r, x), x.pc # "booking" PROVE FALSE
                BY <1>2, <2>2, <4>1 DEF At, Goes
            <4>2. ASSUME NEW r \in Actors, Reads(r) \/ Writes(r), ~ Overview(r), ~ Subscribe(r)
                  PROVE  \E x : Goes(r, x) /\ x.pc # "booking"
                <5>1. CASE StartCreate(r)
                    BY <5>1 DEF StartCreate
                <5>4. CASE Undo(r)
                    <6>1. CASE entity = "active"
                        BY <5>4, <6>1 DEF Undo
                    <6>2. CASE entity # "active"
                        BY <5>4, <6>2 DEF Undo, Idle
                    <6> QED
                        BY <6>1, <6>2
                <5>2. CASE Consume(r) \/ InsertFails(r) \/ File(r) \/ FileFails(r)
                    BY <5>2 DEF Consume, InsertFails, File, FileFails, Idle
                <5>3. CASE Update(r) \/ ArchiveRecord(r) \/ Refund(r) \/ Refused(r) \/ GiveUp(r)
                    BY <5>3 DEF Update, ArchiveRecord, Refund, Refused, GiveUp, Idle
                <5> QED
                    BY <4>2, <5>1, <5>2, <5>3, <5>4 DEF Reads, Writes
            <4>3. ASSUME NEW r \in Actors, NEW i \in Records,
                         Insert(r, i) \/ InsertUnanswered(r, i) \/ StartUpdate(r, i) \/ StartDelete(r, i)
                  PROVE  \E x : Goes(r, x) /\ x.pc # "booking"
                <5>1. CASE Insert(r, i)
                    <6>1. CASE request[r].op = "submit"
                        BY <5>1, <6>1 DEF Insert
                    <6>2. CASE request[r].op # "submit"
                        BY <5>1, <6>2 DEF Insert, Idle
                    <6> QED
                        BY <6>1, <6>2
                <5>2. CASE InsertUnanswered(r, i)
                    BY <5>2 DEF InsertUnanswered
                <5>3. CASE StartUpdate(r, i)
                    BY <5>3 DEF StartUpdate, Shown
                <5>4. CASE StartDelete(r, i)
                    BY <5>4 DEF StartDelete, Shown
                <5> QED
                    BY <4>3, <5>1, <5>2, <5>3, <5>4
            <4>4. \E r \in Actors : Overview(r) \/ Subscribe(r)
                BY <2>2, <4>1, <4>2, <4>3 DEF Next, vars, ArchiveEntity, Others
            <4> QED
                BY <2>2, <4>4 DEF Overview, Subscribe, Goes
        <3>2. CASE Overview(q)
            BY <1>1, <1>2, <3>2 DEF Overview, Subscribed, Goes, At, LimitsGranted, meter, plans
        <3>3. CASE Subscribe(q)
            BY <1>1, <3>3, UsageMeterAssumption DEF Subscribe, SubscribeFree, Adopt, Goes
        <3> QED
            BY <3>1, <3>2, <3>3
    <2> QED
        BY <2>1, <2>2
<1> QED
    BY <1>1, <1>2 DEF LimitsGranted

\* No month's counter passes the largest limit the tenant ever had, however stale
\* the limit a request read is when it books.
THEOREM QuotaHolds == Spec => []QuotaHeld
<1>1. Init => LimitsGranted /\ QuotaHeld
    BY DEF Init, MeterInit, LimitsGranted, QuotaHeld, At, Idle, Months
<1>2. TypeOK /\ LimitsGranted /\ QuotaHeld /\ [Next]_vars => LimitsGranted' /\ QuotaHeld'
    <2> SUFFICES ASSUME TypeOK, LimitsGranted, QuotaHeld, [Next]_vars
                 PROVE  LimitsGranted' /\ QuotaHeld'
        OBVIOUS
    <2>1. LimitsGranted' /\ granted <= granted' /\ granted' \in Nat
        BY LimitsStayGranted
    <2>2. \A m \in Months : usage[m] \in Nat /\ usage[m] <= granted /\ granted \in Nat
        BY DEF QuotaHeld, TypeOK, MeterTypeOK
    <2>3. CASE UNCHANGED usage
        BY <2>1, <2>2, <2>3 DEF QuotaHeld, Months
    <2>4. ASSUME NEW r \in Actors, Consume(r) PROVE QuotaHeld'
        <3>1. usage[month] + 1 <= granted
            <4>1. request[r].limit \in Nat /\ request[r].limit <= granted /\ month \in Months
                BY <2>4, RequestShape DEF Consume, LimitsGranted, TypeOK, MeterTypeOK
            <4> QED
                BY <2>2, <2>4, <4>1 DEF Consume, Admits
        <3> QED
            BY <2>1, <2>2, <2>4, <3>1 DEF Consume, Book, QuotaHeld, TypeOK, MeterTypeOK, Months
    <2>5. ASSUME NEW r \in Actors, Refund(r) PROVE QuotaHeld'
        <3>1. usage' = [usage EXCEPT ![month] = IF @ > 0 THEN @ - 1 ELSE 0]
            BY <2>5 DEF Refund, GiveBack
        <3>2. \A m \in Months : usage'[m] \in Nat /\ usage'[m] <= usage[m]
            BY <2>2, <3>1 DEF TypeOK, MeterTypeOK
        <3> QED
            BY <2>1, <2>2, <3>2 DEF QuotaHeld, Months
    <2>6. UNCHANGED usage \/ \E r \in Actors : Consume(r) \/ Refund(r)
        BY DEF Next, vars, meter, plans, Reads, Writes, StartCreate, Overview, Undo, Subscribe, SubscribeFree,
            InsertFails, File, FileFails, Update, ArchiveRecord, Refused, GiveUp, Insert,
            InsertUnanswered, StartUpdate, StartDelete, Shown, ArchiveEntity, NextMonth, ConfigurePrices,
            ApplyEvent, Subscribed
    <2> QED
        BY <2>1, <2>3, <2>4, <2>5, <2>6
<1> QED
    BY <1>1, <1>2, TypeCorrect, PTL DEF Spec

-----------------------------------------------------------------------------
(* Subscription events *)

\* Appending a new event to the history.
LEMMA AppendedOnce ==
    ASSUME NEW e \in Events, EventsAppliedOnce, applied \in Seq(Events), e \notin processed,
           applied' = Append(applied, e), processed' = processed \cup {e},
           subscription' = EventPlan[e]
    PROVE  EventsAppliedOnce'
<1> DEFINE n == Len(applied)
<1>1. n \in Nat /\ Len(applied') = n + 1 /\ applied'[n + 1] = e /\ applied' # <<>>
    OBVIOUS
<1>2. \A k \in 1..n : applied'[k] = applied[k] /\ applied[k] # e
    BY DEF EventsAppliedOnce
<1>3. 1..(n + 1) = (1..n) \cup {n + 1}
    BY <1>1
<1> HIDE DEF n
<1>4. processed' = {applied'[k] : k \in 1..(n + 1)}
    <2>1. processed = {applied[k] : k \in 1..n}
        BY DEF EventsAppliedOnce, n
    <2>2. {applied'[k] : k \in 1..(n + 1)} = {applied[k] : k \in 1..n} \cup {e}
        BY <1>1, <1>2, <1>3
    <2> QED
        BY <2>1, <2>2
<1>5. \A j, k \in 1..(n + 1) : applied'[j] = applied'[k] => j = k
    BY <1>1, <1>2, <1>3 DEF EventsAppliedOnce, n
<1> QED
    BY <1>1, <1>4, <1>5 DEF EventsAppliedOnce

\* Every event recorded as processed took effect once, however often and in whatever
\* order it is delivered, and no first reading replaces what an event brought.
THEOREM EventsOnce == Spec => []EventsAppliedOnce
<1>1. Init => EventsAppliedOnce
    <2>1. Len(<<>>) = 0
        OBVIOUS
    <2>2. 1..0 = {}
        OBVIOUS
    <2> QED
        BY <2>1, <2>2 DEF Init, MeterInit, EventsAppliedOnce
<1>2. TypeOK /\ EventsAppliedOnce /\ [Next]_vars => EventsAppliedOnce'
    <2> SUFFICES ASSUME TypeOK, EventsAppliedOnce, [Next]_vars PROVE EventsAppliedOnce'
        OBVIOUS
    <2>1. CASE UNCHANGED <<applied, processed, subscription>>
        BY <2>1 DEF EventsAppliedOnce
    <2>2. ASSUME NEW e \in Events, ApplyEvent(e) PROVE EventsAppliedOnce'
        BY <2>2, AppendedOnce DEF ApplyEvent, Adopt, TypeOK, MeterTypeOK
    <2>3. CASE SubscribeFree
        <3>1. applied = <<>>
            <4>1. applied # <<>> => Len(applied) \in 1..Len(applied) /\ applied[Len(applied)] \in Events
                BY DEF TypeOK, MeterTypeOK
            <4> QED
                BY <2>3, <4>1, UsageMeterAssumption DEF SubscribeFree, EventsAppliedOnce
        <3> QED
            BY <2>3, <3>1 DEF SubscribeFree, EventsAppliedOnce
    <2>4. UNCHANGED <<applied, processed, subscription>> \/ SubscribeFree \/ \E e \in Events : ApplyEvent(e)
        BY DEF Next, vars, meter, plans, Reads, Writes, StartCreate, Overview, Undo, Subscribe, Consume,
            InsertFails, File, FileFails, Update, ArchiveRecord, Refund, Refused, GiveUp, Insert,
            InsertUnanswered, StartUpdate, StartDelete, Shown, ArchiveEntity, NextMonth, ConfigurePrices,
            Subscribed, Book, GiveBack
    <2> QED
        BY <2>1, <2>2, <2>3, <2>4
<1> QED
    BY <1>1, <1>2, TypeCorrect, PTL DEF Spec
-----------------------------------------------------------------------------
(* Submissions *)

\* A request that still has to file or to undo has a record created by a submission,
\* its own alone, that no compensation archived, and that has a row only if an answer
\* was lost.
Holds(r) ==
    LET i == request[r].id
    IN  /\ record[i] # Absent
        /\ record[i].op = "submit" /\ record[i].by # "undo"
        /\ i \in submission => i \in lapsed
        /\ At(r, "archiving") => request[r].version = 1
        /\ \A q \in Actors : Submitting(q) /\ request[q].id = i => q = r

HoldersHold == \A r \in Actors : Submitting(r) => Holds(r)

\* Rows name records; a record's history agrees with its status.
RowsAgree ==
    /\ \A i \in submission : record[i] # Absent
    /\ \A i \in Records : record[i] # Absent =>
            /\ record[i].version >= 1
            /\ record[i].status = "active" <=> record[i].by = "nobody"

SubmissionInv == HoldersHold /\ RowsAgree /\ SubmissionsMatchRecords

\* A step that writes no row and begins and ends no submission.
LEMMA QuietStep ==
    ASSUME SubmissionInv, UNCHANGED <<rows, lapsed>>,
           \A q \in Actors : /\ Submitting(q)' <=> Submitting(q)
                             /\ Submitting(q) => request'[q] = request[q]
    PROVE  SubmissionInv'
<1> USE DEF SubmissionInv, rows
<1>1. HoldersHold'
    BY DEF HoldersHold, Holds, At
<1>2. RowsAgree'
    BY DEF RowsAgree
<1>3. SubmissionsMatchRecords'
    BY DEF SubmissionsMatchRecords
<1> QED
    BY <1>1, <1>2, <1>3

\* A request that neither submits before its step nor after it.
LEMMA QuietRequest ==
    ASSUME TypeOK, SubmissionInv, UNCHANGED <<rows, lapsed>>,
           NEW r \in Actors, NEW x, Goes(r, x), ~ Submitting(r),
           x.pc \notin {"filing", "undoing"}, x.pc = "archiving" => x.by = "user"
    PROVE  SubmissionInv'
<1>1. request'[r] = x /\ \A q \in Actors : q # r => request'[q] = request[q]
    BY DEF Goes, TypeOK
<1>2. ~ Submitting(r)'
    BY <1>1 DEF Submitting, At
<1>3. \A q \in Actors : q # r => (Submitting(q)' <=> Submitting(q))
    BY <1>1 DEF Submitting, At
<1> QED
    BY <1>1, <1>2, <1>3, QuietStep
\* A step of one request leaves the others where they are.
LEMMA OwnStep ==
    ASSUME TypeOK, NEW r \in Actors, NEW x, Goes(r, x)
    PROVE  /\ request'[r] = x
           /\ \A q \in Actors \ {r} : /\ request'[q] = request[q]
                                      /\ Submitting(q)' <=> Submitting(q)
                                      /\ At(q, "archiving")' <=> At(q, "archiving")
<1>1. request'[r] = x /\ \A q \in Actors \ {r} : request'[q] = request[q]
    BY DEF Goes, TypeOK
<1> QED
    BY <1>1 DEF Submitting, At

\* Two requests never hold the same record.
LEMMA OwnRecord ==
    ASSUME SubmissionInv, NEW r \in Actors, NEW q \in Actors \ {r}, Submitting(r), Submitting(q)
    PROVE  request[q].id # request[r].id
    BY DEF SubmissionInv, HoldersHold, Holds

\* The row of a submission joins the record its request holds.
LEMMA FileStep ==
    ASSUME TypeOK, SubmissionInv, NEW r \in Actors, File(r)
    PROVE  SubmissionInv'
<1> DEFINE i == request[r].id
<1>1. At(r, "filing") /\ Submitting(r) /\ i \in Records
    BY RequestShape DEF File, Submitting, TypeOK
<1>2. Holds(r)
    BY <1>1 DEF SubmissionInv, HoldersHold
<1>3. /\ submission' = submission \cup {i} /\ Goes(r, Idle)
      /\ UNCHANGED <<entity, record, lapsed>>
    BY DEF File
<1>4. ~ Submitting(r)'
    BY <1>3, OwnStep DEF Submitting, At, Idle
<1>5. HoldersHold'
    <2> SUFFICES ASSUME NEW q \in Actors, Submitting(q)' PROVE Holds(q)'
        BY DEF HoldersHold
    <2>1. q # r /\ Submitting(q) /\ Holds(q) /\ request'[q] = request[q]
        BY <1>3, <1>4, OwnStep DEF SubmissionInv, HoldersHold
    <2>2. request[q].id # i
        BY <1>1, <2>1, OwnRecord
    <2> QED
        BY <1>3, <1>4, <2>1, <2>2, OwnStep DEF Holds
<1>6. RowsAgree'
    BY <1>2, <1>3 DEF SubmissionInv, RowsAgree, Holds
<1>7. SubmissionsMatchRecords'
    <2> SUFFICES ASSUME NEW j \in Records \ lapsed
                 PROVE  /\ /\ record[j].status = "active" /\ record[j].op = "submit" /\ j \notin submission'
                           /\ ~ \E q \in Actors : Submitting(q)' /\ request'[q].id = j
                           => record[j].version > 1 \/ entity = "archived"
                        /\ j \in submission' /\ record[j].status = "archived" => record[j].by = "user"
        BY <1>3 DEF SubmissionsMatchRecords
    <2>1. CASE j = i
        <3>1. record[i].status = "archived" => record[i].by \in {"user", "undo"}
            BY <1>1, <1>2, RecordShape DEF SubmissionInv, RowsAgree, TypeOK, Holds
        <3> QED
            BY <1>2, <1>3, <2>1, <3>1 DEF Holds
    <2>2. CASE j # i
        BY <1>3, <2>2, OwnStep DEF SubmissionInv, SubmissionsMatchRecords
    <2> QED
        BY <2>1, <2>2
<1> QED
    BY <1>5, <1>6, <1>7 DEF SubmissionInv

\* A failed row leaves the record held, and lapsed if the row is there all the same.
LEMMA FileFailsStep ==
    ASSUME TypeOK, SubmissionInv, NEW r \in Actors, FileFails(r)
    PROVE  SubmissionInv'
<1> DEFINE i == request[r].id
           x == [pc |-> "undoing", id |-> i]
<1>1. At(r, "filing") /\ Submitting(r) /\ i \in Records
    BY RequestShape DEF FileFails, Submitting, TypeOK
<1>2. Holds(r)
    BY <1>1 DEF SubmissionInv, HoldersHold
<1>3. /\ Goes(r, x) /\ UNCHANGED <<entity, record>>
      /\ \/ UNCHANGED <<submission, lapsed>>
         \/ submission' = submission \cup {i} /\ lapsed' = lapsed \cup {i}
    BY DEF FileFails
<1>4. Submitting(r)' /\ request'[r].id = i /\ ~ At(r, "archiving")'
    BY <1>3, OwnStep DEF Submitting, At
<1>5. HoldersHold'
    <2> SUFFICES ASSUME NEW q \in Actors, Submitting(q)' PROVE Holds(q)'
        BY DEF HoldersHold
    <2>1. CASE q = r
        BY <1>2, <1>3, <1>4, <2>1, OwnStep DEF Holds
    <2>2. CASE q # r
        <3>1. Submitting(q) /\ Holds(q) /\ request'[q] = request[q]
            BY <1>3, <2>2, OwnStep DEF SubmissionInv, HoldersHold
        <3>2. request[q].id # i
            BY <1>1, <2>2, <3>1, OwnRecord
        <3> QED
            BY <1>3, <1>4, <2>2, <3>1, <3>2, OwnStep DEF Holds
    <2> QED
        BY <2>1, <2>2
<1>6. RowsAgree'
    BY <1>2, <1>3 DEF SubmissionInv, RowsAgree, Holds
<1>7. SubmissionsMatchRecords'
    BY <1>1, <1>3, <1>4, OwnStep DEF SubmissionInv, SubmissionsMatchRecords
<1> QED
    BY <1>5, <1>6, <1>7 DEF SubmissionInv

\* The compensation goes on with the same record, or the entity is archived.
LEMMA UndoStep ==
    ASSUME TypeOK, SubmissionInv, NEW r \in Actors, Undo(r)
    PROVE  SubmissionInv'
<1> DEFINE i == request[r].id
           x == IF entity = "active" THEN [pc |-> "archiving", id |-> i, version |-> 1, by |-> "undo"] ELSE Idle
<1>1. At(r, "undoing") /\ Submitting(r) /\ i \in Records /\ Holds(r)
    BY RequestShape DEF Undo, Submitting, TypeOK, SubmissionInv, HoldersHold
<1>2. Goes(r, x) /\ UNCHANGED <<entity, record, submission, lapsed>>
    BY DEF Undo, rows
<1>3. Submitting(r)' => /\ entity = "active" /\ request'[r].id = i /\ request'[r].version = 1
    BY <1>2, OwnStep DEF Submitting, At, Idle
<1>4. ~ Submitting(r)' => entity = "archived"
    <2>1. entity = "active" => Submitting(r)'
        BY <1>2, OwnStep DEF Submitting, At
    <2> QED
        BY <2>1 DEF TypeOK
<1>5. HoldersHold'
    <2> SUFFICES ASSUME NEW q \in Actors, Submitting(q)' PROVE Holds(q)'
        BY DEF HoldersHold
    <2>1. CASE q = r
        BY <1>1, <1>2, <1>3, <2>1, OwnStep DEF Holds
    <2>2. CASE q # r
        <3>1. Submitting(q) /\ Holds(q) /\ request'[q] = request[q]
            BY <1>2, <2>2, OwnStep DEF SubmissionInv, HoldersHold
        <3>2. request[q].id # i
            BY <1>1, <2>2, <3>1, OwnRecord
        <3> QED
            BY <1>2, <1>3, <2>2, <3>1, <3>2, OwnStep DEF Holds
    <2> QED
        BY <2>1, <2>2
<1>6. RowsAgree'
    BY <1>2 DEF SubmissionInv, RowsAgree
<1>7. SubmissionsMatchRecords'
    <2>1. CASE Submitting(r)'
        BY <1>1, <1>2, <1>3, <2>1, OwnStep DEF SubmissionInv, SubmissionsMatchRecords
    <2>2. CASE ~ Submitting(r)'
        BY <1>2, <1>4, <2>2 DEF SubmissionInv, SubmissionsMatchRecords
    <2> QED
        BY <2>1, <2>2
<1> QED
    BY <1>5, <1>6, <1>7 DEF SubmissionInv
\* An update moves a record past the version its compensation asks for.
LEMMA UpdateStep ==
    ASSUME TypeOK, SubmissionInv, NEW r \in Actors, Update(r)
    PROVE  SubmissionInv'
<1> DEFINE i == request[r].id
<1>1. At(r, "updating") /\ ~ Submitting(r) /\ i \in Records /\ record[i].status = "active"
    BY RequestShape DEF Update, Submitting, TypeOK, Current, At
<1>2. /\ record' = [record EXCEPT ![i] = [record[i] EXCEPT !.version = @ + 1]]
      /\ Goes(r, Idle) /\ UNCHANGED <<entity, submission, lapsed>>
    BY DEF Update
<1>3. ~ Submitting(r)'
    BY <1>2, OwnStep DEF Submitting, At, Idle
<1>4. /\ record[i] # Absent /\ record[i].version \in Nat /\ record[i].version >= 1
      /\ record'[i] # Absent /\ record'[i].version = record[i].version + 1
      /\ record'[i].status = record[i].status /\ record'[i].by = record[i].by /\ record'[i].op = record[i].op
      /\ \A j \in Records \ {i} : record'[j] = record[j]
    <2>1. record[i] \in [status : {"active", "archived"}, version : Nat, op : Creating,
                         by : {"nobody", "user", "undo"}, acknowledged : BOOLEAN]
        BY <1>1, RecordShape DEF TypeOK
    <2>2. record[i] # Absent
        BY <1>1 DEF Absent
    <2>3. record'[i] = [record[i] EXCEPT !.version = @ + 1] /\ \A j \in Records \ {i} : record'[j] = record[j]
        BY <1>1, <1>2 DEF TypeOK
    <2>4. /\ record'[i].version = record[i].version + 1 /\ record'[i].status = record[i].status
          /\ record'[i].by = record[i].by /\ record'[i].op = record[i].op
        BY <2>1, <2>3
    <2>5. record'[i] # Absent
        BY <1>1, <2>4 DEF Absent
    <2> QED
        BY <1>1, <2>1, <2>2, <2>3, <2>4, <2>5 DEF SubmissionInv, RowsAgree
<1>5. HoldersHold'
    <2> SUFFICES ASSUME NEW q \in Actors, Submitting(q)' PROVE Holds(q)'
        BY DEF HoldersHold
    <2>1. q # r /\ Submitting(q) /\ Holds(q) /\ request'[q] = request[q] /\ request[q].id \in Records
        BY <1>2, <1>3, OwnStep, RequestShape DEF SubmissionInv, HoldersHold, TypeOK
    <2> QED
        BY <1>2, <1>3, <1>4, <2>1, OwnStep DEF Holds
<1>6. RowsAgree'
    BY <1>2, <1>4 DEF SubmissionInv, RowsAgree, TypeOK
<1>7. SubmissionsMatchRecords'
    <2>1. \A q \in Actors : Submitting(q)' <=> Submitting(q)
        BY <1>1, <1>2, <1>3, OwnStep
    <2>2. \A q \in Actors : Submitting(q) => request'[q] = request[q]
        BY <1>1, <1>2, OwnStep
    <2> QED
        BY <1>2, <1>4, <2>1, <2>2 DEF SubmissionInv, SubmissionsMatchRecords
<1> QED
    BY <1>5, <1>6, <1>7 DEF SubmissionInv

\* Only the holder's own compensation archives a held record in its name.
LEMMA ArchiveStep ==
    ASSUME TypeOK, SubmissionInv, NEW r \in Actors, ArchiveRecord(r)
    PROVE  SubmissionInv'
<1> DEFINE i == request[r].id
           x == [pc |-> "refunding"]
<1>1. /\ At(r, "archiving") /\ i \in Records /\ record[i].status = "active"
      /\ request[r].by \in {"user", "undo"}
    BY RequestShape DEF ArchiveRecord, TypeOK, Current
<1>2. Goes(r, x) /\ UNCHANGED <<entity, submission, lapsed>>
    BY DEF ArchiveRecord
<1>3. ~ Submitting(r)'
    BY <1>2, OwnStep DEF Submitting, At
<1>4. request[r].by = "undo" => Submitting(r) /\ Holds(r)
    BY <1>1 DEF Submitting, SubmissionInv, HoldersHold
<1>5. /\ record'[i].status = "archived" /\ record'[i] # Absent /\ record'[i].by = request[r].by
      /\ record'[i].op = record[i].op /\ record'[i].version >= 1
      /\ \A j \in Records \ {i} : record'[j] = record[j]
    <2> DEFINE b == [record[i] EXCEPT !.status = "archived"]
               c == [b EXCEPT !.version = @ + 1]
               d == [c EXCEPT !.by = request[r].by]
               Columns == [status : {"active", "archived"}, version : Nat, op : Creating,
                           by : {"nobody", "user", "undo"}, acknowledged : BOOLEAN]
    <2>1. record[i] \in Columns /\ record[i].version >= 1
        BY <1>1, RecordShape DEF TypeOK, SubmissionInv, RowsAgree, Absent
    <2>2. b \in Columns /\ b.version = record[i].version /\ b.op = record[i].op /\ b.status = "archived"
        BY <2>1
    <2>3. c \in Columns /\ c.version = b.version + 1 /\ c.op = b.op /\ c.status = b.status
        <3> HIDE DEF b
        <3> QED
            BY <2>2
    <2>4. d.version = c.version /\ d.op = c.op /\ d.status = c.status /\ d.by = request[r].by
        <3> HIDE DEF c
        <3> QED
            BY <2>3
    <2>5. record' = [record EXCEPT ![i] = d]
        BY <1>1 DEF ArchiveRecord
    <2> HIDE DEF b, c, d
    <2>6. record'[i] = d /\ \A j \in Records \ {i} : record'[j] = record[j]
        BY <1>1, <2>5 DEF TypeOK
    <2>7. d.status = "archived" /\ d.op = record[i].op /\ d.version >= 1
        BY <2>1, <2>2, <2>3, <2>4
    <2> QED
        BY <2>4, <2>6, <2>7 DEF Absent
<1>6. HoldersHold'
    <2> SUFFICES ASSUME NEW q \in Actors, Submitting(q)' PROVE Holds(q)'
        BY DEF HoldersHold
    <2>1. q # r /\ Submitting(q) /\ Holds(q) /\ request'[q] = request[q] /\ request[q].id \in Records
        BY <1>2, <1>3, OwnStep, RequestShape DEF SubmissionInv, HoldersHold, TypeOK
    <2>2. request[q].id = i => request[r].by = "user"
        BY <1>1, <1>4, <2>1, OwnRecord
    <2> QED
        BY <1>2, <1>3, <1>5, <2>1, <2>2, OwnStep DEF Holds
<1>7. RowsAgree'
    BY <1>1, <1>2, <1>5 DEF SubmissionInv, RowsAgree, TypeOK
<1>8. SubmissionsMatchRecords'
    <2> SUFFICES ASSUME NEW j \in Records \ lapsed
                 PROVE  /\ /\ record'[j].status = "active" /\ record'[j].op = "submit" /\ j \notin submission
                           /\ ~ \E q \in Actors : Submitting(q)' /\ request'[q].id = j
                           => record'[j].version > 1 \/ entity = "archived"
                        /\ j \in submission /\ record'[j].status = "archived" => record'[j].by = "user"
        BY <1>2 DEF SubmissionsMatchRecords
    <2>1. CASE j = i
        BY <1>1, <1>4, <1>5, <2>1 DEF Holds
    <2>2. CASE j # i
        <3>1. \A q \in Actors : Submitting(q) /\ request[q].id = j => Submitting(q)' /\ request'[q].id = j
            BY <1>2, <2>2, OwnStep
        <3> QED
            BY <1>5, <2>2, <3>1 DEF SubmissionInv, SubmissionsMatchRecords
    <2> QED
        BY <2>1, <2>2
<1> QED
    BY <1>6, <1>7, <1>8 DEF SubmissionInv

\* A refused compensation finds its record updated or archived.
LEMMA RefusedStep ==
    ASSUME TypeOK, SubmissionInv, NEW r \in Actors, Refused(r)
    PROVE  SubmissionInv'
<1> DEFINE i == request[r].id
<1>1. /\ Goes(r, Idle) /\ UNCHANGED <<rows, lapsed>> /\ ~ Submitting(r)'
    BY OwnStep DEF Refused, Submitting, At, Idle
<1>2. CASE ~ Submitting(r)
    BY <1>1, <1>2, OwnStep, QuietStep
<1>3. CASE Submitting(r)
    <2>1. At(r, "archiving") /\ i \in Records /\ Holds(r) /\ request[r].version = 1 /\ ~ Current(i, 1)
        BY <1>3, RequestShape DEF Refused, Submitting, At, SubmissionInv, HoldersHold, Holds, TypeOK
    <2>2. record[i].status = "active" => record[i].version > 1
        <3>1. record[i].status = "active" => record[i].version \in Nat
            BY <2>1, RecordShape DEF TypeOK
        <3> QED
            BY <2>1, <3>1 DEF Current, SubmissionInv, RowsAgree, Holds
    <2>3. HoldersHold'
        <3> SUFFICES ASSUME NEW q \in Actors, Submitting(q)' PROVE Holds(q)'
            BY DEF HoldersHold
        <3>1. q # r /\ Submitting(q) /\ Holds(q) /\ request'[q] = request[q]
            BY <1>1, OwnStep DEF SubmissionInv, HoldersHold
        <3> QED
            BY <1>1, <3>1, OwnStep DEF Holds, rows
    <2>4. RowsAgree'
        BY <1>1 DEF SubmissionInv, RowsAgree, rows
    <2>5. SubmissionsMatchRecords'
        <3>1. \A j \in Records \ {i}, q \in Actors :
                Submitting(q) /\ request[q].id = j => Submitting(q)' /\ request'[q].id = j
            BY <1>1, OwnStep
        <3> QED
            BY <1>1, <2>2, <3>1 DEF SubmissionInv, SubmissionsMatchRecords, rows
    <2> QED
        BY <2>3, <2>4, <2>5 DEF SubmissionInv
<1> QED
    BY <1>2, <1>3

\* A request that dies or fails lets its record go as lapsed.
LEMMA GiveUpStep ==
    ASSUME TypeOK, SubmissionInv, NEW r \in Actors, GiveUp(r)
    PROVE  SubmissionInv'
<1> DEFINE i == request[r].id
<1>1. /\ Goes(r, Idle) /\ UNCHANGED rows /\ ~ Submitting(r)'
    BY OwnStep DEF GiveUp, Submitting, At, Idle
<1>2. CASE ~ Submitting(r)
    BY <1>1, <1>2, OwnStep, QuietStep DEF GiveUp
<1>3. CASE Submitting(r)
    <2>1. lapsed' = lapsed \cup {i}
        BY <1>3 DEF GiveUp
    <2>2. HoldersHold'
        <3> SUFFICES ASSUME NEW q \in Actors, Submitting(q)' PROVE Holds(q)'
            BY DEF HoldersHold
        <3>1. q # r /\ Submitting(q) /\ Holds(q) /\ request'[q] = request[q]
            BY <1>1, OwnStep DEF SubmissionInv, HoldersHold
        <3> QED
            BY <1>1, <2>1, <3>1, OwnStep DEF Holds, rows
    <2>3. RowsAgree'
        BY <1>1 DEF SubmissionInv, RowsAgree, rows
    <2>4. SubmissionsMatchRecords'
        <3>1. \A j \in Records \ {i}, q \in Actors :
                Submitting(q) /\ request[q].id = j => Submitting(q)' /\ request'[q].id = j
            BY <1>1, OwnStep
        <3> QED
            BY <1>1, <2>1, <3>1 DEF SubmissionInv, SubmissionsMatchRecords, rows
    <2> QED
        BY <2>2, <2>3, <2>4 DEF SubmissionInv
<1> QED
    BY <1>2, <1>3

\* A new record is nobody else's; a submission's is held until its row is there.
LEMMA InsertStep ==
    ASSUME TypeOK, SubmissionInv, NEW r \in Actors, NEW i \in Records,
           Insert(r, i) \/ InsertUnanswered(r, i)
    PROVE  SubmissionInv'
<1>1. /\ At(r, "inserting") /\ ~ Submitting(r) /\ record[i] = Absent
      /\ UNCHANGED <<entity, submission>>
    BY DEF Insert, InsertUnanswered, Submitting, At
<1>2. /\ record'[i].status = "active" /\ record'[i].version = 1 /\ record'[i].by = "nobody"
      /\ record'[i].op = request[r].op /\ record'[i] # Absent
      /\ \A j \in Records \ {i} : record'[j] = record[j]
    <2>1. \E b \in BOOLEAN : record' = [record EXCEPT ![i] = New(request[r].op, b)]
        BY DEF Insert, InsertUnanswered
    <2> QED
        BY <2>1 DEF TypeOK, New, Absent
<1>3. i \notin submission /\ \A q \in Actors : Submitting(q) => request[q].id # i
    BY <1>1 DEF SubmissionInv, RowsAgree, HoldersHold, Holds
<1>4. \E x : /\ Goes(r, x)
             /\ \/ /\ x.pc \notin {"filing", "undoing", "archiving"}
                   /\ \/ lapsed' = lapsed \cup {i}
                      \/ request[r].op # "submit" /\ lapsed' = lapsed
                \/ x = [pc |-> "filing", id |-> i] /\ request[r].op = "submit" /\ lapsed' = lapsed
    <2>1. CASE Insert(r, i)
        <3>1. CASE request[r].op = "submit"
            BY <2>1, <3>1 DEF Insert
        <3>2. CASE request[r].op # "submit"
            BY <2>1, <3>2 DEF Insert, Idle
        <3> QED
            BY <3>1, <3>2
    <2>2. CASE InsertUnanswered(r, i)
        <3> DEFINE y == [pc |-> "refunding"]
        <3>1. Goes(r, y) /\ lapsed' = lapsed \cup {i} /\ y.pc \notin {"filing", "undoing", "archiving"}
            BY <2>2 DEF InsertUnanswered
        <3> HIDE DEF y
        <3> QED
            BY <3>1
    <2> QED
        BY <2>1, <2>2
<1>5. \A q \in Actors \ {r} : /\ request'[q] = request[q]
                              /\ Submitting(q)' <=> Submitting(q)
                              /\ At(q, "archiving")' <=> At(q, "archiving")
    BY <1>4, OwnStep
<1>6. Submitting(r)' => /\ request'[r].id = i /\ request[r].op = "submit" /\ ~ At(r, "archiving")'
    BY <1>4, OwnStep DEF Submitting, At
<1>7. ~ Submitting(r)' => i \in lapsed' \/ request[r].op # "submit"
    <2>1. request'[r] = [pc |-> "filing", id |-> i] => Submitting(r)'
        BY DEF Submitting, At
    <2>2. PICK x : /\ Goes(r, x)
                   /\ \/ lapsed' = lapsed \cup {i} \/ request[r].op # "submit"
                      \/ x = [pc |-> "filing", id |-> i]
        BY <1>4
    <2>3. request'[r] = x
        BY <2>2, OwnStep
    <2> QED
        BY <2>1, <2>2, <2>3
<1>8. lapsed \subseteq lapsed' /\ lapsed' \subseteq lapsed \cup {i}
    BY <1>4
<1>9. HoldersHold'
    <2> SUFFICES ASSUME NEW q \in Actors, Submitting(q)' PROVE Holds(q)'
        BY DEF HoldersHold
    <2>1. CASE q = r
        BY <1>1, <1>2, <1>3, <1>5, <1>6, <2>1 DEF Holds
    <2>2. CASE q # r
        <3>1. Submitting(q) /\ Holds(q) /\ request[q].id \in Records \ {i}
            BY <1>3, <1>5, <2>2, RequestShape DEF SubmissionInv, HoldersHold, TypeOK
        <3> QED
            BY <1>1, <1>2, <1>5, <1>6, <1>8, <2>2, <3>1 DEF Holds
    <2> QED
        BY <2>1, <2>2
<1>10. RowsAgree'
    BY <1>1, <1>2, <1>3 DEF SubmissionInv, RowsAgree, TypeOK
<1>11. SubmissionsMatchRecords'
    <2> SUFFICES ASSUME NEW j \in Records \ lapsed'
                 PROVE  /\ /\ record'[j].status = "active" /\ record'[j].op = "submit" /\ j \notin submission
                           /\ ~ \E q \in Actors : Submitting(q)' /\ request'[q].id = j
                           => record'[j].version > 1 \/ entity = "archived"
                        /\ j \in submission /\ record'[j].status = "archived" => record'[j].by = "user"
        BY <1>1 DEF SubmissionsMatchRecords
    <2>1. CASE j = i
        BY <1>2, <1>3, <1>6, <1>7, <2>1
    <2>2. CASE j # i
        <3>1. \A q \in Actors : Submitting(q) => Submitting(q)' /\ request'[q].id = request[q].id
            BY <1>1, <1>5
        <3> QED
            BY <1>2, <1>8, <2>2, <3>1 DEF SubmissionInv, SubmissionsMatchRecords
    <2> QED
        BY <2>1, <2>2
<1> QED
    BY <1>9, <1>10, <1>11 DEF SubmissionInv
\* An archived entity explains every record without its row.
LEMMA ArchiveEntityStep ==
    ASSUME SubmissionInv, ArchiveEntity
    PROVE  SubmissionInv'
<1>1. entity' = "archived" /\ UNCHANGED <<record, submission, request, lapsed>>
    BY DEF ArchiveEntity
<1>2. HoldersHold'
    BY <1>1 DEF SubmissionInv, HoldersHold, Holds, Submitting, At
<1>3. RowsAgree'
    BY <1>1 DEF SubmissionInv, RowsAgree
<1>4. SubmissionsMatchRecords'
    BY <1>1 DEF SubmissionInv, SubmissionsMatchRecords
<1> QED
    BY <1>2, <1>3, <1>4 DEF SubmissionInv

\* A record accepted through the form has its row once its request has ended, unless
\* the request died or failed in its compensation, the record was updated first, or
\* the entity archived; and no compensation takes a record whose row was answered.
THEOREM SubmissionsMatch == Spec => []SubmissionsMatchRecords
<1>1. Init => SubmissionInv
    BY DEF Init, SubmissionInv, HoldersHold, RowsAgree, SubmissionsMatchRecords, Submitting, At, Idle, Absent
<1>2. TypeOK /\ SubmissionInv /\ [Next]_vars => SubmissionInv'
    <2> SUFFICES ASSUME TypeOK, SubmissionInv, [Next]_vars PROVE SubmissionInv'
        OBVIOUS
    <2>1. ASSUME NEW r \in Actors, Reads(r) \/ Writes(r) PROVE SubmissionInv'
        <3>1. CASE StartCreate(r)
            <4>1. ~ Submitting(r)
                BY <3>1 DEF StartCreate, Submitting, At, Idle
            <4>2. PICK op \in Creating : Goes(r, [pc |-> "overview", op |-> op])
                BY <3>1 DEF StartCreate
            <4> QED
                BY <3>1, <4>1, <4>2, QuietRequest DEF StartCreate
        <3>2. CASE Overview(r)
            <4>1. ~ Submitting(r)
                BY <3>2 DEF Overview, Submitting, At
            <4>2. PICK x : Goes(r, x) /\ x.pc \in {"subscribing", "booking"}
                <5>1. CASE subscription = NoPlan
                    BY <3>2, <5>1 DEF Overview
                <5>2. CASE subscription # NoPlan
                    <6>1. PICK n : Goes(r, [pc |-> "booking", op |-> request[r].op, limit |-> n])
                        BY <3>2, <5>2 DEF Overview
                    <6> QED
                        BY <6>1
                <5> QED
                    BY <5>1, <5>2
            <4> QED
                BY <3>2, <4>1, <4>2, QuietRequest DEF Overview
        <3>3. CASE Subscribe(r)
            <4>1. ~ Submitting(r)
                BY <3>3 DEF Subscribe, Submitting, At
            <4> QED
                BY <3>3, <4>1, QuietRequest DEF Subscribe
        <3>4. CASE Consume(r)
            <4>1. ~ Submitting(r)
                BY <3>4 DEF Consume, Submitting, At
            <4> QED
                BY <3>4, <4>1, QuietRequest DEF Consume
        <3>5. CASE InsertFails(r)
            <4>1. ~ Submitting(r)
                BY <3>5 DEF InsertFails, Submitting, At
            <4> QED
                BY <3>5, <4>1, QuietRequest DEF InsertFails
        <3>6. CASE Refund(r)
            <4>1. ~ Submitting(r)
                BY <3>6 DEF Refund, Submitting, At
            <4> QED
                BY <3>6, <4>1, QuietRequest DEF Refund, Idle
        <3> QED
            BY <2>1, <3>1, <3>2, <3>3, <3>4, <3>5, <3>6, UndoStep, FileStep, FileFailsStep, UpdateStep,
                ArchiveStep, RefusedStep, GiveUpStep DEF Reads, Writes
    <2>2. ASSUME NEW r \in Actors, NEW i \in Records, StartUpdate(r, i) \/ StartDelete(r, i) PROVE SubmissionInv'
        <3>1. ~ Submitting(r) /\ UNCHANGED <<rows, lapsed>>
            BY <2>2 DEF StartUpdate, StartDelete, Shown, Submitting, At, Idle
        <3>2. CASE StartUpdate(r, i)
            BY <3>1, <3>2, QuietRequest DEF StartUpdate, Shown
        <3>3. CASE StartDelete(r, i)
            BY <3>1, <3>3, QuietRequest DEF StartDelete, Shown
        <3> QED
            BY <2>2, <3>2, <3>3
    <2>3. CASE UNCHANGED <<rows, request, lapsed>>
        BY <2>3, QuietStep DEF Submitting, At
    <2> QED
        BY <2>1, <2>2, <2>3, InsertStep, ArchiveEntityStep DEF Next, Others, vars
<1>3. SubmissionInv => SubmissionsMatchRecords
    BY DEF SubmissionInv
<1> QED
    BY <1>1, <1>2, <1>3, TypeCorrect, PTL DEF Spec
-----------------------------------------------------------------------------
(* The meter and the records *)

\* What is counted is finite, whatever the sets of records and requests are.
Finite ==
    IsFiniteSet(Active) /\ IsFiniteSet(Holding) /\ IsFiniteSet(Booked) /\ IsFiniteSet(Unacknowledged)

Ledger == Finite /\ MeterNeverUndercounts

\* Fewer elements count less, and one less by one.
LEMMA Fewer ==
    ASSUME NEW S, IsFiniteSet(S), NEW T, T \subseteq S
    PROVE  /\ IsFiniteSet(T)
           /\ Cardinality(T) \in Nat /\ Cardinality(S) \in Nat /\ Cardinality(T) <= Cardinality(S)
           /\ \A k \in S : T \subseteq S \ {k} => Cardinality(T) + 1 <= Cardinality(S)
<1>1. IsFiniteSet(T) /\ Cardinality(T) <= Cardinality(S)
    BY FS_Subset
<1>2. ASSUME NEW k \in S, T \subseteq S \ {k} PROVE Cardinality(T) + 1 <= Cardinality(S)
    <2>1. IsFiniteSet(S \ {k}) /\ Cardinality(S \ {k}) = Cardinality(S) - 1
        BY FS_RemoveElement
    <2>2. Cardinality(T) <= Cardinality(S \ {k})
        BY <1>2, <2>1, FS_Subset
    <2> QED
        BY <1>1, <2>1, <2>2, FS_CardinalityType
<1> QED
    BY <1>1, <1>2, FS_CardinalityType

\* One element more counts at most one more.
LEMMA OneMore ==
    ASSUME NEW S, IsFiniteSet(S), NEW T, NEW k, T \subseteq S \cup {k}
    PROVE  /\ IsFiniteSet(T)
           /\ Cardinality(T) \in Nat /\ Cardinality(S) \in Nat /\ Cardinality(T) <= Cardinality(S) + 1
<1>1. IsFiniteSet(S \cup {k}) /\ Cardinality(S) \in Nat
    BY FS_AddElement, FS_CardinalityType
<1>2. Cardinality(S \cup {k}) = Cardinality(S) \/ Cardinality(S \cup {k}) = Cardinality(S) + 1
    BY FS_AddElement
<1>3. IsFiniteSet(T) /\ Cardinality(T) <= Cardinality(S \cup {k}) /\ Cardinality(T) \in Nat
    BY <1>1, FS_Subset, FS_CardinalityType
<1> QED
    BY <1>1, <1>2, <1>3

\* A unit booked is one more on the meter.
LEMMA BookedMore ==
    ASSUME TypeOK, IsFiniteSet(Booked), Book
    PROVE  /\ IsFiniteSet(Booked') /\ Cardinality(Booked) \in Nat
           /\ Cardinality(Booked') = Cardinality(Booked) + 1
<1> DEFINE d == <<month, usage[month] + 1>>
<1>1. /\ month \in Months /\ usage[month] \in Nat /\ usage'[month] = usage[month] + 1
      /\ \A m \in Months : m # month => usage'[m] = usage[m]
    BY DEF TypeOK, MeterTypeOK, Book
<1>2. d \notin Booked
    BY <1>1 DEF Booked
<1>3. 1..(usage[month] + 1) = (1..usage[month]) \cup {usage[month] + 1}
    BY <1>1
<1>4. Booked' = Booked \cup {d}
    <2>1. ASSUME NEW e \in Booked' PROVE e \in Booked \cup {d}
        <3>1. PICK m \in Months : e \in {<<m, k>> : k \in 1..usage'[m]}
            BY <2>1 DEF Booked, Months
        <3>2. CASE m = month
            BY <1>1, <1>3, <3>1, <3>2 DEF Booked
        <3>3. CASE m # month
            BY <1>1, <3>1, <3>3 DEF Booked
        <3> QED
            BY <3>2, <3>3
    <2>2. ASSUME NEW e \in Booked PROVE e \in Booked'
        <3>1. PICK m \in Months : e \in {<<m, k>> : k \in 1..usage[m]}
            BY <2>2 DEF Booked
        <3>2. e \in {<<m, k>> : k \in 1..usage'[m]}
            BY <1>1, <1>3, <3>1
        <3> QED
            BY <3>2 DEF Booked, Months
    <2>3. d \in Booked'
        BY <1>1, <1>3 DEF Booked, Months
    <2> QED
        BY <2>1, <2>2, <2>3
<1> HIDE DEF d
<1> QED
    BY <1>2, <1>4, FS_AddElement, FS_CardinalityType

\* A unit given back is at most one less, in whatever month.
LEMMA BookedLess ==
    ASSUME TypeOK, IsFiniteSet(Booked), GiveBack
    PROVE  /\ IsFiniteSet(Booked')
           /\ Cardinality(Booked) \in Nat /\ Cardinality(Booked') \in Nat
           /\ Cardinality(Booked) <= Cardinality(Booked') + 1
<1> DEFINE d == <<month, usage[month]>>
<1>1. /\ month \in Months /\ usage[month] \in Nat
      /\ usage'[month] = IF usage[month] > 0 THEN usage[month] - 1 ELSE 0
      /\ \A m \in Months : m # month => usage'[m] = usage[m]
    BY DEF TypeOK, MeterTypeOK, GiveBack
<1>2. Booked' \subseteq Booked
    <2>1. ASSUME NEW e \in Booked' PROVE e \in Booked
        <3>1. PICK m \in Months : e \in {<<m, k>> : k \in 1..usage'[m]}
            BY <2>1 DEF Booked, Months
        <3>2. 1..usage'[m] \subseteq 1..usage[m]
            BY <1>1
        <3> QED
            BY <3>1, <3>2 DEF Booked
    <2> QED
        BY <2>1
<1>3. Booked \subseteq Booked' \cup {d}
    <2>1. ASSUME NEW e \in Booked PROVE e \in Booked' \cup {d}
        <3>0. PICK m \in Months : e \in {<<m, k>> : k \in 1..usage[m]}
            BY <2>1 DEF Booked
        <3>1. PICK k \in 1..usage[m] : e = <<m, k>>
            BY <3>0
        <3>2. k \in 1..usage'[m] \/ e = d
            BY <1>1, <3>1
        <3> QED
            BY <3>1, <3>2 DEF Booked, Months
    <2> QED
        BY <2>1
<1> HIDE DEF d
<1>4. IsFiniteSet(Booked') /\ Cardinality(Booked') \in Nat /\ Cardinality(Booked) \in Nat
    BY <1>2, Fewer
<1> QED
    BY <1>3, <1>4, OneMore

\* What a step does to the four counts: nothing is added; a unit is booked; a record
\* is inserted, answered or not; a record is archived; a unit is given back.
Kept == usage' = usage /\ Months' = Months /\ Unacknowledged' = Unacknowledged

Lessens == Active' \subseteq Active /\ Holding' \subseteq Holding /\ Kept

Books(r) ==
    Active' \subseteq Active /\ Holding' \subseteq Holding \cup {r} /\ Book /\ Unacknowledged' = Unacknowledged

Inserts(r, i) ==
    Active' \subseteq Active \cup {i} /\ r \in Holding /\ Holding' \subseteq Holding \ {r} /\ Kept

InsertsUnanswered(i) ==
    /\ Active' \subseteq Active \cup {i} /\ Holding' \subseteq Holding
    /\ usage' = usage /\ i \notin Unacknowledged /\ Unacknowledged' = Unacknowledged \cup {i}

Archives(r, i) ==
    i \in Active /\ Active' \subseteq Active \ {i} /\ Holding' \subseteq Holding \cup {r} /\ Kept

Returns(r) ==
    /\ Active' \subseteq Active /\ r \in Holding /\ Holding' \subseteq Holding \ {r}
    /\ GiveBack /\ Unacknowledged' = Unacknowledged

\* Each of these keeps the ledger.
LEMMA Balances ==
    ASSUME TypeOK, Ledger, NEW r, NEW i,
           \/ Lessens \/ Books(r) \/ Inserts(r, i) \/ InsertsUnanswered(i) \/ Archives(r, i) \/ Returns(r)
    PROVE  Ledger'
<1> USE DEF Ledger, Finite, MeterNeverUndercounts
<1>1. PICK a \in Nat, h \in Nat, b \in Nat, u \in Nat :
            /\ a = Cardinality(Active) /\ h = Cardinality(Holding)
            /\ b = Cardinality(Booked) /\ u = Cardinality(Unacknowledged)
    BY FS_CardinalityType
<1>2. a + h <= b + u
    BY <1>1
<1>3. ASSUME usage' = usage PROVE Booked' = Booked
    BY <1>3 DEF Booked, Months
<1> SUFFICES /\ IsFiniteSet(Active') /\ IsFiniteSet(Holding')
             /\ IsFiniteSet(Booked') /\ IsFiniteSet(Unacknowledged')
             /\ Cardinality(Active') + Cardinality(Holding') <= Cardinality(Booked') + Cardinality(Unacknowledged')
    OBVIOUS
<1>4. CASE Lessens
    <2>1. IsFiniteSet(Active') /\ Cardinality(Active') \in Nat /\ Cardinality(Active') <= a
        BY <1>1, <1>4, Fewer DEF Lessens
    <2>2. IsFiniteSet(Holding') /\ Cardinality(Holding') \in Nat /\ Cardinality(Holding') <= h
        BY <1>1, <1>4, Fewer DEF Lessens
    <2>3. Booked' = Booked /\ Unacknowledged' = Unacknowledged
        BY <1>3, <1>4 DEF Lessens, Kept
    <2> QED
        BY <1>1, <1>2, <2>1, <2>2, <2>3
<1>5. CASE Books(r)
    <2>1. IsFiniteSet(Active') /\ Cardinality(Active') \in Nat /\ Cardinality(Active') <= a
        BY <1>1, <1>5, Fewer DEF Books
    <2>2. IsFiniteSet(Holding') /\ Cardinality(Holding') \in Nat /\ Cardinality(Holding') <= h + 1
        BY <1>1, <1>5, OneMore DEF Books
    <2>3. IsFiniteSet(Booked') /\ Cardinality(Booked') = b + 1
        BY <1>1, <1>5, BookedMore DEF Books
    <2>4. Unacknowledged' = Unacknowledged
        BY <1>5 DEF Books
    <2> QED
        BY <1>1, <1>2, <2>1, <2>2, <2>3, <2>4
<1>6. CASE Inserts(r, i)
    <2>1. IsFiniteSet(Active') /\ Cardinality(Active') \in Nat /\ Cardinality(Active') <= a + 1
        BY <1>1, <1>6, OneMore DEF Inserts
    <2>2. IsFiniteSet(Holding') /\ Cardinality(Holding') \in Nat /\ Cardinality(Holding') + 1 <= h
        BY <1>1, <1>6, Fewer DEF Inserts
    <2>3. Booked' = Booked /\ Unacknowledged' = Unacknowledged
        BY <1>3, <1>6 DEF Inserts, Kept
    <2> QED
        BY <1>1, <1>2, <2>1, <2>2, <2>3
<1>7. CASE InsertsUnanswered(i)
    <2>1. IsFiniteSet(Active') /\ Cardinality(Active') \in Nat /\ Cardinality(Active') <= a + 1
        BY <1>1, <1>7, OneMore DEF InsertsUnanswered
    <2>2. IsFiniteSet(Holding') /\ Cardinality(Holding') \in Nat /\ Cardinality(Holding') <= h
        BY <1>1, <1>7, Fewer DEF InsertsUnanswered
    <2>3. Booked' = Booked
        BY <1>3, <1>7 DEF InsertsUnanswered
    <2>4. IsFiniteSet(Unacknowledged') /\ Cardinality(Unacknowledged') = u + 1
        BY <1>1, <1>7, FS_AddElement DEF InsertsUnanswered
    <2> QED
        BY <1>1, <1>2, <2>1, <2>2, <2>3, <2>4
<1>8. CASE Archives(r, i)
    <2>1. IsFiniteSet(Active') /\ Cardinality(Active') \in Nat /\ Cardinality(Active') + 1 <= a
        BY <1>1, <1>8, Fewer DEF Archives
    <2>2. IsFiniteSet(Holding') /\ Cardinality(Holding') \in Nat /\ Cardinality(Holding') <= h + 1
        BY <1>1, <1>8, OneMore DEF Archives
    <2>3. Booked' = Booked /\ Unacknowledged' = Unacknowledged
        BY <1>3, <1>8 DEF Archives, Kept
    <2> QED
        BY <1>1, <1>2, <2>1, <2>2, <2>3
<1>9. CASE Returns(r)
    <2>1. IsFiniteSet(Active') /\ Cardinality(Active') \in Nat /\ Cardinality(Active') <= a
        BY <1>1, <1>9, Fewer DEF Returns
    <2>2. IsFiniteSet(Holding') /\ Cardinality(Holding') \in Nat /\ Cardinality(Holding') + 1 <= h
        BY <1>1, <1>9, Fewer DEF Returns
    <2>3. IsFiniteSet(Booked') /\ Cardinality(Booked') \in Nat /\ b <= Cardinality(Booked') + 1
        BY <1>1, <1>9, BookedLess DEF Returns
    <2>4. Unacknowledged' = Unacknowledged
        BY <1>9 DEF Returns
    <2> QED
        BY <1>1, <1>2, <2>1, <2>2, <2>3, <2>4
<1> QED
    BY <1>4, <1>5, <1>6, <1>7, <1>8, <1>9

\* Only the request that moves can begin or cease to hold a unit.
LEMMA HoldingMoves ==
    ASSUME TypeOK, NEW r \in Actors, NEW req, Goes(r, req)
    PROVE  /\ Holding' \subseteq Holding \cup {r}
           /\ req.pc \notin {"inserting", "refunding"} => Holding' \subseteq Holding \ {r}
           /\ r \in Holding <=> request[r].pc \in {"inserting", "refunding"}
<1>1. request'[r] = req /\ \A q \in Actors \ {r} : request'[q] = request[q]
    BY DEF TypeOK, Goes
<1> QED
    BY <1>1 DEF Holding, At

\* A step of a request that writes no record, no unit and begins to hold none.
LEMMA IdleStep ==
    ASSUME TypeOK, Ledger, NEW r \in Actors, NEW req, Goes(r, req),
           req.pc \notin {"inserting", "refunding"}, usage' = usage, record' = record
    PROVE  Ledger'
<1>1. Holding' \subseteq Holding
    BY HoldingMoves
<1>2. Lessens
    BY <1>1 DEF Lessens, Kept, Active, Unacknowledged, Months
<1> QED
    BY <1>2, Balances

\* What a step of one request does to the counts.
LEMMA RequestLedger ==
    ASSUME TypeOK, Ledger, NEW r \in Actors, Reads(r) \/ Writes(r)
    PROVE  Ledger'
<1> USE DEF meter, plans, rows
<1>1. CASE StartCreate(r)
    <2>1. PICK op \in Creating : Goes(r, [pc |-> "overview", op |-> op])
        BY <1>1 DEF StartCreate
    <2> QED
        BY <1>1, <2>1, IdleStep DEF StartCreate
<1>2. CASE Overview(r)
    <2>1. PICK req : Goes(r, req) /\ req.pc \in {"subscribing", "booking"}
        <3>1. CASE subscription = NoPlan
            BY <1>2, <3>1 DEF Overview
        <3>2. CASE subscription # NoPlan
            <4>1. PICK n : Goes(r, [pc |-> "booking", op |-> request[r].op, limit |-> n])
                BY <1>2, <3>2 DEF Overview
            <4> QED
                BY <4>1
        <3> QED
            BY <3>1, <3>2
    <2>2. usage' = usage /\ record' = record
        BY <1>2 DEF Overview, Subscribed
    <2> QED
        BY <2>1, <2>2, IdleStep
<1>3. CASE Undo(r)
    <2>1. PICK req : Goes(r, req) /\ req.pc \in {"archiving", "idle"}
        BY <1>3 DEF Undo, Idle
    <2> QED
        BY <1>3, <2>1, IdleStep DEF Undo
<1>4. CASE Subscribe(r)
    <2>1. PICK req : Goes(r, req) /\ req.pc = "booking"
        BY <1>4 DEF Subscribe
    <2> QED
        BY <1>4, <2>1, IdleStep DEF Subscribe, SubscribeFree
<1>5. CASE Consume(r)
    <2>1. PICK req : Goes(r, req)
        BY <1>5 DEF Consume
    <2>2. Books(r)
        BY <1>5, <2>1, HoldingMoves DEF Consume, Books, Active, Unacknowledged
    <2> QED
        BY <2>2, Balances
<1>6. CASE InsertFails(r)
    <2>1. Goes(r, [pc |-> "refunding"]) /\ At(r, "inserting")
        BY <1>6 DEF InsertFails
    <2>2. r \in Holding /\ Holding' \subseteq Holding
        BY <2>1, HoldingMoves DEF At
    <2>3. Lessens
        BY <1>6, <2>2 DEF InsertFails, Lessens, Kept, Active, Unacknowledged, Months
    <2> QED
        BY <2>3, Balances
<1>7. CASE File(r) \/ GiveUp(r) \/ Refused(r)
    <2>1. Goes(r, Idle) /\ usage' = usage /\ record' = record
        BY <1>7 DEF File, GiveUp, Refused
    <2> QED
        BY <2>1, IdleStep DEF Idle
<1>8. CASE FileFails(r)
    <2>1. PICK req : Goes(r, req) /\ req.pc = "undoing"
        BY <1>8 DEF FileFails
    <2> QED
        BY <1>8, <2>1, IdleStep DEF FileFails
<1>9. CASE Update(r)
    <2> DEFINE i == request[r].id
    <2>1. i \in Records /\ record[i].status = "active"
        BY <1>9, RequestShape DEF Update, Current, TypeOK
    <2>2. record' = [record EXCEPT ![i] = [record[i] EXCEPT !.version = @ + 1]]
        BY <1>9, <2>1 DEF Update
    <2> HIDE DEF i
    <2>3. record[i].acknowledged \in BOOLEAN
        BY <2>1, RecordShape DEF TypeOK
    <2>4. /\ record'[i] # Absent /\ record'[i].status = "active"
          /\ record'[i].acknowledged = record[i].acknowledged
          /\ record[i] # Absent
          /\ \A j \in Records \ {i} : record'[j] = record[j]
        BY <2>1, <2>2, RecordShape DEF TypeOK, Absent
    <2>5. Goes(r, Idle) /\ usage' = usage
        BY <1>9 DEF Update
    <2>6. Holding' \subseteq Holding
        BY <2>5, HoldingMoves DEF Idle
    <2>7. Lessens
        BY <2>1, <2>4, <2>5, <2>6 DEF Lessens, Kept, Active, Unacknowledged, Months
    <2> QED
        BY <2>7, Balances
<1>10. CASE ArchiveRecord(r)
    <2> DEFINE i == request[r].id
               b == [record[i] EXCEPT !.status = "archived"]
               c == [b EXCEPT !.version = @ + 1]
               a == [c EXCEPT !.by = request[r].by]
    <2>1. i \in Records /\ record[i].status = "active"
        BY <1>10, RequestShape DEF ArchiveRecord, Current, TypeOK
    <2>2. record' = [record EXCEPT ![i] = a]
        BY <1>10, <2>1 DEF ArchiveRecord
    <2>3. /\ a # Absent /\ a.status = "archived" /\ a.acknowledged = record[i].acknowledged
          /\ record[i] # Absent
        <3> DEFINE Columns == [status : {"active", "archived"}, version : Nat, op : Creating,
                               by : {"nobody", "user", "undo"}, acknowledged : BOOLEAN]
        <3>1. record[i] \in Columns /\ request[r].by \in {"user", "undo"}
            BY <1>10, <2>1, RecordShape, RequestShape DEF TypeOK, ArchiveRecord
        <3>2. b \in Columns /\ b.status = "archived" /\ b.acknowledged = record[i].acknowledged
            BY <3>1
        <3> HIDE DEF b
        <3>3. c \in Columns /\ c.status = "archived" /\ c.acknowledged = record[i].acknowledged
            BY <3>2
        <3>4. a \in Columns /\ a.status = "archived" /\ a.acknowledged = record[i].acknowledged
            BY <3>1, <3>3
        <3> QED
            BY <2>1, <3>4 DEF Absent
    <2> HIDE DEF a, i
    <2>4. record'[i] = a /\ \A j \in Records \ {i} : record'[j] = record[j]
        BY <2>1, <2>2 DEF TypeOK
    <2>5. Goes(r, [pc |-> "refunding"]) /\ usage' = usage
        BY <1>10 DEF ArchiveRecord
    <2>6. Holding' \subseteq Holding \cup {r}
        BY <2>5, HoldingMoves
    <2>7. Archives(r, i)
        BY <2>1, <2>3, <2>4, <2>5, <2>6 DEF Archives, Kept, Active, Unacknowledged, Months
    <2> QED
        BY <2>7, Balances
<1>11. CASE Refund(r)
    <2>1. Goes(r, Idle) /\ At(r, "refunding") /\ GiveBack /\ record' = record
        BY <1>11 DEF Refund
    <2>2. r \in Holding /\ Holding' \subseteq Holding \ {r}
        BY <2>1, HoldingMoves DEF Idle, At
    <2>3. Returns(r)
        BY <2>1, <2>2 DEF Returns, Active, Unacknowledged
    <2> QED
        BY <2>3, Balances
<1> QED
    BY <1>1, <1>2, <1>3, <1>4, <1>5, <1>6, <1>7, <1>8, <1>9, <1>10, <1>11 DEF Reads, Writes

\* An insertion uses its unit; one whose answer is lost still holds it.
LEMMA InsertLedger ==
    ASSUME TypeOK, Ledger, NEW r \in Actors, NEW i \in Records, Insert(r, i) \/ InsertUnanswered(r, i)
    PROVE  Ledger'
<1> USE DEF meter, plans
<1>1. i \notin Active /\ i \notin Unacknowledged /\ At(r, "inserting") /\ usage' = usage
    BY RecordShape DEF Insert, InsertUnanswered, Active, Unacknowledged, Absent, TypeOK
<1>2. ASSUME NEW b, record' = [record EXCEPT ![i] = New(request[r].op, b)]
      PROVE  /\ record'[i] # Absent /\ record'[i].acknowledged = b
             /\ \A j \in Records \ {i} : record'[j] = record[j]
    BY <1>2 DEF TypeOK, New, Absent
<1>3. \A j \in Records \ {i} : record'[j] = record[j]
    BY DEF Insert, InsertUnanswered, TypeOK
<1>4. Active' \subseteq Active \cup {i}
    BY <1>3 DEF Active
<1>5. CASE Insert(r, i)
    <2>1. PICK req : Goes(r, req) /\ req.pc \in {"filing", "idle"}
        BY <1>5 DEF Insert, Idle
    <2>2. r \in Holding /\ Holding' \subseteq Holding \ {r}
        BY <1>1, <2>1, HoldingMoves DEF At
    <2>3. Unacknowledged' = Unacknowledged
        BY <1>1, <1>2, <1>3, <1>5 DEF Insert, Unacknowledged
    <2>4. Inserts(r, i)
        BY <1>1, <1>4, <2>2, <2>3 DEF Inserts, Kept, Months
    <2> QED
        BY <2>4, Balances
<1>6. CASE InsertUnanswered(r, i)
    <2>1. Goes(r, [pc |-> "refunding"])
        BY <1>6 DEF InsertUnanswered
    <2>2. Holding' \subseteq Holding
        BY <1>1, <2>1, HoldingMoves DEF At
    <2>3. Unacknowledged' = Unacknowledged \cup {i}
        BY <1>1, <1>2, <1>3, <1>6 DEF InsertUnanswered, Unacknowledged
    <2>4. InsertsUnanswered(i)
        BY <1>1, <1>4, <2>2, <2>3 DEF InsertsUnanswered
    <2> QED
        BY <2>4, Balances
<1> QED
    BY <1>5, <1>6

\* Over all months, the meter never counts fewer units than there are active records
\* and units still to be used or given back, up to the creations whose answer was lost.
THEOREM MeterHolds == Spec => []MeterNeverUndercounts
<1>1. Init => Ledger
    <2> SUFFICES ASSUME Init PROVE Ledger
        OBVIOUS
    <2>1. Active = {} /\ Holding = {} /\ Unacknowledged = {}
        BY DEF Init, Active, Holding, Unacknowledged, At, Absent, Idle
    <2>2. Booked = {}
        <3>1. \A m \in Months : 1..usage[m] = {}
            BY DEF Init, MeterInit
        <3> QED
            BY <3>1 DEF Booked
    <2> QED
        BY <2>1, <2>2, FS_EmptySet DEF Ledger, Finite, MeterNeverUndercounts
<1>2. TypeOK /\ Ledger /\ [Next]_vars => Ledger'
    <2> SUFFICES ASSUME TypeOK, Ledger, [Next]_vars PROVE Ledger'
        OBVIOUS
    <2>1. ASSUME usage' = usage, record' = record, request' = request PROVE Ledger'
        <3>1. Lessens
            BY <2>1 DEF Lessens, Kept, Active, Holding, Unacknowledged, Months, At
        <3> QED
            BY <3>1, Balances
    <2>2. ASSUME NEW r \in Actors, NEW i \in Records, StartUpdate(r, i) \/ StartDelete(r, i) PROVE Ledger'
        <3>1. PICK req : Goes(r, req) /\ req.pc \in {"updating", "archiving"}
            BY <2>2 DEF StartUpdate, StartDelete, Shown
        <3>2. usage' = usage /\ record' = record
            BY <2>2 DEF StartUpdate, StartDelete, Shown, meter, rows
        <3> QED
            BY <3>1, <3>2, IdleStep
    <2>3. CASE ArchiveEntity
        BY <2>1, <2>3 DEF ArchiveEntity, meter
    <2>4. CASE (NextMonth \/ ConfigurePrices \/ \E e \in Events : ApplyEvent(e)) /\ Others
        BY <2>1, <2>4 DEF NextMonth, ConfigurePrices, ApplyEvent, Others, rows
    <2>5. CASE UNCHANGED vars
        BY <2>1, <2>5 DEF vars, meter, rows
    <2> QED
        BY <2>2, <2>3, <2>4, <2>5, RequestLedger, InsertLedger DEF Next
<1>3. Ledger => MeterNeverUndercounts
    BY DEF Ledger
<1> QED
    BY <1>1, <1>2, <1>3, TypeCorrect, PTL DEF Spec
=============================================================================
