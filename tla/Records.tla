------------------------------- MODULE Records -------------------------------
(***************************************************************************)
(* Records of an entity and the submissions of a form that creates them,   *)
(* metered against the tenant's plan.                                      *)
(*                                                                         *)
(* A request is a sequence of transactions: a unit is booked before its    *)
(* record is inserted and given back when the insertion fails, a submission *)
(* row is inserted after its record and the record archived when that      *)
(* fails.  Nothing completes or compensates a request that dies between    *)
(* two of them, and the errors of compensations are dropped.               *)
(***************************************************************************)
EXTENDS UsageMeter, FiniteSets

CONSTANTS
    Records,            \* record ids
    Actors,             \* concurrent requests
    MaxVersion          \* bound: versions of a record

ASSUME RecordsAssumption == MaxVersion \in Nat \ {0}

VARIABLES
    entity,             \* "active" or "archived"
    record,             \* dynamic_records; as history, how a row was created and
                        \* archived and whether its creation was acknowledged
    submission,         \* records a form_submissions row names
    request,            \* per actor: how far its request is
    lapsed              \* history: records a request lost hold of, by dying or by
                        \* a database error other than that of its submission row

rows == <<entity, record, submission>>
vars == <<meter, rows, request, lapsed>>

Idle == [pc |-> "idle"]
Absent == [status |-> "absent"]

Init ==
    /\ MeterInit
    /\ entity = "active"
    /\ record = [i \in Records |-> Absent]
    /\ submission = {}
    /\ request = [r \in Actors |-> Idle]
    /\ lapsed = {}

Creating == {"create", "submit"}

At(r, pc) == request[r].pc = pc
Goes(r, req) == request' = [request EXCEPT ![r] = req]

-----------------------------------------------------------------------------
(* Editors *)

ArchiveEntity ==
    /\ entity = "active" /\ entity' = "archived"
    /\ UNCHANGED <<meter, record, submission, request, lapsed>>

-----------------------------------------------------------------------------
(* Creating and submitting: the reads *)

\* The form of a submission, the entity and its fields are read and the values
\* validated before anything is booked.
StartCreate(r) ==
    /\ request[r] = Idle
    /\ entity = "active"
    /\ \E op \in Creating : Goes(r, [pc |-> "overview", op |-> op])
    /\ UNCHANGED <<meter, rows, lapsed>>

\* A tenant without a subscription is given one; another request or the provider
\* may be faster, and the request then fails.
Overview(r) ==
    /\ At(r, "overview")
    /\ IF subscription = NoPlan
       THEN /\ Goes(r, [pc |-> "subscribing", op |-> request[r].op])
            /\ UNCHANGED meter
       ELSE \E n \in {Limit[p] : p \in Plans} :
                /\ Subscribed(n)
                /\ Goes(r, [pc |-> "booking", op |-> request[r].op, limit |-> n])
    /\ UNCHANGED <<rows, lapsed>>

Subscribe(r) ==
    /\ At(r, "subscribing")
    /\ SubscribeFree
    /\ Goes(r, [pc |-> "booking", op |-> request[r].op, limit |-> Limit[FreePlan]])
    /\ UNCHANGED <<rows, lapsed>>

Consume(r) ==
    /\ At(r, "booking")
    /\ Admits(request[r].limit)
    /\ Book
    /\ Goes(r, [pc |-> "inserting", op |-> request[r].op])
    /\ UNCHANGED <<rows, lapsed>>

-----------------------------------------------------------------------------
(* Creating and submitting: the writes *)

New(op, acknowledged) ==
    [status |-> "active", version |-> 1, op |-> op, by |-> "nobody", acknowledged |-> acknowledged]

InsertFails(r) ==
    /\ At(r, "inserting")
    /\ Goes(r, [pc |-> "refunding"])
    /\ UNCHANGED <<meter, rows, lapsed>>

\* Committed, but the answer is lost: the caller sees an error and compensates.
InsertUnanswered(r, i) ==
    /\ At(r, "inserting")
    /\ record[i] = Absent
    /\ record' = [record EXCEPT ![i] = New(request[r].op, FALSE)]
    /\ lapsed' = lapsed \cup {i}
    /\ Goes(r, [pc |-> "refunding"])
    /\ UNCHANGED <<meter, entity, submission>>

Insert(r, i) ==
    /\ At(r, "inserting")
    /\ record[i] = Absent
    /\ record' = [record EXCEPT ![i] = New(request[r].op, TRUE)]
    /\ Goes(r, IF request[r].op = "submit" THEN [pc |-> "filing", id |-> i] ELSE Idle)
    /\ UNCHANGED <<meter, entity, submission, lapsed>>

File(r) ==
    /\ At(r, "filing")
    /\ submission' = submission \cup {request[r].id}
    /\ Goes(r, Idle)
    /\ UNCHANGED <<meter, entity, record, lapsed>>

\* Mutant: the error is returned without a compensation.
FileFailsPlainly(r) ==
    /\ At(r, "filing")
    /\ Goes(r, Idle)
    /\ UNCHANGED <<meter, rows, lapsed>>

\* The row was not inserted, or it was and the answer is lost.  The record is
\* deleted as any caller would delete it, at the version it was created with.
FileFails(r) ==
    /\ At(r, "filing")
    /\ Goes(r, [pc |-> "undoing", id |-> request[r].id])
    /\ \/ UNCHANGED <<submission, lapsed>>
       \/ /\ submission' = submission \cup {request[r].id}
          /\ lapsed' = lapsed \cup {request[r].id}
    /\ UNCHANGED <<meter, entity, record>>

\* Deleting begins by reading the entity; an archived one ends it.
Undo(r) ==
    /\ At(r, "undoing")
    /\ Goes(r, IF entity = "active"
               THEN [pc |-> "archiving", id |-> request[r].id, version |-> 1, by |-> "undo"]
               ELSE Idle)
    /\ UNCHANGED <<meter, rows, lapsed>>

-----------------------------------------------------------------------------
(* Updating and deleting *)

\* A caller names the version it was shown; one that is already old when the
\* request begins is refused and changes nothing.
Shown(r, i, req) ==
    /\ request[r] = Idle
    /\ entity = "active"
    /\ record[i].status = "active"
    /\ Goes(r, req)
    /\ UNCHANGED <<meter, rows, lapsed>>

StartUpdate(r, i) == Shown(r, i, [pc |-> "updating", id |-> i, version |-> record[i].version])

StartDelete(r, i) ==
    Shown(r, i, [pc |-> "archiving", id |-> i, version |-> record[i].version, by |-> "user"])

Current(i, v) == record[i].status = "active" /\ record[i].version = v

Update(r) ==
    LET i == request[r].id
    IN  /\ At(r, "updating")
        /\ record[i].version < MaxVersion
        /\ Current(i, request[r].version)
        /\ record' = [record EXCEPT ![i].version = @ + 1]
        /\ Goes(r, Idle)
        /\ UNCHANGED <<meter, entity, submission, lapsed>>

\* A unit is given back for an archived record only: none for a conflict or a
\* missing record.
ArchiveRecord(r) ==
    LET i == request[r].id
    IN  /\ At(r, "archiving")
        /\ Current(i, request[r].version)
        /\ record' = [record EXCEPT ![i].status = "archived", ![i].version = @ + 1,
                                    ![i].by = request[r].by]
        /\ Goes(r, [pc |-> "refunding"])
        /\ UNCHANGED <<meter, entity, submission, lapsed>>

\* The second half of every compensation; its error is dropped.
Refund(r) ==
    /\ At(r, "refunding")
    /\ GiveBack
    /\ Goes(r, Idle)
    /\ UNCHANGED <<rows, lapsed>>

\* Mutant: a deletion gives its unit back whatever the statement did.
RefusedRefunded(r) ==
    /\ At(r, "updating") \/ At(r, "archiving")
    /\ ~ Current(request[r].id, request[r].version)
    /\ Goes(r, IF At(r, "archiving") THEN [pc |-> "refunding"] ELSE Idle)
    /\ UNCHANGED <<meter, rows, lapsed>>

\* Not the caller's version, or not there.
Refused(r) ==
    /\ At(r, "updating") \/ At(r, "archiving")
    /\ ~ Current(request[r].id, request[r].version)
    /\ Goes(r, Idle)
    /\ UNCHANGED <<meter, rows, lapsed>>

\* The request still has to file its submission or to undo its record.
Submitting(r) ==
    \/ At(r, "filing") \/ At(r, "undoing")
    \/ At(r, "archiving") /\ request[r].by = "undo"

\* The quota is used up, something read is gone, a transaction fails, the caller
\* goes away, or the server dies.  Where a failure starts a compensation, only the
\* death of the server ends the request.  A unit booked, or a record archived, whose
\* answer is lost is the transaction and this step.
GiveUp(r) ==
    /\ request[r] # Idle
    /\ Goes(r, Idle)
    /\ lapsed' = lapsed \cup (IF Submitting(r) THEN {request[r].id} ELSE {})
    /\ UNCHANGED <<meter, rows>>

Reads(r) == StartCreate(r) \/ Overview(r) \/ Undo(r)

Writes(r) ==
    \/ Subscribe(r) \/ Consume(r) \/ InsertFails(r) \/ File(r) \/ FileFails(r)
    \/ Update(r) \/ ArchiveRecord(r) \/ Refund(r) \/ Refused(r) \/ GiveUp(r)

Others == UNCHANGED <<rows, request, lapsed>>

Next ==
    \/ \E r \in Actors : Reads(r) \/ Writes(r)
    \/ \E r \in Actors, i \in Records :
            Insert(r, i) \/ InsertUnanswered(r, i) \/ StartUpdate(r, i) \/ StartDelete(r, i)
    \/ ArchiveEntity
    \/ NextMonth /\ Others
    \/ ConfigurePrices /\ Others
    \/ \E e \in Events : ApplyEvent(e) /\ Others

Spec == Init /\ [][Next]_vars

-----------------------------------------------------------------------------
(* Properties *)

RequestState ==
    {Idle}
    \cup [pc : {"overview", "subscribing", "inserting"}, op : Creating]
    \cup [pc : {"booking"}, op : Creating, limit : Nat]
    \cup [pc : {"filing", "undoing"}, id : Records]
    \cup [pc : {"updating"}, id : Records, version : Nat]
    \cup [pc : {"archiving"}, id : Records, version : Nat, by : {"user", "undo"}]
    \cup [pc : {"refunding"}]

RecordState ==
    {Absent} \cup [status : {"active", "archived"}, version : Nat, op : Creating,
                   by : {"nobody", "user", "undo"}, acknowledged : BOOLEAN]

\* The rows keep their columns' types; a request holds what its phase has read.
TypeOK ==
    /\ MeterTypeOK
    /\ entity \in {"active", "archived"}
    /\ record \in [Records -> RecordState]
    /\ submission \in SUBSET Records
    /\ request \in [Actors -> RequestState]
    /\ lapsed \in SUBSET Records

Active == {i \in Records : record[i].status = "active"}
Holding == {r \in Actors : At(r, "inserting") \/ At(r, "refunding")}
Unacknowledged == {i \in Records : record[i] # Absent /\ ~ record[i].acknowledged}

\* The units on the meter, one by one.
Booked == UNION {{<<m, k>> : k \in 1..usage[m]} : m \in Months}

\* Taken over all months, the meter never counts fewer units than there are active
\* records and units still to be used or given back; a creation whose answer was
\* lost, and which is compensated although it happened, is the one exception.
MeterNeverUndercounts ==
    Cardinality(Active) + Cardinality(Holding)
        <= Cardinality(Booked) + Cardinality(Unacknowledged)

\* A record accepted through the form has its submission row once its request has
\* ended.  What can leave one without: a request that died or a database error in
\* the compensation, an update before the compensation, the entity archived.  And a
\* compensation never takes the record of a submission row that was answered.
SubmissionsMatchRecords ==
    \A i \in Records \ lapsed :
        /\ /\ record[i].status = "active" /\ record[i].op = "submit" /\ i \notin submission
           /\ ~ \E r \in Actors : Submitting(r) /\ request[r].id = i
           => record[i].version > 1 \/ entity = "archived"
        /\ i \in submission /\ record[i].status = "archived" => record[i].by = "user"
=============================================================================
