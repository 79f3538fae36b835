------------------------------ MODULE Schemas ------------------------------
(***************************************************************************)
(* One entity of a tenant and what is made under its definition: records,  *)
(* a form, and a dashboard that sums a field.  The definition is replaced  *)
(* while requests are between reading it and writing what they checked     *)
(* against it, and nothing already written is changed along with it.       *)
(*                                                                         *)
(* Every request but a first definition reads the entity the same way: the *)
(* row, which must be active and carries the version, and then the fields, *)
(* in two statements that each see what is committed.                      *)
(***************************************************************************)
EXTENDS Naturals, FiniteSets

CONSTANTS
    Field, NoField,
    None,               \* no value, no default
    Drafts,             \* the fields editors come up with
    Record, NoRecord,
    Request,
    MaxVersion,         \* bound: versions of the entity before it is archived
    MaxWrites,          \* bound: versions of a record
    MaxDesigns          \* bound: versions of a form before it is archived, of a dashboard

Kinds == {"string", "date", "number", "money"}
Numeric == {"number", "money"}

\* Values by what the checks tell apart; %v writes a million or more, "large", with an
\* exponent, which moneyPattern refuses, and "small" numbers without one.  A date is
\* what any kind with a format of its own is, a string what a kind without one is.
Numbers == {"small", "large"}
Values == {"text", "blank", "date"} \cup Numbers

Accepts == [string |-> {"text", "date"}, date |-> {"date"}, number |-> Numbers, money |-> {"small"}]

Definition == [kind : Kinds, required : BOOLEAN, default : Values \cup {None}]
Schema == UNION {[S -> Definition] : S \in (SUBSET Field) \ {{}}}

ASSUME SchemasAssumption ==
    /\ Drafts \subseteq Schema
    /\ NoField \notin Field /\ None \notin Values /\ NoRecord \notin Record
    /\ MaxVersion \in Nat /\ MaxWrites \in Nat /\ MaxDesigns \in Nat

VARIABLES
    entity,     \* its row and its fields
    record,     \* dynamic_records: the values
    form,       \* its components, as fields of their own, and JSON schema
    dashboard,  \* the field its sum is over
    request     \* what a request has read of the entity, and the version it was shown

vars == <<entity, record, form, dashboard, request>>

\* "read" is history: the version that was current when the fields were read under
\* which a record, a form or a sum was checked.
Idle == [pc |-> "idle"]

Init ==
    /\ entity = [status |-> "absent", version |-> 0, fields |-> <<>>]
    /\ record = [i \in Record |-> [version |-> 0, values |-> <<>>, read |-> 0]]
    /\ form = [status |-> "absent", version |-> 0, fields |-> <<>>, read |-> 0]
    /\ dashboard = [version |-> 0, field |-> NoField, read |-> 0]
    /\ request = [r \in Request |-> Idle]

-----------------------------------------------------------------------------
(* The checks *)

\* Mutant: a default of any kind may be a string.
DefaultsAnyString(kind) == {"text", "blank", "date"} \cup IF kind \in Numeric THEN Numbers ELSE {}
DefaultAccepts(kind) == IF kind \in Numeric THEN Numbers ELSE {"text", "blank", "date"}

ValidSchema(d) == \A f \in DOMAIN d : d[f].default \in DefaultAccepts(d[f].kind) \cup {None}

\* Mutant: a field that is required may be left out.
AcceptedIncomplete(d, raw) ==
    DOMAIN raw \subseteq DOMAIN d /\ \A f \in DOMAIN raw : raw[f] \in Accepts[d[f].kind]
Accepted(d, raw) ==
    /\ DOMAIN raw \subseteq DOMAIN d
    /\ \A f \in DOMAIN raw : raw[f] \in Accepts[d[f].kind]
    /\ \A f \in DOMAIN d \ DOMAIN raw : d[f].required => d[f].default # None

\* Defaults are taken as they are.
Completed(d, raw) ==
    [f \in DOMAIN raw \cup {g \in DOMAIN d : d[g].default # None} |->
        IF f \in DOMAIN raw THEN raw[f] ELSE d[f].default]

\* A component may be required where its field is not.
Components(d, S, extra) == [f \in S |-> [d[f] EXCEPT !.required = @ \/ f \in extra]]

-----------------------------------------------------------------------------
(* Reading the entity *)

At(r, pc) == request[r].pc = pc
Goes(r, req) == request' = [request EXCEPT ![r] = req]
Unwritten == UNCHANGED <<entity, record, form, dashboard>>

\* A submission looks at its form first, and from then on only at the entity.
FindForm(r) ==
    /\ At(r, "idle") /\ form.status = "active"
    /\ \E i \in Record :
         record[i].version = 0 /\ Goes(r, [pc |-> "found", id |-> i, shown |-> form.version])
    /\ Unwritten

Reading(r, op, id, shown, version) ==
    Goes(r, [pc |-> "fields", op |-> op, id |-> id, shown |-> shown, version |-> version])

\* A caller names the version it was shown of what it writes; one that is already old is
\* refused in the end.  An editor is shown the entity's here, which others do not keep.
GetEntity(r) ==
    /\ entity.status = "active"
    /\ \/ /\ At(r, "idle")
          /\ \/ Reading(r, "entity", NoRecord, 0, entity.version)
             \/ form.status # "archived" /\ Reading(r, "form", NoRecord, form.version, 0)
             \/ Reading(r, "dashboard", NoRecord, dashboard.version, 0)
             \/ \E i \in Record : Reading(r, "record", i, record[i].version, 0)
       \/ At(r, "found") /\ Reading(r, "submit", request[r].id, request[r].shown, 0)
    /\ Unwritten

\* Mutant: a submission is checked against its form.
FieldsOfForm(r) == IF request[r].op = "submit" THEN form.fields ELSE entity.fields
FieldsFor(r) == entity.fields

LoadFields(r) ==
    /\ At(r, "fields")
    /\ Goes(r, [pc |-> request[r].op, id |-> request[r].id, shown |-> request[r].shown,
                version |-> request[r].version, fields |-> FieldsFor(r), read |-> entity.version])
    /\ Unwritten

-----------------------------------------------------------------------------
(* Writing *)

CreateEntity(r) ==
    /\ At(r, "idle") /\ entity.status = "absent"
    /\ \E d \in Drafts : ValidSchema(d) /\ entity' = [status |-> "active", version |-> 1, fields |-> d]
    /\ UNCHANGED <<record, form, dashboard, request>>

\* Mutant: the version is not compared.
ExpectedAny(r) == TRUE
Expected(r) == entity.version = request[r].version

\* The editor sends the version it was given together with the fields.
DefineEntity(r) ==
    /\ At(r, "entity") /\ entity.status = "active" /\ Expected(r)
    /\ entity.version < MaxVersion
    /\ \E d \in Drafts \ {entity.fields} :
         ValidSchema(d) /\ entity' = [entity EXCEPT !.version = @ + 1, !.fields = d]
    /\ Goes(r, Idle)
    /\ UNCHANGED <<record, form, dashboard>>

DefineForm(r) ==
    /\ At(r, "form") /\ form.status # "archived"
    /\ form.version = request[r].shown /\ form.version < MaxDesigns
    /\ \E S \in (SUBSET DOMAIN request[r].fields) \ {{}} : \E extra \in SUBSET S :
         form' = [status |-> "active", version |-> form.version + 1,
                  fields |-> Components(request[r].fields, S, extra), read |-> request[r].read]
    /\ Goes(r, Idle)
    /\ UNCHANGED <<entity, record, dashboard>>

Raw(d) == UNION {[S -> Values] : S \in SUBSET DOMAIN d}

WriteRecord(r) ==
    LET i == request[r].id IN
    /\ \/ At(r, "record") /\ record[i].version = request[r].shown
       \/ At(r, "submit") /\ record[i].version = 0
    /\ record[i].version < MaxWrites
    /\ \E raw \in Raw(request[r].fields) :
         /\ At(r, "submit") => raw # <<>>
         /\ Accepted(request[r].fields, raw)
         /\ record' = [record EXCEPT ![i] =
                [version |-> @.version + 1, values |-> Completed(request[r].fields, raw),
                 read |-> request[r].read]]
    /\ Goes(r, Idle)
    /\ UNCHANGED <<entity, form, dashboard>>

SaveDashboard(r) ==
    /\ At(r, "dashboard")
    /\ dashboard.version = request[r].shown /\ dashboard.version < MaxDesigns
    /\ \E f \in DOMAIN request[r].fields :
         /\ request[r].fields[f].kind \in Numeric
         /\ dashboard' = [version |-> dashboard.version + 1, field |-> f, read |-> request[r].read]
    /\ Goes(r, Idle)
    /\ UNCHANGED <<entity, record, form>>

\* Refused, failed, or left alone by its caller.
GiveUp(r) ==
    /\ ~ At(r, "idle")
    /\ Goes(r, Idle)
    /\ Unwritten

ArchiveEntity ==
    /\ entity.status = "active"
    /\ entity' = [entity EXCEPT !.status = "archived", !.version = @ + 1]
    /\ UNCHANGED <<record, form, dashboard, request>>

ArchiveForm ==
    /\ form.status = "active"
    /\ form' = [form EXCEPT !.status = "archived", !.version = @ + 1]
    /\ UNCHANGED <<entity, record, dashboard, request>>

Next ==
    \/ \E r \in Request :
         \/ FindForm(r) \/ GetEntity(r) \/ LoadFields(r) \/ GiveUp(r)
         \/ CreateEntity(r) \/ DefineEntity(r) \/ DefineForm(r)
         \/ WriteRecord(r) \/ SaveDashboard(r)
    \/ ArchiveEntity \/ ArchiveForm

Spec == Init /\ [][Next]_vars

-----------------------------------------------------------------------------
(* Properties *)

Operations == {"entity", "form", "dashboard", "record", "submit"}
ValuesOf == (UNION {[S -> Values] : S \in SUBSET Field}) \cup {<<>>}

RequestState ==
    {Idle}
    \cup [pc : {"found"}, id : Record, shown : Nat]
    \cup [pc : {"fields"}, op : Operations, id : Record \cup {NoRecord}, shown : Nat, version : Nat]
    \cup [pc : Operations, id : Record \cup {NoRecord}, shown : Nat, version : Nat,
          fields : Schema, read : Nat]

\* The rows keep their columns' types, and a request holds what its place needs: a
\* record's id where it writes a record, fields where it writes at all.
TypeOK ==
    /\ entity \in [status : {"absent", "active", "archived"}, version : Nat, fields : Schema \cup {<<>>}]
    /\ record \in [Record -> [version : Nat, values : ValuesOf, read : Nat]]
    /\ form \in [status : {"absent", "active", "archived"}, version : Nat,
                 fields : Schema \cup {<<>>}, read : Nat]
    /\ dashboard \in [version : Nat, field : Field \cup {NoField}, read : Nat]
    /\ request \in [Request -> RequestState]
    /\ \A r \in Request :
         /\ request[r].pc = "fields" /\ request[r].op \in {"record", "submit"} => request[r].id \in Record
         /\ request[r].pc \in {"record", "submit"} => request[r].id \in Record

\* An editor replaces exactly the definition it was given: the row is read before the
\* fields, so a definition that was replaced in between carries the old version.
NoBlindOverwrite ==
    [][\A r \in Request :
         /\ At(r, "entity") /\ request'[r] = Idle
         /\ entity'.version > entity.version /\ entity'.status = "active"
         => request[r].read = entity.version /\ request[r].fields = entity.fields]_vars

Conforms(d, values) ==
    /\ DOMAIN values \subseteq DOMAIN d
    /\ \A f \in DOMAIN d :
         IF f \in DOMAIN values THEN values[f] \in Accepts[d[f].kind] \cup ({d[f].default} \ {None})
         ELSE ~ d[f].required /\ d[f].default = None

\* A record fits the entity's definition, or has a default of it that its own check would
\* refuse, unless the entity was replaced or archived since the record's last request read
\* its fields; then it stays as it was ("validated against the active schema").
RecordsFit ==
    \A i \in Record : record[i].version > 0 /\ record[i].read = entity.version =>
        Conforms(entity.fields, record[i].values)

\* By the type, the required list and additionalProperties of a JSON schema.
Matches(value, kind) == (value \in Numbers) = (kind \in Numeric)

\* With the entity as it was when its form was saved, a submission stores what the JSON
\* schema of the form asks for but in two ways: it may have a field the form has not, and
\* lack one that only the form requires.  Forms are not looked at again, only the entity.
SubmissionsExplained ==
    [][\A r \in Request : \A i \in Record :
         /\ At(r, "submit") /\ record'[i] # record[i] /\ request'[r] = Idle
         /\ form.version = request[r].shown /\ form.read = request[r].read
         => LET values == record'[i].values IN
            \A f \in DOMAIN form.fields :
               IF f \in DOMAIN values THEN Matches(values[f], form.fields[f].kind)
               ELSE form.fields[f].required => ~ request[r].fields[f].required]_vars

\* PostgreSQL casts the field of every record to a number and fails the whole dashboard
\* when one is none.
SumFails(i) ==
    /\ dashboard.field \in DOMAIN record[i].values
    /\ record[i].values[dashboard.field] \notin Numbers

\* The sum of a dashboard fails only over a record that was checked against other fields
\* than the dashboard, the entity having been replaced in between.
SumsExplained == \A i \in Record : SumFails(i) => record[i].read # dashboard.read
=============================================================================
