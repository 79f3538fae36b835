--------------------------- MODULE SchemasProofs ---------------------------
(***************************************************************************)
(* For any fields, definitions, records and requests: the types, and the   *)
(* four properties of Schemas.                                             *)
(*                                                                         *)
(* The versions of an entity stand for its definitions: who read the       *)
(* fields under the same version has the same fields (OneDefinition), and  *)
(* what was written under a version fits them (Fitting).                   *)
(***************************************************************************)
EXTENDS Schemas, TLAPS

Writing(r) == request[r].pc \in Operations

\* A request reads the row before the fields, both of versions that were there.
Copies ==
    /\ \A r \in Request : Writing(r) =>
         request[r].version <= request[r].read /\ 1 <= request[r].read /\ request[r].read <= entity.version
    /\ \A r \in Request : At(r, "fields") =>
         request[r].version <= entity.version /\ 1 <= entity.version

\* The definition's row and fields belong together, and nothing was checked under
\* a version that is yet to come.
Rows ==
    /\ entity.status = "absent" <=> entity.version = 0
    /\ entity.version > 0 => entity.fields \in Schema
    /\ \A i \in Record :
         /\ record[i].read <= entity.version
         /\ record[i].version > 0 => 1 <= record[i].read
    /\ form.read <= entity.version
    /\ dashboard.read <= entity.version

\* Somebody knows d as the definition of version v: the entity, or a request.
View(v, d) ==
    \/ entity.version = v /\ entity.version > 0 /\ entity.fields = d
    \/ \E r \in Request : Writing(r) /\ request[r].read = v /\ request[r].fields = d

OneDefinition == \A v \in Nat, d, e \in Schema : View(v, d) /\ View(v, e) => d = e

\* What the fields of the form and of the sum owe the definition d.
Shown(d) == DOMAIN form.fields \subseteq DOMAIN d /\ \A f \in DOMAIN form.fields : form.fields[f].kind = d[f].kind
Summed(d) == dashboard.field \in DOMAIN d /\ d[dashboard.field].kind \in Numeric

\* All that was written under version v fits the definition d.
Fits(v, d) ==
    /\ \A i \in Record : record[i].read = v => Conforms(d, record[i].values)
    /\ form.read = v => Shown(d)
    /\ dashboard.read = v => Summed(d)

Fitting == \A v \in Nat, d \in Schema : View(v, d) => ValidSchema(d) /\ Fits(v, d)

IInv == TypeOK /\ Copies /\ Rows /\ OneDefinition /\ Fitting /\ SumsExplained

-----------------------------------------------------------------------------
(* Types *)

\* The initial rows are of their types and no request knows anything.
LEMMA InitTypes == Init => TypeOK
<1> SUFFICES ASSUME Init PROVE TypeOK
  OBVIOUS
<1>1. Idle \in RequestState /\ Idle.pc = "idle"
  BY DEF RequestState, Idle
<1>2. \A r \in Request : request[r] = Idle
  BY DEF Init
<1>3. request \in [Request -> RequestState]
  BY <1>1 DEF Init
<1>4. <<>> \in ValuesOf
  BY DEF ValuesOf
<1>5. record \in [Record -> [version : Nat, values : ValuesOf, read : Nat]]
  BY <1>4 DEF Init
<1> QED
  BY <1>1, <1>2, <1>3, <1>5 DEF Init, TypeOK

\* What a request knows of its own.
LEMMA RequestFacts ==
    ASSUME TypeOK, NEW r \in Request
    PROVE  /\ request[r] \in RequestState
           /\ Writing(r) => /\ request[r] \in [pc : Operations, id : Record \cup {NoRecord}, shown : Nat,
                                               version : Nat, fields : Schema, read : Nat]
                            /\ request[r].fields \in Schema /\ request[r].read \in Nat
                            /\ request[r].version \in Nat
           /\ At(r, "fields") => /\ request[r] \in [pc : {"fields"}, op : Operations,
                                         id : Record \cup {NoRecord}, shown : Nat, version : Nat]
           /\ At(r, "found") => request[r] \in [pc : {"found"}, id : Record, shown : Nat]
<1>1. request[r] \in RequestState
  BY DEF TypeOK
<1>2. CASE request[r] = Idle
  BY <1>1, <1>2 DEF Idle, Writing, At, Operations
<1>3. CASE request[r] \in [pc : {"found"}, id : Record, shown : Nat]
  BY <1>1, <1>3 DEF Writing, At, Operations
<1>4. CASE request[r] \in [pc : {"fields"}, op : Operations, id : Record \cup {NoRecord},
                           shown : Nat, version : Nat]
  BY <1>1, <1>4 DEF Writing, At, Operations
<1>5. CASE request[r] \in [pc : Operations, id : Record \cup {NoRecord}, shown : Nat,
                           version : Nat, fields : Schema, read : Nat]
  BY <1>1, <1>5 DEF Writing, At, Operations
<1> QED
  BY <1>1, <1>2, <1>3, <1>4, <1>5 DEF RequestState

\* A request that goes on keeps the type of all requests.
LEMMA GoesTyped ==
    ASSUME TypeOK, NEW r \in Request, NEW req \in RequestState, Goes(r, req),
           req.pc = "fields" /\ req.op \in {"record", "submit"} => req.id \in Record,
           req.pc \in {"record", "submit"} => req.id \in Record
    PROVE  /\ request' \in [Request -> RequestState]
           /\ request'[r] = req
           /\ \A q \in Request : q # r => request'[q] = request[q]
           /\ \A q \in Request :
                /\ request'[q].pc = "fields" /\ request'[q].op \in {"record", "submit"}
                     => request'[q].id \in Record
                /\ request'[q].pc \in {"record", "submit"} => request'[q].id \in Record
<1>1. request' \in [Request -> RequestState]
  BY DEF TypeOK, Goes
<1>2. /\ request'[r] = req
      /\ \A q \in Request : q # r => request'[q] = request[q]
  BY DEF TypeOK, Goes
<1>3. ASSUME NEW q \in Request
      PROVE  /\ request'[q].pc = "fields" /\ request'[q].op \in {"record", "submit"}
                  => request'[q].id \in Record
             /\ request'[q].pc \in {"record", "submit"} => request'[q].id \in Record
  <2>1. CASE q = r
    BY <2>1, <1>2
  <2>2. CASE q # r
    BY <2>2, <1>2 DEF TypeOK
  <2> QED
    BY <2>1, <2>2
<1> QED
  BY <1>1, <1>2, <1>3

\* Idle is a state of a request that asks for no id.
LEMMA IdleTyped == Idle \in RequestState /\ Idle.pc = "idle"
  BY DEF RequestState, Idle

\* A record under definition d is completed to one that has values of fields only.
LEMMA CompletedTyped ==
    ASSUME NEW d \in Schema, NEW raw \in Raw(d)
    PROVE  /\ Completed(d, raw) \in ValuesOf
           /\ DOMAIN raw \subseteq DOMAIN d
           /\ DOMAIN Completed(d, raw) = DOMAIN raw \cup {g \in DOMAIN d : d[g].default # None}
           /\ \A f \in DOMAIN Completed(d, raw) :
                Completed(d, raw)[f] = IF f \in DOMAIN raw THEN raw[f] ELSE d[f].default
<1>1. PICK S \in (SUBSET Field) \ {{}} : d \in [S -> Definition]
  BY DEF Schema
<1>2. PICK T \in SUBSET DOMAIN d : raw \in [T -> Values]
  BY DEF Raw
<1>3. DOMAIN d = S /\ DOMAIN raw = T
  BY <1>1, <1>2
<1> DEFINE U == T \cup {g \in DOMAIN d : d[g].default # None}
<1>4. Completed(d, raw) = [f \in U |-> IF f \in T THEN raw[f] ELSE d[f].default]
  BY <1>3 DEF Completed
<1>5. \A f \in U : (IF f \in T THEN raw[f] ELSE d[f].default) \in Values
  BY <1>1, <1>2, <1>3 DEF Definition
<1>6. Completed(d, raw) \in [U -> Values] /\ U \in SUBSET Field
  BY <1>1, <1>2, <1>3, <1>4, <1>5
<1>7. Completed(d, raw) \in ValuesOf
  BY <1>6 DEF ValuesOf
<1> QED
  BY <1>3, <1>4, <1>7

\* A form's components are fields of their own.
LEMMA ComponentsTyped ==
    ASSUME NEW d \in Schema, NEW S \in (SUBSET DOMAIN d) \ {{}}, NEW extra \in SUBSET S
    PROVE  /\ Components(d, S, extra) \in Schema
           /\ DOMAIN Components(d, S, extra) = S
           /\ \A f \in S : /\ Components(d, S, extra)[f].kind = d[f].kind
                           /\ Components(d, S, extra)[f].required => d[f].required \/ f \in extra
<1>1. PICK D \in (SUBSET Field) \ {{}} : d \in [D -> Definition]
  BY DEF Schema
<1>2. \A f \in S : [d[f] EXCEPT !.required = @ \/ f \in extra] \in Definition
  BY <1>1 DEF Definition
<1>3. Components(d, S, extra) \in [S -> Definition] /\ S \in (SUBSET Field) \ {{}}
  BY <1>1, <1>2 DEF Components
<1>4. Components(d, S, extra) \in Schema
  BY <1>3 DEF Schema
<1>5. ASSUME NEW f \in S
      PROVE  /\ Components(d, S, extra)[f].kind = d[f].kind
             /\ Components(d, S, extra)[f].required => d[f].required \/ f \in extra
  BY <1>1 DEF Components, Definition
<1> QED
  BY <1>3, <1>4, <1>5

\* Every step keeps the types.
LEMMA TypeStep == TypeOK /\ Copies /\ Rows /\ [Next]_vars => TypeOK'
<1> SUFFICES ASSUME TypeOK, Copies, Rows, [Next]_vars PROVE TypeOK'
  OBVIOUS
<1> USE IdleTyped
<1>1. ASSUME NEW r \in Request, FindForm(r) PROVE TypeOK'
  <2>1. PICK i \in Record : Goes(r, [pc |-> "found", id |-> i, shown |-> form.version])
    BY <1>1 DEF FindForm
  <2>2. form.version \in Nat
    BY DEF TypeOK
  <2>3. [pc |-> "found", id |-> i, shown |-> form.version] \in RequestState
    BY <2>2 DEF RequestState
  <2> QED
    BY <1>1, <2>1, <2>3, GoesTyped DEF FindForm, Unwritten, TypeOK
<1>2. ASSUME NEW r \in Request, GetEntity(r) PROVE TypeOK'
  <2>1. PICK op \in Operations, id \in Record \cup {NoRecord}, shown \in Nat, version \in Nat :
          /\ Reading(r, op, id, shown, version)
          /\ op \in {"record", "submit"} => id \in Record
    BY <1>2, RequestFacts DEF GetEntity, Operations, TypeOK
  <2>2. [pc |-> "fields", op |-> op, id |-> id, shown |-> shown, version |-> version] \in RequestState
    BY DEF RequestState
  <2> QED
    BY <1>2, <2>1, <2>2, GoesTyped DEF GetEntity, Reading, Unwritten, TypeOK
<1>3. ASSUME NEW r \in Request, LoadFields(r) PROVE TypeOK'
  <2> DEFINE req == [pc |-> request[r].op, id |-> request[r].id, shown |-> request[r].shown,
                     version |-> request[r].version, fields |-> entity.fields, read |-> entity.version]
  <2>1. request[r] \in [pc : {"fields"}, op : Operations, id : Record \cup {NoRecord},
                         shown : Nat, version : Nat] /\ request[r].pc = "fields"
    BY <1>3, RequestFacts DEF LoadFields, At
  <2>2. entity.version \in Nat /\ entity.fields \in Schema
    BY <1>3 DEF TypeOK, Copies, Rows, LoadFields
  <2>3. req \in RequestState
    BY <1>3, <2>1, <2>2 DEF RequestState
  <2>4. req.pc \in {"record", "submit"} => req.id \in Record
    BY <2>1 DEF TypeOK
  <2>5. req.pc # "fields"
    BY <2>1 DEF Operations
  <2>6. Goes(r, req)
    BY <1>3 DEF LoadFields, FieldsFor
  <2> HIDE DEF req
  <2> QED
    BY <1>3, <2>3, <2>4, <2>5, <2>6, GoesTyped DEF LoadFields, Unwritten, TypeOK
<1>4. ASSUME NEW r \in Request, GiveUp(r) PROVE TypeOK'
  BY <1>4, GoesTyped DEF GiveUp, Unwritten, TypeOK
<1>5. ASSUME NEW r \in Request, CreateEntity(r) PROVE TypeOK'
  BY <1>5, SchemasAssumption DEF CreateEntity, TypeOK
<1>6. ASSUME NEW r \in Request, DefineEntity(r) PROVE TypeOK'
  <2>1. PICK d \in Drafts : entity' = [entity EXCEPT !.version = @ + 1, !.fields = d]
    BY <1>6 DEF DefineEntity
  <2>2. d \in Schema
    BY SchemasAssumption
  <2>3. entity' \in [status : {"absent", "active", "archived"}, version : Nat, fields : Schema \cup {<<>>}]
    <3>1. entity' = [status |-> entity.status, version |-> entity.version + 1, fields |-> d]
      BY <2>1 DEF TypeOK
    <3> QED
      BY <2>2, <3>1 DEF TypeOK
  <2> QED
    BY <1>6, <2>3, GoesTyped DEF DefineEntity, TypeOK
<1>7. ASSUME NEW r \in Request, DefineForm(r) PROVE TypeOK'
  <2>1. request[r].fields \in Schema /\ request[r].read \in Nat
    BY <1>7, RequestFacts DEF DefineForm, At, Writing, Operations
  <2>2. PICK S \in (SUBSET DOMAIN request[r].fields) \ {{}} : \E extra \in SUBSET S :
          form' = [status |-> "active", version |-> form.version + 1,
                   fields |-> Components(request[r].fields, S, extra), read |-> request[r].read]
    BY <1>7 DEF DefineForm
  <2>3. \A extra \in SUBSET S : Components(request[r].fields, S, extra) \in Schema
    BY <2>1, ComponentsTyped
  <2>4. form' \in [status : {"absent", "active", "archived"}, version : Nat,
                   fields : Schema \cup {<<>>}, read : Nat]
    BY <2>1, <2>2, <2>3 DEF TypeOK
  <2> QED
    BY <1>7, <2>4, GoesTyped DEF DefineForm, TypeOK
<1>8. ASSUME NEW r \in Request, WriteRecord(r) PROVE TypeOK'
  <2>1. request[r].fields \in Schema /\ request[r].read \in Nat
    BY <1>8, RequestFacts DEF WriteRecord, At, Writing, Operations
  <2>2. request[r].id \in Record
    BY <1>8 DEF WriteRecord, At, TypeOK
  <2>3. PICK raw \in Raw(request[r].fields) :
          record' = [record EXCEPT ![request[r].id] =
              [version |-> @.version + 1, values |-> Completed(request[r].fields, raw),
               read |-> request[r].read]]
    BY <1>8 DEF WriteRecord
  <2>4. Completed(request[r].fields, raw) \in ValuesOf
    BY <2>1, CompletedTyped
  <2>5. record' \in [Record -> [version : Nat, values : ValuesOf, read : Nat]]
    BY <2>1, <2>2, <2>3, <2>4 DEF TypeOK
  <2> QED
    BY <1>8, <2>5, GoesTyped DEF WriteRecord, TypeOK
<1>9. ASSUME NEW r \in Request, SaveDashboard(r) PROVE TypeOK'
  <2>1. request[r].fields \in Schema /\ request[r].read \in Nat
    BY <1>9, RequestFacts DEF SaveDashboard, At, Writing, Operations
  <2>2. DOMAIN request[r].fields \subseteq Field
    BY <2>1 DEF Schema
  <2>3. dashboard' \in [version : Nat, field : Field \cup {NoField}, read : Nat]
    BY <1>9, <2>1, <2>2 DEF SaveDashboard, TypeOK
  <2> QED
    BY <1>9, <2>3, GoesTyped DEF SaveDashboard, TypeOK
<1>10. CASE ArchiveEntity
  <2>1. entity' \in [status : {"absent", "active", "archived"}, version : Nat, fields : Schema \cup {<<>>}]
    <3>1. entity' = [status |-> "archived", version |-> entity.version + 1, fields |-> entity.fields]
      BY <1>10 DEF ArchiveEntity, TypeOK
    <3> QED
      BY <3>1 DEF TypeOK
  <2> QED
    BY <1>10, <2>1 DEF ArchiveEntity, TypeOK
<1>11. CASE ArchiveForm
  <2>1. form' \in [status : {"absent", "active", "archived"}, version : Nat,
                   fields : Schema \cup {<<>>}, read : Nat]
    <3>1. form' = [status |-> "archived", version |-> form.version + 1, fields |-> form.fields,
                   read |-> form.read]
      BY <1>11 DEF ArchiveForm, TypeOK
    <3> QED
      BY <3>1 DEF TypeOK
  <2> QED
    BY <1>11, <2>1 DEF ArchiveForm, TypeOK
<1>12. CASE UNCHANGED vars
  BY <1>12 DEF vars, TypeOK
<1> QED
  BY <1>1, <1>2, <1>3, <1>4, <1>5, <1>6, <1>7, <1>8, <1>9, <1>10, <1>11, <1>12 DEF Next

-----------------------------------------------------------------------------
(* The invariant *)

\* A step leaves the entity alone, or gives it the next version and a definition
\* that was checked, and touches nothing written under it.
LEMMA EntityStep ==
    ASSUME TypeOK, Rows, Fitting, [Next]_vars
    PROVE  \/ entity' = entity
           \/ /\ entity'.version = entity.version + 1 /\ entity'.status # "absent"
              /\ entity'.fields \in Schema /\ ValidSchema(entity'.fields)
              /\ UNCHANGED <<record, form, dashboard>>
              /\ \A r \in Request : Writing(r)' => Writing(r) /\ request'[r] = request[r]
              /\ \A r \in Request : At(r, "fields")' => At(r, "fields") /\ request'[r] = request[r]
<1> USE IdleTyped
<1>1. ASSUME NEW r \in Request, CreateEntity(r)
      PROVE  /\ entity'.version = entity.version + 1 /\ entity'.status # "absent"
             /\ entity'.fields \in Schema /\ ValidSchema(entity'.fields)
             /\ UNCHANGED <<record, form, dashboard, request>>
  BY <1>1, SchemasAssumption DEF CreateEntity, ValidSchema, DefaultAccepts, Rows
<1>2. ASSUME NEW r \in Request, DefineEntity(r)
      PROVE  /\ entity'.version = entity.version + 1 /\ entity'.status # "absent"
             /\ entity'.fields \in Schema /\ ValidSchema(entity'.fields)
             /\ UNCHANGED <<record, form, dashboard>> /\ Goes(r, Idle)
  <2>1. PICK d \in Drafts : ValidSchema(d) /\ entity' = [entity EXCEPT !.version = @ + 1, !.fields = d]
    BY <1>2 DEF DefineEntity
  <2>2. entity' = [status |-> entity.status, version |-> entity.version + 1, fields |-> d]
    BY <2>1 DEF TypeOK
  <2> QED
    BY <1>2, <2>1, <2>2, SchemasAssumption DEF DefineEntity, ValidSchema, DefaultAccepts
<1>3. CASE ArchiveEntity
  <2>1. entity' = [status |-> "archived", version |-> entity.version + 1, fields |-> entity.fields]
    BY <1>3 DEF ArchiveEntity, TypeOK
  <2>2. entity.version > 0
    BY <1>3 DEF ArchiveEntity, TypeOK, Rows
  <2>3. entity.fields \in Schema /\ View(entity.version, entity.fields)
    BY <2>2 DEF View, Rows
  <2>4. ValidSchema(entity.fields)
    BY <2>3 DEF Fitting, TypeOK
  <2> QED
    BY <1>3, <2>1, <2>3, <2>4 DEF ArchiveEntity, ValidSchema, DefaultAccepts, Writing, At
<1>4. ASSUME NEW r \in Request, Goes(r, Idle)
      PROVE  /\ \A q \in Request : Writing(q)' => Writing(q) /\ request'[q] = request[q]
             /\ \A q \in Request : At(q, "fields")' => At(q, "fields") /\ request'[q] = request[q]
  BY <1>4, GoesTyped DEF Writing, At, Operations
<1>5. CASE \E r \in Request : FindForm(r) \/ GetEntity(r) \/ LoadFields(r) \/ GiveUp(r)
                              \/ DefineForm(r) \/ WriteRecord(r) \/ SaveDashboard(r)
  BY <1>5 DEF FindForm, GetEntity, LoadFields, GiveUp, DefineForm, WriteRecord, SaveDashboard, Unwritten
<1>6. CASE ArchiveForm \/ UNCHANGED vars
  BY <1>6 DEF ArchiveForm, vars
<1>7. CASE \E r \in Request : CreateEntity(r)
  BY <1>1, <1>7 DEF Writing, At
<1>8. CASE \E r \in Request : DefineEntity(r)
  BY <1>2, <1>4, <1>8
<1> QED
  BY <1>3, <1>5, <1>6, <1>7, <1>8 DEF Next

\* A request that holds fields held them before, or has just read the entity's.
LEMMA RequestStep ==
    ASSUME TypeOK, Copies, Rows, [Next]_vars, NEW q \in Request
    PROVE  /\ Writing(q)' =>
                \/ Writing(q) /\ request'[q] = request[q]
                \/ /\ request'[q].version <= entity.version
                   /\ request'[q].read = entity.version /\ entity.version > 0
                   /\ request'[q].fields = entity.fields /\ UNCHANGED entity
           /\ At(q, "fields")' =>
                \/ At(q, "fields") /\ request'[q] = request[q]
                \/ request'[q].version <= entity.version /\ entity.version > 0 /\ UNCHANGED entity
<1> USE IdleTyped
<1>1. ASSUME NEW r \in Request, FindForm(r) PROVE ~ Writing(r)' /\ ~ At(r, "fields")'
  <2>1. PICK i \in Record : request' = [request EXCEPT ![r] = [pc |-> "found", id |-> i, shown |-> form.version]]
    BY <1>1 DEF FindForm, Goes
  <2>2. request'[r].pc = "found"
    BY <2>1 DEF TypeOK
  <2> QED
    BY <2>2 DEF Writing, At, Operations
<1>2. ASSUME NEW r \in Request, GetEntity(r)
      PROVE  /\ request'[r].pc = "fields" /\ request'[r].version <= entity.version
             /\ entity.version > 0 /\ UNCHANGED entity
  <2>1. PICK op \in Operations, id \in Record \cup {NoRecord}, shown \in Nat, version \in Nat :
          Reading(r, op, id, shown, version) /\ version \in {0, entity.version}
    BY <1>2, RequestFacts DEF GetEntity, Operations, TypeOK
  <2>2. request'[r] = [pc |-> "fields", op |-> op, id |-> id, shown |-> shown, version |-> version]
    BY <2>1 DEF Reading, Goes, TypeOK
  <2> QED
    BY <1>2, <2>1, <2>2, entity.version \in Nat DEF GetEntity, Unwritten, Rows, TypeOK
<1>3. ASSUME NEW r \in Request, LoadFields(r)
      PROVE  /\ request'[r].pc # "fields" /\ request'[r].version <= entity.version
             /\ request'[r].read = entity.version /\ entity.version > 0
             /\ request'[r].fields = entity.fields /\ UNCHANGED entity
  <2>1. request'[r] = [pc |-> request[r].op, id |-> request[r].id, shown |-> request[r].shown,
                       version |-> request[r].version, fields |-> entity.fields, read |-> entity.version]
    BY <1>3 DEF LoadFields, Goes, FieldsFor, TypeOK
  <2>2. request[r].op \in Operations /\ request[r].version <= entity.version /\ 1 <= entity.version
    BY <1>3, RequestFacts DEF LoadFields, Copies
  <2> QED
    BY <1>3, <2>1, <2>2 DEF LoadFields, Unwritten, Operations, TypeOK
<1>4. ASSUME NEW r \in Request, Goes(r, Idle) PROVE ~ Writing(r)' /\ ~ At(r, "fields")'
  BY <1>4, GoesTyped DEF Writing, At, Operations
<1>5. ASSUME NEW r \in Request, NEW req, Goes(r, req), q # r PROVE request'[q] = request[q]
  BY <1>5 DEF Goes, TypeOK
<1>6. CASE \E r \in Request : FindForm(r)
  <2>1. PICK r \in Request : FindForm(r)
    BY <1>6
  <2>2. q # r => request'[q] = request[q]
    BY <1>5, <2>1 DEF FindForm
  <2> QED
    BY <1>1, <2>1, <2>2 DEF Writing, At
<1>7. CASE \E r \in Request : GetEntity(r)
  <2>1. PICK r \in Request : GetEntity(r)
    BY <1>7
  <2>2. q # r => request'[q] = request[q]
    BY <1>5, <2>1 DEF GetEntity, Reading
  <2> QED
    BY <1>2, <2>1, <2>2 DEF Writing, At, Operations
<1>8. CASE \E r \in Request : LoadFields(r)
  <2>1. PICK r \in Request : LoadFields(r)
    BY <1>8
  <2>2. q # r => request'[q] = request[q]
    BY <1>5, <2>1 DEF LoadFields
  <2> QED
    BY <1>3, <2>1, <2>2 DEF Writing, At
<1>9. CASE \E r \in Request : Goes(r, Idle)
  <2>1. PICK r \in Request : Goes(r, Idle)
    BY <1>9
  <2>2. q # r => request'[q] = request[q]
    BY <1>5, <2>1
  <2> QED
    BY <1>4, <2>1, <2>2 DEF Writing, At
<1>10. CASE request' = request
  BY <1>10 DEF Writing, At
<1> QED
  BY <1>6, <1>7, <1>8, <1>9, <1>10
     DEF Next, GiveUp, CreateEntity, DefineEntity, DefineForm, WriteRecord, SaveDashboard,
         ArchiveEntity, ArchiveForm, vars

\* Whoever knows a version after a step knew it before, or it is new.
LEMMA ViewStep ==
    ASSUME TypeOK, Copies, Rows, Fitting, [Next]_vars, NEW v \in Nat, NEW d \in Schema, View(v, d)'
    PROVE  \/ View(v, d)
           \/ /\ v = entity.version + 1 /\ d = entity'.fields /\ ValidSchema(d)
              /\ UNCHANGED <<record, form, dashboard>>
<1>1. CASE entity'.version = v /\ entity'.version > 0 /\ entity'.fields = d
  BY <1>1, EntityStep DEF View
<1>2. CASE \E r \in Request : Writing(r)' /\ request'[r].read = v /\ request'[r].fields = d
  BY <1>2, RequestStep DEF View
<1> QED
  BY <1>1, <1>2 DEF View

\* What a request read is of a version that was there, and stays so.
LEMMA CopiesStep ==
    ASSUME TypeOK, Copies, Rows, Fitting, [Next]_vars
    PROVE  Copies'
<1>1. entity' = entity \/ entity'.version = entity.version + 1
  BY EntityStep
<1>2. entity.version \in Nat
  BY DEF TypeOK
<1>3. ASSUME NEW r \in Request, Writing(r)'
      PROVE  /\ request'[r].version <= request'[r].read
             /\ 1 <= request'[r].read /\ request'[r].read <= entity'.version
  <2>1. CASE Writing(r) /\ request'[r] = request[r]
    BY <1>1, <1>2, <2>1, RequestFacts DEF Copies
  <2>2. CASE ~ (Writing(r) /\ request'[r] = request[r])
    BY <1>2, <1>3, <2>2, RequestStep
  <2> QED
    BY <2>1, <2>2
<1>4. ASSUME NEW r \in Request, At(r, "fields")'
      PROVE  request'[r].version <= entity'.version /\ 1 <= entity'.version
  <2>1. CASE At(r, "fields") /\ request'[r] = request[r]
    BY <1>1, <1>2, <2>1, RequestFacts DEF Copies
  <2>2. CASE ~ (At(r, "fields") /\ request'[r] = request[r])
    BY <1>2, <1>4, <2>2, RequestStep
  <2> QED
    BY <2>1, <2>2
<1> QED
  BY <1>3, <1>4 DEF Copies

\* The definitions of two views are one: a new version is nobody's but the entity's.
LEMMA OneDefinitionStep ==
    ASSUME TypeOK, Copies, Rows, OneDefinition, Fitting, [Next]_vars
    PROVE  OneDefinition'
<1> SUFFICES ASSUME NEW v \in Nat, NEW d \in Schema, NEW e \in Schema, View(v, d)', View(v, e)'
             PROVE  d = e
  BY DEF OneDefinition
<1>1. \A c \in Schema : View(v, c) => v <= entity.version
  BY DEF View, Copies, TypeOK
<1>2. entity.version \in Nat
  BY DEF TypeOK
<1>3. View(v, d) \/ (v = entity.version + 1 /\ d = entity'.fields)
  BY ViewStep
<1>4. View(v, e) \/ (v = entity.version + 1 /\ e = entity'.fields)
  BY ViewStep
<1> QED
  BY <1>1, <1>2, <1>3, <1>4 DEF OneDefinition

\* What a request writes it writes from a view of its own.
LEMMA WriteFits ==
    ASSUME TypeOK, Copies, Rows, OneDefinition, Fitting, NEW r \in Request, Writing(r)
    PROVE  /\ request[r].read \in Nat /\ request[r].fields \in Schema
           /\ 1 <= request[r].read /\ request[r].read <= entity.version
           /\ View(request[r].read, request[r].fields)
           /\ ValidSchema(request[r].fields)
           /\ Fits(request[r].read, request[r].fields)
           /\ \A d \in Schema : View(request[r].read, d) => d = request[r].fields
<1>1. request[r].read \in Nat /\ request[r].fields \in Schema
  BY RequestFacts
<1>2. View(request[r].read, request[r].fields)
  BY DEF View
<1> QED
  BY <1>1, <1>2 DEF Copies, Fitting, OneDefinition

\* The values of a record that was just written conform to the fields they were
\* checked against.
LEMMA CompletedConforms ==
    ASSUME NEW d \in Schema, ValidSchema(d), NEW raw \in Raw(d), Accepted(d, raw)
    PROVE  Conforms(d, Completed(d, raw))
<1>1. /\ DOMAIN raw \subseteq DOMAIN d
      /\ DOMAIN Completed(d, raw) = DOMAIN raw \cup {g \in DOMAIN d : d[g].default # None}
      /\ \A f \in DOMAIN Completed(d, raw) :
            Completed(d, raw)[f] = IF f \in DOMAIN raw THEN raw[f] ELSE d[f].default
  BY CompletedTyped
<1> QED
  BY <1>1 DEF Conforms, Accepted

\* A numeric field of a record that conforms has a number.
LEMMA NumericConforms ==
    ASSUME NEW d \in Schema, ValidSchema(d), NEW values, Conforms(d, values),
           NEW f \in DOMAIN values, d[f].kind \in Numeric
    PROVE  values[f] \in Numbers
<1>1. f \in DOMAIN d
  BY DEF Conforms
<1>2. values[f] \in Accepts[d[f].kind] \cup ({d[f].default} \ {None})
  BY <1>1 DEF Conforms
<1>3. d[f].default \in Numbers \cup {None}
  BY <1>1 DEF ValidSchema, DefaultAccepts
<1>4. Accepts[d[f].kind] \subseteq Numbers
  BY DEF Numeric, Accepts, Numbers
<1> QED
  BY <1>2, <1>3, <1>4

\* One step of writing, by the row it writes.
LEMMA RecordWritten ==
    ASSUME TypeOK, Copies, Rows, OneDefinition, Fitting, NEW r \in Request, WriteRecord(r)
    PROVE  /\ Writing(r) /\ request[r].id \in Record
           /\ record'[request[r].id].read = request[r].read
           /\ Conforms(request[r].fields, record'[request[r].id].values)
           /\ \A i \in Record : i # request[r].id => record'[i] = record[i]
           /\ UNCHANGED <<entity, form, dashboard>>
<1>1. Writing(r) /\ request[r].id \in Record
  BY DEF WriteRecord, At, Writing, Operations, TypeOK
<1>2. PICK raw \in Raw(request[r].fields) :
        /\ Accepted(request[r].fields, raw)
        /\ record' = [record EXCEPT ![request[r].id] =
              [version |-> @.version + 1, values |-> Completed(request[r].fields, raw),
               read |-> request[r].read]]
  BY DEF WriteRecord
<1>3. record'[request[r].id] = [version |-> record[request[r].id].version + 1,
                               values |-> Completed(request[r].fields, raw), read |-> request[r].read]
  BY <1>1, <1>2 DEF TypeOK
<1>4. Conforms(request[r].fields, Completed(request[r].fields, raw))
  BY <1>1, <1>2, WriteFits, CompletedConforms
<1> QED
  BY <1>1, <1>2, <1>3, <1>4 DEF WriteRecord, TypeOK

\* A form that was just saved shows the fields it was checked against.
LEMMA FormWritten ==
    ASSUME TypeOK, NEW r \in Request, DefineForm(r)
    PROVE  /\ Writing(r) /\ form'.read = request[r].read
           /\ DOMAIN form'.fields \subseteq DOMAIN request[r].fields
           /\ \A f \in DOMAIN form'.fields : form'.fields[f].kind = request[r].fields[f].kind
           /\ UNCHANGED <<entity, record, dashboard>>
<1>1. Writing(r) /\ request[r].fields \in Schema
  BY RequestFacts DEF DefineForm, At, Writing, Operations
<1>2. PICK S \in (SUBSET DOMAIN request[r].fields) \ {{}} : \E extra \in SUBSET S :
        form' = [status |-> "active", version |-> form.version + 1,
                 fields |-> Components(request[r].fields, S, extra), read |-> request[r].read]
  BY DEF DefineForm
<1>3. PICK extra \in SUBSET S :
        form'.fields = Components(request[r].fields, S, extra) /\ form'.read = request[r].read
  BY <1>2
<1>4. /\ DOMAIN Components(request[r].fields, S, extra) = S
      /\ \A f \in S : Components(request[r].fields, S, extra)[f].kind = request[r].fields[f].kind
  BY <1>1, ComponentsTyped
<1> QED
  BY <1>1, <1>3, <1>4 DEF DefineForm

\* A sum that was just saved is over a numeric field of those it was checked against.
LEMMA DashboardWritten ==
    ASSUME TypeOK, NEW r \in Request, SaveDashboard(r)
    PROVE  /\ Writing(r) /\ dashboard'.read = request[r].read
           /\ dashboard'.field \in DOMAIN request[r].fields
           /\ request[r].fields[dashboard'.field].kind \in Numeric
           /\ UNCHANGED <<entity, record, form>>
<1>1. Writing(r)
  BY DEF SaveDashboard, At, Writing, Operations
<1> QED
  BY <1>1 DEF SaveDashboard

\* What was written before, a step does not check again.
Kept ==
    /\ UNCHANGED <<record, dashboard>>
    /\ form'.fields = form.fields /\ form'.read = form.read

\* A step writes one row, or none.
LEMMA WritesStep ==
    ASSUME TypeOK, [Next]_vars
    PROVE  \/ Kept
           \/ \E r \in Request : WriteRecord(r) \/ DefineForm(r) \/ SaveDashboard(r)
<1>1. CASE ArchiveForm
  <2>1. form' = [status |-> "archived", version |-> form.version + 1, fields |-> form.fields,
                 read |-> form.read]
    BY <1>1 DEF ArchiveForm, TypeOK
  <2> QED
    BY <1>1, <2>1 DEF ArchiveForm, Kept
<1>2. CASE ~ ArchiveForm
  BY <1>2 DEF Next, FindForm, GetEntity, LoadFields, GiveUp, CreateEntity, DefineEntity, ArchiveEntity,
         Unwritten, vars, Kept
<1> QED
  BY <1>1, <1>2

\* The version of what is written is one the entity has had.
LEMMA RowsStep ==
    ASSUME TypeOK, Copies, Rows, OneDefinition, Fitting, [Next]_vars
    PROVE  Rows'
<1>1. \/ entity' = entity
      \/ /\ entity'.version = entity.version + 1 /\ entity'.status # "absent"
         /\ entity'.fields \in Schema
  BY EntityStep
<1>2. entity.version \in Nat
  BY DEF TypeOK
<1>3. /\ entity'.status = "absent" <=> entity'.version = 0
      /\ entity'.version > 0 => entity'.fields \in Schema
      /\ entity.version <= entity'.version
  BY <1>1, <1>2 DEF Rows
<1>4. /\ \A i \in Record : record[i].read \in Nat
      /\ form.read \in Nat /\ dashboard.read \in Nat /\ entity'.version \in Nat
  BY <1>1, <1>2 DEF TypeOK
<1>5. CASE Kept
  BY <1>2, <1>3, <1>4, <1>5 DEF Kept, Rows
<1>6. ASSUME NEW r \in Request, WriteRecord(r) PROVE Rows'
  <2>1. /\ request[r].id \in Record /\ record'[request[r].id].read = request[r].read
        /\ 1 <= request[r].read /\ request[r].read <= entity.version
        /\ \A i \in Record : i # request[r].id => record'[i] = record[i]
        /\ UNCHANGED <<entity, form, dashboard>>
    BY <1>6, RecordWritten, WriteFits
  <2> QED
    BY <2>1 DEF Rows
<1>7. ASSUME NEW r \in Request, DefineForm(r) PROVE Rows'
  <2>1. /\ form'.read = request[r].read /\ request[r].read <= entity.version
        /\ UNCHANGED <<entity, record, dashboard>>
    BY <1>7, FormWritten, WriteFits
  <2> QED
    BY <2>1 DEF Rows
<1>8. ASSUME NEW r \in Request, SaveDashboard(r) PROVE Rows'
  <2>1. /\ dashboard'.read = request[r].read /\ request[r].read <= entity.version
        /\ UNCHANGED <<entity, record, form>>
    BY <1>8, DashboardWritten, WriteFits
  <2> QED
    BY <2>1 DEF Rows
<1> QED
  BY <1>5, <1>6, <1>7, <1>8, WritesStep

\* What fits a definition still does after a step, and what the step writes fits, too.
LEMMA FitsStep ==
    ASSUME TypeOK, Copies, Rows, OneDefinition, Fitting, [Next]_vars,
           NEW v \in Nat, NEW d \in Schema, View(v, d)
    PROVE  Fits(v, d)'
<1>1. Fits(v, d)
  BY DEF Fitting
<1>2. CASE Kept
  BY <1>1, <1>2 DEF Kept, Fits, Shown, Summed, Conforms
<1>3. ASSUME NEW r \in Request, Writing(r), request[r].read = v PROVE d = request[r].fields
  BY <1>3, WriteFits
<1>4. ASSUME NEW r \in Request, WriteRecord(r) PROVE Fits(v, d)'
  <2>1. \A i \in Record : record'[i].read = v => Conforms(d, record'[i].values)
    BY <1>1, <1>3, <1>4, RecordWritten DEF Fits
  <2>2. UNCHANGED <<form, dashboard>>
    BY <1>4, RecordWritten
  <2> QED
    BY <1>1, <2>1, <2>2 DEF Fits, Shown, Summed, Conforms
<1>5. ASSUME NEW r \in Request, DefineForm(r) PROVE Fits(v, d)'
  <2>1. form'.read = v => Shown(d)'
    BY <1>3, <1>5, FormWritten DEF Shown
  <2>2. UNCHANGED <<record, dashboard>>
    BY <1>5, FormWritten
  <2> QED
    BY <1>1, <2>1, <2>2 DEF Fits, Summed, Conforms
<1>6. ASSUME NEW r \in Request, SaveDashboard(r) PROVE Fits(v, d)'
  <2>1. dashboard'.read = v => Summed(d)'
    BY <1>3, <1>6, DashboardWritten DEF Summed
  <2>2. UNCHANGED <<record, form>>
    BY <1>6, DashboardWritten
  <2> QED
    BY <1>1, <2>1, <2>2 DEF Fits, Shown, Conforms
<1> QED
  BY <1>2, <1>4, <1>5, <1>6, WritesStep

\* Under a version that has just come to be, nothing has been written.
LEMMA FittingStep ==
    ASSUME TypeOK, Copies, Rows, OneDefinition, Fitting, [Next]_vars
    PROVE  Fitting'
<1> SUFFICES ASSUME NEW v \in Nat, NEW d \in Schema, View(v, d)'
             PROVE  ValidSchema(d) /\ Fits(v, d)'
  BY DEF Fitting, ValidSchema, DefaultAccepts
<1>1. CASE View(v, d)
  BY <1>1, FitsStep DEF Fitting
<1>2. CASE /\ v = entity.version + 1 /\ ValidSchema(d)
           /\ UNCHANGED <<record, form, dashboard>>
  <2>1. entity.version \in Nat /\ form.read \in Nat /\ dashboard.read \in Nat
    BY DEF TypeOK
  <2>2. \A i \in Record : record[i].read \in Nat /\ record[i].read <= entity.version
    BY DEF TypeOK, Rows
  <2>3. form.read # v /\ dashboard.read # v /\ \A i \in Record : record[i].read # v
    BY <1>2, <2>1, <2>2 DEF Rows
  <2> QED
    BY <1>2, <2>3 DEF Fits
<1> QED
  BY <1>1, <1>2, ViewStep

\* A record and a sum of the same version were checked against the same fields, in
\* whichever order they are written.
LEMMA SumsStep ==
    ASSUME IInv, [Next]_vars
    PROVE  SumsExplained'
<1> USE DEF IInv
<1>1. CASE UNCHANGED <<record, dashboard>>
  BY <1>1 DEF SumsExplained, SumFails
<1>2. ASSUME NEW r \in Request, WriteRecord(r) PROVE SumsExplained'
  <2> DEFINE id == request[r].id
             d == request[r].fields
  <2>1. /\ Writing(r) /\ id \in Record /\ record'[id].read = request[r].read
        /\ Conforms(d, record'[id].values)
        /\ \A i \in Record : i # id => record'[i] = record[i]
        /\ UNCHANGED dashboard
    BY <1>2, RecordWritten
  <2>2. d \in Schema /\ ValidSchema(d) /\ Fits(request[r].read, d)
    BY <2>1, WriteFits
  <2>3. ASSUME record'[id].read = dashboard.read, dashboard.field \in DOMAIN record'[id].values
        PROVE  record'[id].values[dashboard.field] \in Numbers
    <3>1. d[dashboard.field].kind \in Numeric
      BY <2>1, <2>2, <2>3 DEF Fits, Summed
    <3> HIDE DEF id, d
    <3> QED
      BY <2>1, <2>2, <2>3, <3>1, NumericConforms
  <2> HIDE DEF id, d
  <2> QED
    BY <2>1, <2>3 DEF SumsExplained, SumFails
<1>3. ASSUME NEW r \in Request, SaveDashboard(r) PROVE SumsExplained'
  <2> DEFINE d == request[r].fields
  <2>1. /\ Writing(r) /\ dashboard'.read = request[r].read
        /\ d[dashboard'.field].kind \in Numeric /\ UNCHANGED record
    BY <1>3, DashboardWritten
  <2>2. d \in Schema /\ ValidSchema(d) /\ Fits(request[r].read, d)
    BY <2>1, WriteFits
  <2> HIDE DEF d
  <2>3. ASSUME NEW i \in Record, record[i].read = dashboard'.read,
               dashboard'.field \in DOMAIN record[i].values
        PROVE  record[i].values[dashboard'.field] \in Numbers
    <3>1. Conforms(d, record[i].values)
      BY <2>1, <2>2, <2>3 DEF Fits
    <3> QED
      BY <2>1, <2>2, <2>3, <3>1, NumericConforms
  <2> QED
    BY <2>1, <2>3 DEF SumsExplained, SumFails
<1>4. ASSUME NEW r \in Request, DefineForm(r) PROVE UNCHANGED <<record, dashboard>>
  BY <1>4, FormWritten
<1> QED
  BY <1>1, <1>2, <1>3, <1>4, WritesStep DEF Kept

\* Before the first definition nobody knows one and nothing is written.
LEMMA InitIInv == Init => IInv
<1> SUFFICES ASSUME Init PROVE IInv
  OBVIOUS
<1>1. TypeOK
  BY InitTypes
<1>2. \A r \in Request : ~ Writing(r) /\ ~ At(r, "fields")
  BY DEF Init, Idle, Writing, At, Operations
<1>3. Copies
  BY <1>2 DEF Copies
<1>4. Rows
  BY DEF Init, Rows
<1>5. \A v \in Nat, d \in Schema : ~ View(v, d)
  BY <1>2 DEF View, Init
<1>6. OneDefinition /\ Fitting
  BY <1>5 DEF OneDefinition, Fitting
<1>7. SumsExplained
  BY DEF Init, SumsExplained, SumFails
<1> QED
  BY <1>1, <1>3, <1>4, <1>6, <1>7 DEF IInv

\* Every step keeps the invariant.
LEMMA IInvStep == IInv /\ [Next]_vars => IInv'
  BY TypeStep, CopiesStep, RowsStep, OneDefinitionStep, FittingStep, SumsStep DEF IInv

\* The invariant holds in every reachable state.
LEMMA IInvHolds == Spec => []IInv
  BY InitIInv, IInvStep, PTL DEF Spec

-----------------------------------------------------------------------------
(* Theorems *)

\* The rows keep their columns' types, and a request holds what its place needs.
THEOREM TypeCorrect == Spec => []TypeOK
<1>1. IInv => TypeOK
  BY DEF IInv
<1> QED
  BY <1>1, IInvHolds, PTL

\* Whoever edits an entity, a record fits the definition that is current when it was
\* checked under that version, defaults that a check would refuse aside.
THEOREM RecordsFitHolds == Spec => []RecordsFit
<1>1. IInv => RecordsFit
  <2> SUFFICES ASSUME IInv, NEW i \in Record, record[i].version > 0, record[i].read = entity.version
               PROVE  Conforms(entity.fields, record[i].values)
    BY DEF RecordsFit
  <2>1. entity.version \in Nat /\ 1 <= entity.version
    BY DEF IInv, TypeOK, Rows
  <2>2. entity.fields \in Schema /\ View(entity.version, entity.fields)
    BY <2>1 DEF IInv, Rows, View
  <2>3. Fits(entity.version, entity.fields)
    BY <2>1, <2>2 DEF IInv, Fitting
  <2> QED
    BY <2>3 DEF Fits
<1> QED
  BY <1>1, IInvHolds, PTL

\* A dashboard's sum fails only over a record that was checked under another version of
\* the entity: the same checks, made twice, do agree on what is a number.
THEOREM SumsHold == Spec => []SumsExplained
<1>1. IInv => SumsExplained
  BY DEF IInv
<1> QED
  BY <1>1, IInvHolds, PTL

\* The row's version, compared when a definition is replaced, does stand for the fields
\* its editor was given in a second statement.
THEOREM NoOverwrite == Spec => NoBlindOverwrite
<1>1. ASSUME IInv, [Next]_vars, NEW r \in Request, At(r, "entity"), request'[r] = Idle,
             entity'.version > entity.version, entity'.status = "active"
      PROVE  request[r].read = entity.version /\ request[r].fields = entity.fields
  <2>1. Writing(r)
    BY <1>1 DEF At, Writing, Operations
  <2>2. entity.version \in Nat /\ request[r].pc # "idle"
    BY <1>1 DEF At, IInv, TypeOK
  <2>3. request'[r] # request[r]
    BY <1>1, <2>2, IdleTyped
  <2>4. DefineEntity(r)
    <3>1. CASE \E q \in Request : DefineEntity(q)
      BY <1>1, <2>3, <3>1 DEF DefineEntity, Goes, IInv, TypeOK
    <3>2. CASE \E q \in Request : CreateEntity(q)
      BY <2>3, <3>2 DEF CreateEntity
    <3>3. CASE ArchiveEntity
      BY <2>3, <3>3 DEF ArchiveEntity
    <3>4. entity' # entity
      BY <1>1, <2>2
    <3> QED
      BY <1>1, <3>1, <3>2, <3>3, <3>4
         DEF Next, FindForm, GetEntity, LoadFields, GiveUp, DefineForm, WriteRecord, SaveDashboard,
             ArchiveForm, Unwritten, vars
  <2>5. entity.version = request[r].version
    BY <2>4 DEF DefineEntity, Expected
  <2>6. request[r].read = entity.version
    BY <1>1, <2>1, <2>2, <2>5, RequestFacts DEF IInv, Copies
  <2>7. 1 <= entity.version /\ request[r].fields \in Schema
    BY <1>1, <2>1, <2>6, RequestFacts DEF IInv, Copies
  <2>8. entity.fields \in Schema
    BY <1>1, <2>2, <2>7 DEF IInv, Rows
  <2>9. View(entity.version, entity.fields) /\ View(entity.version, request[r].fields)
    BY <2>1, <2>2, <2>6, <2>7 DEF View
  <2> QED
    BY <1>1, <2>2, <2>6, <2>7, <2>8, <2>9 DEF IInv, OneDefinition
<1>2. IInv /\ [Next]_vars =>
        [\A r \in Request :
            /\ At(r, "entity") /\ request'[r] = Idle
            /\ entity'.version > entity.version /\ entity'.status = "active"
            => request[r].read = entity.version /\ request[r].fields = entity.fields]_vars
  BY <1>1
<1> QED
  BY <1>2, IInvHolds, PTL DEF Spec, NoBlindOverwrite

\* What is stored of a submission, where its form was saved under the same version, is
\* what the form's JSON schema asks for but in the two ways its property names.
THEOREM SubmissionsHold == Spec => SubmissionsExplained
<1>1. ASSUME IInv, [Next]_vars, NEW r \in Request, NEW i \in Record,
             At(r, "submit"), record'[i] # record[i], request'[r] = Idle,
             form.version = request[r].shown, form.read = request[r].read,
             NEW f \in DOMAIN form.fields
      PROVE  IF f \in DOMAIN record'[i].values
             THEN Matches(record'[i].values[f], form.fields[f].kind)
             ELSE form.fields[f].required => ~ request[r].fields[f].required
  <2> DEFINE d == request[r].fields
             values == record'[i].values
  <2>1. Writing(r)
    BY <1>1 DEF At, Writing, Operations
  <2>2. WriteRecord(r)
    <3>1. request'[r] # request[r]
      BY <1>1, IdleTyped DEF At
    <3>2. PICK q \in Request : WriteRecord(q) \/ DefineForm(q) \/ SaveDashboard(q)
      BY <1>1, WritesStep DEF IInv, Kept
    <3>3. WriteRecord(q)
      BY <1>1, <3>2, FormWritten, DashboardWritten DEF IInv
    <3> QED
      BY <1>1, <3>1, <3>3 DEF WriteRecord, Goes, IInv, TypeOK
  <2>3. Conforms(d, values)
    BY <1>1, <2>2, RecordWritten DEF IInv
  <2>4. d \in Schema /\ ValidSchema(d) /\ Shown(d)
    BY <1>1, <2>1, WriteFits DEF IInv, Fits
  <2>5. f \in DOMAIN d /\ form.fields[f].kind = d[f].kind /\ d[f].kind \in Kinds
    BY <1>1, <2>4 DEF Shown, Schema, Definition
  <2> HIDE DEF d, values
  <2>6. CASE f \notin DOMAIN values
    BY <2>3, <2>5, <2>6 DEF Conforms, d, values
  <2>7. CASE f \in DOMAIN values /\ d[f].kind \in Numeric
    <3>1. values[f] \in Numbers
      BY <2>3, <2>4, <2>7, NumericConforms
    <3> QED
      BY <2>5, <2>7, <3>1 DEF Matches, values
  <2>8. CASE f \in DOMAIN values /\ d[f].kind \notin Numeric
    <3>1. values[f] \in Accepts[d[f].kind] \cup ({d[f].default} \ {None})
      BY <2>3, <2>5, <2>8 DEF Conforms
    <3>2. Accepts[d[f].kind] \subseteq {"text", "date"}
      BY <2>5, <2>8 DEF Kinds, Numeric, Accepts
    <3>3. d[f].default \in {"text", "blank", "date", None}
      BY <2>4, <2>5, <2>8 DEF ValidSchema, DefaultAccepts
    <3>4. values[f] \notin Numbers
      BY <3>1, <3>2, <3>3 DEF Numbers
    <3> QED
      BY <2>5, <2>8, <3>4 DEF Matches, values
  <2> QED
    BY <2>6, <2>7, <2>8
<1>2. IInv /\ [Next]_vars =>
        [\A r \in Request : \A i \in Record :
            /\ At(r, "submit") /\ record'[i] # record[i] /\ request'[r] = Idle
            /\ form.version = request[r].shown /\ form.read = request[r].read
            => LET values == record'[i].values IN
               \A f \in DOMAIN form.fields :
                  IF f \in DOMAIN values THEN Matches(values[f], form.fields[f].kind)
                  ELSE form.fields[f].required => ~ request[r].fields[f].required]_vars
  BY <1>1
<1> QED
  BY <1>2, IInvHolds, PTL DEF Spec, SubmissionsExplained
=============================================================================
