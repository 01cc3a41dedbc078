--------------------------- MODULE DocumentRequests ---------------------------
(***************************************************************************)
(* The service for passports and templates: every request loads the        *)
(* document, checks whose it is and that it is not archived, and gives the *)
(* rest to the environment service.  One document, one request at a time:  *)
(* the request first changes the aggregates in memory, then its            *)
(* transaction writes them; the transaction may be aborted and run again   *)
(* on what is in memory.  Requests at the same time are in                 *)
(* AtomicDocuments and DigitalProductDocuments.                            *)
(***************************************************************************)
EXTENDS SubmodelContent, StatusMachine

-----------------------------------------------------------------------------
(* The environment service: what each request does in memory, the activity *)
(* that it makes of that and the aggregates that it saves, as the job that *)
(* its transaction has to do.  "doc" is the document as loaded, "h" the    *)
(* header of the activity; a request that is refused gives no job.         *)

Aggregates == {"submodel", "aas", "environment"}

\* The aggregates as loaded: nothing is tracked yet, no event is published.
Load(doc) ==
    [content |-> doc.content, rows |-> doc.rows, policies |-> doc.policies,
     shell |-> doc.shell, refs |-> doc.refs, submodels |-> doc.submodels,
     told |-> [a \in Aggregates |-> Tracker], deleteEvents |-> <<>>, moveEvents |-> <<>>]

\* What a transaction does: notify the observers, or delete a submodel, save
\* the aggregates, store the activity; the answer shows the element at a path.
Job(w, activity, saves, answer) ==
    [work |-> w, activity |-> activity, saves |-> saves, answer |-> answer,
     deletes |-> None, header |-> activity.header]

\* The jobs of the outcomes, with the activity that Of makes of each.
Jobs(outcomes, Of(_, _), h, saves, answer) ==
    {Job(w, Of(h, w.told), saves, answer) : w \in outcomes}

OnlySubmodel == {"submodel"}
WithShell == {"submodel", "aas"}

-----------------------------------------------------------------------------

modifyAasShell(doc, h, m) ==
    Jobs(modifyShell(Load(doc), m), AssetAdministrationShellModifiedActivity, h, {"aas"}, None)
deletePolicy(doc, h, path) ==
    Jobs({deletePolicyBySubjectAndObject(Load(doc), path)}, PolicyDeletedActivity, h, {"aas"}, None)

addSubmodelToEnvironment(doc, h, s) ==
    LET w == addSubmodelToShell(addSubmodelToEnv(Load(doc), s), s)
        added == PutAll(w, {s}, Leaf("Submodel", None))
    IN  When(~Exists(w, s), Job(added, SubmodelAddedActivity(h, added.told, s), Aggregates, s))

\* Everything but the check happens inside the transaction.
deleteSubmodelFromEnvironment(doc, h, s) ==
    When(s \in doc.submodels,
         [Job(Load(doc), Activity("none", h, <<>>), Aggregates, None) EXCEPT !.deletes = s])

modifySubmodel(doc, h, s, m) ==
    Jobs(modify(Load(doc), <<[m EXCEPT !.path = s, !.value = Absent]>>),
         SubmodelModifiedActivity, h, OnlySubmodel, s)
modifyValueOfSubmodel(doc, h, s, ms) ==
    Jobs(modifyValue(Load(doc), ms), SubmodelValueModifiedActivity, h, OnlySubmodel, s)
addElement(doc, h, parent, name, e) ==
    Jobs(addSubmodelElement(Load(doc), parent, name, e),
         SubmodelElementAddedActivity, h, OnlySubmodel, Append(parent, name))
modifySubmodelElement(doc, h, path, ms) ==
    Jobs(modify(Load(doc), ms), SubmodelElementModifiedActivity, h, OnlySubmodel, path)
modifyValueOfSubmodelElement(doc, h, path, ms) ==
    Jobs(modifyValue(Load(doc), ms), SubmodelElementValueModifiedActivity, h, OnlySubmodel, path)
deleteElement(doc, h, path) ==
    Jobs(deleteSubmodelElement(Load(doc), path),
         SubmodelElementDeletedActivity, h, WithShell, None)

tableAddColumn(doc, h, t, name, e) ==
    Jobs(addColumn(Load(doc), t, name, e), ColumnAddedActivity, h, OnlySubmodel, t)
tableModifyColumn(doc, h, t, name, m) ==
    Jobs(modifyColumn(Load(doc), t, name, m), ColumnModifiedActivity, h, OnlySubmodel, t)
tableDeleteColumn(doc, h, t, name) ==
    Jobs(deleteColumn(Load(doc), t, name), ColumnDeletedActivity, h, WithShell, t)
tableAddColumnToGroup(doc, h, t, group, name, e) ==
    Jobs(addColumnToGroup(Load(doc), t, group, name, e),
         ColumnAddedToGroupActivity, h, OnlySubmodel, t)
tableModifyColumnInGroup(doc, h, t, group, name, m) ==
    Jobs(modifyColumnInGroup(Load(doc), t, group, name, m),
         ColumnModifiedInGroupActivity, h, OnlySubmodel, t)
tableDeleteColumnFromGroup(doc, h, t, group, name) ==
    Jobs(deleteColumnFromGroup(Load(doc), t, group, name),
         ColumnDeletedFromGroupActivity, h, WithShell, t)
tableMoveColumnToGroup(doc, h, t, name, group) ==
    Jobs(moveColumnToGroup(Load(doc), t, name, group),
         ColumnMovedToGroupActivity, h, WithShell, t)
tableCreateGroup(doc, h, t, name, group) ==
    Jobs(createGroupFromColumn(Load(doc), t, name, group),
         ColumnGroupCreatedActivity, h, WithShell, t)
tableAddRow(doc, h, t, first) ==
    Jobs(addRow(Load(doc), t, first), RowAddedActivity, h, OnlySubmodel, t)
tableDeleteRow(doc, h, t, row) ==
    Jobs(deleteRow(Load(doc), t, row), RowDeletedActivity, h, WithShell, t)

-----------------------------------------------------------------------------
(* What the callback of the transaction does with a job *)

\* The observers are told of the events: the policies follow the elements.
notify(w) ==
    LET moved == FoldLeft(LAMBDA x, e : movePolicy(x, e[1], e[2]), w, w.moveEvents)
    IN  FoldLeft(LAMBDA x, p : deletePoliciesByObjectPath(x, p), moved, w.deleteEvents)

\* The deletion of a submodel changes the aggregates and makes the activity.
DeleteSubmodel(job) ==
    LET s == job.deletes
    IN  {[job EXCEPT !.work = publishDeleteEvent(RemoveAll(w, {s}), s),
                     !.activity = SubmodelDeletedActivity(job.header, w.told, s)] :
            w \in deleteSubmodelFromEnv(deleteSubmodelFromShell(job.work, s), s)}

Callback(job) ==
    IF job.deletes # None THEN DeleteSubmodel(job)
    ELSE {[job EXCEPT !.work = notify(@)]}

-----------------------------------------------------------------------------
(* The service *)

CONSTANTS
    Users,              \* [id, org, role]; role "none" for no member
    StartDocuments,     \* documents at the start
    MaxRequests,        \* bound: requests in all
    MaxAborts           \* bound: aborted transactions in all

VARIABLES
    document,           \* what the database has of the document
    history,            \* the stored activities, oldest first
    job,                \* what the transaction under way has to do, or None
    answer,             \* what the last request was answered, or None
    requests, aborts    \* counters for the bounds

vars == <<document, history, job, answer, requests, aborts>>

Init ==
    /\ document \in StartDocuments
    /\ history = <<>> /\ job = None /\ answer = None
    /\ requests = 0 /\ aborts = 0

-----------------------------------------------------------------------------
(* Guards, and the observers that a request registers *)

loadDigitalProductDocumentAndCheckOwnership(kind, u) ==
    document.kind = kind /\ document.org = u.org /\ u.role # "none"
archiveGuard == document.status # "Archived"

Header(u) == createActivityHeader(u.id, requests)
Permitted(kind, u, jobs, observers) ==
    IF loadDigitalProductDocumentAndCheckOwnership(kind, u) /\ archiveGuard
    THEN {[observers |-> observers] @@ j : j \in jobs} ELSE {}
Deletion == {"delete"}
Movement == {"move"}

-----------------------------------------------------------------------------
(* The requests that change a document *)

createSubmodel(kind, u, s) ==
    Permitted(kind, u, addSubmodelToEnvironment(document, Header(u), s), {})
addColumnToSubmodelElementList(kind, u, t, name, e) ==
    Permitted(kind, u, tableAddColumn(document, Header(u), t, name, e), {})
addRowToSubmodelElementList(kind, u, t, first) ==
    Permitted(kind, u, tableAddRow(document, Header(u), t, first), {})
createSubmodelElement(kind, u, s, name, e) ==
    Permitted(kind, u, addElement(document, Header(u), s, name, e), {})
createSubmodelElementAtIdShortPath(kind, u, path, name, e) ==
    Permitted(kind, u, addElement(document, Header(u), path, name, e), {})
modifyShellOf(kind, u, m) ==
    Permitted(kind, u, modifyAasShell(document, Header(u), m), {})
modifySubmodelOf(kind, u, s, m) ==
    Permitted(kind, u, modifySubmodel(document, Header(u), s, m), {})
modifyValueOf(kind, u, s, ms) ==
    Permitted(kind, u, modifyValueOfSubmodel(document, Header(u), s, ms), {})
modifyColumnOfSubmodelElementList(kind, u, t, name, m) ==
    Permitted(kind, u, tableModifyColumn(document, Header(u), t, name, m), {})
modifyElement(kind, u, path, ms) ==
    Permitted(kind, u, modifySubmodelElement(document, Header(u), path, ms), {})
deleteSubmodel(kind, u, s) ==
    Permitted(kind, u, deleteSubmodelFromEnvironment(document, Header(u), s), Deletion)
deleteElementOf(kind, u, path) ==
    Permitted(kind, u, deleteElement(document, Header(u), path), Deletion)
deleteColumnFromSubmodelElementList(kind, u, t, name) ==
    Permitted(kind, u, tableDeleteColumn(document, Header(u), t, name), Deletion)
addColumnToGroupInSubmodelElementList(kind, u, t, group, name, e) ==
    Permitted(kind, u, tableAddColumnToGroup(document, Header(u), t, group, name, e), {})
modifyColumnInGroupOfSubmodelElementList(kind, u, t, group, name, m) ==
    Permitted(kind, u, tableModifyColumnInGroup(document, Header(u), t, group, name, m), {})
deleteColumnFromGroupInSubmodelElementList(kind, u, t, group, name) ==
    Permitted(kind, u, tableDeleteColumnFromGroup(document, Header(u), t, group, name),
              Movement \cup Deletion)
moveColumnToGroupInSubmodelElementList(kind, u, t, name, group) ==
    Permitted(kind, u, tableMoveColumnToGroup(document, Header(u), t, name, group), Movement)
createGroupFromColumnInSubmodelElementList(kind, u, t, name, group) ==
    Permitted(kind, u, tableCreateGroup(document, Header(u), t, name, group), Movement)
deletePolicyOf(kind, u, path) ==
    Permitted(kind, u, deletePolicy(document, Header(u), path), {})
deleteRowFromSubmodelElementList(kind, u, t, row) ==
    Permitted(kind, u, tableDeleteRow(document, Header(u), t, row), Deletion)
modifyElementValue(kind, u, path, ms) ==
    Permitted(kind, u, modifyValueOfSubmodelElement(document, Header(u), path, ms), {})

-----------------------------------------------------------------------------
(* A request is taken up and leaves a job; its transaction is run *)

\* The next request is taken up; one to the endpoints of the other kind does
\* not find the document.
Idle(kind) == job = None /\ requests < MaxRequests /\ document.kind = kind
Handle(jobs) ==
    /\ job' \in jobs
    /\ answer' = None /\ requests' = requests + 1
    /\ UNCHANGED <<document, history, aborts>>

\* The entries of the designs at and below a path move or go.
moveElementDesign(designs, old, new) ==
    {IF IsPrefix(old, d) THEN new \o SubSeq(d, Len(old) + 1, Len(d)) ELSE d : d \in designs}
deleteElementDesign(designs, path) == {d \in designs : ~IsPrefix(path, d)}
Notified(designs, w, observers) ==
    LET moved == IF "move" \notin observers THEN designs
                 ELSE FoldLeft(LAMBDA ds, e : moveElementDesign(ds, e[1], e[2]),
                               designs, w.moveEvents)
    IN  IF "delete" \notin observers THEN moved
        ELSE FoldLeft(deleteElementDesign, moved, w.deleteEvents)

\* The aggregates that a job saves are as in memory, the others as stored.
Saved(done) ==
    LET w == done.work
        from(a) == IF a \in done.saves THEN w ELSE document
    IN  [document EXCEPT
            !.content = from("submodel").content, !.rows = from("submodel").rows,
            !.policies = from("aas").policies, !.shell = from("aas").shell,
            !.refs = from("aas").refs, !.submodels = from("environment").submodels,
            !.designs = Notified(@, w, done.observers)]
Answer(done) ==
    IF done.answer = None THEN None
    ELSE [path |-> done.answer, element |-> Element(done.work, done.answer)]

TransactionCommits ==
    /\ job # None
    /\ \E done \in Callback(job) :
        /\ document' = Saved(done)
        /\ history' = IF isNoop(done.activity) THEN history ELSE Append(history, done.activity)
        /\ answer' = Answer(done)
    /\ job' = None
    /\ UNCHANGED <<requests, aborts>>

\* Aborted: what the callback did in memory stays, and it is run again.
TransactionAborts ==
    /\ job # None /\ aborts < MaxAborts
    /\ job' \in Callback(job)
    /\ aborts' = aborts + 1
    /\ UNCHANGED <<document, history, answer, requests>>

\* The callback throws, for a deletion that is done again.
TransactionFails ==
    /\ job # None /\ Callback(job) = {}
    /\ job' = None
    /\ UNCHANGED <<document, history, answer, requests, aborts>>

-----------------------------------------------------------------------------
(* Requests that read, and the status *)

\* The element at a path of the document, as it is read.
Read(kind, u, path) ==
    /\ loadDigitalProductDocumentAndCheckOwnership(kind, u)
    /\ Exists(document, path)
    /\ answer' = [path |-> path, element |-> Element(document, path)]
    /\ requests' = requests + 1
    /\ UNCHANGED <<document, history, job, aborts>>

\* Publish, archive or restore, with its activity.
modifyStatus(kind, u, op) ==
    /\ loadDigitalProductDocumentAndCheckOwnership(kind, u)
    /\ CASE op = "publish" -> MayPublish(document)
         [] op = "archive" -> MayArchive(document)
         [] op = "restore" -> MayRestore(document)
    /\ document' = HandleStatusChange(op, document)
    /\ history' = Append(history, DigitalProductDocumentStatusChangedActivity(Header(u),
                    DigitalProductDocumentStatusChanged(document.status, document'.status)))
    /\ answer' = None /\ requests' = requests + 1
    /\ UNCHANGED <<job, aborts>>

Transaction == TransactionCommits \/ TransactionAborts \/ TransactionFails

-----------------------------------------------------------------------------
(***************************************************************************)
(* What the requests to the endpoints of a document may contain: paths of  *)
(* the document, new names, values and texts from small sets.              *)
(***************************************************************************)

CONSTANTS
    NewSubmodels,       \* paths of submodels that requests add
    NewNames,           \* names of elements and columns that requests add
    NewKinds,           \* kinds of elements that requests add
    NewGroups,          \* names of groups that requests create
    Texts, Values,      \* texts, and values of elements, thumbnails too
    Rights              \* what policies of requests permit

Paths == DOMAIN document.content
ElementsThere == {p \in Paths : Len(p) > 1}
Tables == {p \in Paths : document.content[p].kind = "List"}
Collections == {p \in ElementsThere : document.content[p].kind = "Collection"}
Leaves == {p \in Paths : document.content[p].kind \in ValueKinds \cup {"MultiLanguage"}}

\* Names of columns and of groups of a table, or of one that has none.
Heads(t) == {p \in Paths : Len(p) = Len(t) + 2 /\ IsPrefix(t, p)}
ColumnsOf(t) == {Last1(p) : p \in Heads(t)}
GroupsOf(t) == {Last1(p) : p \in Heads(t) \cap Collections}
ColumnsIn(t, group) ==
    {Last1(p) : p \in {q \in Paths : /\ Len(q) = Len(t) + 3
                                      /\ IsPrefix(t, q) /\ q[Len(t) + 2] = group}}

NewElements == {Leaf(kind, None) : kind \in NewKinds}
NewCells == {Leaf(kind, None) : kind \in NewKinds \ {"List", "Collection"}}
NewColumns == NewCells \cup {Group(name, "Property") : name \in NewNames}
                       \cup {Leaf("Collection", None)}

\* A request names the text, the value or both.
Modification(path, text, value) == [path |-> path, text |-> text, value |-> value]
TextOf(path) == {Modification(path, text, Absent) : text \in Texts}
ValueOf(path) == {Modification(path, Absent, value) : value \in Values}
ModificationsOf(path) ==
    LET both == {Modification(path, text, value) : text \in Texts, value \in Values}
        children == UNION {ValueOf(q) : q \in {p \in Leaves : Front(p) = path}}
    IN  {<<m>> : m \in TextOf(path) \cup both}
        \cup {<<m, n>> : m \in TextOf(path), n \in children}
ValuesBelow(path) ==
    LET leaves == {p \in Leaves : IsPrefix(path, p)}
        all(value) == FoldSet(LAMBDA p, ms : Append(ms, Modification(p, Absent, value)), <<>>, leaves)
    IN  {<<m>> : m \in UNION {ValueOf(p) : p \in leaves}} \cup {all(value) : value \in Values}
ShellModifications ==
    LET fields == {[text |-> t, thumbnails |-> th, policies |-> <<>>] :
                      t \in Texts \cup {Absent}, th \in Values \cup {Absent}}
        policies == {[text |-> Absent, thumbnails |-> Absent,
                      policies |-> <<[path |-> p, may |-> may]>>] :
                      p \in Paths \cup NewSubmodels, may \in Rights}
    IN  fields \cup policies

=============================================================================

