--------------------------- MODULE SubmodelContent ---------------------------
(***************************************************************************)
(* The aggregates of one document as a request holds them in memory: the   *)
(* elements of its submodels by path, the rows of its tables, the policies *)
(* of one subordinate subject, the shell, the trackers and the events for  *)
(* the observers.  An operation gives the set of its outcomes, which is    *)
(* empty when the code throws.  Who may do what is in AccessControl, the   *)
(* positions of columns and tables in tables are in Tables.                *)
(***************************************************************************)
EXTENDS Activities, Naturals, SequencesExt, Functions

CONSTANTS
    Absent,             \* a field that a request does not have
    RowNames            \* the ids of rows

Node(kind, val) == [kind |-> kind, val |-> val, text |-> None]
\* An element: its nodes by the paths in it, and the rows of its tables.
Leaf(kind, val) ==
    [nodes |-> <<>> :> Node(kind, val), rows |-> IF kind = "List" THEN <<>> :> <<>> ELSE <<>>]
Group(name, kind) ==
    [nodes |-> (<<>> :> Node("Collection", None)) @@ (<<name>> :> Node(kind, None)),
     rows |-> <<>>]

Last1(path) == path[Len(path)]
Exists(w, path) == path \in DOMAIN w.content
KindAt(w, path) == w.content[path].kind
Above(path) == {SubSeq(path, 1, n) : n \in 1..(Len(path) - 1)}
Below(content, path) == {q \in DOMAIN content : IsPrefix(path, q)}
Children(w, path) == {q \in Below(w.content, path) : Len(q) = Len(path) + 1}
InTable(w, path) == \E q \in Above(path) : Exists(w, q) /\ KindAt(w, q) = "List"

\* The element at a path, apart from the path; and a document with an
\* element put at a path, or without the elements at and below some paths.
From(f, path) ==
    LET rel(q) == SubSeq(q, Len(path) + 1, Len(q))
    IN  [r \in {rel(q) : q \in Below(f, path)} |-> f[path \o r]]
At(path, f) == [q \in {path \o r : r \in DOMAIN f} |-> f[SubSeq(q, Len(path) + 1, Len(q))]]
Element(w, path) == [nodes |-> From(w.content, path), rows |-> From(w.rows, path)]
PutAll(w, paths, e) ==
    [w EXCEPT !.content = FoldSet(LAMBDA p, c : At(p, e.nodes) @@ c, @, paths),
              !.rows = FoldSet(LAMBDA p, c : At(p, e.rows) @@ c, @, paths)]
RemoveAll(w, paths) ==
    LET gone == UNION {Below(w.content, p) : p \in paths}
    IN  [w EXCEPT !.content = Restrict(@, DOMAIN @ \ gone),
                  !.rows = Restrict(@, DOMAIN @ \ gone)]

\* Tracking, and what the aggregates of a document report to their trackers.
withTracking(w, aggregate) == [w EXCEPT !.told[aggregate] = StartTracking(@)]
Report(w, aggregate, changes) == [w EXCEPT !.told[aggregate] = Track(@, changes)]
OfSubmodel(w, changes) == Report(w, "submodel", changes)
OfShell(w, changes) == Report(w, "aas", changes)
publishDeleteEvent(w, path) == [w EXCEPT !.deleteEvents = Append(@, path)]
publishMoveEvent(w, old, new) == [w EXCEPT !.moveEvents = Append(@, <<old, new>>)]

-----------------------------------------------------------------------------
(* Modifications: of the texts and the value of an element, of values *)

SetValue(w, m) == [w EXCEPT !.content[m.path].val = m.value]

modifyNameAndDescription(w, m) ==
    IF m.text = Absent THEN w
    ELSE OfSubmodel([w EXCEPT !.content[m.path].text = m.text],
                    DisplayNameChanged(m.path, w.content[m.path].text, m.text))

visitProperty(w, m) ==
    OfSubmodel(SetValue(w, m), PropertyValueChanged(m.path, w.content[m.path].val, m.value))
visitFile(w, m) ==
    OfSubmodel(SetValue(w, m), FileValueChanged(m.path, w.content[m.path].val, m.value))
visitReferenceElement(w, m) ==
    OfSubmodel(SetValue(w, m),
               ReferenceElementValueChanged(m.path, w.content[m.path].val, m.value))
visitMultiLanguageProperty(w, m) == SetValue(w, m)

ValueKinds == {"Property", "File", "Reference"}
ModifierVisitor(w, m) ==
    LET named == modifyNameAndDescription(w, m)
    IN  CASE m.value = Absent -> named
          [] KindAt(w, m.path) = "Property" -> visitProperty(named, m)
          [] KindAt(w, m.path) = "File" -> visitFile(named, m)
          [] KindAt(w, m.path) = "Reference" -> visitReferenceElement(named, m)
ValueModifierVisitor(w, m) ==
    CASE KindAt(w, m.path) = "Property" -> visitProperty(w, m)
      [] KindAt(w, m.path) = "File" -> visitFile(w, m)
      [] KindAt(w, m.path) = "Reference" -> visitReferenceElement(w, m)
      [] KindAt(w, m.path) = "MultiLanguage" -> visitMultiLanguageProperty(w, m)

\* The one outcome of an operation that throws unless a condition holds.
When(condition, w) == IF condition THEN {w} ELSE {}

\* A request modifies several elements, in its order.
CanModify(w, m) ==
    /\ Exists(w, m.path)
    /\ \/ KindAt(w, m.path) \in ValueKinds
       \/ m.value = Absent /\ KindAt(w, m.path) # "MultiLanguage"
modify(w, ms) ==
    When(\A i \in 1..Len(ms) : CanModify(w, ms[i]),
         FoldLeft(ModifierVisitor, withTracking(w, "submodel"), ms))
modifyValue(w, ms) ==
    When(\A i \in 1..Len(ms) : Exists(w, ms[i].path)
                               /\ KindAt(w, ms[i].path) \in ValueKinds \cup {"MultiLanguage"},
         FoldLeft(ValueModifierVisitor, withTracking(w, "submodel"), ms))

-----------------------------------------------------------------------------
(* Elements are added to submodels and collections, and deleted anywhere *)

addSubmodelElement(w, parent, name, e) ==
    LET path == Append(parent, name)
    IN  When(/\ Exists(w, parent) /\ KindAt(w, parent) \in {"Submodel", "Collection"}
             /\ ~Exists(w, path),
             OfSubmodel(PutAll(withTracking(w, "submodel"), {path}, e),
                        SubmodelElementAdded(path)))

\* The row order of the parent table, when a row is deleted as an element.
WithoutRow(w, path) ==
    LET parent == Front(path)
    IN  IF KindAt(w, parent) = "List"
        THEN [w EXCEPT !.rows[parent] = SelectSeq(@, LAMBDA r : r # Last1(path))]
        ELSE w
deleteSubmodelElement(w, path) ==
    When(Len(path) > 1 /\ Exists(w, path),
         OfSubmodel(publishDeleteEvent(RemoveAll(WithoutRow(withTracking(w, "submodel"), path),
                                                 {path}), path),
                    SubmodelElementDeleted(path)))

-----------------------------------------------------------------------------
(* Tables: a column is a cell in every row, the first row is the header *)

IsTable(w, table) == Exists(w, table) /\ KindAt(w, table) = "List"
RowPaths(w, table) == {Append(table, w.rows[table][i]) : i \in 1..Len(w.rows[table])}
HeaderRow(w, table) == Append(table, w.rows[table][1])
HasHeader(w, table) == w.rows[table] # <<>>

\* Where the cells of a column are in a row: the row itself, or a group.
Container(row, group) == IF group = None THEN row ELSE Append(row, group)
Containers(w, table, group) == {Container(r, group) : r \in RowPaths(w, table)}
Cells(w, table, group, name) == {Append(c, name) : c \in Containers(w, table, group)}
HeaderCell(w, table, group, name) == Append(Container(HeaderRow(w, table), group), name)
resolveContainer(w, table, group) ==
    \A c \in Containers(w, table, group) : Exists(w, c) /\ KindAt(w, c) = "Collection"

assertNotTableColumn(e) == e.nodes[<<>>].kind # "List"
CanAddColumn(w, table, group, name) ==
    /\ resolveContainer(w, table, group)
    /\ \A p \in Cells(w, table, group, name) : ~Exists(w, p)
CanDeleteColumn(w, table, name) == \A p \in Cells(w, table, None, name) : Exists(w, p)

freshRow(w, table) == CHOOSE r \in RowNames : ~Exists(w, Append(table, r))
HasFreshRow(w, table) == \E r \in RowNames : ~Exists(w, Append(table, r))
PutRow(w, table, row, first, cells) ==
    LET placed == [w EXCEPT !.rows[table] = IF first THEN <<row>> \o @ ELSE Append(@, row)]
    IN  PutAll(placed, {Append(table, row)}, cells)
EmptyRow == Leaf("Collection", None)

addHeaderRow(w, table) == PutRow(w, table, freshRow(w, table), FALSE, EmptyRow)

\* Adding a column to a table without rows creates the header row; a group
\* without columns is refused.
addColumn(w, table, name, e) ==
    IF \/ ~IsTable(w, table) \/ ~HasFreshRow(w, table)
       \/ e = EmptyRow THEN {}
    ELSE LET t == withTracking(IF HasHeader(w, table) THEN w ELSE addHeaderRow(w, table),
                               "submodel")
         IN  When(CanAddColumn(t, table, None, name),
                  OfSubmodel(PutAll(t, Cells(t, table, None, name), e),
                             ColumnAdded(HeaderCell(t, table, None, name))))

addColumnToGroup(w, table, group, name, e) ==
    When(/\ IsTable(w, table) /\ HasHeader(w, table)
         /\ assertNotTableColumn(e) /\ CanAddColumn(w, table, group, name),
         OfSubmodel(PutAll(withTracking(w, "submodel"), Cells(w, table, group, name), e),
                    ColumnAddedToGroup(HeaderCell(w, table, group, name))))

\* The cells of a column that there are get the new text; values are refused.
ModifyCells(w, table, group, name, m) ==
    LET cells == {p \in Cells(w, table, group, name) : Exists(w, p)}
    IN  FoldSet(LAMBDA p, x : ModifierVisitor(x, [m EXCEPT !.path = p]),
                withTracking(w, "submodel"), cells)
modifyColumn(w, table, name, m) ==
    When(IsTable(w, table) /\ m.value = Absent, ModifyCells(w, table, None, name, m))
modifyColumnInGroup(w, table, group, name, m) ==
    When(IsTable(w, table) /\ m.value = Absent /\ resolveContainer(w, table, group),
         ModifyCells(w, table, group, name, m))

\* The cells of a column are deleted, with an event for each of them.
DeleteColumn(w, table, name) ==
    LET cells == Cells(w, table, None, name)
        published == FoldSet(LAMBDA p, x : publishDeleteEvent(x, p), w, cells)
    IN  OfSubmodel(RemoveAll(published, cells),
                   ColumnDeleted(HeaderCell(w, table, None, name)))
deleteColumn(w, table, name) ==
    When(IsTable(w, table) /\ HasHeader(w, table) /\ CanDeleteColumn(w, table, name),
         DeleteColumn(withTracking(w, "submodel"), table, name))

\* A cell moves between its row and a group of the row, with its event.
MoveCell(w, from, to) ==
    publishMoveEvent(RemoveAll(PutAll(w, {to}, Element(w, from)), {from}), from, to)
RowsWith(w, table, group, name) ==
    {r \in RowPaths(w, table) : Exists(w, Append(Container(r, group), name))}
CanMoveCells(w, table, from, to, name) ==
    \A r \in RowsWith(w, table, from, name) : ~Exists(w, Append(Container(r, to), name))
MoveCells(w, table, from, to, name) ==
    FoldSet(LAMBDA r, x : MoveCell(x, Append(Container(r, from), name),
                                      Append(Container(r, to), name)),
            w, RowsWith(w, table, from, name))

\* The cells of a group's column move to their rows; an emptied group goes.
deleteColumnFromGroup(w, table, group, name) ==
    IF ~(IsTable(w, table) /\ HasHeader(w, table)
         /\ Exists(w, HeaderCell(w, table, None, group))
         /\ KindAt(w, HeaderCell(w, table, None, group)) = "Collection"
         /\ Exists(w, HeaderCell(w, table, group, name))
         /\ CanMoveCells(w, table, group, None, name)) THEN {}
    ELSE LET moved == MoveCells(withTracking(w, "submodel"), table, group, None, name)
             told == OfSubmodel(moved, ColumnDeletedFromGroup(HeaderCell(w, table, group, name))
                                       \o ColumnAdded(HeaderCell(w, table, None, name)))
         IN  IF Children(told, HeaderCell(w, table, None, group)) # {} THEN {told}
             ELSE When(CanDeleteColumn(told, table, group), DeleteColumn(told, table, group))

\* Cells move from their rows to a group of each row, which is there still.
MoveColumnToGroup(w, table, name, group) ==
    When(/\ Exists(w, HeaderCell(w, table, None, name)) /\ name # group
         /\ assertNotTableColumn(Element(w, HeaderCell(w, table, None, name)))
         /\ resolveContainer(w, table, group)
         /\ CanMoveCells(w, table, None, group, name),
         OfSubmodel(MoveCells(w, table, None, group, name),
                    ColumnDeleted(HeaderCell(w, table, None, name))
                    \o ColumnAddedToGroup(HeaderCell(w, table, group, name))))
moveColumnToGroup(w, table, name, group) ==
    IF IsTable(w, table) /\ HasHeader(w, table)
    THEN MoveColumnToGroup(withTracking(w, "submodel"), table, name, group) ELSE {}

\* A new group takes the place of a column, which becomes its first one.
createGroupFromColumn(w, table, name, group) ==
    IF ~(IsTable(w, table) /\ HasHeader(w, table)
         /\ Exists(w, HeaderCell(w, table, None, name))
         /\ CanAddColumn(w, table, None, group)) THEN {}
    ELSE LET grouped == PutAll(withTracking(w, "submodel"),
                               Cells(w, table, None, group), Leaf("Collection", None))
         IN  MoveColumnToGroup(OfSubmodel(grouped, ColumnAdded(HeaderCell(w, table, None, group))),
                               table, name, group)

\* A new row has the columns of the header, and the first rows of tables in
\* it, without the values, those of references excepted.
TableRowCopyVisitor(e) ==
    LET first(q, r) == IsPrefix(q, r) /\ Len(r) > Len(q) => r[Len(q) + 1] = Head(e.rows[q])
        kept == {r \in DOMAIN e.nodes : \A q \in DOMAIN e.rows : first(q, r)}
        cleared(n) == IF n.kind = "Reference" THEN n ELSE [n EXCEPT !.val = None]
    IN  [nodes |-> [r \in kept |-> cleared(e.nodes[r])],
         rows |-> [q \in kept \cap DOMAIN e.rows |->
                       IF e.rows[q] = <<>> THEN <<>> ELSE <<Head(e.rows[q])>>]]
addRow(w, table, first) ==
    IF ~(IsTable(w, table) /\ HasFreshRow(w, table)) THEN {}
    ELSE LET row == freshRow(w, table)
             cells == IF HasHeader(w, table) THEN TableRowCopyVisitor(Element(w, HeaderRow(w, table)))
                      ELSE EmptyRow
         IN  {OfSubmodel(PutRow(withTracking(w, "submodel"), table, row, first, cells),
                         RowAdded(Append(table, row)))}

deleteRow(w, table, row) ==
    LET path == Append(table, row)
    IN  When(IsTable(w, table) /\ path \in RowPaths(w, table),
             OfSubmodel(publishDeleteEvent(RemoveAll(WithoutRow(withTracking(w, "submodel"), path),
                                                     {path}), path),
                        RowDeleted(path)))

-----------------------------------------------------------------------------
(* The shell and its policies, the submodels of the environment *)

modifyShellTexts(w, m) ==
    LET w1 == IF m.text = Absent THEN w
              ELSE OfShell([w EXCEPT !.shell.text = m.text],
                           DisplayNameChanged(None, w.shell.text, m.text))
    IN  IF m.thumbnails = Absent THEN w1
        ELSE OfShell([w1 EXCEPT !.shell.thumbnails = m.thumbnails],
                     DefaultThumbnailsModified(w.shell.thumbnails, m.thumbnails))

addPolicy(w, path, may) ==
    OfShell([w EXCEPT !.policies = (path :> may) @@ @], PolicyAdded(path))
modifyPolicy(w, path, may) ==
    OfShell([w EXCEPT !.policies[path] = may], PolicyModified(path, w.policies[path], may))
\* A policy for what is not in the document is skipped, one for what is
\* inside a table makes the request fail.
applyModifiedRule(w, p) ==
    CASE ~Exists(w, p.path) -> w
      [] p.path \in DOMAIN w.policies -> modifyPolicy(w, p.path, p.may)
      [] OTHER -> addPolicy(w, p.path, p.may)
modifyShell(w, m) ==
    When(\A i \in 1..Len(m.policies) : ~InTable(w, m.policies[i].path),
         FoldLeft(applyModifiedRule, modifyShellTexts(withTracking(w, "aas"), m), m.policies))

DeletePolicies(w, paths) ==
    LET gone == paths \cap DOMAIN w.policies
    IN  FoldSet(LAMBDA p, x : OfShell(x, PolicyDeleted(p)),
                [w EXCEPT !.policies = Restrict(@, DOMAIN @ \ gone)], gone)
deletePolicyBySubjectAndObject(w, path) == DeletePolicies(withTracking(w, "aas"), {path})
deletePoliciesByObjectPath(w, path) ==
    DeletePolicies(withTracking(w, "aas"), {p \in DOMAIN w.policies : IsPrefix(path, p)})

\* A policy replaces one that is at the path where it goes.
movePolicy(w, old, new) ==
    LET moved == {p \in DOMAIN w.policies : IsPrefix(old, p)}
        to(p) == new \o SubSeq(p, Len(old) + 1, Len(p))
    IN  FoldSet(LAMBDA p, x : addPolicy(x, to(p), w.policies[p]),
                DeletePolicies(withTracking(w, "aas"), moved \cup {to(p) : p \in moved}), moved)

\* A new submodel gets the default policy, unless its path has one.
addSubmodelToShell(w, s) ==
    LET t == withTracking([w EXCEPT !.refs = @ \cup {s}], "aas")
    IN  OfShell(IF s \in DOMAIN t.policies THEN t ELSE addPolicy(t, s, "edit"),
                SubmodelReferenceAdded(s))
addSubmodelToEnv(w, s) ==
    Report(withTracking([w EXCEPT !.submodels = @ \cup {s}], "environment"), "environment",
           AddedSubmodelToEnv(s))
deleteSubmodelFromShell(w, s) ==
    IF s \notin w.refs THEN withTracking(w, "aas")
    ELSE deletePoliciesByObjectPath(
            OfShell(withTracking([w EXCEPT !.refs = @ \ {s}], "aas"),
                    SubmodelReferenceDeleted(s)), s)
deleteSubmodelFromEnv(w, s) ==
    When(s \in w.submodels,
         Report(withTracking([w EXCEPT !.submodels = @ \ {s}], "environment"), "environment",
                DeletedSubmodelFromEnv(s)))

=============================================================================

