------------------------------- MODULE Tables --------------------------------
(***************************************************************************)
(* Tables of a submodel: a list whose elements are the rows, each of them  *)
(* a collection of the columns' cells.  A column may be a group of columns *)
(* or a table itself; its first row is the header.  Requests change the    *)
(* columns in all rows and, for a nested table, in every instance of it.   *)
(* The designs that presentation configurations keep by path follow the    *)
(* elements.  A request that the code rejects changes nothing and is no    *)
(* step; a table of type collection is assumed.                            *)
(***************************************************************************)
EXTENDS Naturals, Sequences, SequencesExt, FiniteSets

CONSTANTS
    Columns,            \* elements that requests add as columns
    Names, Groups,      \* the names of columns, and of groups a request creates
    Nested,             \* the names of nested tables
    Positions,          \* positions of requests; beyond the end: at the end
    Values, Labels,     \* values of cells, display names
    StartTables,        \* tables at the start
    MaxRequests         \* bound: requests in all

VARIABLES
    table,              \* the table
    designs,            \* paths with a design of their own
    created,            \* counter of the rows created
    emptied,            \* nested tables of which an instance lost its columns
    requests            \* counter for the bound

vars == <<table, designs, created, emptied, requests>>

-----------------------------------------------------------------------------
(* Elements *)

Null == "null"
Top == "top"            \* the table itself, among the nested ones

Element(name, kind, kids) ==
    [name |-> name, kind |-> kind, label |-> "none", value |-> Null, kids |-> kids]
Property(name) == Element(name, "property", <<>>)
Collection(name, kids) == Element(name, "collection", kids)
List(name, rows) == Element(name, "list", rows)
Empty == List("table", <<>>)

Index(e, name) == SelectInSeq(e.kids, LAMBDA k : k.name = name)
Has(e, name) == Index(e, name) > 0
Child(e, name) == e.kids[Index(e, name)]
HasKind(e, name, kind) == Has(e, name) /\ Child(e, name).kind = kind

\* The element at a path, and the element with another one there.
At(e, path) == FoldLeft(Child, e, path)
RECURSIVE Put(_, _, _)
Put(e, path, new) ==
    IF path = <<>> THEN new
    ELSE [e EXCEPT !.kids[Index(e, path[1])] = Put(@, Tail(path), new)]

\* The paths below an element.
RECURSIVE Below(_)
Below(e) == UNION {{<<k.name>>} \cup {<<k.name>> \o p : p \in Below(k)} : k \in Range(e.kids)}

\* What the rows of a table have in common: all but values and nested rows.
RECURSIVE Shape(_)
Shape(e) == <<e.name, e.kind, e.label,
              IF e.kind = "list" THEN <<>> ELSE [i \in DOMAIN e.kids |-> Shape(e.kids[i])]>>

Insert(e, position, kid) ==
    [e EXCEPT !.kids = InsertAt(@, (IF position < Len(@) THEN position ELSE Len(@)) + 1, kid)]
Append1(e, kid) == [e EXCEPT !.kids = Append(@, kid)]
Without(e, name) == [e EXCEPT !.kids = RemoveAt(@, Index(e, name))]

\* The copy of a column for a new row.
RECURSIVE Blank(_)
Blank(e) ==
    IF e.kind = "property" THEN [e EXCEPT !.value = Null]
    ELSE IF e.kind = "collection" THEN [e EXCEPT !.kids = [i \in DOMAIN @ |-> Blank(@[i])]]
    ELSE [e EXCEPT !.kids = IF @ = <<>> THEN @ ELSE <<Blank(@[1])>>]

-----------------------------------------------------------------------------
(* One table t, an element of kind list *)

Rows(t) == Range(t.kids)
Header(t) == t.kids[1]
HeaderHas(t, name) == t.kids # <<>> /\ Has(Header(t), name)
EveryRow(t, Change(_)) == [t EXCEPT !.kids = [i \in DOMAIN @ |-> Change(@[i])]]

\* The container of columns in a row: the row (group Top) or a group of it.
HasContainer(row, group) == group = Top \/ HasKind(row, group, "collection")
Container(row, group) == IF group = Top THEN row ELSE Child(row, group)
InContainer(row, group, Change(_)) ==
    IF group = Top THEN Change(row) ELSE Put(row, <<group>>, Change(Child(row, group)))

MayApplyAddColumn(t, column, group) ==
    \A row \in Rows(t) :
        HasContainer(row, group) /\ ~Has(Container(row, group), column.name)

ApplyAddColumn(t, column, position, group) ==
    EveryRow(t, LAMBDA row :
        InContainer(row, group, LAMBDA c : Insert(c, position, column)))

ApplyModifyColumn(t, name, label, group) ==
    EveryRow(t, LAMBDA row : InContainer(row, group, LAMBDA c :
        IF Has(c, name) THEN [c EXCEPT !.kids[Index(c, name)].label = label] ELSE c))

MayDeleteColumn(t, name) == \A row \in Rows(t) : Has(row, name)
DeleteColumn(t, name) == EveryRow(t, LAMBDA row : Without(row, name))

AddHeaderRow(t, id) == IF t.kids = <<>> THEN Append1(t, Collection(id, <<>>)) ELSE t
MayAddColumn(t, column) ==
    /\ ~(column.kind = "collection" /\ column.kids = <<>>)
    /\ MayApplyAddColumn(t, column, Top)
AddColumn(t, column, position, id) ==
    ApplyAddColumn(AddHeaderRow(t, id), column, position, Top)

MayAddColumnToGroup(t, group, column) ==
    column.kind # "list" /\ t.kids # <<>> /\ MayApplyAddColumn(t, column, group)

MayMoveColumnToGroup(t, name, group) ==
    /\ HeaderHas(t, name) /\ Child(Header(t), name).kind # "list" /\ name # group
    /\ \A row \in Rows(t) :
        HasContainer(row, group) /\ (Has(row, name) => ~Has(Child(row, group), name))
\* Mutant: the rows get the header's cell.
MoveHeaderColumnToGroup(t, name, group) ==
    EveryRow(t, LAMBDA row :
        Without(Put(row, <<group>>, Append1(Child(row, group), Child(Header(t), name))), name))
MoveColumnToGroup(t, name, group) ==
    EveryRow(t, LAMBDA row :
        IF Has(row, name)
        THEN Without(Put(row, <<group>>, Append1(Child(row, group), Child(row, name))), name)
        ELSE row)

WithGroup(t, name, group) ==
    ApplyAddColumn(t, group, Index(Header(t), name) - 1, Top)
MayCreateGroupFromColumn(t, name, group) ==
    /\ group.kind = "collection" /\ HeaderHas(t, name)
    /\ MayApplyAddColumn(t, group, Top)
    /\ MayMoveColumnToGroup(WithGroup(t, name, group), name, group.name)
CreateGroupFromColumn(t, name, group) ==
    MoveColumnToGroup(WithGroup(t, name, group), name, group.name)

\* A column leaves its group; a group that it leaves empty is deleted.
HasInGroup(row, group, name) == Has(row, group) /\ Has(Child(row, group), name)
EjectedFrom(t, group, name) ==
    EveryRow(t, LAMBDA row :
        IF HasInGroup(row, group, name)
        THEN Insert(Put(row, <<group>>, Without(Child(row, group), name)),
                    Index(Header(t), group), At(row, <<group, name>>))
        ELSE row)
MayDeleteColumnFromGroup(t, group, name) ==
    /\ t.kids # <<>> /\ HasKind(Header(t), group, "collection")
    /\ HasInGroup(Header(t), group, name)
    /\ \A row \in Rows(t) : HasInGroup(row, group, name) => ~Has(row, name)
    /\ Len(Child(Header(t), group).kids) = 1 => MayDeleteColumn(t, group)
DeleteColumnFromGroup(t, group, name) ==
    LET ejected == EjectedFrom(t, group, name)
    IN  IF Child(Header(ejected), group).kids = <<>>
        THEN DeleteColumn(ejected, group) ELSE ejected

AddRow(t, position, id) ==
    LET columns == IF t.kids = <<>> THEN <<>> ELSE Header(t).kids
    IN  Insert(t, position, Collection(id, [i \in DOMAIN columns |-> Blank(columns[i])]))

-----------------------------------------------------------------------------
(* Nested tables and designs *)

\* The instances of a nested table are in the rows of the table around it.
\* Mutant: only in the header row.
AffectedHeaderRow(where) == IF where = Top \/ table.kids = <<>> THEN {} ELSE {Header(table).name}
AffectedParentRows(where) == IF where = Top THEN {} ELSE {row.name : row \in Rows(table)}

InstancePaths(where) ==
    IF where = Top THEN {<<>>} ELSE {<<row, where>> : row \in AffectedParentRows(where)}
EveryInstanceMay(where, May(_)) ==
    \A p \in InstancePaths(where) :
        (where # Top => HasKind(Child(table, p[1]), where, "list")) /\ May(At(table, p))
InEveryInstance(where, Change(_)) ==
    IF where = Top THEN Change(table)
    ELSE EveryRow(table, LAMBDA row :
            IF row.name \in AffectedParentRows(where)
            THEN Put(row, <<where>>, Change(Child(row, where))) ELSE row)

RowPaths(where) ==
    UNION {{p \o <<row.name>> : row \in Rows(At(table, p))} : p \in InstancePaths(where)}

\* Designs below a row's path from, when the element goes to the path to.
MoveDesigns(where, from, to) ==
    {LET Rs == {r \in RowPaths(where) : IsPrefix(r \o from, p)} IN
     IF Rs = {} THEN p
     ELSE LET r == CHOOSE r \in Rs : TRUE
          IN  r \o to \o SubSeq(p, Len(r \o from) + 1, Len(p)) : p \in designs}

DeleteDesigns(ds, paths) == {p \in ds : \A q \in paths : ~IsPrefix(q, p)}

-----------------------------------------------------------------------------
(* Requests *)

Tables == {Top} \cup Nested
Fresh == <<"row", "row1", "row2", "row3", "row4", "row5">>[created + 1]

Request == requests < MaxRequests /\ requests' = requests + 1
KeepRows == UNCHANGED <<created, emptied>>

AddColumnRequest(where, column, position) ==
    /\ Request /\ InstancePaths(where) # {}
    /\ EveryInstanceMay(where, LAMBDA t : MayAddColumn(t, column))
    /\ table' = InEveryInstance(where, LAMBDA t : AddColumn(t, column, position, Fresh))
    /\ created' = created + 1
    /\ UNCHANGED <<designs, emptied>>

ModifyColumn(where, group, name, label) ==
    /\ Request
    /\ EveryInstanceMay(where, LAMBDA t : \A row \in Rows(t) : HasContainer(row, group))
    /\ table' = InEveryInstance(where, LAMBDA t : ApplyModifyColumn(t, name, label, group))
    /\ UNCHANGED designs /\ KeepRows

DeleteColumnRequest(where, name) ==
    /\ Request /\ EveryInstanceMay(where, LAMBDA t : MayDeleteColumn(t, name))
    /\ table' = InEveryInstance(where, LAMBDA t : DeleteColumn(t, name))
    /\ designs' = DeleteDesigns(designs, {r \o <<name>> : r \in RowPaths(where)})
    /\ KeepRows

AddColumnToGroup(where, group, column, position) ==
    /\ Request
    /\ EveryInstanceMay(where, LAMBDA t : MayAddColumnToGroup(t, group, column))
    /\ table' = InEveryInstance(where, LAMBDA t : ApplyAddColumn(t, column, position, group))
    /\ UNCHANGED designs /\ KeepRows

MoveColumn(where, name, group) ==
    /\ Request
    /\ EveryInstanceMay(where, LAMBDA t : MayMoveColumnToGroup(t, name, group))
    /\ table' = InEveryInstance(where, LAMBDA t : MoveColumnToGroup(t, name, group))
    /\ designs' = MoveDesigns(where, <<name>>, <<group, name>>)
    /\ KeepRows

CreateGroup(where, name, group) ==
    /\ Request
    /\ EveryInstanceMay(where, LAMBDA t : MayCreateGroupFromColumn(t, name, group))
    /\ table' = InEveryInstance(where, LAMBDA t : CreateGroupFromColumn(t, name, group))
    /\ designs' = MoveDesigns(where, <<name>>, <<group.name, name>>)
    /\ KeepRows

\* The designs of the column move first; then those of a deleted group go.
EjectColumn(where, group, name) ==
    /\ Request
    /\ EveryInstanceMay(where, LAMBDA t : MayDeleteColumnFromGroup(t, group, name))
    /\ table' = InEveryInstance(where, LAMBDA t : DeleteColumnFromGroup(t, group, name))
    /\ designs' = DeleteDesigns(MoveDesigns(where, <<group, name>>, <<name>>),
                    {r \o <<group>> : r \in {r \in RowPaths(where) :
                        ~Has(At(table', r), group)}})
    /\ KeepRows

AddRowRequest(at, position) ==
    /\ Request
    /\ table' = Put(table, at, AddRow(At(table, at), position, Fresh))
    /\ created' = created + 1
    /\ UNCHANGED <<designs, emptied>>

DeleteRow(at, id) ==
    /\ Request
    /\ table' = Put(table, at, Without(At(table, at), id))
    /\ designs' = DeleteDesigns(designs, {at \o <<id>>})
    /\ emptied' = IF At(table', at).kids = <<>> THEN emptied \cup {Last(<<Top>> \o at)}
                  ELSE emptied
    /\ UNCHANGED created

\* The value of a cell, and the design of any element.
SetValue(path, value) ==
    /\ Request /\ At(table, path).kind = "property"
    /\ table' = Put(table, path, [At(table, path) EXCEPT !.value = value])
    /\ UNCHANGED designs /\ KeepRows

SetDesign(path) ==
    /\ Request /\ designs' = designs \cup {path}
    /\ UNCHANGED table /\ KeepRows

\* The requests for elements accept the paths of rows and cells.
AddElement(path, element) ==
    /\ Request
    /\ LET parent == At(table, path)
       IN  /\ (parent.kind = "collection" \/ (parent.kind = "list" /\ element.kind = "collection"))
           /\ ~Has(parent, element.name)
    /\ table' = Put(table, path, Append1(At(table, path), element))
    /\ UNCHANGED designs /\ KeepRows

DeleteElement(path) ==
    /\ Request
    /\ table' = Put(table, Front(path), Without(At(table, Front(path)), Last(path)))
    /\ designs' = DeleteDesigns(designs, {path})
    /\ KeepRows

ListPaths == {<<>>} \cup {p \in Below(table) : At(table, p).kind = "list"}

Init ==
    /\ table \in StartTables /\ designs = {}
    /\ created = 0 /\ emptied = {} /\ requests = 0

ColumnRequests ==
    \E where \in Tables :
        \/ \E column \in Columns, position \in Positions :
            AddColumnRequest(where, column, position)
        \/ \E name \in Names :
            \/ \E group \in Groups \cup {Top}, label \in Labels :
                ModifyColumn(where, group, name, label)
            \/ DeleteColumnRequest(where, name)
            \/ \E group \in Groups :
                \/ MoveColumn(where, name, group)
                \/ CreateGroup(where, name, Collection(group, <<>>))
                \/ EjectColumn(where, group, name)
        \/ \E group \in Groups, column \in Columns, position \in Positions :
            AddColumnToGroup(where, group, column, position)

RowRequests ==
    \E at \in ListPaths :
        \/ \E position \in Positions : AddRowRequest(at, position)
        \/ \E row \in Rows(At(table, at)) : DeleteRow(at, row.name)

CellRequests ==
    \E path \in Below(table) :
        SetDesign(path) \/ \E value \in Values : SetValue(path, value)

ElementRequests ==
    \/ \E path \in Below(table) : DeleteElement(path)
    \/ \E path \in Below(table) \cup {<<>>}, element \in Columns : AddElement(path, element)

TableNext == ColumnRequests \/ RowRequests \/ CellRequests
TableSpec == Init /\ [][TableNext]_vars

Next == TableNext \/ ElementRequests
Spec == Init /\ [][Next]_vars

-----------------------------------------------------------------------------
(* Properties *)

\* Siblings have different names, and only cells have values.
RECURSIVE WellFormed(_)
WellFormed(e) ==
    /\ e.kind \in {"property", "collection", "list"}
    /\ e.value \in Values \cup {Null} /\ (e.value # Null => e.kind = "property")
    /\ Cardinality({k.name : k \in Range(e.kids)}) = Len(e.kids)
    /\ \A k \in Range(e.kids) : WellFormed(k) /\ (e.kind = "list" => k.kind = "collection")

\* A table is a tree of elements with unique names among siblings
\* (addSubmodelElementOrFail), its rows are collections.
TypeOK ==
    /\ WellFormed(table) /\ designs \subseteq Seq(STRING)
    /\ created \in 0..MaxRequests /\ requests \in 0..MaxRequests /\ emptied \subseteq Tables

ColumnsOf(row) == Shape([row EXCEPT !.name = Top])
HeaderOf(t) == IF t.kids = <<>> THEN {} ELSE {ColumnsOf(Header(t))}

\* All rows of a table have the same columns in the same order, groups and
\* display names included, whatever requests restructure it.
RowsHaveTheSameColumns ==
    \A p \in ListPaths : \A row \in Rows(At(table, p)) : {ColumnsOf(row)} = HeaderOf(At(table, p))

\* The instances of a nested table have the same columns, unless one of them
\* has lost its last row and its columns with it.
NestedTablesHaveTheSameColumns ==
    \A name \in Nested \ emptied :
        LET Instances == {Child(row, name) : row \in {r \in Rows(table) : HasKind(r, name, "list")}}
        IN  \A t, u \in Instances :
                t.kids # <<>> /\ u.kids # <<>> => HeaderOf(t) = HeaderOf(u)

\* No design outlives its element: another one of that name would get it.
DesignsHaveElements == designs \subseteq Below(table)

\* Where a cell is, groups apart, its value, and whether it has a design.
CellPaths(t) == {p \in Below(t) : At(t, p).kind = "property"}
CellAt(t, ds, p) == <<SelectSeq(p, LAMBDA n : n \notin Groups), At(t, p).value, p \in ds>>
Cells(t, ds) == {CellAt(t, ds, p) : p \in CellPaths(t)}

\* The requests that delete or change cells.
ChangesCells ==
    \/ \E where \in Tables, name \in Names : DeleteColumnRequest(where, name)
    \/ \E at \in ListPaths : \E row \in Rows(At(table, at)) : DeleteRow(at, row.name)
    \/ CellRequests \/ \E path \in Below(table) : DeleteElement(path)

\* Adding, moving and grouping columns and rows keeps each cell's value and
\* design, while the rows of a table have the same columns: only the deletions
\* and the change of a cell lose any.
CellsStay == ChangesCells \/ Cells(table, designs) \subseteq Cells(table', designs')

\* The cells in a group, or in what has its name, that a row has without the
\* header row having such a column in the group.
Strays(where, group) ==
    {p \in CellPaths(table) :
        \E at \in InstancePaths(where) :
            \E r \in {at \o <<row.name, group>> : row \in Rows(At(table, at))} :
                /\ IsPrefix(r, p)
                /\ ~(Len(p) > Len(r) /\ Has(Child(Header(At(table, at)), group), p[Len(r) + 1]))}

\* When requests for single elements have made the rows different, an ejection
\* that empties the header's group deletes the group in every row, with what
\* only these have in it; nothing else loses a cell then either.
OnlyStraysAreLost ==
    \/ ChangesCells
    \/ LET Lost == {p \in CellPaths(table) :
                        CellAt(table, designs, p) \notin Cells(table', designs')}
       IN  \/ Lost = {}
           \/ \E where \in Tables, group \in Groups, name \in Names :
                EjectColumn(where, group, name) /\ Lost \subseteq Strays(where, group)

\* A new row has the header's columns and none of its values, in groups and
\* nested tables neither (TableRowCopyVisitor).
AddsBlankRows ==
    \A at \in ListPaths, position \in Positions :
     AddRowRequest(at, position) =>
         LET row == At(table', at \o <<Fresh>>)
         IN  \A p \in Below(row) : At(row, p).value = Null

\* What a comment says of an ejection: it deletes the "now-empty group shell",
\* so that no cell is lost.
EjectionKeepsCells ==
    [][\A where \in Tables, group \in Groups, name \in Names :
        EjectColumn(where, group, name) =>
            Cells(table, designs) \subseteq Cells(table', designs')]_vars

\* What a comment says of groups: "A group can never exist empty".
NoEmptyGroup ==
    \A p \in Below(table) :
        At(table, p).kind = "collection" /\ At(table, p).kids = <<>> =>
            At(table, Front(p)).kind = "list"

\* What a message says: "Table columns cannot be nested inside groups".
NoTableInGroup ==
    \A p \in Below(table) :
        At(table, p).kind = "list" => Front(p) # <<>> /\ At(table, Front(Front(p))).kind = "list"

=============================================================================

