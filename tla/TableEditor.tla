---------------------------- MODULE TableEditor ------------------------------
(***************************************************************************)
(* The web client's editor of a table: what it shows of the last list that *)
(* the server answered, how its menus and cells become requests, and how   *)
(* it works an answer into the rows and columns on display instead of      *)
(* starting over.  The server side is Tables.  Others may change the table *)
(* meanwhile, and requests may overtake each other.  The user has all      *)
(* permissions; file cells are cells like others.                          *)
(***************************************************************************)
EXTENDS Tables, FiniteSetsExt

CONSTANTS
    InFlight,           \* bound: requests in flight; with 1 the user waits for answers
    Others              \* whether others change rows

VARIABLES
    view,               \* "loading", "page", "table" or "column": what is open
    at,                 \* the path of the list in the editor
    data,               \* the list as last loaded or answered
    rows,               \* the rows on display: a value for each field
    context,            \* the kind of each field of each row
    columns,            \* the columns on display
    waiting             \* requests without an answer

client == <<view, at, data, rows, context, columns, waiting>>
allVars == <<vars, client>>

-----------------------------------------------------------------------------
(* What is shown of a list *)

ColumnKind(e) ==
    CASE e.kind = "collection" -> "group" [] e.kind = "list" -> "table" [] OTHER -> "scalar"

\* A group's columns have fields of their own.
Fields(row) ==
    {<<k.name>> : k \in {k \in Range(row.kids) : ColumnKind(k) # "group"}} \cup
    UNION {{<<g.name, k.name>> : k \in Range(g.kids)} :
             g \in {k \in Range(row.kids) : ColumnKind(k) = "group"}}

\* The cell of a nested table is the number of its rows.
Cell1(e) == IF ColumnKind(e) = "table" THEN ToString(Len(e.kids)) ELSE e.value

RowOf(row) == [id |-> row.name, cells |-> [f \in Fields(row) |-> Cell1(At(row, f))]]
ContextOf(row) == [id |-> row.name, kinds |-> [f \in Fields(row) |-> ColumnKind(At(row, f))]]
ColumnOf(k) ==
    [id |-> k.name, kind |-> ColumnKind(k), label |-> k.label,
     subs |-> IF ColumnKind(k) = "group" THEN [i \in DOMAIN k.kids |-> k.kids[i].name] ELSE <<>>]

Map(s, F(_)) == [i \in DOMAIN s |-> F(s[i])]
Has1(s, id) == \E i \in DOMAIN s : s[i].id = id
IndexOf1(s, id) == SelectInSeq(s, LAMBDA x : x.id = id)

Reconcile(old, new) ==
    FoldLeft(LAMBDA s, x :
        IF Has1(s, x.id) THEN [s EXCEPT ![IndexOf1(s, x.id)] = x]
        ELSE InsertAt(s, Min({IndexOf1(new, x.id), Len(s) + 1}), x),
        SelectSeq(old, LAMBDA x : Has1(new, x.id)), new)

\* Without a row there is no header to take the columns from.
DataToColumns(old, list) ==
    IF list.kids = <<>> THEN old ELSE Reconcile(old, Map(Header(list).kids, ColumnOf))
DataToRows(old, list) == Reconcile(old, Map(list.kids, RowOf))
DataToContext(old, list) == Reconcile(old, Map(list.kids, ContextOf))

UpdateListData(list) ==
    /\ data' = list
    /\ columns' = DataToColumns(columns, list)
    /\ rows' = DataToRows(rows, list) /\ context' = DataToContext(context, list)

\* The editor starts over; answers for the one before have no effect on it.
Mount(path, list, requests1) ==
    /\ view' = "table" /\ at' = path /\ data' = list
    /\ columns' = DataToColumns(<<>>, list)
    /\ rows' = DataToRows(<<>>, list) /\ context' = DataToContext(<<>>, list)
    /\ waiting' = {[r EXCEPT !.mounted = FALSE] : r \in requests1}

-----------------------------------------------------------------------------
(* The editor's requests *)

\* The values of a row that are sent: nested tables are left out, the field
\* of a column that the row does not have is sent as null.
RowToRequest(row, kinds) ==
    [f \in {f \in DOMAIN row.cells : f \in DOMAIN kinds => kinds[f] # "table"} |->
        IF f \in DOMAIN kinds THEN row.cells[f] ELSE Null]
Body(shown) == Map(shown, LAMBDA row : RowToRequest(row, context[IndexOf1(context, row.id)].kinds))

Send(op) ==
    /\ requests + Cardinality({r \in waiting : r.state = "sent"}) < MaxRequests
    /\ waiting' = waiting \cup
        {[nr |-> requests + Cardinality(waiting), at |-> at, op |-> op, state |-> "sent",
          ok |-> FALSE, list |-> Empty, mounted |-> TRUE]}
Stay == UNCHANGED <<vars, view, at, data, rows, context, columns>>
\* The drawer turns to the form of a column.
ToColumnForm == view' = "column" /\ UNCHANGED <<vars, at, data, rows, context, columns>>

EditCell(i, field, value) ==
    /\ view = "table"
    /\ LET kinds == context[IndexOf1(context, rows[i].id)].kinds
       IN  field \in DOMAIN kinds /\ kinds[field] = "scalar"
    /\ rows[i].cells[field] # value
    /\ Send([kind |-> "cell", id |-> rows[i].id, field |-> field, value |-> value,
             body |-> Body([rows EXCEPT ![i].cells[field] = value])])
    /\ Stay

\* The row menu: above, below, remove.
AddRowAt(position) ==
    view = "table" /\ Send([kind |-> "addRow", position |-> position]) /\ Stay
RowMenuAdd(i) == AddRowAt(i - 1) \/ AddRowAt(i)
\* The row is the one at the same place in the last answer.
RowMenuRemove(i) ==
    /\ view = "table" /\ i \in DOMAIN data.kids
    /\ Send([kind |-> "removeRow", index |-> i, clicked |-> rows[i].id,
             id |-> data.kids[i].name])
    /\ Stay

\* Where the menu of a column puts the one on its right.
\* Mutant: one too far.
RightOfRight(i) == i + 1
RightOf(i) == i

AddColumnAt(group, column, position, beside, shift) ==
    /\ view = "table"
    /\ Send([kind |-> "addColumn", group |-> group, column |-> column,
             position |-> position, beside |-> beside, shift |-> shift])
    /\ ToColumnForm
AddLeftOrRight(group, column, i, beside) ==
    \/ AddColumnAt(group, column, i - 1, beside, -1)
    \/ AddColumnAt(group, column, RightOf(i), beside, 1)
EditColumn(group, name, label) ==
    /\ view = "table"
    /\ Send([kind |-> "editColumn", group |-> group, name |-> name, label |-> label])
    /\ ToColumnForm

RemoveColumn(c) ==
    view = "table" /\ Send([kind |-> "removeColumn", name |-> c.id]) /\ Stay

TopLevelColumnMenu(i) ==
    LET c == columns[i] IN
    /\ c.kind # "group"
    /\ \/ \E column \in Columns : AddLeftOrRight(Top, column, i, c.id)
       \/ \E label \in Labels : EditColumn(Top, c.id, label)
       \/ RemoveColumn(c)
       \/ /\ c.kind # "table"
          /\ \/ \E g \in Range(columns) : g.kind = "group" /\ view = "table"
                    /\ Send([kind |-> "move", name |-> c.id, group |-> g.id]) /\ Stay
             \/ \E g \in Groups : view = "table"
                    /\ Send([kind |-> "createGroup", name |-> c.id, group |-> Collection(g, <<>>)])
                    /\ ToColumnForm

GroupHeaderMenu(i) ==
    LET c == columns[i] IN
    /\ c.kind = "group"
    /\ \/ \E column \in {k \in Columns : ColumnKind(k) = "scalar"} :
            AddColumnAt(c.id, column, Len(c.subs), "none", 0)
       \/ \E label \in Labels : EditColumn(Top, c.id, label)
       \/ RemoveColumn(c)

SubColumnMenu(i, j) ==
    LET c == columns[i] IN
    \/ \E column \in {k \in Columns : ColumnKind(k) = "scalar"} :
          AddLeftOrRight(c.id, column, j, c.subs[j])
    \/ \E label \in Labels : EditColumn(c.id, c.subs[j], label)
    \/ /\ view = "table" /\ Stay
       /\ Send([kind |-> "eject", group |-> c.id, name |-> c.subs[j]])

AddColumnEnd ==
    \E column \in Columns : AddColumnAt(Top, column, Len(columns), "none", 0)

Menus ==
    \/ \E i \in DOMAIN rows : RowMenuAdd(i) \/ RowMenuRemove(i)
    \/ \E i \in DOMAIN columns :
        \/ TopLevelColumnMenu(i) \/ GroupHeaderMenu(i)
        \/ \E j \in DOMAIN columns[i].subs : SubColumnMenu(i, j)
    \/ AddColumnEnd

\* All rows are saved; then the drawer closes, or goes back to the table
\* around a nested one, which is read again.
Submit == view = "table" /\ Send([kind |-> "submit", body |-> Body(rows)]) /\ Stay

OpenNestedTable(i, field) ==
    /\ view = "table" /\ at = <<>> /\ i \in DOMAIN data.kids
    /\ field \in DOMAIN rows[i].cells /\ HasKind(data.kids[i], Last(field), "list")
    /\ Mount(at \o <<data.kids[i].name>> \o field, At(data.kids[i], field), waiting)
    /\ UNCHANGED vars

GoBack ==
    view = "table" /\ at # <<>> /\ Send([kind |-> "fetch"]) /\ Stay

\* The drawer is hidden and the page loaded again before it can be used.
Hide ==
    /\ view \in {"table", "column"} /\ view' = "loading"
    /\ waiting' = {[r EXCEPT !.mounted = FALSE] : r \in waiting}
    /\ UNCHANGED <<vars, at, data, rows, context, columns>>
Reload ==
    /\ view = "loading" /\ view' = "page" /\ data' = table
    /\ UNCHANGED <<vars, at, rows, context, columns, waiting>>
Open ==
    view = "page" /\ Mount(<<>>, data, waiting) /\ UNCHANGED vars

-----------------------------------------------------------------------------
(* The server *)

Where(path) == Last(<<Top>> \o path)

MaySave(t, body) ==
    /\ Len(body) <= Len(t.kids)
    /\ \A i \in DOMAIN body : \A f \in DOMAIN body[i] :
        /\ Has(t.kids[i], f[1]) /\ (Len(f) = 2 => Has(Child(t.kids[i], f[1]), f[2]))
        /\ At(t.kids[i], f).kind = "property"
\* The rows are told apart by their position.
Saved(t, body) ==
    [t EXCEPT !.kids = [i \in DOMAIN @ |->
        IF i \notin DOMAIN body THEN @[i]
        ELSE FoldSet(LAMBDA f, row : Put(row, f, [At(row, f) EXCEPT !.value = body[i][f]]),
                     @[i], DOMAIN body[i])]]
SaveRows(path, body) ==
    /\ Request /\ MaySave(At(table, path), body)
    /\ table' = Put(table, path, Saved(At(table, path), body))
    /\ UNCHANGED designs /\ KeepRows

Accepted(r) ==
    LET o == r.op
        where == Where(r.at)
    IN  /\ r.at \in ListPaths
        /\ CASE o.kind \in {"cell", "submit"} -> MaySave(At(table, r.at), o.body)
             [] o.kind = "removeRow" -> Has(At(table, r.at), o.id)
             [] o.kind = "addColumn" -> EveryInstanceMay(where, LAMBDA t :
                  IF o.group = Top THEN MayAddColumn(t, o.column)
                  ELSE MayAddColumnToGroup(t, o.group, o.column))
             [] o.kind = "editColumn" -> EveryInstanceMay(where, LAMBDA t :
                  \A row \in Rows(t) : HasContainer(row, o.group))
             [] o.kind = "removeColumn" -> EveryInstanceMay(where, LAMBDA t :
                  MayDeleteColumn(t, o.name))
             [] o.kind = "move" -> EveryInstanceMay(where, LAMBDA t :
                  MayMoveColumnToGroup(t, o.name, o.group))
             [] o.kind = "createGroup" -> EveryInstanceMay(where, LAMBDA t :
                  MayCreateGroupFromColumn(t, o.name, o.group))
             [] o.kind = "eject" -> EveryInstanceMay(where, LAMBDA t :
                  MayDeleteColumnFromGroup(t, o.group, o.name))
             [] OTHER -> TRUE

Perform(r) ==
    LET o == r.op
        where == Where(r.at)
    IN  CASE o.kind \in {"cell", "submit"} -> SaveRows(r.at, o.body)
          [] o.kind = "addRow" -> AddRowRequest(r.at, o.position)
          [] o.kind = "removeRow" -> DeleteRow(r.at, o.id)
          [] o.kind = "addColumn" ->
               IF o.group = Top THEN AddColumnRequest(where, o.column, o.position)
               ELSE AddColumnToGroup(where, o.group, o.column, o.position)
          [] o.kind = "editColumn" -> ModifyColumn(where, o.group, o.name, o.label)
          [] o.kind = "removeColumn" -> DeleteColumnRequest(where, o.name)
          [] o.kind = "move" -> MoveColumn(where, o.name, o.group)
          [] o.kind = "createGroup" -> CreateGroup(where, o.name, o.group)
          [] o.kind = "eject" -> EjectColumn(where, o.group, o.name)
          [] o.kind = "fetch" -> UNCHANGED vars

Respond(r, ok, list) ==
    waiting' = (waiting \ {r}) \cup {[r EXCEPT !.state = "answered", !.ok = ok, !.list = list]}

\* A request that is refused, or fails, changes nothing; that an answer is
\* lost after its effect is left out.  The table around a nested one is
\* answered for "fetch".
Serve(r) ==
    /\ r.state = "sent"
    /\ \/ /\ Accepted(r) /\ Perform(r)
          /\ Respond(r, TRUE, At(table', IF r.op.kind = "fetch" THEN <<>> ELSE r.at))
       \/ Respond(r, FALSE, Empty) /\ UNCHANGED vars
    /\ UNCHANGED <<view, at, data, rows, context, columns>>

-----------------------------------------------------------------------------
(* The answers *)

Answered(r, kind) == r.state = "answered" /\ r.op.kind = kind
Done(r) == waiting' = waiting \ {r}

\* A failure is notified and leaves the view as it is.
AnswerFails(r) ==
    /\ r.state = "answered" /\ ~r.ok /\ r.op.kind # "submit"
    /\ Done(r) /\ Stay

\* The cell takes its value when it is saved.
AnswerCell(r) ==
    /\ Answered(r, "cell") /\ r.ok /\ Done(r)
    /\ rows' = IF ~r.mounted THEN rows
               ELSE [i \in DOMAIN rows |->
                      IF rows[i].id # r.op.id THEN rows[i]
                      ELSE [rows[i] EXCEPT !.cells = (r.op.field :> r.op.value) @@ @]]
    /\ UNCHANGED <<vars, view, at, data, context, columns>>

\* Answers for an editor that is gone change what is gone.
AnswerUpdate(r) ==
    /\ r.state = "answered" /\ r.ok /\ r.op.kind \in {"addRow", "removeColumn", "move", "eject"}
    /\ Done(r) /\ UNCHANGED <<vars, view, at>>
    /\ IF r.mounted THEN UpdateListData(r.list)
       ELSE UNCHANGED <<data, rows, context, columns>>

SpliceAt(s, i) == IF i \in DOMAIN s THEN RemoveAt(s, i) ELSE s
AnswerRemoveRow(r) ==
    /\ Answered(r, "removeRow") /\ r.ok /\ Done(r)
    /\ IF r.mounted
       THEN /\ data' = r.list
            /\ rows' = SpliceAt(rows, r.op.index) /\ context' = SpliceAt(context, r.op.index)
       ELSE UNCHANGED <<data, rows, context>>
    /\ UNCHANGED <<vars, view, at, columns>>

\* The drawer returns to the table; if it was hidden, it opens again.
AnswerBackToList(r) ==
    /\ r.state = "answered" /\ r.ok
    /\ r.op.kind \in {"addColumn", "editColumn", "createGroup", "fetch"}
    /\ Mount(IF r.op.kind = "fetch" THEN <<>> ELSE r.at, r.list, waiting \ {r})
    /\ UNCHANGED vars

\* Whether the rows were saved or not.
AnswerSubmit(r) ==
    /\ Answered(r, "submit")
    /\ IF r.at = <<>>
       THEN /\ view' = "loading"
            /\ waiting' = {[q EXCEPT !.mounted = FALSE] : q \in waiting \ {r}}
       ELSE /\ UNCHANGED view
            /\ waiting' = (waiting \ {r}) \cup
                 {[r EXCEPT !.op = [kind |-> "fetch"], !.state = "sent", !.ok = FALSE]}
    /\ UNCHANGED <<vars, at, data, rows, context, columns>>

Answer(r) ==
    \/ AnswerFails(r) \/ AnswerCell(r) \/ AnswerUpdate(r) \/ AnswerRemoveRow(r)
    \/ AnswerBackToList(r) \/ AnswerSubmit(r)

-----------------------------------------------------------------------------
EditorInit ==
    /\ Init /\ view = "page" /\ at = <<>> /\ data = table
    /\ rows = <<>> /\ context = <<>> /\ columns = <<>> /\ waiting = {}

EditsCell ==
    \E i \in DOMAIN rows : \E f \in DOMAIN rows[i].cells, value \in Values :
        EditCell(i, f, value)
Navigates ==
    \/ \E i \in DOMAIN rows : \E f \in DOMAIN rows[i].cells : OpenNestedTable(i, f)
    \/ GoBack \/ Hide \/ Reload \/ Open \/ Submit

OtherUser ==
    /\ Others /\ UNCHANGED client
    /\ \/ \E position \in Positions : AddRowRequest(<<>>, position)
       \/ \E row \in Rows(table) : DeleteRow(<<>>, row.name)

EditorNext ==
    \/ Cardinality(waiting) < InFlight /\ (EditsCell \/ Menus \/ Navigates)
    \/ \E r \in waiting : Serve(r) \/ Answer(r)
    \/ OtherUser

EditorSpec == EditorInit /\ [][EditorNext]_allVars

-----------------------------------------------------------------------------
(* Properties *)

EditorTypeOK ==
    /\ TypeOK /\ view \in {"loading", "page", "table", "column"} /\ at \in Seq(STRING)
    /\ WellFormed(data) /\ Cardinality(waiting) <= InFlight

\* Row and context have the same place: the kind of a file cell is looked up
\* by the position of its row (resolveContext).
RowsHaveContext == Map(rows, LAMBDA r : r.id) = Map(context, LAMBDA c : c.id)

\* Alone and at rest the editor shows the stored rows and columns in their
\* order, although it never rebuilds them; without rows, columns that are no
\* longer stored stay on display.
ShownIsStored ==
    view = "table" /\ waiting = {} =>
        LET t == At(table, at)
        IN  /\ data.kids # <<>> \/ t.kids = <<>>
            /\ rows = Map(t.kids, RowOf) /\ context = Map(t.kids, ContextOf)
            /\ t.kids # <<>> => columns = Map(Header(t).kids, ColumnOf)

\* Saving a cell, and submitting the form, changes no other cell and no
\* nested table, although all rows are sent.
SavedCellsOnly ==
    \A r \in waiting :
     r.op.kind \in {"cell", "submit"} /\ r.state = "sent" /\ Serve(r) =>
         \A p \in Below(table) :
             \/ At(table', p) = At(table, p)
             \/ /\ r.op.kind = "cell" /\ IsPrefix(p, r.at \o <<r.op.id>> \o r.op.field)
                /\ At(table, p).kind = "property" => At(table', p).value = r.op.value

\* Alone, the rows that are sent are never refused: fields of columns that a
\* row does not have and nested tables are not sent.
SavesAreAccepted ==
    \A r \in waiting : r.op.kind \in {"cell", "submit"} /\ r.state = "sent" => Accepted(r)

\* A column that is added left or right of another arrives there, in the
\* table and in a group; without rows the other may only be on display.
AddsBesideClicked ==
    \A r \in waiting :
     r.op.kind = "addColumn" /\ r.op.beside # "none" /\ table' # table /\ Serve(r) =>
         \A row \in Rows(At(table', r.at)) :
             LET c == Container(row, r.op.group)
             IN  Has(c, r.op.beside) =>
                     Index(c, r.op.column.name) = Index(c, r.op.beside) + r.op.shift

\* What the confirmation asks: "Should the row really be removed?" is asked
\* of the row that was clicked.
RemovedRowIsClicked ==
    \A r \in waiting : r.op.kind = "removeRow" => r.op.id = r.op.clicked

=============================================================================

