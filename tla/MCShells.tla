------------------------------ MODULE MCShells -------------------------------
(***************************************************************************)
(* The asset administration shell for TLC: its access rules, and a table   *)
(* of a submodel, flat, with tables in tables, and with requests that      *)
(* address elements.  A behaviour is of one part.                          *)
(***************************************************************************)
EXTENDS Tables

VARIABLES part, rules, elements, changes

tableVars == <<table, designs, created, emptied, requests>>
accessVars == <<rules, elements, changes>>

-----------------------------------------------------------------------------
(* Tables: the columns a and b, in a group or not, in two rows with values, *)
(* two instances of a nested table t, with two rows and with one.           *)

MCColumns ==
    {Property("b"), Collection("g", <<>>), Collection("g", <<Property("b")>>),
     List("t", <<>>)}

Cell(name, value) == [Property(name) EXCEPT !.value = value]
Flat == List("table",
    <<Collection("r", <<Cell("a", "v"), Property("b")>>),
      Collection("s", <<Property("a"), Cell("b", "v")>>)>>)
Grouped == List("table",
    <<Collection("r", <<Collection("g", <<Cell("a", "v")>>), Property("b")>>),
      Collection("s", <<Collection("g", <<Property("a")>>), Cell("b", "v")>>)>>)
WithNested == List("table",
    <<Collection("r", <<List("t", <<Collection("x", <<Cell("a", "v"), Property("b")>>),
                                    Collection("y", <<Property("a"), Property("b")>>)>>)>>),
      Collection("s", <<List("t", <<Collection("x", <<Property("a"), Cell("b", "v")>>)>>)>>)>>)

MCTables == {Empty, Flat, Grouped}

NestedTables == INSTANCE Tables WITH
    Columns <- {Property("b")}, Names <- {"a", "b"}, Groups <- {"g"}, Positions <- {0, 9},
    StartTables <- {WithNested}
Elements == INSTANCE Tables WITH
    Names <- {"a", "b"}, Positions <- {0, 9}, MaxRequests <- 2

-----------------------------------------------------------------------------
(* Access rules: a column c inside and outside of a group g, and a table t  *)
(* with a row; shells with full access, and policies of their own for some  *)
(* columns.                                                                 *)

Permissions == {"Create", "Read", "Edit", "Delete"}
Full(object) == [object |-> object, permissions |-> Permissions]
Hidden(object) == [object |-> object, permissions |-> {}]
Roles == {"ADMIN", "MEMBER", "ANONYMOUS"}
Shell(entries, paths) ==
    [rules |-> [s \in Roles |-> {Full(<<"s">>)} \cup entries], elements |-> paths]

Access == INSTANCE AccessControl WITH
    Submodels <- {"s"},
    ElementPaths <- {<<"s", "g">>, <<"s", "c">>, <<"s", "g", "c">>, <<"s", "c", "v">>,
                     <<"s", "g", "c", "v">>, <<"s", "t">>, <<"s", "t", "r">>},
    TablePaths <- {<<"s", "t">>},
    Subjects <- Roles, Actors <- {"ADMIN", "MEMBER"},
    PermissionSets <- {{}, {"Read"}, {"Edit"}, Permissions},
    Imports <- {Shell({Hidden(<<"s", "g", "c">>)},
                      {<<"s">>, <<"s", "g">>, <<"s", "g", "c">>, <<"s", "g", "c", "v">>}),
                Shell({Hidden(<<"s", "c">>), Full(<<"s", "c", "v">>)},
                      {<<"s">>, <<"s", "g">>, <<"s", "c">>, <<"s", "c", "v">>})},
    MaxChanges <- 3

ASSUME ShellAssumptions == Access!AccessAssumption

-----------------------------------------------------------------------------
\* A part that is not the behaviour's starts in one state.
PartInit ==
    /\ part \in {"tables", "nested tables", "elements", "access"}
    /\ IF part = "nested tables" THEN NestedTables!Init ELSE Init
    /\ part = "access" => table = Empty
    /\ Access!Init
    /\ part # "access" => elements = {}

PartNext ==
    \/ /\ \/ part = "tables" /\ TableNext
          \/ part = "nested tables" /\ NestedTables!TableNext
          \/ part = "elements" /\ Elements!Next
       /\ UNCHANGED <<part, accessVars>>
    \/ part = "access" /\ Access!Next /\ UNCHANGED <<part, tableVars>>

PartSpec == PartInit /\ [][PartNext]_<<part, tableVars, accessVars>>

-----------------------------------------------------------------------------
(* Properties *)

\* The rows of a table have the same columns, groups included, however the
\* requests for tables restructure it (table-extension.ts), and so have the
\* instances of a nested one, until an instance loses its last row and with
\* it its columns (nested-table-extension.ts).  Requests for single elements
\* may make rows different; no design outlives its element with these either.
TablesStayRegular ==
    /\ part = "tables" => TypeOK /\ RowsHaveTheSameColumns /\ DesignsHaveElements
    /\ part = "nested tables" =>
        /\ NestedTables!RowsHaveTheSameColumns
        /\ NestedTables!NestedTablesHaveTheSameColumns
    /\ part = "elements" => Elements!TypeOK /\ Elements!DesignsHaveElements

\* Restructuring a table keeps every cell with its value and its design, in
\* nested tables too, as long as only the requests for tables are used.  Once
\* requests for single elements have made rows differ from the header row, an
\* ejection loses the cells of a group that the header row has not, and these
\* only (deleteColumnFromGroup).  New rows are blank (TableRowCopyVisitor).
RestructuringIsLossless ==
    [][/\ part = "tables" => CellsStay /\ AddsBlankRows
       /\ part = "nested tables" => NestedTables!CellsStay /\ NestedTables!AddsBlankRows
       /\ part = "elements" => Elements!OnlyStraysAreLost /\ Elements!AddsBlankRows
      ]_tableVars

\* A subject has one entry for an object at most, none outlives its element or
\* lies in a table, and what cannot be read cannot be changed, whatever level
\* the permission is inherited from (access-permission-rule.ts, security.ts).
PoliciesFit ==
    part = "access" =>
        /\ Access!TypeOK /\ Access!OneEntryPerObject /\ Access!NoStalePolicies
        /\ Access!NoPolicyInsideTable /\ Access!ChangeNeedsRead

\* Superiors and equals keep their access whatever an actor administers, and
\* changes of the elements leave the access to the others as it was and take
\* that of moved elements along (modifyAccessPermissionRules, movePolicies).
AccessIsKept ==
    [][part = "access" =>
        Access!SparesSuperiors /\ Access!KeepsOtherAccess /\ Access!MovesAccess]_accessVars

=============================================================================
