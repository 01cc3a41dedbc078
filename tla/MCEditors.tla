------------------------------ MODULE MCEditors -------------------------------
(***************************************************************************)
(* The editors of the client for TLC: the table editor, the editor of the  *)
(* shell, the form for permissions and the panel for presentation designs, *)
(* the first and the last also with users that do not wait.  A behaviour   *)
(* is of one part.                                                         *)
(***************************************************************************)
EXTENDS TableEditor, TLC

VARIABLES
    part,
    document, shell, archived, tree, loading, drawer, query, pushing, asking, missed,
    writes,
    rules, elements, changes, copies, form, request, stale,
    stored, last, asked, sent, starting, editor, store, config, routing,
    others, faults, lost, visits

tableVars == <<vars, client>>
aasVars == <<document, shell, archived, tree, loading, drawer, query, pushing, asking, missed, writes>>
permissionVars == <<rules, elements, changes, copies, form, request, stale>>
designVars == <<stored, last, asked, sent, starting, editor, store, config, routing,
                others, faults, lost, visits>>

-----------------------------------------------------------------------------
(* Tables: a column in a group and one beside it, and a nested table.      *)

CellOf(name, value) == [Property(name) EXCEPT !.value = value]
Grouped == List("table",
    <<Collection("r", <<Collection("g", <<CellOf("a", "v")>>), Property("b")>>),
      Collection("s", <<Collection("g", <<Property("a")>>), CellOf("b", "v")>>)>>)
HalfEmpty == List("table",
    <<Collection("r", <<List("t", <<Collection("x", <<CellOf("a", "v")>>)>>)>>),
      Collection("s", <<List("t", <<>>)>>)>>)
EmptyNested == List("table", <<Collection("r", <<List("t", <<>>)>>), Collection("s", <<List("t", <<>>)>>)>>)

MCColumns == {Property("c"), List("u", <<>>)}
MCTables == {Grouped, HalfEmpty}

SharedTable == INSTANCE TableEditor WITH
    Columns <- {}, Labels <- {}, Names <- {"a"}, Groups <- {}, StartTables <- {EmptyNested},
    MaxRequests <- 2, InFlight <- 2, Others <- TRUE

-----------------------------------------------------------------------------
(* A document with a collection that may be read only, and an element      *)
(* without rules of its own.                                               *)

Permissions == {"Create", "Read", "Edit", "Delete"}
Node(kind) == [kind |-> kind, value |-> "none"]
Document ==
    [nodes |-> (<<"m">> :> Node("submodel")) @@ (<<"n">> :> Node("submodel"))
               @@ (<<"m", "c">> :> Node("collection")) @@ (<<"n", "b">> :> Node("property")),
     order |-> <<"m", "n">>,
     own |-> (<<"m", "c">> :> {}) @@ (<<"m">> :> Permissions) @@ (<<"n">> :> Permissions),
     given |-> {<<"m">>, <<"n">>}, archived |-> FALSE]

Aas == INSTANCE AasEditor WITH
    waiting <- asking,
    NewNames <- {"x"}, NewSubmodels <- {"z"}, Starts <- {Document}, MaxWrites <- 2

-----------------------------------------------------------------------------
(* Access rules of a submodel with a collection and a property in it.      *)

Full(object) == [object |-> object, permissions |-> Permissions]
Reads(object) == [object |-> object, permissions |-> {"Read"}]
Roles == {"ADMIN", "OWNER", "MEMBER", "ANONYMOUS"}
Imported ==
    [rules |-> [s \in Roles |->
        {IF s = "ANONYMOUS" THEN Reads(<<"s">>) ELSE Full(<<"s">>)}
        \cup (IF s = "MEMBER" THEN {Reads(<<"s", "c">>)} ELSE {})],
      elements |-> {<<"s">>, <<"s", "c">>, <<"s", "c", "v">>}]

Permits == INSTANCE PermissionsForm WITH
    shell <- copies,
    Submodels <- {"s"}, ElementPaths <- {<<"s", "c">>, <<"s", "c", "v">>}, TablePaths <- {},
    Leaves <- {<<"s", "c", "v">>}, Subjects <- Roles, Actors <- {"ADMIN", "OWNER"},
    Clients <- {"OWNER"}, PermissionSets <- {{"Read"}}, Toggles <- {"Edit"},
    Imports <- {Imported}, MaxChanges <- 2

-----------------------------------------------------------------------------
(* Two documents with designs; users may read all or some of the paths.    *)

Elements == ("A" :> {"a", "b"}) @@ ("B" :> {"d"})
All == ("tab" :> {"a", "b", "d"}) @@ ("other" :> {"a", "b", "d"})
Some == ("tab" :> {"a", "d"}) @@ ("other" :> {"b"})

Designs == INSTANCE PresentationDesigns WITH
    requests <- sent, view <- editor, query <- config, pushing <- routing,
    Documents <- {"A", "B"}, Paths <- Elements, Types <- {"Property"},
    Readable <- Some, Editable <- All, Others <- {}, Overlap <- FALSE, Hasty <- FALSE,
    Starts <- {<<"A", "A">>, <<"B">>},
    MaxConfigs <- 3, MaxRequests <- 5, MaxAsked <- 0, MaxFaults <- 1, MaxLost <- 0, MaxVisits <- 2
SharedDesigns == INSTANCE PresentationDesigns WITH
    requests <- sent, view <- editor, query <- config, pushing <- routing,
    Documents <- {"A", "B"}, Paths <- Elements, Types <- {"Property"},
    Readable <- Some, Editable <- Some, Others <- {"other"}, Overlap <- TRUE, Hasty <- FALSE,
    Starts <- {<<"A", "B">>},
    MaxConfigs <- 2, MaxRequests <- 3, MaxAsked <- 1, MaxFaults <- 0, MaxLost <- 1, MaxVisits <- 1

ASSUME EditorAssumptions == Permits!FormAssumption /\ Permits!AccessAssumption

-----------------------------------------------------------------------------
\* A part that is not the behaviour's starts in one state.
PartInit ==
    /\ part \in {"table", "shared table", "aas", "permissions", "designs", "shared designs"}
    /\ IF part = "table" THEN EditorInit ELSE SharedTable!EditorInit
    /\ Aas!Init /\ Permits!FormInit
    /\ IF part = "designs" THEN Designs!Init ELSE SharedDesigns!Init

PartNext ==
    \/ /\ \/ part = "table" /\ EditorNext
          \/ part = "shared table" /\ SharedTable!EditorNext
       /\ UNCHANGED <<part, aasVars, permissionVars, designVars>>
    \/ /\ part = "aas" /\ Aas!Next
       /\ UNCHANGED <<part, tableVars, permissionVars, designVars>>
    \/ /\ part = "permissions" /\ Permits!FormNext
       /\ UNCHANGED <<part, tableVars, aasVars, designVars>>
    \/ /\ \/ part = "designs" /\ Designs!Next
          \/ part = "shared designs" /\ SharedDesigns!Next
       /\ UNCHANGED <<part, tableVars, aasVars, permissionVars>>

PartSpec == PartInit /\ [][PartNext]_<<part, tableVars, aasVars, permissionVars, designVars>>

-----------------------------------------------------------------------------
(* Properties *)

\* When its requests are answered, an editor of the only user shows what the
\* server has and offers what the server permits, although it never reads
\* everything again.  What it was not told of is exempt: a page, a shell or a
\* status that could not be loaded or whose write was answered by nothing, until
\* the next one that is loaded.  What it sends, from forms filled before an
\* answer came, is accepted.  A row keeps its context, and a design is only of
\* entries that a user who may edit them has asked for, also when others write
\* in between or requests overlap; that it is what was asked for last holds
\* for requests one after the other (aas-table-extension.ts, aas-editor.ts,
\* permissions-table.ts, presentation-configurations.ts).
EditorsAndServerAgree ==
    /\ part = "table" => EditorTypeOK /\ ShownIsStored /\ SavesAreAccepted
    /\ part = "shared table" => SharedTable!RowsHaveContext
    /\ part = "aas" =>
        Aas!TypeOK /\ Aas!ShownIsStored /\ Aas!ActionsMatchServer /\ Aas!QueryTellsDrawer
    /\ part = "permissions" =>
        Permits!FormTypeOK /\ Permits!ShownIsAccess /\ Permits!SentIsAccepted
    /\ part = "designs" =>
        Designs!ShownIsStored /\ Designs!RouteTellsConfig /\ Designs!PatchesMerge
    /\ part = "shared designs" => SharedDesigns!TypeOK /\ SharedDesigns!DesignsAreAsked

\* A save changes what the user edited and nothing else, in the row, the form
\* or the role that was opened, and nothing that is archived, as far as the
\* client could load the document again.
OnlyEditedIsSaved ==
    [][/\ part = "table" => SavedCellsOnly /\ AddsBesideClicked
       /\ part = "aas" => Aas!OpensSelected /\ Aas!SparesArchived
       /\ part = "permissions" => Permits!ChangesEdited
      ]_<<tableVars, aasVars, permissionVars>>

=============================================================================
