------------------------------ MODULE AasEditor ------------------------------
(***************************************************************************)
(* The web client's editor of a document: the tree of submodels and        *)
(* elements, the drawer with the form of one of them, the route that tells *)
(* which, and the client's copy of the shell with the access rules.  Every *)
(* step of the code between two awaits is one action; a request is sent,   *)
(* served and answered.  Modelled are a user with subordinates to give     *)
(* permissions to, elements with one value, and one page of submodels.     *)
(* Requests are taken up in any order, any of them may be refused or fail, *)
(* and the answer to a write may be lost.  What is in a table is module    *)
(* TableEditor.                                                            *)
(***************************************************************************)
EXTENDS Naturals, Sequences, SequencesExt, FiniteSets, FiniteSetsExt

CONSTANTS
    Values,             \* values of elements
    NewNames, NewSubmodels,     \* names for new elements and submodels
    Starts,             \* documents at the start
    MaxWrites           \* bound: requests of the user that write

VARIABLES
    document,           \* the document as stored
    shell, archived,    \* the client's copies of the access rules and the status
    tree,               \* the tree on display and the actions enabled in it
    loading,            \* the tree cannot be clicked
    drawer,             \* the drawer and the form in it
    query, pushing,     \* "edit" of the route, and a navigation under way
    waiting,            \* requests without an answer
    missed,             \* history: what the client has not been told of
    writes              \* counter for the bound

client == <<shell, archived, tree, loading, drawer, query, pushing>>
vars == <<document, client, waiting, missed, writes>>

-----------------------------------------------------------------------------
(* Documents *)

Permissions == {"Create", "Edit", "Delete"}
Kinds == {"submodel", "collection", "list", "property"}
NoPath == <<>>

\* own: the user's permissions by path; given: where subordinates have some.
Exists(d, path) == path \in DOMAIN d.nodes
WithChildren(d, path) == d.nodes[path].kind \in {"submodel", "collection"}

\* The nearest path at or above that has permissions of its own decides.
Can(rules, action, path) ==
    LET above == {p \in DOMAIN rules.own : IsPrefix(p, path)}
    IN  above # {} /\ action \in rules.own[CHOOSE p \in above : \A q \in above : Len(q) <= Len(p)]

Insert(d, path, kind, value) ==
    [d EXCEPT !.nodes = [p \in DOMAIN @ \cup {path} |->
                            IF p = path THEN [kind |-> kind, value |-> value] ELSE @[p]],
              !.order = IF kind = "submodel" THEN Append(@, path[1]) ELSE @]
WithoutElement(d, path) ==
    [d EXCEPT !.nodes = [p \in {p \in DOMAIN @ : ~IsPrefix(path, p)} |-> @[p]],
              !.order = IF Len(path) = 1 THEN SelectSeq(@, LAMBDA m : m # path[1]) ELSE @]
Without(d, path) ==
    [d EXCEPT !.nodes = [p \in {p \in DOMAIN @ : ~IsPrefix(path, p)} |-> @[p]],
              !.order = IF Len(path) = 1 THEN SelectSeq(@, LAMBDA m : m # path[1]) ELSE @,
              !.own = [p \in {p \in DOMAIN @ : ~IsPrefix(path, p)} |-> @[p]],
              !.given = {p \in @ : ~IsPrefix(path, p)}]
WithDefaults(d, path) ==
    [d EXCEPT !.own = [p \in DOMAIN @ \cup {path} |-> IF p = path THEN Permissions ELSE @[p]],
              !.given = @ \cup {path}]

Rules(d) == [own |-> d.own, given |-> d.given]
Content(d) == [nodes |-> d.nodes, order |-> d.order]

-----------------------------------------------------------------------------
(* The tree *)

\* The key of a row is the id of a submodel, the idShorts of a submodel and
\* its element, or the path of an element without the submodel.
Key(path) == IF Len(path) <= 2 THEN path ELSE Tail(path)
NoKey == <<>>

\* The first row with the key, submodel by submodel and from the top.
FindTreeNodeByKey(t, key) ==
    LET found == {p \in DOMAIN t.nodes : Key(p) = key}
        Place(p) == SelectInSeq(t.order, LAMBDA m : m = p[1])
        Before(p, q) == Place(p) < Place(q) \/ (Place(p) = Place(q) /\ Len(p) < Len(q))
    IN  IF found = {} THEN NoPath
        ELSE CHOOSE p \in found : \A q \in found \ {p} : Before(p, q)

EvaluateActions(d) ==
    {a \in Permissions \X DOMAIN d.nodes :
        /\ ~archived /\ Can(shell, a[1], a[2]) /\ (a[1] = "Create" => WithChildren(d, a[2]))}
ConvertSubmodelsToTree(d) ==
    [nodes |-> d.nodes, order |-> d.order, actions |-> EvaluateActions(d)]
EmptyTree == [nodes |-> <<>>, order |-> <<>>, actions |-> {}]

-----------------------------------------------------------------------------
(* The drawer, the route and the requests *)

Closed == [visible |-> FALSE, mode |-> "edit", path |-> NoPath, kind |-> "submodel",
           value |-> "none", rules |-> FALSE, save |-> FALSE]

\* A request, and what its answer leads to.
Request(op, path, kind, value, next) ==
    [op |-> op, path |-> path, kind |-> kind, value |-> value, next |-> next, nr |-> 0,
     state |-> "sent", ok |-> FALSE, late |-> FALSE, rules |-> [own |-> <<>>, given |-> {}],
     content |-> [nodes |-> <<>>, order |-> <<>>]]
Get(op, next, path) == Request(op, path, "submodel", "none", next)

With(requests, new) ==
    requests \cup {[new EXCEPT !.nr = Cardinality(requests) + 1]}
Done(r) == {[q EXCEPT !.nr = @ - (IF q.nr > r.nr THEN 1 ELSE 0)] : q \in waiting \ {r}}
Write(new) == writes < MaxWrites /\ writes' = writes + 1 /\ waiting' = With(waiting, new)

\* The page is loaded again once the navigation has ended.
Push(key, reload) ==
    pushing' = [on |-> TRUE, edit |-> key, reload |-> reload \/ pushing.reload]
NotPushing == [on |-> FALSE, edit |-> NoKey, reload |-> FALSE]

\* A drawer that was visible tells when it is hidden, which reloads the page.
HideDrawer == drawer' = Closed /\ Push(NoKey, drawer.visible)
OnHideDrawer == drawer' = Closed /\ Push(NoKey, TRUE)

OpenDrawer(mode, path, kind, value) ==
    drawer' = [visible |-> TRUE, mode |-> mode, path |-> path, kind |-> kind, value |-> value,
               rules |-> mode = "edit" /\ path \in DOMAIN shell.own \cup shell.given,
               save |-> ~archived /\ (mode = "shell" \/ path = NoPath \/ Can(shell, "Edit", path))]

SelectTreeNode(t, key) ==
    LET path == FindTreeNodeByKey(t, key)
    IN  IF path = NoPath THEN UNCHANGED <<drawer, pushing>>
        ELSE /\ OpenDrawer("edit", path, t.nodes[path].kind, t.nodes[path].value)
             /\ Push(key, FALSE)

-----------------------------------------------------------------------------
(* The user, who waits until everything is answered *)

AtRest == waiting = {} /\ ~pushing.on
Clicks == AtRest /\ ~loading /\ ~drawer.visible

Select(path) ==
    /\ Clicks /\ SelectTreeNode(tree, Key(path))
    /\ UNCHANGED <<document, shell, archived, tree, loading, query, waiting, missed, writes>>

OnlyDrawer == UNCHANGED <<document, shell, archived, tree, loading, query, pushing, waiting, missed, writes>>
\* The menu of a row, and the buttons above the tree.
AddElement(path, kind) ==
    Clicks /\ <<"Create", path>> \in tree.actions
    /\ OpenDrawer("create", path, kind, "none") /\ OnlyDrawer
CreateSubmodel ==
    Clicks /\ ~archived /\ OpenDrawer("create", NoPath, "submodel", "none") /\ OnlyDrawer
OpenShellEditor ==
    Clicks /\ ~archived /\ OpenDrawer("shell", NoPath, "submodel", "none") /\ OnlyDrawer

Quiet == UNCHANGED <<document, client, missed>>
Delete(path) ==
    /\ Clicks /\ <<"Delete", path>> \in tree.actions
    /\ Write(Request("delete", path, tree.nodes[path].kind, "none", "hideReload")) /\ Quiet

Submits == AtRest /\ drawer.visible /\ drawer.save /\ Quiet

\* A form that has permissions to save saves them first.
SubmitEdit ==
    /\ Submits /\ drawer.mode = "edit"
    /\ \E value \in Values :
        Write(Request(IF drawer.rules THEN "permit" ELSE "modify", drawer.path, drawer.kind,
                      value, IF drawer.kind = "list" THEN "hideAlways" ELSE "hide"))
SubmitCreate ==
    /\ Submits /\ drawer.mode = "create"
    /\ \E name \in IF drawer.path = NoPath THEN NewSubmodels ELSE NewNames :
        /\ Append(drawer.path, name) \notin DOMAIN tree.nodes
        /\ Write(Request("create", Append(drawer.path, name), drawer.kind, "none",
               CASE drawer.kind = "submodel" -> "rules"
                 [] drawer.kind = "list" -> "select" [] OTHER -> "hide"))
SubmitShell ==
    /\ Submits /\ drawer.mode = "shell"
    /\ Write(Request("permit", NoPath, "submodel", "none", "none"))

\* The toggle of the permissions of a subordinate.
OverrideInherited ==
    /\ AtRest /\ drawer.visible /\ drawer.mode = "edit" /\ drawer.save /\ ~drawer.rules
    /\ drawer' = [drawer EXCEPT !.rules = TRUE] /\ OnlyDrawer
ResetToInherited ==
    /\ AtRest /\ drawer.visible /\ drawer.mode = "edit" /\ drawer.save /\ drawer.rules
    /\ Write(Request("reset", drawer.path, drawer.kind, "none", "none")) /\ Quiet

Close ==
    /\ AtRest /\ drawer.visible /\ HideDrawer
    /\ UNCHANGED <<document, shell, archived, tree, loading, query, waiting, missed, writes>>

Archive ==
    Clicks /\ ~archived /\ Quiet
    /\ Write(Request("archive", NoPath, "submodel", "none", "status"))

\* The page is opened, or opened again, with the route as it is.
InitEditor == With({}, Get("shells", "init", NoPath))
Restart ==
    /\ AtRest /\ waiting' = InitEditor
    /\ shell' = [own |-> <<>>, given |-> {}] /\ tree' = EmptyTree /\ drawer' = Closed
    /\ archived' = document.archived
    /\ missed' = IF missed \cap {"tree", "form"} # {} THEN {"form"} ELSE {}
    /\ UNCHANGED <<document, loading, query, pushing, writes>>

User ==
    \/ \E path \in DOMAIN tree.nodes :
         Select(path) \/ Delete(path) \/ \E kind \in Kinds \ {"submodel"} : AddElement(path, kind)
    \/ CreateSubmodel \/ OpenShellEditor \/ SubmitEdit \/ SubmitCreate \/ SubmitShell
    \/ OverrideInherited \/ ResetToInherited
    \/ Close \/ Archive \/ Restart

Navigated ==
    /\ pushing.on /\ query' = pushing.edit /\ pushing' = NotPushing
    /\ waiting' = IF pushing.reload THEN With(waiting, Get("submodels", "none", NoPath)) ELSE waiting
    /\ loading' = (loading \/ pushing.reload) /\ missed' = missed \ {"form"}
    /\ UNCHANGED <<document, shell, archived, tree, drawer, writes>>

-----------------------------------------------------------------------------
(* The server *)

Writes == {"permit", "reset", "modify", "create", "delete", "archive"}
Permitted(r) ==
    r.op \in Writes =>
    /\ ~document.archived
    /\ CASE r.op = "modify" -> Exists(document, r.path) /\ Can(Rules(document), "Edit", r.path)
         [] r.op = "delete" -> Exists(document, r.path) /\ Can(Rules(document), "Delete", r.path)
         [] r.op = "create" ->
               /\ ~Exists(document, r.path)
               /\ Len(r.path) > 1 =>
                    Exists(document, Front(r.path)) /\ Can(Rules(document), "Create", Front(r.path))
         [] OTHER -> TRUE

Effect(r) ==
    CASE r.op = "modify" -> [document EXCEPT !.nodes[r.path].value = r.value]
      [] r.op = "delete" -> Without(document, r.path)
      [] r.op = "create" ->
            LET d == Insert(document, r.path, r.kind, "none")
            IN  IF r.kind = "submodel" THEN WithDefaults(d, r.path) ELSE d
      [] r.op = "permit" ->
            [document EXCEPT !.given = @ \cup ({r.path} \cap DOMAIN document.nodes)]
      [] r.op = "reset" -> [document EXCEPT !.given = @ \ {r.path}]
      [] r.op = "archive" -> [document EXCEPT !.archived = TRUE]
      [] OTHER -> document

\* What the client takes for unchanged when the answer is lost.
Touched(r) ==
    CASE r.op = "create" -> {"tree", "shell"} [] r.op \in {"modify", "delete"} -> {"tree"}
      [] r.op = "archive" -> {"status"} [] OTHER -> {}

\* A request may fail before or after it had its effect.
Serve(r) ==
    /\ r.state = "sent"
    /\ \E applied \in {FALSE, Permitted(r)}, ok \in BOOLEAN :
        /\ ok => applied
        /\ document' = IF applied THEN Effect(r) ELSE document
        /\ missed' = missed \cup (IF applied /\ ~ok THEN Touched(r) ELSE {})
        /\ waiting' = (waiting \ {r}) \cup
             {[r EXCEPT !.state = "answered", !.ok = ok,
                        !.late = \E q \in waiting \ {r} : q.state = "sent" /\ q.op \in Writes,
                        !.rules = IF r.op \in {"shells", "permit"} THEN Rules(document') ELSE @,
                        !.content = IF r.op = "submodels" THEN Content(document') ELSE @]}
    /\ UNCHANGED <<client, writes>>

-----------------------------------------------------------------------------
(* The answers *)

Answered(r, op) == r.state = "answered" /\ r.op = op
Keeps == UNCHANGED <<document, query, writes>>

\* The row to be selected is looked for in the tree on display, which is the
\* old one when it could not be loaded.
AnswerSubmodels(r) ==
    /\ Answered(r, "submodels") /\ Keeps /\ UNCHANGED <<shell, archived>>
    /\ loading' = FALSE /\ waiting' = Done(r)
    /\ tree' = IF r.ok THEN ConvertSubmodelsToTree(r.content) ELSE tree
    /\ missed' = (missed \ {"tree"}) \cup (IF r.ok /\ ~r.late THEN {} ELSE {"tree"})
                 \cup (IF r.next = "init" /\ ~r.ok THEN {"form"} ELSE {})
    /\ CASE r.next = "init" -> SelectTreeNode(tree', r.path)
         [] r.next = "select" -> SelectTreeNode(tree', Key(r.path))
         [] OTHER -> UNCHANGED <<drawer, pushing>>

\* What follows is done whether the shell could be loaded.
AnswerShells(r) ==
    /\ Answered(r, "shells") /\ Keeps /\ UNCHANGED <<archived, tree>>
    /\ IF r.ok THEN shell' = r.rules /\ missed' = missed \ {"shell"}
               ELSE UNCHANGED shell /\ missed' = missed \cup {"shell"}
    /\ CASE r.next = "init" ->
            /\ waiting' = With(Done(r), Get("submodels", "init", query)) /\ loading' = TRUE
            /\ UNCHANGED <<drawer, pushing>>
         [] r.next = "hide" -> HideDrawer /\ waiting' = Done(r) /\ UNCHANGED loading
         [] OTHER -> UNCHANGED <<drawer, pushing, loading>> /\ waiting' = Done(r)

\* The form goes on to save the values, whether the permissions were saved.
AnswerPermit(r) ==
    /\ Answered(r, "permit") /\ Keeps /\ UNCHANGED <<archived, tree, loading>>
    /\ waiting' = IF r.path = NoPath THEN Done(r)
                  ELSE With(Done(r), Request("modify", r.path, r.kind, r.value, r.next))
    /\ IF r.ok THEN shell' = r.rules /\ missed' = missed \ {"shell"} /\ HideDrawer
               ELSE UNCHANGED <<shell, missed, drawer, pushing>>

\* Mutant: the route is left as it is, and the page is not loaded again.
AnswerModifyQuietly(r) ==
    /\ Answered(r, "modify") /\ Keeps /\ waiting' = Done(r)
    /\ UNCHANGED <<missed, shell, archived, tree, loading, pushing>>
    /\ drawer' = IF r.ok THEN Closed ELSE drawer
AnswerModify(r) ==
    /\ Answered(r, "modify") /\ Keeps /\ waiting' = Done(r)
    /\ UNCHANGED <<missed, shell, archived, tree, loading>>
    /\ IF r.next = "hideAlways" THEN OnHideDrawer
       ELSE IF r.ok THEN HideDrawer ELSE UNCHANGED <<drawer, pushing>>

AnswerFails(r) ==
    /\ r.state = "answered" /\ ~r.ok /\ r.op \in {"create", "delete", "archive"}
    /\ waiting' = Done(r) /\ UNCHANGED <<document, client, missed, writes>>

AnswerCreate(r) ==
    /\ Answered(r, "create") /\ r.ok /\ Keeps /\ UNCHANGED <<missed, shell, archived, tree>>
    /\ CASE r.next = "rules" ->
            waiting' = With(Done(r), Get("shells", "hide", NoPath))
            /\ UNCHANGED <<drawer, pushing, loading>>
         [] r.next = "select" ->
            /\ HideDrawer /\ loading' = TRUE
            /\ waiting' = With(Done(r), Get("submodels", "select", r.path))
         [] OTHER -> HideDrawer /\ waiting' = Done(r) /\ UNCHANGED loading

AnswerDelete(r) ==
    /\ Answered(r, "delete") /\ r.ok /\ Keeps /\ UNCHANGED <<missed, shell, archived, tree>>
    /\ HideDrawer /\ loading' = TRUE
    /\ waiting' = With(Done(r), Get("submodels", "none", NoPath))

\* The form forgets the subordinate's rule, whether it was deleted.
AnswerReset(r) ==
    /\ Answered(r, "reset") /\ Keeps /\ UNCHANGED <<missed, shell, archived, tree, loading, pushing>>
    /\ drawer' = [drawer EXCEPT !.rules = drawer.path \in DOMAIN shell.own]
    /\ waiting' = IF r.ok THEN With(Done(r), Get("shells", "none", NoPath)) ELSE Done(r)

AnswerArchive(r) ==
    /\ Answered(r, "archive") /\ r.ok /\ Keeps /\ UNCHANGED <<missed, shell, tree, drawer, pushing>>
    /\ archived' = TRUE /\ loading' = TRUE
    /\ waiting' = With(Done(r), Get("submodels", "none", NoPath))

Answer(r) ==
    \/ AnswerSubmodels(r) \/ AnswerShells(r) \/ AnswerPermit(r) \/ AnswerModify(r) \/ AnswerFails(r)
    \/ AnswerCreate(r) \/ AnswerDelete(r) \/ AnswerReset(r) \/ AnswerArchive(r)

-----------------------------------------------------------------------------
Init ==
    /\ document \in Starts /\ archived = document.archived
    /\ shell = [own |-> <<>>, given |-> {}] /\ tree = EmptyTree /\ loading = FALSE
    /\ drawer = Closed /\ query = NoKey /\ pushing = NotPushing
    /\ waiting = InitEditor /\ missed = {} /\ writes = 0

Next == User \/ Navigated \/ \E r \in waiting : Serve(r) \/ Answer(r)

Spec == Init /\ [][Next]_vars

-----------------------------------------------------------------------------
(* Properties *)

TypeOK ==
    /\ \A p \in DOMAIN document.nodes :
        /\ document.nodes[p].kind \in Kinds /\ document.nodes[p].value \in Values \cup {"none"}
        /\ Len(p) > 1 => Front(p) \in DOMAIN document.nodes
    /\ DOMAIN document.own \cup document.given \subseteq DOMAIN document.nodes
    /\ missed \subseteq {"tree", "shell", "status", "form"}
    /\ archived \in BOOLEAN /\ loading \in BOOLEAN /\ writes \in 0..MaxWrites
    /\ drawer.mode = "edit" /\ drawer.visible /\ "tree" \notin missed => drawer.path \in DOMAIN document.nodes

\* Once the user may act again the tree shows what is stored, wherever the
\* page is opened again and whatever was refused, unless the page could not be
\* loaded, the answer to a write was lost, or the page was loaded before the
\* values were stored, which a form with permissions sends after it hid the
\* drawer.  The next page that is loaded is right again.
ShownIsStored ==
    Clicks /\ "tree" \notin missed =>
        Content(document) = [nodes |-> tree.nodes, order |-> tree.order]

\* Refuted: the tree never shows what is no longer stored.
TreeIsNeverOld == Clicks => Content(document) = [nodes |-> tree.nodes, order |-> tree.order]

\* The actions that a row offers are those that the server permits, also for
\* a submodel that was just created and after the document is archived,
\* unless the client was not told of the page, the rules or the status.
ActionsMatchServer ==
    Clicks /\ missed \subseteq {"form"} =>
        tree.actions =
            {a \in Permissions \X DOMAIN document.nodes :
                /\ ~document.archived /\ Can(Rules(document), a[1], a[2])
                /\ a[1] = "Create" => WithChildren(document, a[2])}

\* The route tells which form is open, so that opening the page again opens
\* the same one, unless the page could not be loaded when it was opened.
QueryTellsDrawer ==
    AtRest /\ "form" \notin missed =>
        query = IF drawer.visible /\ drawer.mode = "edit" THEN Key(drawer.path) ELSE NoKey

\* The form that a click opens is that of the row, and opening the page again
\* opens the same one, as long as no two rows have the same key.
KeysDiffer == \A p, q \in DOMAIN tree.nodes : Key(p) = Key(q) => p = q
OpensSelected ==
    KeysDiffer =>
     /\ \A p \in DOMAIN tree.nodes : Select(p) => drawer'.path = p
     /\ \A r \in waiting :
          Answered(r, "submodels") /\ r.next = "init" /\ AnswerSubmodels(r)
          /\ r.path # NoKey /\ drawer'.visible => Key(drawer'.path) = r.path

\* A list that was created is opened for its entries (comment in
\* aas-editor.spec.ts).
OpensNewList ==
    \A r \in waiting :
     Answered(r, "submodels") /\ r.next = "select" /\ AnswerSubmodels(r) =>
         drawer'.visible /\ drawer'.path = r.path
NewListIsOpened == [][OpensNewList]_vars

\* Nothing is sent to be written to a document that is archived, from
\* whatever form, unless the page could not be loaded again after that.
SparesArchived ==
    writes' # writes /\ "tree" \notin missed => ~archived

=============================================================================

