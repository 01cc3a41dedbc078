---------------------------- MODULE ElementExchange ----------------------------
(***************************************************************************)
(* One submodel that its owner builds and shares, and a client of another  *)
(* subject that reads it as JSON or as values, in API version 1 or 2, and  *)
(* later puts the values that it read back.  A policy gives the client's   *)
(* subject permissions for a path and for all below that has no policy.    *)
(***************************************************************************)
EXTENDS SubmodelElements, TLC

CONSTANTS
    NewElements,    \* the elements that the owner may add
    Versions,       \* the versions of the API in use
    MaxChanges,     \* bound on the changes of the owner and the client
    ClientKeeps,    \* whether the client keeps values while the owner changes
    None

VARIABLES
    tree,           \* the stored submodel
    policies,       \* path -> permissions of the client's subject
    answer,         \* the last answer to the client, or None
    changes

vars == <<tree, policies, answer, changes>>

ExchangeAssumption ==
    /\ Versions \subseteq {"v1", "v2"}
    /\ MaxChanges \in Nat
    /\ ClientKeeps \in BOOLEAN
    /\ \A e \in NewElements : e.kind \in Kinds

\* What can be edited can be read.
AllowedPermissions == {{}, {"Read"}, {"Read", "Edit"}}

Root == <<tree.id>>
can(action, path) ==
    LET objects == {n \in 1..Len(path) : SubSeq(path, 1, n) \in DOMAIN policies}
    IN  /\ objects # {}
        /\ \E n \in objects : /\ \A m \in objects : m <= n
                              /\ action \in policies[SubSeq(path, 1, n)]
Reads == {p \in PathsOf(tree) : can("Read", p)}
Edits == {p \in PathsOf(tree) : can("Edit", p)}

-----------------------------------------------------------------------------
(* Requests and responses *)

SubmodelElementRequest(body, version) ==
    IF version = "v1" THEN migrateSubmodelElementLinks(body) ELSE body
ValueModificationRequest(body, version) ==
    IF version = "v1" THEN migrateLinksInValueRepresentation(body) ELSE body

Answer(form, version, path, body) ==
    [form |-> form, version |-> version, path |-> path, body |-> body,
     tree |-> tree, reads |-> Reads]
Forbidden(version, path) == Answer("forbidden", version, path, None)
Failed(version, path) == Answer("failed", version, path, None)

SubmodelResponse(version) ==
    LET plain == JsonVisitor(tree, Root, Reads)
        migrated == IF version = "v1" THEN reverseMigrateSubmodelLinks(plain) ELSE plain
    IN  IF plain = EmptyObject THEN Forbidden(version, Root)
        ELSE IF SubmodelJsonSchema(migrated) THEN Answer("json", version, Root, migrated)
        ELSE Failed(version, Root)
SubmodelElementResponse(path, version) ==
    LET plain == JsonVisitor(findSubmodelElement(tree, path), path, Reads)
        migrated == IF version = "v1" THEN reverseMigrateSubmodelElementLinks(plain)
                    ELSE plain
    IN  IF plain = EmptyObject THEN Forbidden(version, path)
        ELSE IF parseSubmodelElement(migrated) THEN Answer("json", version, path, migrated)
        ELSE Failed(version, path)

\* An empty text, or no texts or rows, is an object without keys as well.
isEmptyObject(v) ==
    \/ v.shape \in {"array", "object"} /\ v.items = <<>>
    \/ v.shape = "text" /\ v.val.keys[1] = ""
    \/ v.shape = "texts" /\ v.val.keys = <<>>
RefuseValue(path, plain) ==
    plain = Undefined \/ (Len(path) > 1 /\ isEmptyObject(plain))
ValueResponse(path, version) ==
    LET plain == ValueVisitor(findSubmodelElement(tree, path), path, Reads)
        migrated == IF version = "v1" THEN reverseMigrateLinksInValueRepresentation(plain)
                    ELSE plain
    IN  IF RefuseValue(path, plain) THEN Forbidden(version, path)
        ELSE Answer("value", version, path, migrated)

-----------------------------------------------------------------------------
(* The owner *)

Init ==
    /\ tree = Elem("Submodel", "s", "", Nothing, <<>>)
    /\ policies \in [{<<"s">>} -> AllowedPermissions]
    /\ answer = None
    /\ changes = 0

Change == changes < MaxChanges /\ changes' = changes + 1
OwnerChange ==
    /\ Change
    /\ answer' = IF ClientKeeps /\ answer # None /\ answer.form = "value" THEN answer ELSE None

AddSubmodelElement(path, e, position, version) ==
    LET new == SubmodelElementRequest(e, version)
    IN  /\ OwnerChange
        /\ parseSubmodelElement(new)
        /\ Takes(findSubmodelElement(tree, path), new)
        /\ position <= Len(findSubmodelElement(tree, path).children) + 1
        /\ tree' = addSubmodelElement(tree, path, new, position)
        /\ UNCHANGED policies
DeleteSubmodelElement(path) ==
    /\ OwnerChange
    /\ Len(path) > 1
    /\ tree' = deleteSubmodelElement(tree, path)
    /\ policies' = [p \in {q \in DOMAIN policies : ~IsPrefix(path, q)} |-> policies[p]]
SetPolicy(path, permissions) ==
    /\ OwnerChange
    /\ ~InTable(tree, path)
    /\ policies' = (path :> permissions) @@ policies
    /\ UNCHANGED tree
DeletePolicy(path) ==
    /\ OwnerChange
    /\ policies' = [p \in DOMAIN policies \ {path} |-> policies[p]]
    /\ UNCHANGED tree

\* A client that holds no answer asks.
Ask(response) == answer = None /\ answer' = response /\ UNCHANGED <<tree, policies, changes>>

CopyDocument ==
    Ask(Answer("copy", None, Root, copySubmodelElement(tree, Root, PathsOf(tree))))

-----------------------------------------------------------------------------
(* The client *)

GetSubmodel(version) == Ask(SubmodelResponse(version))
GetSubmodelElement(path, version) ==
    Len(path) > 1 /\ Ask(SubmodelElementResponse(path, version))
GetValue(path, version) == Ask(ValueResponse(path, version))

\* The client puts the values back that it was answered.
modifyValue ==
    /\ Change
    /\ answer # None /\ answer.form = "value" /\ answer.path \in PathsOf(tree)
    /\ LET data == ValueModificationRequest(answer.body, answer.version)
           new == ValueModifierVisitor(findSubmodelElement(tree, answer.path), answer.path,
                                       data, Edits)
       IN  tree' = IF new = Refused THEN tree ELSE PutAt(tree, answer.path, new)
    /\ answer' = None
    /\ UNCHANGED policies

Next ==
    \/ \E path \in PathsOf(tree) :
        \/ \E e \in NewElements, v \in Versions :
            \/ AddSubmodelElement(path, e, 1, v)
            \/ AddSubmodelElement(path, e, 1 + Len(findSubmodelElement(tree, path).children), v)
        \/ DeleteSubmodelElement(path)
        \/ \E ps \in AllowedPermissions : SetPolicy(path, ps)
        \/ \E v \in Versions : GetSubmodelElement(path, v) \/ GetValue(path, v)
    \/ \E path \in DOMAIN policies : DeletePolicy(path)
    \/ CopyDocument
    \/ \E v \in Versions : GetSubmodel(v)
    \/ modifyValue

Spec == Init /\ [][Next]_vars

-----------------------------------------------------------------------------
(* Properties *)

TypeOK ==
    /\ SubmodelJsonSchema(tree)
    /\ DOMAIN policies \subseteq PathsOf(tree)
    /\ \A p \in DOMAIN policies : policies[p] \in AllowedPermissions
    /\ answer # None => answer.form \in {"json", "value", "copy", "forbidden", "failed"}
    /\ changes \in 0..MaxChanges

\* The values of an answer by their paths: a value in an array is that of the
\* row it was made of.
RECURSIVE ValuesIn(_, _)
ValuesIn(v, path) ==
    IF v.shape \in {"object", "array", "entity"}
    THEN UNION {ValuesIn(v.items[i], Append(path, v.items[i].id)) : i \in 1..Len(v.items)}
    ELSE {path}

\* No data reaches the client that it may not read, in JSON or as values, in
\* tables too, whatever is between the data and the policies above.  The ids
\* of an entity come along with the values of its statements (visitEntity).
ShownIsReadable ==
    /\ answer # None /\ answer.form = "json" =>
           DataIn(answer.body, answer.path) \subseteq answer.reads
    /\ answer # None /\ answer.form = "value" =>
           ValuesIn(answer.body, answer.path) \subseteq answer.reads

\* What is not shown although it may be read: as JSON, what is below an entity
\* or a relationship that may not be read; as values, annotations.  As values
\* an entity itself has none but those of its statements.
Hidden(form, path) ==
    \E n \in Len(answer.path)..(Len(path) - 1) :
        LET above == SubSeq(path, 1, n)
            kind == findSubmodelElement(answer.tree, above).kind
        IN  IF form = "json"
            THEN kind \in {"Entity", "AnnotatedRelationshipElement"} /\ above \notin answer.reads
            ELSE kind = "AnnotatedRelationshipElement"
At(path) == findSubmodelElement(answer.tree, path)

\* All else that the client may read reaches it, in tables too.
ReadableIsShown ==
    answer # None /\ answer.form \in {"json", "value"} =>
        LET shown == IF answer.form = "json" THEN DataIn(answer.body, answer.path)
                     ELSE ValuesIn(answer.body, answer.path)
        IN  \A p \in DataIn(At(answer.path), answer.path) \cap answer.reads :
                \/ p \in shown \/ Hidden(answer.form, p)
                \/ answer.form = "value" /\ At(p).kind = "Entity"

\* The submodel is refused only to a client that may read nothing of it, or
\* nothing that is not below an entity or a relationship it may not read.
RefusedIsUnreadable ==
    answer # None /\ answer.form = "forbidden" /\ Len(answer.path) = 1 =>
        \A p \in DataIn(answer.tree, answer.path) \cap answer.reads : Hidden("json", p)

\* JSON fails only where an entity or a relationship that may be read has a
\* child of which nothing is shown: its {} is not removed and does not parse.
FailedHasHiddenChild ==
    answer # None /\ answer.form = "failed" =>
        \E p \in {answer.path \o Tail(q) : q \in PathsOf(At(answer.path))} \cap answer.reads :
            /\ At(p).kind \in {"Entity", "AnnotatedRelationshipElement"}
            /\ \E id \in ChildIds(At(p)) :
                JsonVisitor(At(Append(p, id)), Append(p, id), answer.reads) = EmptyObject

\* Putting the values back that were read changes nothing as long as nobody
\* changed anything in between, in both versions.
WritesBack ==
    modifyValue /\ answer.tree = tree => tree' = tree

\* Whatever was changed in between: only elements change their values that
\* the client may edit then, and none comes, goes or moves.
WritesEdited ==
    modifyValue =>
     /\ PathsOf(tree') = PathsOf(tree)
     /\ \A p \in PathsOf(tree) \ Edits :
            \A q \in {p} : findSubmodelElement(tree', q).val
                           = findSubmodelElement(tree, q).val

\* What a client of version 1 is shown, and creates anew, is what a client of
\* version 2 is shown: in submodels without reference elements, of which those
\* to one external key would become links.
Links(e) == \E p \in PathsOf(e) : LET x == findSubmodelElement(e, p)
                                  IN  x.kind = "ReferenceElement"
VersionsAgree ==
    answer # None /\ answer.form = "json" /\ answer.version = "v1" /\ Len(answer.path) > 1
    /\ ~Links(answer.tree) =>
        SubmodelElementRequest(answer.body, "v1")
        = JsonVisitor(findSubmodelElement(answer.tree, answer.path), answer.path, answer.reads)

\* A copy has every element, with its value, in its place.
CopiesAreComplete ==
    answer # None /\ answer.form = "copy" => answer.body = answer.tree

\* A subject gets the JSON of what it may read, never an error.
ReadableIsAnswered == answer # None => answer.form # "failed"

\* A subject gets the values of what it may read, empty or not.
ReadableValueIsAnswered ==
    answer # None /\ answer.form = "forbidden"
    /\ findSubmodelElement(answer.tree, answer.path).kind
           \in DataKinds \cup {"SubmodelElementList"} =>
        answer.path \notin answer.reads

\* The items of a list have the type of the list.
RECURSIVE ListsMatch(_)
ListsMatch(e) ==
    /\ e.kind = "SubmodelElementList" =>
           \A i \in 1..Len(e.children) : e.children[i].kind = e.type
    /\ \A i \in 1..Len(e.children) : ListsMatch(e.children[i])
ListItemsMatch == ListsMatch(tree)

=============================================================================

