--------------------------- MODULE SubmodelElements ---------------------------
(***************************************************************************)
(* The elements of a submodel as trees, and what is made of them: the JSON *)
(* of JsonVisitor, the values of ValueVisitor, modified values, copies,    *)
(* and the links of API version 1.  A tree is a record of its kind, its    *)
(* idShort, its type (the valueType of a property, the kind of the items   *)
(* of a list), its value and its children.  Texts, semantics, qualifiers   *)
(* and extensions of an element come along with it and are left out.       *)
(***************************************************************************)
EXTENDS Naturals, FiniteSets, Sequences, SequencesExt

CONSTANTS
    Urls,       \* the texts that z.url() accepts
    Numbers     \* the texts that are coerced to numbers

\* A value is tagged with what it is, and lists the texts it is made of.
Val(tag, keys) == [tag |-> tag, keys |-> keys]
Null == Val("null", <<>>)
Text(s) == Val("text", <<s>>)
ExternalReference(keys) == Val("external", keys)
ModelReference(keys) == Val("model", keys)
Nothing == Val("nothing", <<>>)     \* of an element that only has children

Elem(kind, id, type, val, children) ==
    [kind |-> kind, id |-> id, type |-> type, val |-> val, children |-> children]

\* What a class may hold, and which elements addSubmodelElement takes.
Class(holds, takes) == [holds |-> holds, takes |-> takes]
DataKinds == {"Property", "MultiLanguageProperty", "Range", "File", "Blob",
              "ReferenceElement", "RelationshipElement"}
Containers == {"SubmodelElementCollection", "SubmodelElementList", "Entity",
               "AnnotatedRelationshipElement"}
Kinds == DataKinds \cup Containers

PropertyClass == Class({"text", "null"}, {})
MultiLanguagePropertyClass == Class({"texts"}, {})
RangeClass == Class({"range"}, {})
FileClass == Class({"file"}, {})
BlobClass == Class({"blob"}, {})
ReferenceElementClass == Class({"external", "model", "null"}, {})
RelationshipElementClass == Class({"pair"}, {})
AnnotatedRelationshipElementClass == Class({"pair"}, Kinds)
EntityClass == Class({"entity"}, Kinds)
SubmodelElementCollectionClass == Class({"nothing"}, Kinds)
SubmodelElementListClass == Class({"nothing"}, Kinds)
SubmodelClass == Class({"nothing"}, Kinds)

ClassOf ==
    [Property |-> PropertyClass, MultiLanguageProperty |-> MultiLanguagePropertyClass,
     Range |-> RangeClass, File |-> FileClass, Blob |-> BlobClass,
     ReferenceElement |-> ReferenceElementClass,
     RelationshipElement |-> RelationshipElementClass,
     AnnotatedRelationshipElement |-> AnnotatedRelationshipElementClass,
     Entity |-> EntityClass, SubmodelElementCollection |-> SubmodelElementCollectionClass,
     SubmodelElementList |-> SubmodelElementListClass, Submodel |-> SubmodelClass]

\* The JSON {} of an element that is not shown, and the undefined value.
EmptyObject == Elem("Empty", "", "", Nothing, <<>>)
removeEmptyItems(items) == SelectSeq(items, LAMBDA i : i # EmptyObject)

-----------------------------------------------------------------------------
(* Paths, and the changes of a tree *)

ChildIds(e) == {e.children[i].id : i \in 1..Len(e.children)}
ChildAt(e, id) == SelectInSeq(e.children, LAMBDA c : c.id = id)

RECURSIVE PathsOf(_)
PathsOf(e) ==
    {<<e.id>>} \cup
    UNION {{<<e.id>> \o p : p \in PathsOf(e.children[i])} : i \in 1..Len(e.children)}

RECURSIVE findSubmodelElement(_, _)
findSubmodelElement(e, path) ==
    IF Len(path) = 1 THEN e
    ELSE findSubmodelElement(e.children[ChildAt(e, path[2])], Tail(path))

\* The paths of what has data of its own: all but collections and tables.
RECURSIVE DataIn(_, _)
DataIn(e, path) ==
    (IF e.kind \in DataKinds \cup {"Entity", "AnnotatedRelationshipElement"} THEN {path} ELSE {})
    \cup UNION {DataIn(e.children[i], Append(path, e.children[i].id)) : i \in 1..Len(e.children)}

\* The paths inside a table, which have no policies of their own.
InTable(e, path) ==
    \E n \in 1..(Len(path) - 1) :
        findSubmodelElement(e, SubSeq(path, 1, n)).kind = "SubmodelElementList"

RECURSIVE PutAt(_, _, _)
PutAt(e, path, new) ==
    IF Len(path) = 1 THEN new
    ELSE LET i == ChildAt(e, path[2])
         IN  [e EXCEPT !.children[i] = PutAt(@, Tail(path), new)]

Takes(parent, e) ==
    /\ e.kind \in ClassOf[parent.kind].takes
    /\ parent.kind = "SubmodelElementList" => e.kind = parent.type
    /\ e.id \notin ChildIds(parent)
addSubmodelElement(tree, path, e, position) ==
    LET parent == findSubmodelElement(tree, path)
    IN  PutAt(tree, path, [parent EXCEPT !.children = InsertAt(@, position, e)])
deleteSubmodelElement(tree, path) ==
    LET parent == findSubmodelElement(tree, Front(path))
    IN  PutAt(tree, Front(path),
                  [parent EXCEPT !.children = RemoveAt(@, ChildAt(parent, Last(path)))])

-----------------------------------------------------------------------------
(* Parsing: what fromPlain accepts *)

validateValue(type, val) ==
    val # Null =>
        CASE type = "Double" -> val.keys[1] \in Numbers
          [] type = "AnyUri" -> val.keys[1] # ""
          [] OTHER -> TRUE

RECURSIVE parseSubmodelElement(_)
parseSubmodelElement(plain) ==
    /\ plain.kind \in Kinds
    /\ plain.val.tag \in ClassOf[plain.kind].holds
    /\ plain.kind = "Property" => validateValue(plain.type, plain.val)
    /\ \A i \in 1..Len(plain.children) : parseSubmodelElement(plain.children[i])
SubmodelJsonSchema(plain) ==
    /\ plain.kind = "Submodel"
    /\ \A i \in 1..Len(plain.children) : parseSubmodelElement(plain.children[i])

-----------------------------------------------------------------------------
(* JsonVisitor: the elements that a subject may read, as JSON *)

filterByAbility(plain, path, reads) == IF path \in reads THEN plain ELSE EmptyObject

jsonLeaf(e, path, reads) == filterByAbility(e, path, reads)
jsonAnnotatedRelationshipElement(e, path, items, reads) ==
    filterByAbility([e EXCEPT !.children = items], path, reads)
jsonEntity(e, path, items, reads) ==
    filterByAbility([e EXCEPT !.children = items], path, reads)
jsonSubmodelElementCollection(e, path, items, reads) ==
    LET shown == removeEmptyItems(items)
        plain == [e EXCEPT !.children = shown]
    IN  IF shown # <<>> THEN plain ELSE filterByAbility(plain, path, reads)
jsonSubmodelElementList(e, path, items, reads) ==
    filterByAbility([e EXCEPT !.children = removeEmptyItems(items)], path, reads)
jsonSubmodel(e, path, items, reads) ==
    LET shown == removeEmptyItems(items)
        plain == [e EXCEPT !.children = shown]
    IN  IF shown # <<>> THEN plain ELSE filterByAbility(plain, path, reads)

RECURSIVE JsonVisitor(_, _, _)
JsonVisitor(e, path, reads) ==
    LET items == [i \in 1..Len(e.children) |->
                      JsonVisitor(e.children[i], Append(path, e.children[i].id), reads)]
    IN  CASE e.kind \in DataKinds -> jsonLeaf(e, path, reads)
          [] e.kind = "AnnotatedRelationshipElement" ->
                 jsonAnnotatedRelationshipElement(e, path, items, reads)
          [] e.kind = "Entity" -> jsonEntity(e, path, items, reads)
          [] e.kind = "SubmodelElementCollection" ->
                 jsonSubmodelElementCollection(e, path, items, reads)
          [] e.kind = "SubmodelElementList" -> jsonSubmodelElementList(e, path, items, reads)
          [] e.kind = "Submodel" -> jsonSubmodel(e, path, items, reads)

-----------------------------------------------------------------------------
(* ValueVisitor: the values that a subject may read.  A value has a shape, *)
(* and its key in the object that it is part of.                           *)

Value(id, shape, val, items) == [id |-> id, shape |-> shape, val |-> val, items |-> items]
Undefined == Value("", "undefined", Nothing, <<>>)
removeUndefined(items) == SelectSeq(items, LAMBDA i : i # Undefined)
Readable(value, path, reads) == IF path \in reads THEN value ELSE Undefined

\* Mutant: a file is not filtered.
valueFileUnfiltered(e, path, reads) == Value(e.id, "file", e.val, <<>>)
valueProperty(e, path, reads) == Readable(Value(e.id, e.val.tag, e.val, <<>>), path, reads)
valueMultiLanguageProperty(e, path, reads) ==
    Readable(Value(e.id, "texts", e.val, <<>>), path, reads)
valueRange(e, path, reads) == Readable(Value(e.id, "range", e.val, <<>>), path, reads)
valueFile(e, path, reads) == Readable(Value(e.id, "file", e.val, <<>>), path, reads)
valueBlob(e, path, reads) == Readable(Value(e.id, "blob", e.val, <<>>), path, reads)
valueReferenceElement(e, path, reads) ==
    Readable(Value(e.id, IF e.val = Null THEN "null" ELSE "reference", e.val, <<>>),
             path, reads)
valueRelationshipElement(e, path, reads) ==
    Readable(Value(e.id, "pair", e.val, <<>>), path, reads)
valueAnnotatedRelationshipElement(e, path, reads) ==
    Readable(Value(e.id, "pair", e.val, <<>>), path, reads)
valueEntity(e, path, items, reads) ==
    LET statements == removeUndefined(items)
        plain == Value(e.id, "entity", e.val, statements)
    IN  IF statements # <<>> THEN plain ELSE Readable(plain, path, reads)
valueSubmodelElementCollection(e, items) ==
    LET cleaned == removeUndefined(items)
    IN  IF cleaned = <<>> THEN Undefined ELSE Value(e.id, "object", Nothing, cleaned)
valueSubmodelElementList(e, items) ==
    Value(e.id, "array", Nothing, removeUndefined(items))
\* A submodel of which nothing may be read is refused, which Undefined says.
valueSubmodel(e, path, items, reads) ==
    LET cleaned == removeUndefined(items)
    IN  IF cleaned = <<>> /\ path \notin reads THEN Undefined
        ELSE Value(e.id, "object", Nothing, cleaned)

RECURSIVE ValueVisitor(_, _, _)
ValueVisitor(e, path, reads) ==
    LET items == [i \in 1..Len(e.children) |->
                      ValueVisitor(e.children[i], Append(path, e.children[i].id), reads)]
    IN  CASE e.kind = "Property" -> valueProperty(e, path, reads)
          [] e.kind = "MultiLanguageProperty" -> valueMultiLanguageProperty(e, path, reads)
          [] e.kind = "Range" -> valueRange(e, path, reads)
          [] e.kind = "File" -> valueFile(e, path, reads)
          [] e.kind = "Blob" -> valueBlob(e, path, reads)
          [] e.kind = "ReferenceElement" -> valueReferenceElement(e, path, reads)
          [] e.kind = "RelationshipElement" -> valueRelationshipElement(e, path, reads)
          [] e.kind = "AnnotatedRelationshipElement" ->
                 valueAnnotatedRelationshipElement(e, path, reads)
          [] e.kind = "Entity" -> valueEntity(e, path, items, reads)
          [] e.kind = "SubmodelElementCollection" -> valueSubmodelElementCollection(e, items)
          [] e.kind = "SubmodelElementList" -> valueSubmodelElementList(e, items)
          [] e.kind = "Submodel" -> valueSubmodel(e, path, items, reads)

-----------------------------------------------------------------------------
(* ValueModifierVisitor: a tree with the values of a request, or Refused *)

Refused == EmptyObject
IfAllowed(path, edits, ok, new) == IF path \in edits /\ ok THEN new ELSE Refused

modifyProperty(e, path, data, edits) ==
    IfAllowed(path, edits, data.shape \in {"text", "null"} /\ validateValue(e.type, data.val),
              [e EXCEPT !.val = data.val])
modifyFile(e, path, data, edits) ==
    IfAllowed(path, edits, data.shape = "file", [e EXCEPT !.val = data.val])
\* Mutant: the texts of a request are added to those there are.
modifyTextsAdded(e, path, data, edits) ==
    IfAllowed(path, edits, data.shape = "texts",
              [e EXCEPT !.val.keys = @ \o data.val.keys])
modifyMultiLanguageProperty(e, path, data, edits) ==
    IfAllowed(path, edits, data.shape = "texts", [e EXCEPT !.val = data.val])
modifyReferenceElement(e, path, data, edits) ==
    IfAllowed(path, edits, data.shape \in {"reference", "null"}, [e EXCEPT !.val = data.val])

\* Objects of values are read by their keys, arrays by their positions.
RECURSIVE ValueModifierVisitor(_, _, _, _)
modifyNamed(e, path, data, edits) ==
    LET Modify(tree, item) ==
            IF tree = Refused \/ item.id \notin ChildIds(tree) THEN Refused
            ELSE LET i == ChildAt(tree, item.id)
                     new == ValueModifierVisitor(tree.children[i], Append(path, item.id),
                                                 item, edits)
                 IN  IF new = Refused THEN Refused ELSE [tree EXCEPT !.children[i] = new]
    IN  IF data.shape # "object" THEN Refused ELSE FoldLeft(Modify, e, data.items)
modifySubmodelElementList(e, path, data, edits) ==
    LET records == {"object", "file", "entity", "pair", "range", "blob", "reference"}
        Modify(tree, i) ==
            IF tree = Refused \/ i > Len(tree.children) THEN Refused
            ELSE LET row == tree.children[i]
                     new == ValueModifierVisitor(row, Append(path, row.id),
                                                 data.items[i], edits)
                 IN  IF new = Refused THEN Refused ELSE [tree EXCEPT !.children[i] = new]
    IN  IF data.shape # "array" \/ \E i \in 1..Len(data.items) :
                                         data.items[i].shape \notin records
        THEN Refused
        ELSE FoldLeft(Modify, e, [i \in 1..Len(data.items) |-> i])
ValueModifierVisitor(e, path, data, edits) ==
    CASE e.kind = "Property" -> modifyProperty(e, path, data, edits)
      [] e.kind = "File" -> modifyFile(e, path, data, edits)
      [] e.kind = "MultiLanguageProperty" -> modifyMultiLanguageProperty(e, path, data, edits)
      [] e.kind = "ReferenceElement" -> modifyReferenceElement(e, path, data, edits)
      [] e.kind \in {"Submodel", "SubmodelElementCollection"} ->
             modifyNamed(e, path, data, edits)
      [] e.kind = "SubmodelElementList" -> modifySubmodelElementList(e, path, data, edits)
      [] OTHER -> Refused

-----------------------------------------------------------------------------
(* Copies: of the elements that may be read, with ids and children anew. A *)
(* tree that cannot be parsed again is not copied.                         *)

Denied == EmptyObject
RECURSIVE copySubmodelElement(_, _, _)
copySubmodelElement(e, path, reads) ==
    LET copies == [i \in 1..Len(e.children) |->
                       copySubmodelElement(e.children[i], Append(path, e.children[i].id),
                                           reads)]
        allowed == SelectSeq(copies, LAMBDA c : c # Denied)
        plainClone == JsonVisitor(e, path, reads)
    IN  IF path \in reads \/ allowed # <<>>
        THEN IF parseSubmodelElement(plainClone) \/ SubmodelJsonSchema(plainClone)
             THEN [e EXCEPT !.children = allowed] ELSE Refused
        ELSE Denied

-----------------------------------------------------------------------------
(* Links: API version 1 and old documents have references for properties *)

\* Mutant: links in tables are left.
RECURSIVE migrateNoTables(_)
migrateNoTables(e) ==
    CASE e.kind = "ReferenceElement" /\ e.val.tag = "external" /\ Len(e.val.keys) = 1 ->
             [e EXCEPT !.kind = "Property", !.type = "AnyUri", !.val = Text(e.val.keys[1])]
      [] e.kind = "ReferenceElement" /\ e.val = Null ->
             [e EXCEPT !.kind = "Property", !.type = "AnyUri"]
      [] e.kind = "SubmodelElementCollection" ->
             [e EXCEPT !.children = [i \in 1..Len(@) |-> migrateNoTables(@[i])]]
      [] OTHER -> e
RECURSIVE migrateSubmodelElementLinks(_)
migrateSubmodelElementLinks(e) ==
    CASE e.kind = "ReferenceElement" /\ e.val.tag = "external" /\ Len(e.val.keys) = 1 ->
             [e EXCEPT !.kind = "Property", !.type = "AnyUri", !.val = Text(e.val.keys[1])]
      [] e.kind = "ReferenceElement" /\ e.val = Null ->
             [e EXCEPT !.kind = "Property", !.type = "AnyUri"]
      [] e.kind \in {"SubmodelElementCollection", "SubmodelElementList"} ->
             [e EXCEPT !.children = [i \in 1..Len(@) |-> migrateSubmodelElementLinks(@[i])]]
      [] OTHER -> e
migrateSubmodelLinks(e) ==
    [e EXCEPT !.children = [i \in 1..Len(@) |-> migrateSubmodelElementLinks(@[i])]]

RECURSIVE reverseMigrateSubmodelElementLinks(_)
reverseMigrateSubmodelElementLinks(e) ==
    CASE e.kind = "Property" /\ e.type = "AnyUri" ->
             [e EXCEPT !.kind = "ReferenceElement", !.type = "",
                       !.val = IF @ = Null THEN Null ELSE ExternalReference(@.keys)]
      [] e.kind \in {"SubmodelElementCollection", "SubmodelElementList"} ->
             [e EXCEPT !.children =
                  [i \in 1..Len(@) |-> reverseMigrateSubmodelElementLinks(@[i])]]
      [] OTHER -> e
reverseMigrateSubmodelLinks(e) ==
    [e EXCEPT !.children = [i \in 1..Len(@) |-> reverseMigrateSubmodelElementLinks(@[i])]]

RECURSIVE migrateLinksInValueRepresentation(_)
migrateLinksInValueRepresentation(v) ==
    IF v.shape = "reference" /\ v.val.tag = "external" /\ Len(v.val.keys) = 1
    THEN Value(v.id, "text", Text(v.val.keys[1]), <<>>)
    ELSE [v EXCEPT !.items = [i \in 1..Len(@) |-> migrateLinksInValueRepresentation(@[i])]]
RECURSIVE reverseMigrateLinksInValueRepresentation(_)
reverseMigrateLinksInValueRepresentation(v) ==
    IF v.shape = "text" /\ v.val.keys[1] \in Urls
    THEN Value(v.id, "reference", ExternalReference(v.val.keys), <<>>)
    ELSE [v EXCEPT !.items =
              [i \in 1..Len(@) |-> reverseMigrateLinksInValueRepresentation(@[i])]]

=============================================================================

