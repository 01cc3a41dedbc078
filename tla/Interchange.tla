------------------------------ MODULE Interchange ------------------------------
(***************************************************************************)
(* Documents that leave as files and come back: the export of what a       *)
(* subject may read, files of this and of former versions of the format,   *)
(* and their import into the same organization or another one, where the   *)
(* media that the files refer to may belong to others or be gone.  Its     *)
(* transactions are those of module DocumentCreation.                      *)
(***************************************************************************)
EXTENDS SubmodelElements, TLC

CONSTANTS
    NewElements,    \* the elements that the owner may add
    Orgs,           \* organizations; the document belongs to Home
    Home,
    Media,          \* ids of media that file elements and thumbnails name
    Subjects,       \* those whose policies are set
    Designs,        \* what a presentation configuration says
    MaxChanges,     \* bound on the changes of the document and the media
    None

InterchangeAssumption ==
    Home \in Orgs /\ MaxChanges \in Nat /\ \A e \in NewElements : e.kind \in Kinds

VARIABLES
    doc,        \* the stored document
    media,      \* medium -> the organization that owns it, or "gone"
    file,       \* an exported file, or None
    copy,       \* the imported document, or None
    changes

vars == <<doc, media, file, copy, changes>>

Default == "default"
Versions == {"1.0", "2.0", "3.0", "4.0"}
AllowedPermissions == {{}, {"Read"}, {"Read", "Edit"}}
Ids(subs) == {subs[i].uid : i \in 1..Len(subs)}
PathsIn(subs) == UNION {PathsOf(subs[i].tree) : i \in 1..Len(subs)}

can(policies, action, path) ==
    \E n \in 1..Len(path) :
        /\ SubSeq(path, 1, n) \in DOMAIN policies
        /\ \A m \in (n + 1)..Len(path) : SubSeq(path, 1, m) \notin DOMAIN policies
        /\ action \in policies[SubSeq(path, 1, n)]
ReadsOf(d, s) == {p \in PathsIn(d.submodels) : can(d.policies[s], "Read", p)}

\* New submodels may be edited by members and read by all.
DefaultPermissions(s) == IF s = "anonymous" THEN {"Read"} ELSE {"Read", "Edit"}

-----------------------------------------------------------------------------
(* The document *)

Init ==
    /\ doc = [submodels |-> <<>>, refs |-> <<>>, policies |-> [s \in Subjects |-> <<>>],
              thumbnails |-> {}, config |-> None]
    /\ media \in [Media -> Orgs]
    /\ file = None /\ copy = None /\ changes = 0

Change == file = None /\ changes < MaxChanges /\ changes' = changes + 1

AddSubmodel(id) ==
    LET uid == Len(doc.submodels) + 1
        new == [uid |-> uid, tree |-> Elem("Submodel", id, "", Nothing, <<>>)]
    IN  /\ Change
        /\ <<id>> \notin PathsIn(doc.submodels)
        /\ doc' = [doc EXCEPT !.submodels = Append(@, new), !.refs = Append(@, uid),
                              !.policies = [s \in Subjects |->
                                  (<<id>> :> DefaultPermissions(s)) @@ @[s]]]
        /\ UNCHANGED <<media, file, copy>>
AddElement(i, path, e) ==
    LET tree == doc.submodels[i].tree
    IN  /\ Change
        /\ parseSubmodelElement(e) /\ Takes(findSubmodelElement(tree, path), e)
        /\ doc' = [doc EXCEPT !.submodels[i].tree = addSubmodelElement(tree, path, e, 1)]
        /\ UNCHANGED <<media, file, copy>>
SetPolicy(s, path, permissions) ==
    /\ Change
    /\ doc' = [doc EXCEPT !.policies[s] = (path :> permissions) @@ @]
    /\ UNCHANGED <<media, file, copy>>
SetThumbnail(m) ==
    /\ Change
    /\ doc' = [doc EXCEPT !.thumbnails = @ \cup {m}] /\ UNCHANGED <<media, file, copy>>
SetDesign(design) ==
    /\ Change
    /\ doc' = [doc EXCEPT !.config = design] /\ UNCHANGED <<media, file, copy>>
\* A medium goes, also when the file is already on its way.
DeleteMedium(m) ==
    /\ changes < MaxChanges /\ changes' = changes + 1
    /\ media[m] # "gone" /\ copy = None
    /\ media' = [media EXCEPT ![m] = "gone"] /\ UNCHANGED <<doc, file, copy>>

-----------------------------------------------------------------------------
(* Export *)

\* Mutant: the shell refers to submodels that are not exported.
AllSubmodelReferences(refs, subs) == refs
filterSubmodelReferences(refs, subs) == SelectSeq(refs, LAMBDA r : r \in Ids(subs))

\* The configuration that holds, which is stored when there was none.
getEffective(d) == IF d.config = None THEN Default ELSE d.config

toExportPlain(d, s) ==
    LET plains == [i \in 1..Len(d.submodels) |->
                       [d.submodels[i] EXCEPT !.tree = JsonVisitor(@, <<@.id>>, ReadsOf(d, s))]]
        shown == SelectSeq(plains, LAMBDA p : p.tree # EmptyObject)
    IN  [version |-> "4.0", submodels |-> shown,
         refs |-> filterSubmodelReferences(d.refs, shown),
         policies |-> d.policies, thumbnails |-> d.thumbnails, config |-> getEffective(d),
         by |-> s, of |-> d]
aasExportSchemaJsonLatest(plain) ==
    \A i \in 1..Len(plain.submodels) : SubmodelJsonSchema(plain.submodels[i].tree)

Export(s) ==
    LET plain == toExportPlain(doc, s)
    IN  /\ file = None /\ aasExportSchemaJsonLatest(plain)
        /\ file' = plain
        /\ doc' = [doc EXCEPT !.config = getEffective(doc)]
        /\ UNCHANGED <<media, copy, changes>>

\* A former server exported all of it, with its links as references.
FormerExport(version) ==
    /\ file = None
    /\ file' = [version |-> version,
                submodels |-> [i \in 1..Len(doc.submodels) |->
                    [doc.submodels[i] EXCEPT !.tree = reverseMigrateSubmodelLinks(@)]],
                refs |-> doc.refs,
                policies |-> IF version = "1.0" THEN None ELSE doc.policies,
                thumbnails |-> doc.thumbnails,
                config |-> IF version = "3.0" THEN doc.config ELSE None,
                by |-> None, of |-> doc]
    /\ UNCHANGED <<doc, media, copy, changes>>

\* Somebody takes a submodel out of the file and forgets its references.
EditFile(i) ==
    /\ file # None /\ copy = None /\ i \in 1..Len(file.submodels) /\ file.by # "hand"
    /\ file' = [file EXCEPT !.submodels = RemoveAt(@, i), !.by = "hand"]
    /\ UNCHANGED <<doc, media, copy, changes>>

-----------------------------------------------------------------------------
(* Import *)

mapSubmodelElements(tree, version) ==
    IF version \in {"1.0", "2.0", "3.0"} THEN migrateSubmodelLinks(tree) ELSE tree

\* New ids do not exist yet.
NewId(uid) == MaxChanges + uid
mapSubmodels(subs, version) ==
    [i \in 1..Len(subs) |->
        [uid |-> NewId(subs[i].uid), tree |-> mapSubmodelElements(subs[i].tree, version)]]

defaultPolicies(subs) ==
    [s \in Subjects |-> [p \in {<<subs[i].tree.id>> : i \in 1..Len(subs)} |->
                             DefaultPermissions(s)]]
mapSecurity(plain, subs) ==
    IF plain.version = "1.0" THEN defaultPolicies(subs) ELSE plain.policies

mapSubmodelReferences(refs, subs) ==
    LET known == SelectSeq(refs, LAMBDA r : r \in Ids(subs))
    IN  [i \in 1..Len(known) |-> NewId(known[i])]

foreignMedia(org) == {m \in Media : media[m] # org}

RECURSIVE withNullifiedForeignFileValues(_, _)
withNullifiedForeignFileValues(tree, foreign) ==
    CASE tree.kind = "File" ->
             IF tree.val.keys # <<>> /\ tree.val.keys[1] \in foreign
             THEN [tree EXCEPT !.val.keys = <<>>] ELSE tree
      [] tree.kind \in {"Entity", "AnnotatedRelationshipElement"} -> tree
      [] OTHER -> [tree EXCEPT !.children =
                       [i \in 1..Len(@) |-> withNullifiedForeignFileValues(@[i], foreign)]]
nullifyForeignMedia(subs, org) ==
    [i \in 1..Len(subs) |->
        [subs[i] EXCEPT !.tree = withNullifiedForeignFileValues(@, foreignMedia(org))]]

Parses(subs) == \A i \in 1..Len(subs) : SubmodelJsonSchema(subs[i].tree)

parseAndMapEnvironment(plain) ==
    LET subs == mapSubmodels(plain.submodels, plain.version)
    IN  [submodels |-> subs, refs |-> mapSubmodelReferences(plain.refs, plain.submodels),
         policies |-> mapSecurity(plain, subs), thumbnails |-> plain.thumbnails]

buildImportedPresentationConfiguration(plain) ==
    IF plain.version \in {"3.0", "4.0"} THEN plain.config ELSE None

Import(org) ==
    LET mapped == parseAndMapEnvironment(file)
    IN  /\ file # None /\ copy = None /\ Parses(mapped.submodels)
        /\ copy' = [org |-> org,
                    submodels |-> nullifyForeignMedia(mapped.submodels, org),
                    refs |-> mapped.refs, policies |-> mapped.policies,
                    thumbnails |-> mapped.thumbnails \ foreignMedia(org),
                    config |-> buildImportedPresentationConfiguration(file)]
        /\ UNCHANGED <<doc, media, file, changes>>

Next ==
    \/ \E id \in {"s", "t"} : AddSubmodel(id)
    \/ \E i \in 1..Len(doc.submodels) : \E path \in PathsOf(doc.submodels[i].tree) :
        \/ \E e \in NewElements : AddElement(i, path, e)
        \/ \E s \in Subjects, ps \in AllowedPermissions :
               ~InTable(doc.submodels[i].tree, path) /\ SetPolicy(s, path, ps)
    \/ \E m \in Media : SetThumbnail(m) \/ DeleteMedium(m)
    \/ \E design \in Designs : SetDesign(design)
    \/ \E s \in Subjects : Export(s)
    \/ \E version \in Versions \ {"4.0"} : FormerExport(version)
    \/ \E i \in 1..2 : EditFile(i)
    \/ \E org \in Orgs : Import(org)

Spec == Init /\ [][Next]_vars

-----------------------------------------------------------------------------
(* Properties *)

TypeOK ==
    /\ media \in [Media -> Orgs \cup {"gone"}] /\ changes \in 0..MaxChanges
    /\ file # None => file.version \in Versions
    /\ \A d \in {doc, copy} \ {None} :
        /\ \A i \in 1..Len(d.submodels) : SubmodelJsonSchema(d.submodels[i].tree)
        /\ d.config \in Designs \cup {Default, None}

DataOf(d) == UNION {DataIn(d.submodels[i].tree, <<d.submodels[i].tree.id>>) :
                        i \in 1..Len(d.submodels)}
Trees(d) == [i \in 1..Len(d.submodels) |-> d.submodels[i].tree]

\* A file holds the data that the subject may read, and nothing names a
\* submodel that is left out.
NothingHiddenLeaves ==
    file # None /\ file.by \in Subjects =>
        /\ DataOf(file) \subseteq ReadsOf(file.of, file.by)
        /\ ToSet(file.refs) = Ids(file.submodels)

\* An imported document shares no submodel with the one that was exported, and
\* its shell refers to all of its submodels and to nothing else.
ImportedReferencesResolve ==
    copy # None => /\ ToSet(copy.refs) = Ids(copy.submodels)
                   /\ Ids(copy.submodels) \cap Ids(doc.submodels) = {}

\* What was exported whole and comes back to an organization that has its media
\* is what it was: former versions have references for links to one place,
\* and leave policies and configuration behind.
Whole == file.by = None \/ (file.by \in Subjects /\ ReadsOf(file.of, file.by)
                                                   = PathsIn(file.of.submodels))
RoundTripIsWhole ==
    copy # None /\ Whole /\ (\A m \in Media : media[m] = copy.org) =>
        /\ IF file.version = "4.0" THEN Trees(copy) = Trees(file.of)
           ELSE \A i \in 1..Len(copy.submodels) :
                    Trees(copy)[i] = migrateSubmodelLinks(Trees(file.of)[i])
        /\ copy.thumbnails = file.of.thumbnails
        /\ file.version # "1.0" => copy.policies = file.of.policies
        /\ file.of.config # None /\ file.version \in {"3.0", "4.0"} =>
               copy.config = file.of.config

\* Nobody reads by way of an import what the policies of the original, if the
\* file has them, keep from him.
ImportWidensNothing ==
    copy # None /\ file.version # "1.0" =>
        \A s \in Subjects : DataOf(copy) \cap ReadsOf(copy, s) \subseteq ReadsOf(file.of, s)

\* The files that elements name, apart from what is below elements of some
\* kinds.
RECURSIVE FilesIn(_, _)
FilesIn(e, without) ==
    CASE e.kind \in without -> {}
      [] e.kind = "File" -> ToSet(e.val.keys)
      [] OTHER -> UNION {FilesIn(e.children[i], without) : i \in 1..Len(e.children)}
FilesOf(d, without) ==
    UNION {FilesIn(d.submodels[i].tree, without) : i \in 1..Len(d.submodels)}

\* Of the files of a document and its thumbnails, those of others are dropped
\* and no more; the statements of entities and annotations are not looked at.
NotLookedAt == {"Entity", "AnnotatedRelationshipElement"}
ImportedFilesAreOwn ==
    copy # None =>
        /\ FilesOf(copy, NotLookedAt) = {m \in FilesOf(file, NotLookedAt) : media[m] = copy.org}
        /\ copy.thumbnails = {m \in file.thumbnails : media[m] = copy.org}

\* What the code does not keep: that no file of others is left anywhere.
NoForeignFiles == copy # None => \A m \in FilesOf(copy, {}) : media[m] = copy.org

=============================================================================

