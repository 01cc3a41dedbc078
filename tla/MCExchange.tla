------------------------------ MODULE MCExchange ------------------------------
(***************************************************************************)
(* Submodels in exchange with clients, for TLC: one that is read in both   *)
(* versions of the API while its owner changes it, one whose values are    *)
(* written back, and documents that are exported and imported.  A          *)
(* behaviour is of one part.                                               *)
(***************************************************************************)
EXTENDS SubmodelElements

CONSTANT None

VARIABLES part, tree, policies, answer, changes, doc, media, file, copy, transfers

exchangeVars == <<tree, policies, answer, changes>>
interchangeVars == <<doc, media, file, copy, transfers>>

-----------------------------------------------------------------------------
(* The elements that owners add *)

Data(kind, id, type, val) == Elem(kind, id, type, val, <<>>)
Link == Data("Property", "p", "AnyUri", Text("url"))
UrlText == Data("Property", "q", "String", Text("url"))
Number == Data("Property", "p", "Double", Null)
Texts == Data("MultiLanguageProperty", "m", "", Val("texts", <<"a">>))
Medium == Data("File", "f", "", Val("file", <<"m">>))
Interval == Data("Range", "q", "", Val("range", <<"1", "2">>))
Pair == Data("RelationshipElement", "q", "", Val("pair", <<"a", "b">>))
NoKeys == Data("ReferenceElement", "r", "", ExternalReference(<<"">>))
Model == Data("ReferenceElement", "n", "", ModelReference(<<"a">>))
NoReference == Data("ReferenceElement", "r", "", Null)

Many(items) == Elem("SubmodelElementCollection", "c", "", Nothing, items)
ListOf(type, items) == Elem("SubmodelElementList", "l", type, Nothing, items)
Collection(id, items) == Elem("SubmodelElementCollection", id, "", Nothing, items)
Table == ListOf("SubmodelElementCollection",
                <<Collection("x", <<>>), Collection("z", <<Link, Texts>>)>>)
Files == ListOf("File", <<Data("File", "x", "", Val("file", <<"1">>)),
                          Data("File", "y", "", Val("file", <<"2">>))>>)
EntityOf(items) == Elem("Entity", "e", "", Val("entity", <<"a">>), items)
Annotated(items) ==
    Elem("AnnotatedRelationshipElement", "a", "", Val("pair", <<"a", "b">>), items)

Reading == INSTANCE ElementExchange WITH
    NewElements <- {Table, Many(<<Pair, Interval>>), EntityOf(<<Medium>>),
                    Annotated(<<Texts>>)},
    Versions <- {"v1", "v2"}, MaxChanges <- 3, ClientKeeps <- FALSE
WritingBack == INSTANCE ElementExchange WITH
    NewElements <- {Table, Files, Many(<<Number, NoReference, Model, UrlText>>)},
    Versions <- {"v1", "v2"}, MaxChanges <- 3, ClientKeeps <- TRUE
Transfer == INSTANCE Interchange WITH
    changes <- transfers,
    NewElements <- {Medium, NoKeys, ListOf("Property", <<Link>>), Many(<<Link, Medium>>),
                    EntityOf(<<Medium>>)},
    Orgs <- {"home", "other"}, Home <- "home", Media <- {"m"},
    Subjects <- {"member", "anonymous"}, Designs <- {"design"}, MaxChanges <- 4

ASSUME ExchangeAssumptions ==
    /\ Reading!ExchangeAssumption /\ WritingBack!ExchangeAssumption
    /\ Transfer!InterchangeAssumption

-----------------------------------------------------------------------------
\* A part that is not the behaviour's starts in one state; who writes back may
\* edit the submodel at the start.
PartInit ==
    /\ part \in {"reading", "writing back", "transfer"}
    /\ Reading!Init
    /\ part # "reading" => policies[<<"s">>] = {"Read", "Edit"}
    /\ Transfer!Init
    /\ part # "transfer" => media["m"] = "home"

PartNext ==
    \/ /\ \/ part = "reading" /\ Reading!Next
          \/ part = "writing back" /\ WritingBack!Next
       /\ UNCHANGED <<part, interchangeVars>>
    \/ part = "transfer" /\ Transfer!Next /\ UNCHANGED <<part, exchangeVars>>

PartSpec == PartInit /\ [][PartNext]_<<part, exchangeVars, interchangeVars>>

-----------------------------------------------------------------------------
(* Properties *)

\* Whoever is answered is shown no data that it may not read, as JSON and as
\* values, and all that it may read but, as JSON, what is below an entity or a
\* relationship it may not read, and, as values, annotations.  A submodel is
\* refused only to who may read nothing else of it, and JSON fails only where
\* an entity or a relationship that may be read has a child that is not shown
\* (JsonVisitor, ValueVisitor).
ReadersSeeTheirs ==
    part = "reading" =>
        /\ Reading!TypeOK /\ Reading!ShownIsReadable
        /\ Reading!ReadableIsShown /\ Reading!RefusedIsUnreadable
        /\ Reading!FailedHasHiddenChild

\* Version 1 shows what version 2 shows of submodels without stored reference
\* elements, a copy of a submodel is complete, and a document that was exported
\* whole comes back as it was to an organization that has its media
\* (migrate-links.ts, SubmodelElementCopyVisitor, the export schemas).
CopiesAgree ==
    /\ part = "reading" => Reading!VersionsAgree /\ Reading!CopiesAreComplete
    /\ part = "transfer" => Transfer!RoundTripIsWhole

\* Putting values back that were read changes nothing, and whatever happened in
\* between it changes only what the client may edit then (ValueModifierVisitor).
WriteBackIsHarmless ==
    [][part = "writing back" => WritingBack!WritesBack /\ WritingBack!WritesEdited]_tree

\* A file holds what the subject may read, an imported document is one of its
\* own, and nobody may read there what the policies of the original keep from
\* them (aas-export-for-import mappers).  Its thumbnails and files are those of
\* its organization, apart from the files in statements of entities and in
\* annotations, which come as they are (withNullifiedForeignFileValues).
TransfersKeepSecrets ==
    part = "transfer" =>
        /\ Transfer!TypeOK /\ Transfer!NothingHiddenLeaves
        /\ Transfer!ImportedReferencesResolve /\ Transfer!ImportWidensNothing
        /\ Transfer!ImportedFilesAreOwn

=============================================================================
