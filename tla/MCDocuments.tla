----------------------------- MODULE MCDocuments -----------------------------
(***************************************************************************)
(* Passports and templates as wholes, for TLC: what their write path       *)
(* promises (AtomicDocuments), their creation and deletion, documents      *)
(* stored by former servers, the endpoints with the history they write,    *)
(* and GS1 identities as they are typed.  A behaviour is of one part; the  *)
(* variables of the others stay as at the start.                           *)
(***************************************************************************)
EXTENDS AtomicDocuments, TLC

CONSTANTS
    TemplateIds, PassportIds,   \* documents that are created and deleted
    Requests,                   \* requests that do so, at the same time
    OwnMedia, OtherMedia, Designs,
    MaxSteps,                   \* bound: requests begun in all
    FormerSubmodels, FormerMedia, FormerLinks,
    MaxVersion,                 \* bound: edits of one document in a behaviour
    None

VARIABLES
    part,
    status, env, stored, files, configs, upis, request, broken, steps,
    former, formerShell, formerSubmodels,
    document, history, job, answer, asked, aborts,
    form

creationVars == <<status, env, stored, files, configs, upis, request, broken, steps>>
formerVars == <<former, formerShell, formerSubmodels>>
endpointVars == <<document, history, job, answer, asked, aborts>>
vars == <<part, db, creationVars, formerVars, endpointVars, form>>

-----------------------------------------------------------------------------
Creation == INSTANCE DocumentCreation WITH
    Templates <- TemplateIds, Passports <- PassportIds
Creating == part \in {"creation", "shared creation"}
\* One request at a time.
InTurn == \A r, s \in Requests :
    request[r] # Creation!Idle /\ request[s] # Creation!Idle => r = s

Former == INSTANCE StoredVersions WITH
    document <- former, shell <- formerShell, submodels <- formerSubmodels,
    Submodels <- FormerSubmodels, Media <- FormerMedia, Links <- FormerLinks

-----------------------------------------------------------------------------
(* The endpoints: a passport with a collection, a table of two rows, a     *)
(* column and a group, a template with an empty table, a reference and a   *)
(* text in several languages; an owner of the organization, a member of    *)
(* another one, a user of none.                                            *)

RowNames == {"r1", "r2", "r3"}
InMemory == INSTANCE SubmodelContent

MCUsers == {[id |-> "owner", org |-> "o1", role |-> "OWNER"],
            [id |-> "foreign", org |-> "o2", role |-> "OWNER"],
            [id |-> "guest", org |-> "o1", role |-> "none"]}

Row(r) == (<<r>> :> InMemory!Node("Collection", None))
          @@ (<<r, "a">> :> InMemory!Node("Property", "v0"))
          @@ (<<r, "h">> :> InMemory!Node("Collection", None))
          @@ (<<r, "h", "b">> :> InMemory!Node("File", "v0"))
Submodel == (<<>> :> InMemory!Node("Submodel", None))
            @@ (<<"g">> :> InMemory!Node("Collection", None))
            @@ (<<"g", "Property">> :> InMemory!Node("Property", "v0"))
            @@ (<<"t">> :> InMemory!Node("List", None))
            @@ InMemory!At(<<"t">>, Row("r1")) @@ InMemory!At(<<"t">>, Row("r2"))
Small == (<<>> :> InMemory!Node("Submodel", None))
         @@ (<<"t">> :> InMemory!Node("List", None))
         @@ (<<"e">> :> InMemory!Node("Reference", None))
         @@ (<<"m">> :> InMemory!Node("MultiLanguage", "v0"))

Start(kind, content, rows, policies, designs) ==
    [kind |-> kind, org |-> "o1", status |-> "Draft", previous |-> "none",
     content |-> content, rows |-> rows,
     policies |-> [p \in policies |-> "edit"], shell |-> [text |-> None, thumbnails |-> None],
     refs |-> {<<"s">>}, submodels |-> {<<"s">>}, designs |-> designs]
StartPassport ==
    Start("Passport", InMemory!At(<<"s">>, Submodel), <<"s", "t">> :> <<"r1", "r2">>,
          {<<"s">>, <<"s", "g">>, <<"s", "t">>},
          {<<"s", "g">>, <<"s", "t", "r2", "a">>, <<"s", "t", "r1", "h", "b">>})
StartTemplate ==
    Start("Template", InMemory!At(<<"s">>, Small), <<"s", "t">> :> <<>>,
          {<<"s">>, <<"s", "e">>}, {<<"s", "e">>})

Endpoints == INSTANCE DocumentEndpoints WITH
    requests <- asked, Users <- MCUsers, StartDocuments <- {StartPassport, StartTemplate},
    MaxRequests <- 2, MaxAborts <- 1, NewSubmodels <- {<<"n">>}, NewNames <- {"a", "b"},
    NewKinds <- {"Property", "List"}, NewGroups <- {"k"}, Texts <- {"x"},
    Values <- {"v0", "v1"}, Rights <- {"read", "edit"}

-----------------------------------------------------------------------------
(* GTINs of two and four digits, blanks, and what means something in links. *)

Identities == INSTANCE Gs1Identities WITH
    GtinLengths <- {2, 4}, GTIN14_LENGTH <- 4,
    GtinCharacters <-
        {"0", "1", "2", "3", "4", "5", "6", "7", "8", "9", " ", "a"},
    MaxLength <- 2, Characters <- {"a", "/", ".", " "}, Samples <- {<<"1", "7">>},
    AiValues <- {<<"1", "2">>, <<"3">>, <<"&">>, <<"/", "?">>}, MaxTyped <- 3,
    MaxAttributes <- 3

ASSUME DocumentAssumptions == Creation!CreationAssumption

-----------------------------------------------------------------------------
\* A part that is not the behaviour's starts in one state.
PartInit ==
    /\ part \in {"promise", "creation", "shared creation", "former", "endpoints", "identities"}
    /\ Init
    /\ part # "promise" =>
        db["item"] = [status |-> "Draft", previous |-> "none", env |-> {}]
    /\ Creation!Init
    /\ Former!Init
    /\ part # "former" => former.version = "1.0.0" /\ formerSubmodels = <<>>
                          /\ formerShell = Former!Shell("1.0.0", {}, "absent", <<>>)
    /\ Endpoints!Init
    /\ part # "endpoints" => document = StartPassport
    /\ Identities!Init

PartNext ==
    \/ part = "promise" /\ Next
       /\ UNCHANGED <<part, creationVars, formerVars, endpointVars, form>>
    \/ /\ \/ part = "creation" /\ Creation!Next /\ InTurn'
          \/ part = "shared creation" /\ Creation!Next
       /\ UNCHANGED <<part, db, formerVars, endpointVars, form>>
    \/ part = "former" /\ Former!Next
       /\ UNCHANGED <<part, db, creationVars, endpointVars, form>>
    \/ part = "endpoints" /\ Endpoints!Next
       /\ UNCHANGED <<part, db, creationVars, formerVars, form>>
    \/ part = "identities" /\ Identities!Next
       /\ UNCHANGED <<part, db, creationVars, formerVars, endpointVars>>

PartSpec == PartInit /\ [][PartNext]_vars

BoundedVersions ==
    \A d \in Submodels \cup {"aas"} : db[d] # Absent => db[d].version <= MaxVersion

-----------------------------------------------------------------------------
(* Properties *)

\* Whatever breaks off, a passport appears with its identifier, at least one
\* configuration, and each of these with its permalink (createPassport).
PassportsAppearComplete ==
    [][Creating => Creation!AppearsComplete]_vars

\* No deletion takes the shells and submodels of another document; of concept
\* descriptions it takes those only that the document deleted shared with it.
\* What is left over is of creations that broke off only, and with one request
\* at a time nothing is left of a deleted document and one configuration is
\* seeded at most (copyEnvironment, deleteEnvironment, deletePassport,
\* listOrSeed).
DocumentsAreSeparate ==
    /\ Creating =>
        /\ Creation!TypeOK /\ Creation!ShellsAndSubmodelsResolve
        /\ Creation!MissingWereShared /\ Creation!OrphansAreOfBrokenCreations
    /\ part = "creation" => Creation!NothingOfTheDeleted /\ Creation!SeededOnce

\* Whatever versions former servers stored the parts of a document in, the
\* handlers work on one document that changes only as they ask.
ImplementsCurrent ==
    /\ Former!Readable!AnyDocument
    /\ [][part = "former" =>
            \/ Former!Readable!ChangeAny
            \/ UNCHANGED Former!Readable!currentVars]_formerVars

\* The list finds a document by the status that it is read with, policies and
\* designs follow their elements, what a request is answered is stored, and a
\* mistyped GTIN is refused while a link leads back to what it was built for
\* (buildStatusFilter, movePolicies, gs1-digital-link.ts).
ReadAsStored ==
    /\ part = "identities" => Identities!IdentitiesAreRead
    /\ part = "former" => Former!TypeOK /\ Former!ListedByStatusRead
    /\ part = "endpoints" =>
        Endpoints!TypeOK /\ Endpoints!FollowersExist /\ Endpoints!AnswerIsStored

\* The history tells of every change of an element except new translations of
\* a multi-language property (visitMultiLanguageProperty tracks nothing), of
\* every change of a policy that was asked for, and nothing that did not
\* happen; documents change by requests of members only, archived ones not
\* at all.
HistoryTellsChanges ==
    [][part = "endpoints" =>
        /\ Endpoints!ChangesButTranslationsAreTold /\ Endpoints!ToldHappened
        /\ Endpoints!AskedPolicyChangesAreTold /\ Endpoints!ChangedByMembers
      ]_<<document, history>>

=============================================================================
