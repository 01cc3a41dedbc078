-------------------------- MODULE DocumentEndpoints --------------------------
(***************************************************************************)
(* A passport or a template behind its endpoints, and what its history     *)
(* tells of what the requests did to it.                                   *)
(***************************************************************************)
EXTENDS DocumentRequests

Passports == INSTANCE PassportEndpoints
Templates == INSTANCE TemplateEndpoints

Next ==
    \/ Idle("Passport") /\ Passports!Endpoints
    \/ Idle("Template") /\ Templates!Endpoints
    \/ Transaction

Spec == Init /\ [][Next]_vars

-----------------------------------------------------------------------------

TypeOK ==
    /\ DOMAIN document.rows = Tables
    /\ document.submodels = {p \in Paths : Len(p) = 1}
    /\ \A t \in Tables : RowPaths(document, t) = Children(document, t)
    /\ requests \in 0..MaxRequests /\ aborts \in 0..MaxAborts
    /\ \A i \in 1..Len(history) : ~isNoop(history[i])

\* The changes that the step adds to the history.
NewActivities == (Len(history) + 1)..Len(history')
NewChanges == UNION {Range(history'[i].changes) : i \in NewActivities}

\* A change tells of an element when it is at its path or above it, or, in a
\* table, at the path that the header row has for the element's column; rows
\* that a change lies in are told of with it, when they are new.
SameCell(table, p, q) ==
    /\ IsPrefix(table, p) /\ IsPrefix(table, q)
    /\ Len(p) > Len(table) + 1 /\ Len(q) > Len(table) + 1
    /\ IsPrefix(SubSeq(q, Len(table) + 2, Len(q)), SubSeq(p, Len(table) + 2, Len(p)))
TellsOf(c, p) ==
    \/ IsPrefix(c.path, p)
    \/ \E t \in Tables : SameCell(t, p, c.path)
    \/ p \notin Paths /\ IsPrefix(p, c.path)

\* The history tells of every element that a request adds, removes or
\* changes, in the transaction that stores the change: the operations of a
\* submodel or a table report it, and the activity takes the report.  The
\* code does not keep this (EveryChangeIsTold is violated): see below.
Changed(p) ==
    \/ p \notin Paths \/ p \notin DOMAIN document'.content
    \/ document.content[p] # document'.content[p]
Told(p) == \E c \in NewChanges : c.path # None /\ TellsOf(c, p)
ChangesAreTold ==
    \A p \in Paths \cup DOMAIN document'.content : Changed(p) => Told(p)
EveryChangeIsTold == [][ChangesAreTold]_document

\* So much for the translations of a multi-language property: the visitor
\* that sets them reports nothing.  The history tells every other change.
OnlyTranslations(p) ==
    /\ p \in Paths \cap DOMAIN document'.content
    /\ document.content[p].kind = "MultiLanguage"
    /\ document'.content[p] = [document.content[p] EXCEPT !.val = document'.content[p].val]
ChangesButTranslationsAreTold ==
    \A p \in Paths \cup DOMAIN document'.content :
        Changed(p) /\ ~OnlyTranslations(p) => Told(p)

\* What the history tells of happened: a change of a value has the values
\* before and after, what is added was not there and is, what is deleted
\* was and is not.
ToldHappened ==
    \A c \in NewChanges :
        /\ c.type \in {"PropertyValueChanged", "FileValueChanged", "ReferenceElementValueChanged"} =>
               document.content[c.path].val = c.old /\ document'.content[c.path].val = c.new
        /\ c.type \in {"SubmodelElementAdded", "ColumnAddedToGroup", "RowAdded", "SubmodelAdded"} =>
               c.path \in DOMAIN document'.content \ Paths
        /\ c.type \in {"SubmodelElementDeleted", "ColumnDeletedFromGroup", "RowDeleted", "SubmodelDeleted"} =>
               c.path \in Paths \ DOMAIN document'.content
        /\ c.type = "PolicyAdded" => c.path \in DOMAIN document'.policies \ DOMAIN document.policies
        /\ c.type = "PolicyDeleted" => c.path \in DOMAIN document.policies \ DOMAIN document'.policies

\* Policies that a request changes are in the history with their paths.
PolicyChanged(p) ==
    \/ p \notin DOMAIN document.policies \/ p \notin DOMAIN document'.policies
    \/ document.policies[p] # document'.policies[p]
PolicyChangesAreTold ==
    \A p \in DOMAIN document.policies \cup DOMAIN document'.policies :
        PolicyChanged(p) =>
            \E c \in NewChanges :
                c.path = p /\ c.type \in {"PolicyAdded", "PolicyModified", "PolicyDeleted"}
EveryPolicyChangeIsTold == [][PolicyChangesAreTold]_document
\* The same for requests that are about policies, the shell or a submodel.
AskedPolicyChangesAreTold ==
    (job # None /\ job.work.deleteEvents = <<>> /\ job.work.moveEvents = <<>>) =>
        PolicyChangesAreTold

\* Policies and designs are those of elements that there are: deletions and
\* moves in tables take them along, once, however often the transaction of
\* the request is run.
FollowersExist ==
    DOMAIN document.policies \cup document.designs \subseteq Paths

\* What a request is answered with is what is stored.
AnswerIsStored ==
    (job = None /\ answer # None) =>
        /\ Exists(document, answer.path)
        /\ answer.element = Element(document, answer.path)

\* A document changes by requests of members of its organization only, its
\* content never while it is archived, and every activity is theirs.
Members == {u.id : u \in {x \in Users : x.org = document.org /\ x.role # "none"}}
ChangedByMembers ==
    /\ \A i \in NewActivities : history'[i].header.userId \in Members
    /\ document.status = "Archived" =>
         document' \in {document, [document EXCEPT !.status = document'.status,
                                                   !.previous = document'.previous]}

=============================================================================

