---------------------------- MODULE StoredVersions ----------------------------
(***************************************************************************)
(* A document in the database, whose parts former servers stored in former *)
(* versions of their schemas: the passport or template, its shell and its  *)
(* submodels.  Each part is migrated whenever it is read, and stored in    *)
(* the latest version when it is saved, which every operation does with    *)
(* the parts that it changes and with no others.                           *)
(***************************************************************************)
EXTENDS Naturals, FiniteSets, TLAPS

CONSTANTS Submodels, Media, Links

VARIABLES
    document,   \* version and status; version 1.0.0 knows no status
    shell,      \* version, thumbnails, security, and with it policies of its submodels
    submodels   \* of the submodels that there are: version, and link
vars == <<document, shell, submodels>>

\* The status of a document of version 1.0.0.
Unset == "none"
\* A policy that the owner has not touched since the submodel was added, or has.
Policies == {"default", "own"}
SingleThumbnails == {ms \in SUBSET Media : Cardinality(ms) <= 1}

\* Links were references, shells had one thumbnail and then no policies.
StoredDocuments ==
    {[version |-> "1.0.0", status |-> Unset]} \cup
    {[version |-> "1.1.0", status |-> s] : s \in {"Draft", "Published", "Archived"}}
StoredLinks ==
    {[version |-> "1.0.0", form |-> "reference", link |-> l] : l \in Links} \cup
    {[version |-> "1.1.0", form |-> "property", link |-> l] : l \in Links}
Shell(version, ms, security, p) ==
    [version |-> version, thumbnails |-> ms, security |-> security, policies |-> p]
StoredShells(subs) ==
    [version : {"1.0.0"}, thumbnails : SingleThumbnails,
     security : {"absent"}, policies : {<<>>}] \cup
    [version : {"1.1.0"}, thumbnails : SUBSET Media,
     security : {"absent"}, policies : {<<>>}] \cup
    [version : {"1.1.0", "1.2.0"}, thumbnails : SUBSET Media,
     security : {"present"}, policies : [subs -> Policies]]

Init ==
    /\ document \in StoredDocuments
    /\ \E subs \in SUBSET Submodels :
        submodels \in [subs -> StoredLinks] /\ shell \in StoredShells(subs)

-----------------------------------------------------------------------------
(* Reading: fromPlainWithMigration of each repository *)

migrateDocument1_0_0To1_1_0(d) == [version |-> "1.1.0", status |-> "Draft"]
ReadDocument(d) ==
    IF d.version = "1.0.0" THEN migrateDocument1_0_0To1_1_0(d) ELSE d

migrateSubmodel1_0_0To1_1_0(s) == [s EXCEPT !.version = "1.1.0", !.form = "property"]
ReadSubmodel(s) ==
    IF s.version = "1.0.0" THEN migrateSubmodel1_0_0To1_1_0(s) ELSE s

migrateShell1_0_0To1_1_0(a) == [a EXCEPT !.version = "1.1.0"]
migrateShell1_1_0To1_2_0(a) ==
    IF a.security = "present" THEN [a EXCEPT !.version = "1.2.0"]
    ELSE Shell(a.version, a.thumbnails, "present", [s \in DOMAIN submodels |-> "default"])
ReadShell(a) ==
    LET second == IF a.version = "1.0.0" THEN migrateShell1_0_0To1_1_0(a) ELSE a
    IN  IF second.version = "1.1.0" THEN migrateShell1_1_0To1_2_0(second) ELSE second

-----------------------------------------------------------------------------
(* Saving: in the latest version *)

\* f with value v for x.
With(f, x, v) == [y \in {x} \cup DOMAIN f |-> IF y = x THEN v ELSE f[y]]

SaveDocument(d) == document' = [d EXCEPT !.version = "1.1.0"]
SaveShell(a) == shell' = [a EXCEPT !.version = "1.2.0"]
SaveSubmodel(s, x) == submodels' = With(submodels, s, [x EXCEPT !.version = "1.1.0"])

ModifyStatus(from, to) ==
    /\ ReadDocument(document).status \in from
    /\ SaveDocument([ReadDocument(document) EXCEPT !.status = to])
    /\ UNCHANGED <<shell, submodels>>
ModifyShell(ms) ==
    /\ SaveShell([ReadShell(shell) EXCEPT !.thumbnails = ms])
    /\ UNCHANGED <<document, submodels>>
ModifyPolicy(s) ==
    /\ s \in DOMAIN submodels
    /\ SaveShell([ReadShell(shell) EXCEPT !.policies[s] = "own"])
    /\ UNCHANGED <<document, submodels>>
ModifySubmodel(s, l) ==
    /\ s \in DOMAIN submodels
    /\ SaveSubmodel(s, [ReadSubmodel(submodels[s]) EXCEPT !.link = l])
    /\ UNCHANGED <<document, shell>>
AddSubmodelToEnvironment(s, l) ==
    /\ s \notin DOMAIN submodels
    /\ SaveDocument(ReadDocument(document))
    /\ SaveSubmodel(s, [version |-> "1.1.0", form |-> "property", link |-> l])
    /\ SaveShell([ReadShell(shell) EXCEPT !.policies = With(@, s, "default")])
\* Mutant: the policies of a deleted submodel stay.
DeleteSubmodelOnly(s) ==
    /\ s \in DOMAIN submodels
    /\ SaveDocument(ReadDocument(document))
    /\ submodels' = [x \in DOMAIN submodels \ {s} |-> submodels[x]]
    /\ UNCHANGED shell
DeleteSubmodelFromEnvironment(s) ==
    /\ s \in DOMAIN submodels
    /\ SaveDocument(ReadDocument(document))
    /\ submodels' = [x \in DOMAIN submodels \ {s} |-> submodels[x]]
    /\ SaveShell([ReadShell(shell) EXCEPT !.policies =
                      [x \in DOMAIN submodels \ {s} |-> @[x]]])

Next ==
    \/ ModifyStatus({"Draft"}, "Published")
    \/ ModifyStatus({"Draft", "Published"}, "Archived")
    \/ \E ms \in SUBSET Media : ModifyShell(ms)
    \/ \E s \in Submodels :
        \/ ModifyPolicy(s) \/ DeleteSubmodelFromEnvironment(s)
        \/ \E l \in Links : ModifySubmodel(s, l) \/ AddSubmodelToEnvironment(s, l)

Spec == Init /\ [][Next]_vars

-----------------------------------------------------------------------------
(* Listing by status, which the database does on what is stored *)

\* Mutant: documents without a status are not found.
FilterStatusOnly(d, statuses) == d.status \in statuses
buildStatusFilter(d, statuses) ==
    d.status \in statuses \/ ("Draft" \in statuses /\ d.version = "1.0.0")

-----------------------------------------------------------------------------
(* Properties *)

TypeOK ==
    /\ document \in StoredDocuments
    /\ \A s \in DOMAIN submodels : submodels[s] \in StoredLinks
    /\ shell \in StoredShells(DOMAIN submodels)

\* A document is listed under the status that its reader sees, in whatever
\* version it is stored.
ListedByStatusRead ==
    \A statuses \in SUBSET {"Draft", "Published", "Archived"} :
        buildStatusFilter(document, statuses) <=> ReadDocument(document).status \in statuses

\* What the handlers read.
ReadStatus == ReadDocument(document).status
ReadThumbnails == ReadShell(shell).thumbnails
ReadPolicies == ReadShell(shell).policies
ReadLinks == [s \in DOMAIN submodels |-> ReadSubmodel(submodels[s]).link]

Readable == INSTANCE CurrentDocument WITH
    status <- ReadStatus, thumbnails <- ReadThumbnails,
    policies <- ReadPolicies, links <- ReadLinks

\* Whichever parts were saved and whichever are still stored in a former
\* version, the handlers work on one document that only changes as they ask.
ImplementsCurrent == Readable!Current

-----------------------------------------------------------------------------
(* ImplementsCurrent, for every set of submodels, media and links          *)

AnyStatus == {"Draft", "Published", "Archived"}

\* A document, a submodel or a shell as it is read: in the latest version.
LEMMA DocumentRead ==
    ASSUME NEW d \in StoredDocuments
    PROVE  /\ ReadDocument(d) \in StoredDocuments
           /\ ReadDocument(d).version = "1.1.0"
           /\ ReadDocument(d).status \in AnyStatus
BY DEF StoredDocuments, ReadDocument, migrateDocument1_0_0To1_1_0, AnyStatus, Unset

LEMMA SubmodelRead ==
    ASSUME NEW s \in StoredLinks
    PROVE  /\ ReadSubmodel(s) = [version |-> "1.1.0", form |-> "property", link |-> s.link]
           /\ s.link \in Links
<1>1. /\ s \in [version : {"1.0.0", "1.1.0"}, form : {"reference", "property"}, link : Links]
      /\ s.version = "1.1.0" => s.form = "property"
  BY DEF StoredLinks
<1>2. migrateSubmodel1_0_0To1_1_0(s)
        = [version |-> "1.1.0", form |-> "property", link |-> s.link]
  <2>1. [s EXCEPT !.version = "1.1.0"]
          = [version |-> "1.1.0", form |-> s.form, link |-> s.link]
    BY <1>1
  <2>2. [[version |-> "1.1.0", form |-> s.form, link |-> s.link] EXCEPT !.form = "property"]
          = [version |-> "1.1.0", form |-> "property", link |-> s.link]
    OBVIOUS
  <2> QED BY <2>1, <2>2 DEF migrateSubmodel1_0_0To1_1_0
<1> QED BY <1>1, <1>2 DEF ReadSubmodel

\* What the second migration makes of a shell.
LEMMA ShellMigrated ==
    ASSUME NEW ms, NEW p
    PROVE  /\ migrateShell1_1_0To1_2_0(Shell("1.1.0", ms, "present", p))
                = Shell("1.2.0", ms, "present", p)
           /\ migrateShell1_1_0To1_2_0(Shell("1.1.0", ms, "absent", p))
                = Shell("1.1.0", ms, "present", [s \in DOMAIN submodels |-> "default"])
BY DEF Shell, migrateShell1_1_0To1_2_0

\* A shell is read with the policies it has, or with those of its submodels.
LEMMA ShellRead ==
    ASSUME NEW a \in StoredShells(DOMAIN submodels)
    PROVE  /\ a.thumbnails \in SUBSET Media
           /\ \E v \in {"1.1.0", "1.2.0"}, p \in [DOMAIN submodels -> Policies] :
                 /\ ReadShell(a) = Shell(v, a.thumbnails, "present", p)
                 /\ a.security = "present" => p = a.policies
<1> DEFINE defaults == [s \in DOMAIN submodels |-> "default"]
<1>0. defaults \in [DOMAIN submodels -> Policies]
  BY DEF Policies
<1>1. CASE a \in [version : {"1.0.0", "1.1.0"}, thumbnails : SUBSET Media,
                  security : {"absent"}, policies : {<<>>}]
  <2> DEFINE b == Shell("1.1.0", a.thumbnails, "absent", a.policies)
  <2>1. a.version = "1.0.0" => migrateShell1_0_0To1_1_0(a) = b
    <3>1. [a EXCEPT !.version = "1.1.0"]
            = [version |-> "1.1.0", thumbnails |-> a.thumbnails,
               security |-> a.security, policies |-> a.policies]
      BY <1>1
    <3>2. a.security = "absent"
      BY <1>1
    <3> QED BY <3>1, <3>2 DEF migrateShell1_0_0To1_1_0, Shell
  <2>2. a.version = "1.1.0" => a = b
    BY <1>1 DEF Shell
  <2>3. b.version = "1.1.0"
    BY DEF Shell
  <2>4. migrateShell1_1_0To1_2_0(b) = Shell("1.1.0", a.thumbnails, "present", defaults)
    BY ShellMigrated
  <2> HIDE DEF b, defaults
  <2>5. ReadShell(a) = Shell("1.1.0", a.thumbnails, "present", defaults)
    BY <1>1, <2>1, <2>2, <2>3, <2>4 DEF ReadShell
  <2> QED BY <1>0, <1>1, <2>5
<1>2. CASE a \in [version : {"1.1.0", "1.2.0"}, thumbnails : SUBSET Media,
                  security : {"present"}, policies : [DOMAIN submodels -> Policies]]
  <2>1. a = Shell(a.version, a.thumbnails, "present", a.policies)
    BY <1>2 DEF Shell
  <2>2. a.version = "1.1.0" =>
          migrateShell1_1_0To1_2_0(a) = Shell("1.2.0", a.thumbnails, "present", a.policies)
    BY <2>1, ShellMigrated
  <2>3. ReadShell(a) = Shell("1.2.0", a.thumbnails, "present", a.policies)
    BY <1>2, <2>1, <2>2 DEF ReadShell
  <2> QED BY <1>2, <2>3
<1> QED BY <1>1, <1>2 DEF StoredShells, SingleThumbnails

\* A saved shell is of a stored form, and is read as it was saved.
LEMMA ShellSaved ==
    ASSUME NEW ms \in SUBSET Media, NEW subs, NEW p \in [subs -> Policies]
    PROVE  /\ Shell("1.2.0", ms, "present", p) \in StoredShells(subs)
           /\ ReadShell(Shell("1.2.0", ms, "present", p)) = Shell("1.2.0", ms, "present", p)
<1>1. Shell("1.2.0", ms, "present", p) \in StoredShells(subs)
  BY DEF StoredShells, Shell
<1>2. Shell("1.2.0", ms, "present", p).version = "1.2.0"
  BY DEF Shell
<1> QED BY <1>1, <1>2 DEF ReadShell

LEMMA DocumentSaved ==
    ASSUME NEW d \in AnyStatus
    PROVE  /\ [version |-> "1.1.0", status |-> d] \in StoredDocuments
           /\ ReadDocument([version |-> "1.1.0", status |-> d])
                = [version |-> "1.1.0", status |-> d]
BY DEF StoredDocuments, ReadDocument, AnyStatus

LEMMA SubmodelSaved ==
    ASSUME NEW l \in Links
    PROVE  /\ [version |-> "1.1.0", form |-> "property", link |-> l] \in StoredLinks
           /\ ReadSubmodel([version |-> "1.1.0", form |-> "property", link |-> l]).link = l
BY DEF StoredLinks, ReadSubmodel

-----------------------------------------------------------------------------
(* The steps *)

\* What is read, in its latest version.
LEMMA Reading ==
    ASSUME TypeOK
    PROVE  /\ ReadStatus \in AnyStatus
           /\ ReadDocument(document) = [version |-> "1.1.0", status |-> ReadStatus]
           /\ \E v \in {"1.1.0", "1.2.0"} :
                ReadShell(shell) = Shell(v, ReadThumbnails, "present", ReadPolicies)
           /\ ReadThumbnails \in SUBSET Media
           /\ ReadPolicies \in [DOMAIN submodels -> Policies]
           /\ ReadLinks \in [DOMAIN submodels -> Links]
<1>1. document \in StoredDocuments /\ shell \in StoredShells(DOMAIN submodels)
  BY DEF TypeOK
<1>2. /\ ReadDocument(document) \in StoredDocuments
      /\ ReadDocument(document).version = "1.1.0" /\ ReadStatus \in AnyStatus
  BY <1>1, DocumentRead DEF ReadStatus
<1>3. ReadDocument(document) = [version |-> "1.1.0", status |-> ReadStatus]
  BY <1>2 DEF StoredDocuments, ReadStatus
<1>4. PICK v \in {"1.1.0", "1.2.0"}, p \in [DOMAIN submodels -> Policies] :
        ReadShell(shell) = Shell(v, shell.thumbnails, "present", p)
  BY <1>1, ShellRead
<1>5. ReadThumbnails = shell.thumbnails /\ ReadPolicies = p
  BY <1>4 DEF ReadThumbnails, ReadPolicies, Shell
<1>6. shell.thumbnails \in SUBSET Media
  BY <1>1, ShellRead
<1>7. \A s \in DOMAIN submodels : ReadSubmodel(submodels[s]).link \in Links
  BY SubmodelRead DEF TypeOK
<1> QED BY <1>2, <1>3, <1>4, <1>5, <1>6, <1>7 DEF ReadLinks

\* The results of saving or keeping a part.
LEMMA SaveDocumentStep ==
    ASSUME NEW v, NEW st, NEW to \in AnyStatus,
           SaveDocument([version |-> v, status |-> to])
    PROVE  document' \in StoredDocuments /\ ReadStatus' = to
<1>1. document' = [version |-> "1.1.0", status |-> to]
  BY DEF SaveDocument
<1>2. ReadStatus' = to
  BY <1>1 DEF ReadStatus, ReadDocument
<1> QED BY <1>1, <1>2 DEF StoredDocuments, AnyStatus

LEMMA SaveShellStep ==
    ASSUME NEW v, NEW ms \in SUBSET Media, NEW p \in [DOMAIN submodels' -> Policies],
           SaveShell(Shell(v, ms, "present", p))
    PROVE  /\ shell' \in StoredShells(DOMAIN submodels')
           /\ ReadThumbnails' = ms /\ ReadPolicies' = p
<1>1. shell' = Shell("1.2.0", ms, "present", p)
  BY DEF SaveShell, Shell
<1>2. shell' \in StoredShells(DOMAIN submodels')
  BY <1>1 DEF Shell, StoredShells
<1>3. ReadShell(shell)' = Shell("1.2.0", ms, "present", p)
  BY <1>1 DEF ReadShell, Shell
<1> QED BY <1>2, <1>3 DEF ReadThumbnails, ReadPolicies, Shell

LEMMA KeepShellStep ==
    ASSUME UNCHANGED shell, DOMAIN submodels' = DOMAIN submodels
    PROVE  ReadThumbnails' = ReadThumbnails /\ ReadPolicies' = ReadPolicies
<1>1. ReadShell(shell)' = ReadShell(shell)
  BY DEF ReadShell, migrateShell1_0_0To1_1_0, migrateShell1_1_0To1_2_0
<1> QED BY <1>1 DEF ReadThumbnails, ReadPolicies

LEMMA KeepStep ==
    /\ UNCHANGED document => ReadStatus' = ReadStatus
    /\ UNCHANGED submodels => ReadLinks' = ReadLinks
BY DEF ReadStatus, ReadDocument, migrateDocument1_0_0To1_1_0, ReadLinks, ReadSubmodel,
       migrateSubmodel1_0_0To1_1_0

\* Submodel s is saved with link l, and is there then.
LEMMA SaveSubmodelStep ==
    ASSUME TypeOK, NEW s, NEW l \in Links, NEW v,
           SaveSubmodel(s, [version |-> v, form |-> "property", link |-> l])
    PROVE  /\ DOMAIN submodels' = {s} \cup DOMAIN submodels
           /\ \A x \in DOMAIN submodels' : submodels'[x] \in StoredLinks
           /\ ReadLinks' = Readable!With(ReadLinks, s, l)
<1> DEFINE saved == [version |-> "1.1.0", form |-> "property", link |-> l]
<1>1. submodels' = [x \in {s} \cup DOMAIN submodels |-> IF x = s THEN saved ELSE submodels[x]]
  BY DEF SaveSubmodel, With
<1>2. saved \in StoredLinks /\ ReadSubmodel(saved).link = l
  BY SubmodelSaved
<1> HIDE DEF saved
<1>3. DOMAIN submodels' = {s} \cup DOMAIN submodels
  BY <1>1
<1>4. \A x \in DOMAIN submodels' : submodels'[x] \in StoredLinks
  BY <1>1, <1>2 DEF TypeOK
<1>5. \A x \in {s} \cup DOMAIN submodels :
        ReadSubmodel(submodels'[x]).link
          = IF x = s THEN l ELSE ReadSubmodel(submodels[x]).link
  BY <1>1, <1>2
<1>6. ReadLinks' = [x \in {s} \cup DOMAIN submodels |-> ReadSubmodel(submodels'[x]).link]
  BY <1>3 DEF ReadLinks, ReadSubmodel, migrateSubmodel1_0_0To1_1_0
<1> QED BY <1>3, <1>4, <1>5, <1>6 DEF Readable!With, ReadLinks

\* Each handler's step keeps the stored forms and is a step of the document
\* that the handlers read.
LEMMA StatusStep ==
    ASSUME TypeOK, NEW from, NEW to \in AnyStatus, ModifyStatus(from, to)
    PROVE  /\ TypeOK'
           /\ ReadStatus \in from /\ ReadStatus' = to
           /\ UNCHANGED <<ReadThumbnails, ReadPolicies, ReadLinks>>
<1>1. ReadDocument(document) = [version |-> "1.1.0", status |-> ReadStatus]
  BY Reading
<1>2. [ReadDocument(document) EXCEPT !.status = to] = [version |-> "1.1.0", status |-> to]
  BY <1>1
<1>3. SaveDocument([version |-> "1.1.0", status |-> to])
  BY <1>2 DEF ModifyStatus
<1>4. document' \in StoredDocuments /\ ReadStatus' = to
  BY <1>3, SaveDocumentStep
<1>5. UNCHANGED <<shell, submodels>> /\ ReadStatus \in from
  BY DEF ModifyStatus, ReadStatus
<1>6. UNCHANGED <<ReadThumbnails, ReadPolicies, ReadLinks>>
  BY <1>5, KeepShellStep, KeepStep
<1> QED BY <1>4, <1>5, <1>6 DEF TypeOK

LEMMA ThumbnailsStep ==
    ASSUME TypeOK, NEW ms \in SUBSET Media, ModifyShell(ms)
    PROVE  TypeOK' /\ Readable!SetThumbnails(ms)
<1>1. PICK v : ReadShell(shell) = Shell(v, ReadThumbnails, "present", ReadPolicies)
  BY Reading
<1>2. [ReadShell(shell) EXCEPT !.thumbnails = ms] = Shell(v, ms, "present", ReadPolicies)
  BY <1>1 DEF Shell
<1>3. UNCHANGED <<document, submodels>>
  BY DEF ModifyShell
<1>4. SaveShell(Shell(v, ms, "present", ReadPolicies))
  BY <1>2 DEF ModifyShell
<1>5. ReadPolicies \in [DOMAIN submodels' -> Policies]
  BY <1>3, Reading
<1>6. /\ shell' \in StoredShells(DOMAIN submodels')
      /\ ReadThumbnails' = ms /\ ReadPolicies' = ReadPolicies
  BY <1>4, <1>5, SaveShellStep
<1>7. ReadStatus' = ReadStatus /\ ReadLinks' = ReadLinks
  BY <1>3, KeepStep
<1> QED BY <1>3, <1>6, <1>7 DEF TypeOK, Readable!SetThumbnails

LEMMA PolicyStep ==
    ASSUME TypeOK, NEW s, ModifyPolicy(s)
    PROVE  TypeOK' /\ Readable!SetPolicy(s)
<1> DEFINE changed == [ReadPolicies EXCEPT ![s] = "own"]
<1>1. PICK v : ReadShell(shell) = Shell(v, ReadThumbnails, "present", ReadPolicies)
  BY Reading
<1>2. [ReadShell(shell) EXCEPT !.policies[s] = "own"]
        = Shell(v, ReadThumbnails, "present", changed)
  <2>1. ReadShell(shell).policies = ReadPolicies
    BY DEF ReadPolicies
  <2>2. [ReadShell(shell) EXCEPT !.policies[s] = "own"]
          = [ReadShell(shell) EXCEPT !.policies = changed]
    BY <2>1
  <2> HIDE DEF changed
  <2>3. [ReadShell(shell) EXCEPT !.policies = changed]
          = Shell(v, ReadThumbnails, "present", changed)
    BY <1>1 DEF Shell
  <2> QED BY <2>2, <2>3
<1>3. UNCHANGED <<document, submodels>> /\ s \in DOMAIN submodels
  BY DEF ModifyPolicy
<1>4. SaveShell(Shell(v, ReadThumbnails, "present", changed))
  BY <1>2 DEF ModifyPolicy
<1>5. changed \in [DOMAIN submodels' -> Policies] /\ ReadThumbnails \in SUBSET Media
  BY <1>3, Reading DEF Policies
<1> HIDE DEF changed
<1>6. /\ shell' \in StoredShells(DOMAIN submodels')
      /\ ReadThumbnails' = ReadThumbnails /\ ReadPolicies' = changed
  BY <1>4, <1>5, SaveShellStep
<1>7. ReadStatus' = ReadStatus /\ ReadLinks' = ReadLinks
  BY <1>3, KeepStep
<1>8. s \in DOMAIN ReadLinks
  BY <1>3 DEF ReadLinks
<1> QED BY <1>3, <1>6, <1>7, <1>8 DEF TypeOK, Readable!SetPolicy, changed

LEMMA LinkStep ==
    ASSUME TypeOK, NEW s, NEW l \in Links, ModifySubmodel(s, l)
    PROVE  TypeOK' /\ Readable!SetLink(s, l)
<1>1. s \in DOMAIN submodels /\ UNCHANGED <<document, shell>>
  BY DEF ModifySubmodel
<1>2. submodels[s] \in StoredLinks
  BY <1>1 DEF TypeOK
<1>3. ReadSubmodel(submodels[s])
        = [version |-> "1.1.0", form |-> "property", link |-> submodels[s].link]
  BY <1>2, SubmodelRead
<1>4. [ReadSubmodel(submodels[s]) EXCEPT !.link = l]
        = [version |-> "1.1.0", form |-> "property", link |-> l]
  BY <1>3
<1>5. SaveSubmodel(s, [version |-> "1.1.0", form |-> "property", link |-> l])
  BY <1>4 DEF ModifySubmodel
<1>6. /\ DOMAIN submodels' = {s} \cup DOMAIN submodels
      /\ \A x \in DOMAIN submodels' : submodels'[x] \in StoredLinks
      /\ ReadLinks' = Readable!With(ReadLinks, s, l)
  BY <1>5, SaveSubmodelStep
<1>7. DOMAIN submodels' = DOMAIN submodels
  BY <1>1, <1>6
<1>8. s \in DOMAIN ReadLinks /\ ReadLinks' = [ReadLinks EXCEPT ![s] = l]
  BY <1>1, <1>6 DEF ReadLinks, Readable!With
<1>9. ReadStatus' = ReadStatus /\ ReadThumbnails' = ReadThumbnails
      /\ ReadPolicies' = ReadPolicies
  BY <1>1, <1>7, KeepStep, KeepShellStep
<1> QED BY <1>1, <1>6, <1>7, <1>8, <1>9 DEF TypeOK, Readable!SetLink

LEMMA SaveReadDocument ==
    ASSUME TypeOK, SaveDocument(ReadDocument(document))
    PROVE  document' \in StoredDocuments /\ ReadStatus' = ReadStatus
<1>1. /\ ReadDocument(document) = [version |-> "1.1.0", status |-> ReadStatus]
      /\ ReadStatus \in AnyStatus
  BY Reading
<1>2. SaveDocument([version |-> "1.1.0", status |-> ReadStatus])
  BY <1>1
<1> QED BY <1>1, <1>2, SaveDocumentStep

LEMMA AddStep ==
    ASSUME TypeOK, NEW s, NEW l \in Links, AddSubmodelToEnvironment(s, l)
    PROVE  TypeOK' /\ Readable!AddSubmodel(s, l)
<1> DEFINE more == With(ReadPolicies, s, "default")
<1>1. s \notin DOMAIN submodels /\ SaveDocument(ReadDocument(document))
  BY DEF AddSubmodelToEnvironment
<1>2. document' \in StoredDocuments /\ ReadStatus' = ReadStatus
  BY <1>1, SaveReadDocument
<1>3. SaveSubmodel(s, [version |-> "1.1.0", form |-> "property", link |-> l])
  BY DEF AddSubmodelToEnvironment
<1>4. /\ DOMAIN submodels' = {s} \cup DOMAIN submodels
      /\ \A x \in DOMAIN submodels' : submodels'[x] \in StoredLinks
      /\ ReadLinks' = Readable!With(ReadLinks, s, l)
  BY <1>3, SaveSubmodelStep
<1>5. PICK v : ReadShell(shell) = Shell(v, ReadThumbnails, "present", ReadPolicies)
  BY Reading
<1>6. SaveShell([ReadShell(shell) EXCEPT !.policies = With(@, s, "default")])
  BY DEF AddSubmodelToEnvironment
<1>7. ReadShell(shell).policies = ReadPolicies
  BY <1>5 DEF ReadPolicies
<1>8. [ReadShell(shell) EXCEPT !.policies = With(@, s, "default")]
        = Shell(v, ReadThumbnails, "present", more)
  <2> HIDE DEF more
  <2>1. [ReadShell(shell) EXCEPT !.policies = more]
          = Shell(v, ReadThumbnails, "present", more)
    BY <1>5 DEF Shell
  <2>2. [ReadShell(shell) EXCEPT !.policies = With(@, s, "default")]
          = [ReadShell(shell) EXCEPT !.policies = more]
    BY <1>7 DEF more
  <2> QED BY <2>1, <2>2
<1>9. more \in [DOMAIN submodels' -> Policies] /\ ReadThumbnails \in SUBSET Media
  BY <1>4, Reading DEF With, Policies
<1>10. more = Readable!With(ReadPolicies, s, "default")
  BY DEF With, Readable!With
<1> HIDE DEF more
<1>11. /\ shell' \in StoredShells(DOMAIN submodels')
       /\ ReadThumbnails' = ReadThumbnails /\ ReadPolicies' = more
  BY <1>6, <1>8, <1>9, SaveShellStep
<1>12. s \notin DOMAIN ReadLinks
  BY <1>1 DEF ReadLinks
<1> QED BY <1>2, <1>4, <1>10, <1>11, <1>12 DEF TypeOK, Readable!AddSubmodel

LEMMA DeleteStep ==
    ASSUME TypeOK, NEW s, DeleteSubmodelFromEnvironment(s)
    PROVE  TypeOK' /\ Readable!DeleteSubmodel(s)
<1> DEFINE fewer == [x \in DOMAIN submodels \ {s} |-> ReadPolicies[x]]
<1>1. s \in DOMAIN submodels /\ SaveDocument(ReadDocument(document))
  BY DEF DeleteSubmodelFromEnvironment
<1>2. document' \in StoredDocuments /\ ReadStatus' = ReadStatus
  BY <1>1, SaveReadDocument
<1>3. submodels' = [x \in DOMAIN submodels \ {s} |-> submodels[x]]
  BY DEF DeleteSubmodelFromEnvironment
<1>4. /\ DOMAIN submodels' = DOMAIN submodels \ {s}
      /\ \A x \in DOMAIN submodels' : submodels'[x] \in StoredLinks
  BY <1>3 DEF TypeOK
<1>5. ReadLinks' = [x \in DOMAIN ReadLinks \ {s} |-> ReadLinks[x]]
  <2>1. ReadLinks' = [x \in DOMAIN submodels \ {s} |-> ReadSubmodel(submodels'[x]).link]
    BY <1>4 DEF ReadLinks, ReadSubmodel, migrateSubmodel1_0_0To1_1_0
  <2>2. \A x \in DOMAIN submodels \ {s} : submodels'[x] = submodels[x]
    BY <1>3
  <2> QED BY <2>1, <2>2 DEF ReadLinks
<1>6. PICK v : ReadShell(shell) = Shell(v, ReadThumbnails, "present", ReadPolicies)
  BY Reading
<1>7. ReadShell(shell).policies = ReadPolicies
  BY DEF ReadPolicies
<1>8. SaveShell([ReadShell(shell) EXCEPT !.policies =
                    [x \in DOMAIN submodels \ {s} |-> @[x]]])
  BY DEF DeleteSubmodelFromEnvironment
<1>9. [ReadShell(shell) EXCEPT !.policies = [x \in DOMAIN submodels \ {s} |-> @[x]]]
        = Shell(v, ReadThumbnails, "present", fewer)
  <2> HIDE DEF fewer
  <2>1. [ReadShell(shell) EXCEPT !.policies = fewer]
          = Shell(v, ReadThumbnails, "present", fewer)
    BY <1>6 DEF Shell
  <2>2. [ReadShell(shell) EXCEPT !.policies = [x \in DOMAIN submodels \ {s} |-> @[x]]]
          = [ReadShell(shell) EXCEPT !.policies = fewer]
    BY <1>7 DEF fewer
  <2> QED BY <2>1, <2>2
<1>10. fewer \in [DOMAIN submodels' -> Policies] /\ ReadThumbnails \in SUBSET Media
  BY <1>4, Reading
<1>11. fewer = [x \in DOMAIN ReadPolicies \ {s} |-> ReadPolicies[x]]
  BY Reading
<1>12. s \in DOMAIN ReadLinks
  BY <1>1 DEF ReadLinks
<1> HIDE DEF fewer
<1>13. /\ shell' \in StoredShells(DOMAIN submodels')
       /\ ReadThumbnails' = ReadThumbnails /\ ReadPolicies' = fewer
  <2>1. SaveShell(Shell(v, ReadThumbnails, "present", fewer))
    BY <1>8, <1>9
  <2> QED BY <2>1, <1>10, SaveShellStep
<1> QED BY <1>2, <1>4, <1>5, <1>11, <1>12, <1>13 DEF TypeOK, Readable!DeleteSubmodel

LEMMA CurrentInit ==
    ASSUME Init
    PROVE  TypeOK /\ Readable!AnyDocument
<1>1. PICK subs \in SUBSET Submodels :
        submodels \in [subs -> StoredLinks] /\ shell \in StoredShells(subs)
  BY DEF Init
<1>2. TypeOK
  BY <1>1 DEF Init, TypeOK
<1>3. DOMAIN submodels = subs
  BY <1>1
<1>4. /\ ReadStatus \in AnyStatus /\ ReadThumbnails \in SUBSET Media
      /\ ReadPolicies \in [subs -> Policies] /\ ReadLinks \in [subs -> Links]
  BY <1>2, <1>3, Reading
<1> QED BY <1>2, <1>4 DEF Readable!AnyDocument, AnyStatus, Policies, Readable!Policies

LEMMA CurrentStep ==
    ASSUME TypeOK, [Next]_vars
    PROVE  TypeOK' /\ [Readable!ChangeAny]_(Readable!currentVars)
<1>1. CASE ModifyStatus({"Draft"}, "Published")
  <2>1. TypeOK' /\ Readable!Publish
    BY <1>1, StatusStep DEF AnyStatus, Readable!Publish
  <2> QED BY <2>1 DEF Readable!ChangeAny
<1>2. CASE ModifyStatus({"Draft", "Published"}, "Archived")
  <2>1. TypeOK' /\ Readable!Archive
    BY <1>2, StatusStep DEF AnyStatus, Readable!Archive
  <2> QED BY <2>1 DEF Readable!ChangeAny
<1>3. ASSUME NEW ms \in SUBSET Media, ModifyShell(ms)
      PROVE  TypeOK' /\ Readable!ChangeAny
  BY <1>3, ThumbnailsStep DEF Readable!ChangeAny
<1>4. ASSUME NEW s \in Submodels, ModifyPolicy(s)
      PROVE  TypeOK' /\ Readable!ChangeAny
  BY <1>4, PolicyStep DEF Readable!ChangeAny
<1>5. ASSUME NEW s \in Submodels, DeleteSubmodelFromEnvironment(s)
      PROVE  TypeOK' /\ Readable!ChangeAny
  BY <1>5, DeleteStep DEF Readable!ChangeAny
<1>6. ASSUME NEW s \in Submodels, NEW l \in Links, ModifySubmodel(s, l)
      PROVE  TypeOK' /\ Readable!ChangeAny
  BY <1>6, LinkStep DEF Readable!ChangeAny
<1>7. ASSUME NEW s \in Submodels, NEW l \in Links, AddSubmodelToEnvironment(s, l)
      PROVE  TypeOK' /\ Readable!ChangeAny
  BY <1>7, AddStep DEF Readable!ChangeAny
<1>8. CASE UNCHANGED vars
  <2>1. UNCHANGED <<ReadStatus, ReadLinks, ReadThumbnails, ReadPolicies>>
    BY <1>8, KeepStep, KeepShellStep DEF vars
  <2>2. TypeOK'
    BY <1>8 DEF vars, TypeOK
  <2> QED BY <2>1, <2>2 DEF Readable!currentVars
<1> QED BY <1>1, <1>2, <1>3, <1>4, <1>5, <1>6, <1>7, <1>8 DEF Next

\* The stored forms stay what they are, whichever parts are saved.
THEOREM TypeCorrect == Spec => []TypeOK
<1>1. Init => TypeOK
  BY CurrentInit
<1>2. TypeOK /\ [Next]_vars => TypeOK'
  BY CurrentStep
<1> QED BY <1>1, <1>2, PTL DEF Spec

\* Whichever versions the parts of a document are stored in, the handlers work
\* on one document that changes only as they ask (fromPlainWithMigration and
\* save of the repositories).
THEOREM VersionsAreInvisible == Spec => ImplementsCurrent
<1>1. Init => Readable!AnyDocument
  BY CurrentInit
<1>2. TypeOK /\ [Next]_vars => [Readable!ChangeAny]_(Readable!currentVars)
  BY CurrentStep
<1> QED BY <1>1, <1>2, TypeCorrect, PTL DEF Spec, ImplementsCurrent, Readable!Current

\* A list finds a document by the status that its reader sees, in whatever
\* version it is stored (buildStatusFilter).
THEOREM ListedAsRead == Spec => []ListedByStatusRead
<1>1. TypeOK => ListedByStatusRead
  BY DEF TypeOK, StoredDocuments, Unset, ListedByStatusRead, buildStatusFilter,
         ReadDocument, migrateDocument1_0_0To1_1_0
<1> QED BY <1>1, TypeCorrect, PTL

=============================================================================
