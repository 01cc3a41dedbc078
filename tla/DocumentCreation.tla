-------------------------- MODULE DocumentCreation ---------------------------
(***************************************************************************)
(* How passports and templates come into being and go: a passport from a   *)
(* template whose environment is copied, either of them blank or from an   *)
(* import, and the deletion of drafts.  A creation first stores the parts  *)
(* of its environment and then, in another transaction, the document with  *)
(* its identifier, presentation configurations and permalinks; the process *)
(* may crash in between.  A reader seeds a configuration where it finds    *)
(* none.  One part stands for all submodels, one for all concept           *)
(* descriptions of an environment.                                         *)
(***************************************************************************)
EXTENDS Naturals, Sequences, SequencesExt, FiniteSets

CONSTANTS
    Templates, Passports,   \* ids of documents
    Requests,               \* requests handled at the same time
    OwnMedia, OtherMedia,   \* media of the organization, and all others
    Designs,                \* what a presentation configuration says
    MaxSteps                \* bound: requests begun in all

Documents == Templates \cup Passports
Media == OwnMedia \cup OtherMedia
Places == {"value", "statement"}    \* in a collection, in an entity's statements
Default == "default"

CreationAssumption ==
    Templates \cap Passports = {} /\ OwnMedia \cap OtherMedia = {} /\ MaxSteps \in Nat

VARIABLES
    status,     \* the documents' status
    env,        \* the parts that a document's environment refers to
    stored,     \* the parts in the database
    files,      \* the media that its file elements refer to, and where
    configs,    \* its presentation configurations, the oldest first
    upis,       \* passports with a unique product identifier
    request,    \* what each request has read and done
    broken,     \* documents whose creation broke off
    steps       \* counter for the bound

vars == <<status, env, stored, files, configs, upis, request, broken, steps>>

-----------------------------------------------------------------------------
Part(kind, d) == [kind |-> kind, of |-> d]
Parts == {Part(kind, d) : kind \in {"shell", "submodel", "concept"}, d \in Documents}
Concepts(parts) == {p \in parts : p.kind = "concept"}
Own(parts) == parts \ Concepts(parts)

Config(design, seeded) == [design |-> design, seeded |-> seeded, permalink |-> FALSE]
Linked(cs) == [i \in DOMAIN cs |-> [cs[i] EXCEPT !.permalink = TRUE]]

Idle == [at |-> "idle"]
Archived == {"archived draft", "archived published"}
Statuses == {"absent", "draft", "published"} \cup Archived

TypeOK ==
    /\ status \in [Documents -> Statuses] /\ env \in [Documents -> SUBSET Parts]
    /\ stored \subseteq Parts /\ files \in [Documents -> SUBSET (Media \X Places)]
    /\ \A d \in Documents : \A i \in DOMAIN configs[d] :
        configs[d][i].design \in Designs \cup {Default}
    /\ upis \subseteq Passports /\ broken \subseteq Documents /\ steps \in 0..MaxSteps
    /\ \A r \in Requests : request[r].at \in {"idle", "copying", "saving", "deleting", "seeding"}

-----------------------------------------------------------------------------
(* Creation *)

Begin == steps < MaxSteps /\ steps' = steps + 1

\* Ids are random: one that was used is not used again.
Fresh(d) ==
    /\ status[d] = "absent" /\ d \notin broken /\ env[d] = {}
    /\ \A r \in Requests : request[r] # Idle => request[r].doc # d

Usable(t) == status[t] \notin {"absent"} \cup Archived

LoadTemplate(r, t, p) ==
    /\ Begin /\ request[r] = Idle /\ Usable(t) /\ Fresh(p)
    /\ request' = [request EXCEPT ![r] =
        [at |-> "copying", doc |-> p, from |-> t, env |-> env[t], files |-> files[t]]]
    /\ UNCHANGED <<status, env, stored, files, configs, upis, broken>>

Copy(parts, d) == Concepts(parts) \cup {Part(p.kind, d) : p \in Own(parts)}

\* Fails when a part is not there any more.
CopyEnvironment(r) ==
    LET q == request[r]
        copy == Copy(q.env, q.doc)
    IN  /\ q.at = "copying" /\ Own(q.env) \subseteq stored
        /\ stored' = stored \cup Own(copy)
        /\ request' = [request EXCEPT ![r].at = "saving", ![r].env = copy]
        /\ UNCHANGED <<status, env, files, configs, upis, broken, steps>>

CreateEnvironment(r, d) ==
    /\ Begin /\ request[r] = Idle /\ Fresh(d)
    /\ stored' = stored \cup {Part("shell", d)}
    /\ request' = [request EXCEPT ![r] =
        [at |-> "saving", doc |-> d, from |-> d, env |-> {Part("shell", d)}, files |-> {}]]
    /\ UNCHANGED <<status, env, files, configs, upis, broken>>

\* The configurations of the template as they are now.
SnapshotTemplateConfigs(from) ==
    [i \in DOMAIN configs[from] |-> Config(configs[from][i].design, FALSE)]
\* Mutant: the default is left out.
WithoutDefault(cs) == cs
WithDefault(cs) == IF cs = <<>> THEN <<Config(Default, FALSE)>> ELSE cs

Save(d, parts, media, cs) ==
    /\ status' = [status EXCEPT ![d] = "draft"]
    /\ env' = [env EXCEPT ![d] = parts]
    /\ files' = [files EXCEPT ![d] = media]
    /\ configs' = [configs EXCEPT ![d] = cs]
    /\ upis' = upis \cup ({d} \cap Passports)

SavePassport(r) ==
    LET q == request[r] IN
    /\ q.at = "saving" /\ q.doc \in Passports
    /\ Save(q.doc, q.env, q.files, Linked(WithDefault(SnapshotTemplateConfigs(q.from))))
    /\ request' = [request EXCEPT ![r] = Idle]
    /\ UNCHANGED <<stored, broken, steps>>

SaveTemplate(r) ==
    LET q == request[r] IN
    /\ q.at = "saving" /\ q.doc \in Templates
    /\ Save(q.doc, q.env, q.files, <<>>)
    /\ request' = [request EXCEPT ![r] = Idle]
    /\ UNCHANGED <<stored, broken, steps>>

\* A crash, or an error of the database: what was not committed is lost.
BreakOff(r) ==
    /\ request[r] # Idle
    /\ broken' = broken \cup IF request[r].at = "saving" THEN {request[r].doc} ELSE {}
    /\ request' = [request EXCEPT ![r] = Idle]
    /\ UNCHANGED <<status, env, stored, files, configs, upis, steps>>

-----------------------------------------------------------------------------
(* Import: all in one transaction *)

\* Files of others are dropped, but not in the statements of an entity.
WithNullifiedForeignFileValues(media) ==
    {f \in media : f[1] \in OwnMedia \/ f[2] = "statement"}

ImportedConfigs(d, cs) == IF d \in Passports THEN Linked(WithDefault(cs)) ELSE cs

ImportEntity(d, media, imported) ==
    LET parts == {Part(kind, d) : kind \in {"shell", "submodel", "concept"}}
        cs == [i \in DOMAIN imported |-> Config(imported[i], FALSE)]
    IN  /\ Begin /\ Fresh(d)
        /\ stored' = stored \cup parts
        /\ Save(d, parts, WithNullifiedForeignFileValues(media),
                ImportedConfigs(d, cs))
        /\ UNCHANGED <<request, broken>>

-----------------------------------------------------------------------------
(* Deletion, status, configurations *)

LoadForDeletion(r, d) ==
    /\ Begin /\ request[r] = Idle /\ status[d] = "draft"
    /\ request' = [request EXCEPT ![r] = [at |-> "deleting", doc |-> d, env |-> env[d]]]
    /\ UNCHANGED <<status, env, stored, files, configs, upis, broken>>

\* Mutant: the shells are left.
DeleteEnvironmentButShells(parts) == stored \ {p \in parts : p.kind # "shell"}
DeleteEnvironment(parts) == stored \ parts

DeleteConfigs(d) == [configs EXCEPT ![d] = <<>>]

DeleteDocument(r) ==
    LET q == request[r] IN
    /\ q.at = "deleting"
    /\ stored' = DeleteEnvironment(q.env)
    /\ status' = [status EXCEPT ![q.doc] = "absent"]
    /\ files' = [files EXCEPT ![q.doc] = {}]
    /\ configs' = DeleteConfigs(q.doc)
    /\ upis' = upis \ {q.doc}
    /\ request' = [request EXCEPT ![r] = Idle]
    /\ UNCHANGED <<env, broken, steps>>

ChangeStatus(d) ==
    /\ Begin
    /\ \E change \in {<<"draft", "published">>, <<"draft", "archived draft">>,
                     <<"published", "archived published">>,
                     <<"archived draft", "draft">>, <<"archived published", "published">>} :
        status[d] = change[1] /\ status' = [status EXCEPT ![d] = change[2]]
    /\ UNCHANGED <<env, stored, files, configs, upis, request, broken>>

CreateConfig(d, design) ==
    /\ Begin /\ status[d] # "absent"
    /\ configs' = [configs EXCEPT ![d] = Append(@, Config(design, FALSE))]
    /\ UNCHANGED <<status, env, stored, files, upis, request, broken>>

DeleteConfig(d, i) ==
    /\ Begin /\ status[d] # "absent" /\ i \in DOMAIN configs[d]
    /\ configs' = [configs EXCEPT ![d] = RemoveAt(@, i)]
    /\ UNCHANGED <<status, env, stored, files, upis, request, broken>>

ReadConfigs(r, d) ==
    /\ Begin /\ request[r] = Idle /\ status[d] # "absent" /\ configs[d] = <<>>
    /\ request' = [request EXCEPT ![r] = [at |-> "seeding", doc |-> d]]
    /\ UNCHANGED <<status, env, stored, files, configs, upis, broken>>

SeedConfig(r) ==
    /\ request[r].at = "seeding"
    /\ configs' = [configs EXCEPT ![request[r].doc] = Append(@, Config(Default, TRUE))]
    /\ request' = [request EXCEPT ![r] = Idle]
    /\ UNCHANGED <<status, env, stored, files, upis, broken, steps>>

-----------------------------------------------------------------------------
Init ==
    /\ status = [d \in Documents |-> "absent"] /\ env = [d \in Documents |-> {}]
    /\ stored = {} /\ files = [d \in Documents |-> {}]
    /\ configs = [d \in Documents |-> <<>>] /\ upis = {}
    /\ request = [r \in Requests |-> Idle] /\ broken = {} /\ steps = 0

Next ==
    \/ \E r \in Requests :
        \/ \E t \in Templates, p \in Passports : LoadTemplate(r, t, p)
        \/ \E d \in Documents :
            CreateEnvironment(r, d) \/ LoadForDeletion(r, d) \/ ReadConfigs(r, d)
        \/ CopyEnvironment(r) \/ SavePassport(r) \/ SaveTemplate(r)
        \/ BreakOff(r) \/ DeleteDocument(r) \/ SeedConfig(r)
    \/ \E d \in Documents :
        \/ ChangeStatus(d) \/ \E design \in Designs : CreateConfig(d, design)
        \/ \E i \in 1..MaxSteps : DeleteConfig(d, i)
        \/ \E f \in SUBSET (Media \X Places), imported \in {<<>>} \cup {<<x>> : x \in Designs} :
            ImportEntity(d, f, imported)

Spec == Init /\ [][Next]_vars

-----------------------------------------------------------------------------
(* Properties *)

Present == {d \in Documents : status[d] # "absent"}

\* Whatever breaks off, a passport appears with its identifier and at least one
\* configuration, and each of these with its permalink.
AppearsComplete ==
    \A p \in Passports : status[p] = "absent" /\ status'[p] # "absent" =>
        /\ p \in upis' /\ configs'[p] # <<>>
        /\ \A i \in DOMAIN configs'[p] : configs'[p][i].permalink
PassportsAppearComplete == [][AppearsComplete]_vars

\* No deletion takes the shells and submodels of another document.
ShellsAndSubmodelsResolve == \A d \in Present : Own(env[d]) \subseteq stored

\* What a document misses are concept descriptions only, each shared with a
\* document that was deleted: a copy refers to those of its original, and a
\* deletion takes all that its document refers to.
MissingWereShared ==
    \A d \in Present : \A p \in env[d] \ stored :
        p.kind = "concept" /\ \E e \in Documents \ Present : p \in env[e]

\* Shells and submodels without a document are those of a creation under way
\* or broken off between its transactions; a deletion leaves none.
OrphansAreOfBrokenCreations ==
    \A p \in Own(stored) :
        \/ p.of \in Present \cup broken
        \/ \E r \in Requests : request[r].at = "saving" /\ request[r].doc = p.of

\* One request at a time: a deletion leaves nothing that refers to the document.
NothingOfTheDeleted ==
    \A d \in Documents \ Present : configs[d] = <<>> /\ d \notin upis

\* What a test says: a configuration is seeded exactly once.
SeededOnce ==
    \A d \in Documents : Cardinality({i \in DOMAIN configs[d] : configs[d][i].seeded}) <= 1

\* What a comment says of a loaded environment: all its references resolve.
EnvironmentsResolve == \A d \in Present : env[d] \subseteq stored

\* What a test says of an import: file values of other owners are dropped.
ImportedFilesAreOwn == \A d \in Documents : \A f \in files[d] : f[1] \in OwnMedia

=============================================================================

