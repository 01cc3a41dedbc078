---------------------------- MODULE DocumentDomain ----------------------------
(***************************************************************************)
(* The domain objects behind one digital product document, as values, and  *)
(* the changes their methods make: the item (a passport) with its status   *)
(* and environment, the asset administration shell (aas) with submodel     *)
(* references and policies, submodels with their elements, and the         *)
(* presentation configuration with its element design.                     *)
(***************************************************************************)
EXTENDS Naturals, Sequences, StatusMachine

CONSTANTS
    Submodels,          \* submodel ids; the idShort of a submodel is its id
    Elements,           \* idShorts of submodel elements
    Operations,         \* the operations clients ask for
    InitialStatuses,    \* bound: the statuses behaviours start in
    Absent              \* the value of a document that does not exist

OwnDocuments == {"item", "aas", "config", "permalink", "upi"}

Documents == OwnDocuments \cup Submodels

EditOperations ==
    {"addSubmodel", "deleteSubmodel", "addElement", "deleteElement",
     "modifyShell", "deletePolicy"}

AllOperations ==
    EditOperations \cup StatusOperations \cup {"patchConfig", "deletePassport"}

ASSUME DocumentsAssumption ==
    /\ Submodels \cap OwnDocuments = {}
    /\ Operations \subseteq AllOperations
    /\ InitialStatuses \subseteq Statuses

\* idShort paths: a submodel, or an element of a submodel.
SubmodelPaths == {<<s>> : s \in Submodels}
ElementPaths == {<<s, e>> : s \in Submodels, e \in Elements}
Paths == SubmodelPaths \cup ElementPaths

\* Equal to the other path or below it (IdShortPath.isChildOf).
IsUnder(path, parent) == path = parent \/ <<path[1]>> = parent

Items ==
    {item \in [status : Statuses, previous : Statuses \cup {"none"},
               env : SUBSET Submodels] :
       <<item.previous, item.status>> \in StatusChanges}
Shells ==
    [refs : SUBSET Submodels, policies : SUBSET Paths, version : Nat]
SubmodelDocuments ==
    [elements : SUBSET Elements, version : Nat]
Configs == SUBSET Paths
Permalinks == {"open", "frozen"}

\* null, which Mongoose answers for a missing document, is no document.
ASSUME AbsentAssumption ==
    /\ Absent \notin Items /\ Absent \notin Shells
    /\ Absent \notin SubmodelDocuments /\ \A config \in Configs : config # Absent
    /\ Absent \notin Permalinks \cup {"issued"}

\* The type of a store, that is of a function from Documents to their values.
StoreOK(store) ==
    /\ store = [d \in Documents |-> store[d]]
    /\ store["item"] \in Items \cup {Absent}
    /\ store["aas"] \in Shells \cup {Absent}
    /\ store["config"] \in Configs \cup {Absent}
    /\ store["permalink"] \in Permalinks \cup {Absent}
    /\ store["upi"] \in {"issued", Absent}
    /\ \A s \in Submodels : store[s] \in SubmodelDocuments \cup {Absent}

-----------------------------------------------------------------------------
(* The guards on the item                                                  *)

\* Mutant: archiveGuard is not called.
AdmittedWhenArchived(op, item) ==
    /\ item # Absent
    /\ op = "deletePassport" => item.status = "Draft"
    /\ op = "publish" => MayPublish(item)
    /\ op = "archive" => MayArchive(item)
    /\ op = "restore" => MayRestore(item)

\* The checks made on the item in the same turn as it is read: archiveGuard,
\* isDraft for a deletion, and those of the status machine.
Admitted(op, item) ==
    /\ item # Absent
    /\ op \in EditOperations => item.status # "Archived"
    /\ op = "deletePassport" => item.status = "Draft"
    /\ op = "publish" => MayPublish(item)
    /\ op = "archive" => MayArchive(item)
    /\ op = "restore" => MayRestore(item)

-----------------------------------------------------------------------------
(* Methods of the shell, the submodels and the configuration               *)

\* AasAbility.can for a member: the policy of the path or of its submodel.
Can(policies, path) == path \in policies \/ <<path[1]>> \in policies

\* Creating the activity stops the tracker, which increases the version.
IncreaseVersion(doc) == [doc EXCEPT !.version = @ + 1]

WithSubmodel(aas, s) ==
    [aas EXCEPT !.refs = @ \cup {s}, !.policies = @ \cup {<<s>>}]

WithoutPolicies(aas, path) ==
    [aas EXCEPT !.policies = {p \in @ : ~IsUnder(p, path)}]

\* Mutant: the policies of a deleted submodel stay.
WithoutReference(aas, s) == [aas EXCEPT !.refs = @ \ {s}]

WithoutSubmodel(aas, s) ==
    IF s \in aas.refs
    THEN WithoutPolicies([aas EXCEPT !.refs = @ \ {s}], <<s>>)
    ELSE aas

NewSubmodel == [elements |-> {}, version |-> 1]

WithElement(submodel, e) ==
    IncreaseVersion([submodel EXCEPT !.elements = @ \cup {e}])

WithoutElement(submodel, e) ==
    IncreaseVersion([submodel EXCEPT !.elements = @ \ {e}])

\* SubmodelSecurityContext.checkPolicyTarget: a policy whose target is not
\* found in the submodels is skipped.
NewPolicies(submodel, path) ==
    IF /\ submodel # Absent
       /\ Len(path) = 2 => path[2] \in submodel.elements
    THEN {path} ELSE {}

WithPolicies(aas, added) ==
    IncreaseVersion([aas EXCEPT !.policies = @ \cup added])

WithoutPolicy(aas, path) ==
    IncreaseVersion([aas EXCEPT !.policies = @ \ {path}])

WithoutDesign(config, path) == {p \in config : ~IsUnder(p, path)}

\* A patch sets the component of a path, or takes it back to the default.
Patches(config, path) == {config \cup {path}, config \ {path}}

-----------------------------------------------------------------------------
Arguments(op) ==
    CASE op \in {"addSubmodel", "deleteSubmodel"}         -> SubmodelPaths
      [] op \in {"addElement", "deleteElement"}           -> ElementPaths
      [] op \in {"modifyShell", "deletePolicy", "patchConfig"} -> Paths
      [] OTHER                                            -> {<<>>}

\* The states createPassport and a first publish or archive leave behind.
InitialItems ==
    {item \in Items :
       /\ item.status \in InitialStatuses
       /\ \/ item.status = "Draft" /\ item.previous = "none"
          \/ item.status = "Published" /\ item.previous = "Draft"
          \/ item.status = "Archived" /\ item.previous \in {"Draft", "Published"}}

InitialStore(item) ==
    LET live == {path \in Paths : path[1] \in item.env} IN
    [d \in Documents |->
       CASE d = "item"      -> item
         [] d = "aas"       -> [refs |-> item.env, policies |-> live, version |-> 0]
         [] d = "config"    -> live
         [] d = "permalink" -> IF "Published" \in {item.status, item.previous}
                               THEN "frozen" ELSE "open"
         [] d = "upi"       -> "issued"
         [] OTHER           -> IF d \in item.env
                               THEN [elements |-> Elements, version |-> 0]
                               ELSE Absent]

=============================================================================
