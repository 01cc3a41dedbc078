---------------------------- MODULE AtomicDocuments ----------------------------
(***************************************************************************)
(* What the write path of a digital product document promises: every       *)
(* operation that succeeds does all of its work in one step, on the        *)
(* documents as they are at that moment.  DigitalProductDocuments shows    *)
(* how far the handlers keep the promise.                                  *)
(***************************************************************************)
EXTENDS DocumentDomain

VARIABLE db             \* the documents: [Documents -> value or Absent]

Env == db["item"].env

AddSubmodel(s) ==
    /\ s \notin Env
    /\ db' = [db EXCEPT !["item"].env = @ \cup {s},
                        !["aas"] = IncreaseVersion(WithSubmodel(@, s)),
                        ![s] = NewSubmodel]

DeleteSubmodel(s) ==
    /\ s \in Env
    /\ Can(db["aas"].policies, <<s>>)
    /\ db' = [db EXCEPT !["item"].env = @ \ {s},
                        !["aas"] = WithoutSubmodel(@, s),
                        !["config"] = WithoutDesign(@, <<s>>),
                        ![s] = Absent]

AddElement(s, e) ==
    /\ s \in Env
    /\ Can(db["aas"].policies, <<s>>)
    /\ e \notin db[s].elements
    /\ db' = [db EXCEPT ![s] = WithElement(@, e)]

DeleteElement(s, e) ==
    /\ s \in Env
    /\ e \in db[s].elements
    /\ Can(db["aas"].policies, <<s, e>>)
    /\ db' = [db EXCEPT ![s] = WithoutElement(@, e),
                        !["aas"] = IncreaseVersion(WithoutPolicies(@, <<s, e>>)),
                        !["config"] = WithoutDesign(@, <<s, e>>)]

\* Sets the policy of a target that exists; other targets are skipped.
ModifyShell(path) ==
    LET target == IF path[1] \in Env THEN db[path[1]] ELSE Absent IN
    db' = [db EXCEPT !["aas"] = WithPolicies(@, NewPolicies(target, path))]

DeletePolicy(path) ==
    db' = [db EXCEPT !["aas"] = WithoutPolicy(@, path)]

PatchConfig(path) ==
    /\ Can(db["aas"].policies, path)
    /\ \E config \in Patches(db["config"], path) :
         db' = [db EXCEPT !["config"] = config]

ChangeStatus(op) ==
    db' = [db EXCEPT
             !["item"] = HandleStatusChange(op, @),
             !["permalink"] = IF op = "publish" /\ @ = "open" THEN "frozen" ELSE @]

DeletePassport == db' = [d \in Documents |-> Absent]

Perform(op, arg) ==
    /\ Admitted(op, db["item"])
    /\ \/ op = "addSubmodel"    /\ AddSubmodel(arg[1])
       \/ op = "deleteSubmodel" /\ DeleteSubmodel(arg[1])
       \/ op = "addElement"     /\ AddElement(arg[1], arg[2])
       \/ op = "deleteElement"  /\ DeleteElement(arg[1], arg[2])
       \/ op = "modifyShell"    /\ ModifyShell(arg)
       \/ op = "deletePolicy"   /\ DeletePolicy(arg)
       \/ op = "patchConfig"    /\ PatchConfig(arg)
       \/ op \in StatusOperations /\ ChangeStatus(op)
       \/ op = "deletePassport" /\ DeletePassport

Init == \E item \in InitialItems : db = InitialStore(item)

Next == \E op \in Operations : \E arg \in Arguments(op) : Perform(op, arg)

Spec == Init /\ [][Next]_db

-----------------------------------------------------------------------------
TypeOK == StoreOK(db)

\* What the environment really offers as policy targets.
LivePaths ==
    {path \in Paths :
       /\ db[path[1]] # Absent
       /\ Len(path) = 2 => path[2] \in db[path[1]].elements}

\* The documents of a passport fit together: its environment lists exactly the
\* submodels that exist and that the aas references; policies point at what
\* exists and design entries into it; without the item nothing of it is left.
EnvironmentConsistent ==
    IF db["item"] = Absent
    THEN \A d \in Documents : db[d] = Absent
    ELSE /\ db["aas"] # Absent /\ db["config"] # Absent
         /\ db["permalink"] # Absent /\ db["upi"] # Absent
         /\ Env = {s \in Submodels : db[s] # Absent}
         /\ db["aas"].refs = Env
         /\ db["aas"].policies \subseteq LivePaths
         /\ \A path \in db["config"] : path[1] \in Env

StatusOf(store) == IF store["item"] = Absent THEN "none" ELSE store["item"].status

\* Archiving loses nothing: while a document is archived none of its content
\* changes, and restoring it gives it the status it was archived with
\* (archiveGuard, restoreDpp).
Content(store) ==
    [env |-> IF store["item"] = Absent THEN {} ELSE store["item"].env,
     aas |-> store["aas"],
     submodels |-> [s \in Submodels |-> store[s]]]

ArchiveKeepsContent ==
    [][ StatusOf(db) = "Archived" =>
          /\ Content(db') = Content(db)
          /\ StatusOf(db') \in {"Archived", db["item"].previous} ]_db

\* Publication is never taken back: once the permalink is frozen it stays so
\* and the document cannot be deleted, whatever is archived and restored.
FrozenForEver ==
    [][ db["permalink"] = "frozen" => db'["permalink"] = "frozen" ]_db
=============================================================================
