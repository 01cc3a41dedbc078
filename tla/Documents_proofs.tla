------------------------ MODULE Documents_proofs ------------------------
(***************************************************************************)
(* Documents as wholes, proved for all values of the constants. First what *)
(* AtomicDocuments promises: the documents of a passport stay well-formed  *)
(* and fit together, and a publication is never taken back. Then what      *)
(* MCDocuments states of documents that are created and deleted, and of    *)
(* those that former servers have stored: a behaviour of the run is one of *)
(* the specification of its part.                                          *)
(***************************************************************************)
EXTENDS MCDocuments, Sequences, FiniteSets, FiniteSetTheorems, SequenceTheorems, TLAPS

-----------------------------------------------------------------------------
(* The domain objects: every method takes well-formed values to such ones  *)

LEMMA InitialStoreOK ==
    ASSUME NEW item \in InitialItems
    PROVE  StoreOK(InitialStore(item))
<1> DEFINE st == InitialStore(item)
<1>1. st = [d \in Documents |-> st[d]]
  BY DEF InitialStore
<1>2. item \in Items
  BY DEF InitialItems
<1>3. /\ st["item"] = item /\ st["aas"] \in Shells /\ st["config"] \in Configs
      /\ st["permalink"] \in Permalinks /\ st["upi"] = "issued"
  BY <1>2 DEF InitialStore, OwnDocuments, Documents, Items, Shells, Configs, Permalinks, Paths
<1>4. ASSUME NEW s \in Submodels PROVE st[s] \in SubmodelDocuments \cup {Absent}
  BY DocumentsAssumption DEF InitialStore, OwnDocuments, Documents, SubmodelDocuments
<1> QED BY <1>1, <1>2, <1>3, <1>4 DEF StoreOK

LEMMA PathFacts ==
    /\ \A s \in Submodels : <<s>> \in Paths
    /\ \A path \in Paths : path[1] \in Submodels
    /\ \A path \in ElementPaths : path \in Paths /\ path[1] \in Submodels /\ path[2] \in Elements
    /\ \A path \in Paths : Len(path) = 2 => path[2] \in Elements /\ path = <<path[1], path[2]>>
    /\ \A path \in Paths : Len(path) # 2 => path = <<path[1]>>
BY DEF Paths, SubmodelPaths, ElementPaths

\* The methods of the domain objects keep their types.
LEMMA MethodTypes ==
    /\ \A aas \in Shells, s \in Submodels :
         /\ WithSubmodel(aas, s) \in Shells
         /\ WithoutSubmodel(aas, s) \in Shells
    /\ \A aas \in Shells, path \in Paths :
         /\ WithoutPolicies(aas, path) \in Shells
         /\ WithoutPolicy(aas, path) \in Shells
    /\ \A aas \in Shells, added \in SUBSET Paths : WithPolicies(aas, added) \in Shells
    /\ \A aas \in Shells : IncreaseVersion(aas) \in Shells
    /\ NewSubmodel \in SubmodelDocuments
    /\ \A sm \in SubmodelDocuments, e \in Elements :
         /\ WithElement(sm, e) \in SubmodelDocuments
         /\ WithoutElement(sm, e) \in SubmodelDocuments
    /\ \A config \in Configs, path \in Paths :
         /\ WithoutDesign(config, path) \in Configs
         /\ Patches(config, path) \subseteq Configs
    /\ \A path \in Paths : \A sm : NewPolicies(sm, path) \in SUBSET Paths
<1>1. \A aas \in Shells : IncreaseVersion(aas) \in Shells
  BY DEF IncreaseVersion, Shells
<1>2. \A aas \in Shells, path \in Paths : WithoutPolicies(aas, path) \in Shells
  BY DEF WithoutPolicies, Shells
<1>3. ASSUME NEW aas \in Shells, NEW path \in Paths
      PROVE  WithoutPolicy(aas, path) \in Shells
  <2>1. [aas EXCEPT !.policies = @ \ {path}] \in Shells
    BY DEF Shells
  <2> QED BY <2>1, <1>1 DEF WithoutPolicy
<1>4. \A aas \in Shells, s \in Submodels : WithSubmodel(aas, s) \in Shells
  BY PathFacts DEF WithSubmodel, Shells
<1>5. ASSUME NEW aas \in Shells, NEW s \in Submodels
      PROVE  WithoutSubmodel(aas, s) \in Shells
  <2>1. [aas EXCEPT !.refs = @ \ {s}] \in Shells
    BY DEF Shells
  <2> QED BY <2>1, <1>2, PathFacts DEF WithoutSubmodel
<1>6. ASSUME NEW aas \in Shells, NEW added \in SUBSET Paths
      PROVE  WithPolicies(aas, added) \in Shells
  <2>1. [aas EXCEPT !.policies = @ \cup added] \in Shells
    BY DEF Shells
  <2> QED BY <2>1, <1>1 DEF WithPolicies
<1>7. NewSubmodel \in SubmodelDocuments
  BY DEF NewSubmodel, SubmodelDocuments
<1>8. ASSUME NEW sm \in SubmodelDocuments, NEW e \in Elements
      PROVE  /\ WithElement(sm, e) \in SubmodelDocuments
             /\ WithoutElement(sm, e) \in SubmodelDocuments
  <2>1. /\ [sm EXCEPT !.elements = @ \cup {e}] \in SubmodelDocuments
        /\ [sm EXCEPT !.elements = @ \ {e}] \in SubmodelDocuments
    BY DEF SubmodelDocuments
  <2>2. \A doc \in SubmodelDocuments : IncreaseVersion(doc) \in SubmodelDocuments
    BY DEF SubmodelDocuments, IncreaseVersion
  <2> QED BY <2>1, <2>2 DEF WithElement, WithoutElement
<1>9. \A config \in Configs, path \in Paths :
         /\ WithoutDesign(config, path) \in Configs
         /\ Patches(config, path) \subseteq Configs
  BY DEF WithoutDesign, Patches, Configs
<1>10. \A path \in Paths : \A sm : NewPolicies(sm, path) \in SUBSET Paths
  BY DEF NewPolicies
<1> QED BY <1>1, <1>2, <1>3, <1>4, <1>5, <1>6, <1>7, <1>8, <1>9, <1>10

\* A status change takes a well-formed item to a well-formed item.
LEMMA StatusChangeOK ==
    ASSUME NEW item \in Items, NEW op, Admitted(op, item)
    PROVE  HandleStatusChange(op, item) \in Items
<1>1. CASE op = "publish"
  BY <1>1 DEF Admitted, HandleStatusChange, PublishDpp, MayPublish, Items, Statuses, StatusChanges
<1>2. CASE op = "archive"
  BY <1>2 DEF Admitted, HandleStatusChange, ArchiveDpp, MayArchive, Items, Statuses, StatusChanges
<1>3. CASE op = "restore"
  BY <1>3 DEF Admitted, HandleStatusChange, RestoreDpp, MayRestore, Items, Statuses, StatusChanges
<1>4. CASE op \notin {"publish", "archive", "restore"}
  BY <1>4 DEF HandleStatusChange
<1> QED BY <1>1, <1>2, <1>3, <1>4

-----------------------------------------------------------------------------
(* The invariants                                                          *)

\* The names of the documents of their own differ from the submodels.
LEMMA Names ==
    /\ OwnDocuments \subseteq Documents /\ Submodels \subseteq Documents
    /\ \A s \in Submodels : s \notin OwnDocuments
    /\ \A d \in Documents : d \in OwnDocuments \/ d \in Submodels
BY DocumentsAssumption DEF Documents

LEMMA InitConsistent == Init => TypeOK /\ EnvironmentConsistent
<1> SUFFICES ASSUME NEW item \in InitialItems, db = InitialStore(item)
             PROVE  TypeOK /\ EnvironmentConsistent
  BY DEF Init
<1>1. TypeOK
  BY InitialStoreOK DEF TypeOK
<1>2. item \in Items
  BY DEF InitialItems
<1> DEFINE live == {path \in Paths : path[1] \in item.env}
<1>3. /\ db["item"] = item /\ db["upi"] = "issued"
      /\ db["aas"] = [refs |-> item.env, policies |-> live, version |-> 0]
      /\ db["config"] = live
      /\ db["permalink"] \in Permalinks
  BY DEF InitialStore, OwnDocuments, Documents, Permalinks
<1>4. \A s \in Submodels :
        db[s] = IF s \in item.env THEN [elements |-> Elements, version |-> 0] ELSE Absent
  BY Names DEF InitialStore, OwnDocuments
<1>5. db["aas"] \in Shells /\ db["config"] \in Configs
  BY <1>2, <1>3 DEF Shells, Configs, Items
<1>6. Env = {s \in Submodels : db[s] # Absent}
  <2>1. [elements |-> Elements, version |-> 0] \in SubmodelDocuments
    BY DEF SubmodelDocuments
  <2> QED BY <1>2, <1>3, <1>4, <2>1, AbsentAssumption DEF Env, Items
<1>7. live \subseteq LivePaths
  BY <1>2, <1>3, <1>4, <1>6, PathFacts DEF LivePaths, Env
<1>8. /\ db["item"] # Absent /\ db["aas"] # Absent /\ db["config"] # Absent
      /\ db["permalink"] # Absent /\ db["upi"] # Absent
  BY <1>2, <1>3, <1>5, AbsentAssumption
<1>9. /\ db["aas"].refs = Env /\ db["aas"].policies \subseteq LivePaths
      /\ \A path \in db["config"] : path[1] \in Env
  BY <1>3, <1>7 DEF Env
<1> QED
  BY <1>1, <1>6, <1>8, <1>9 DEF EnvironmentConsistent

Inv == TypeOK /\ EnvironmentConsistent

\* What Inv says of the documents while the item exists.
Known ==
    /\ db["item"] \in Items /\ db["aas"] \in Shells /\ db["config"] \in Configs
    /\ db["permalink"] \in Permalinks /\ db["upi"] = "issued"
    /\ Env \in SUBSET Submodels
    /\ \A s \in Env : db[s] \in SubmodelDocuments
    /\ \A s \in Submodels : db[s] \in SubmodelDocuments \cup {Absent}
    /\ Env = {s \in Submodels : db[s] # Absent}
    /\ db["aas"].refs = Env
    /\ db["aas"].policies \in SUBSET Paths
    /\ db["aas"].policies \subseteq LivePaths
    /\ \A path \in db["config"] : path[1] \in Env

LEMMA Present == Inv /\ db["item"] # Absent => Known
BY DEF Inv, Known, TypeOK, EnvironmentConsistent, StoreOK, Env, Items, Shells

\* The store is a function on Documents.
LEMMA IsFunction == Inv => db = [d \in Documents |-> db[d]]
BY DEF Inv, TypeOK, StoreOK

\* It suffices to show the conjuncts of Inv for a store with an item.
LEMMA Together ==
    ASSUME db' = [x \in Documents |-> db'[x]],
           db'["item"] \in Items, db'["aas"] \in Shells, db'["config"] \in Configs,
           db'["permalink"] \in Permalinks, db'["upi"] = "issued",
           \A s \in Submodels : db'[s] \in SubmodelDocuments \cup {Absent},
           Env' = {s \in Submodels : db'[s] # Absent},
           db'["aas"].refs = Env',
           db'["aas"].policies \subseteq LivePaths',
           \A path \in db'["config"] : path[1] \in Env'
    PROVE  Inv'
<1>1. TypeOK'
  BY DEF TypeOK, StoreOK
<1>2. /\ db'["item"] # Absent /\ db'["aas"] # Absent /\ db'["config"] # Absent
      /\ db'["permalink"] # Absent /\ db'["upi"] # Absent
  BY AbsentAssumption
<1> QED BY <1>1, <1>2 DEF Inv, EnvironmentConsistent

LEMMA AddSubmodelStep ==
    ASSUME Inv, db["item"] # Absent, NEW s \in Submodels, AddSubmodel(s)
    PROVE  Inv'
<1> DEFINE aas == IncreaseVersion(WithSubmodel(db["aas"], s))
           item == [db["item"] EXCEPT !.env = @ \cup {s}]
<1>1. Known
  BY Present
<1>2. /\ db' = [x \in Documents |-> db'[x]]
      /\ db'["item"] = item /\ db'["aas"] = aas /\ db'[s] = NewSubmodel
      /\ \A x \in Documents : x \notin {"item", "aas", s} => db'[x] = db[x]
  BY IsFunction, Names DEF AddSubmodel, OwnDocuments
<1>3. item \in Items /\ item.env = Env \cup {s}
  BY <1>1 DEF Known, Items, Env
<1>4. aas \in Shells
  BY <1>1, MethodTypes DEF Known
<1>5. aas.refs = Env \cup {s} /\ aas.policies = db["aas"].policies \cup {<<s>>}
  BY <1>1 DEF Known, Shells, IncreaseVersion, WithSubmodel
<1>6. \A x \in Submodels \ {s} : db'[x] = db[x]
  BY <1>2, Names DEF OwnDocuments
<1>7. Env' = Env \cup {s}
  BY <1>2, <1>3 DEF Env
<1>8. NewSubmodel \in SubmodelDocuments /\ NewSubmodel # Absent
  BY MethodTypes, AbsentAssumption
<1>9. s \notin Env
  BY DEF AddSubmodel
<1>10. aas.policies \subseteq LivePaths'
  BY <1>1, <1>2, <1>5, <1>6, <1>8, <1>9, PathFacts DEF Known, LivePaths
<1>11. Env' = {x \in Submodels : db'[x] # Absent}
  BY <1>1, <1>2, <1>6, <1>7, <1>8 DEF Known
<1>12. /\ db'["config"] = db["config"] /\ db'["permalink"] = db["permalink"]
       /\ db'["upi"] = db["upi"]
  BY <1>2, Names DEF OwnDocuments
<1>13. \A x \in Submodels : db'[x] \in SubmodelDocuments \cup {Absent}
  BY <1>1, <1>2, <1>6, <1>8 DEF Known
<1> QED
  BY <1>1, <1>2, <1>3, <1>4, <1>5, <1>7, <1>10, <1>11, <1>12, <1>13, Together DEF Known

LEMMA DeleteSubmodelStep ==
    ASSUME Inv, db["item"] # Absent, NEW s \in Submodels, DeleteSubmodel(s)
    PROVE  Inv'
<1> DEFINE aas == WithoutSubmodel(db["aas"], s)
           item == [db["item"] EXCEPT !.env = @ \ {s}]
           config == WithoutDesign(db["config"], <<s>>)
<1>1. Known
  BY Present
<1>2. /\ db' = [x \in Documents |-> db'[x]]
      /\ db'["item"] = item /\ db'["aas"] = aas /\ db'["config"] = config
      /\ db'[s] = Absent
      /\ \A x \in Documents : x \notin {"item", "aas", "config", s} => db'[x] = db[x]
  BY IsFunction, Names DEF DeleteSubmodel, OwnDocuments
<1>3. item \in Items /\ item.env = Env \ {s}
  BY <1>1 DEF Known, Items, Env
<1>4. aas \in Shells /\ config \in Configs
  BY <1>1, MethodTypes, PathFacts DEF Known
<1>5. /\ aas.refs = Env \ {s}
      /\ aas.policies = {p \in db["aas"].policies : ~IsUnder(p, <<s>>)}
  BY <1>1 DEF Known, Shells, WithoutSubmodel, WithoutPolicies, DeleteSubmodel
<1>6. \A x \in Submodels \ {s} : db'[x] = db[x]
  BY <1>2, Names DEF OwnDocuments
<1>7. Env' = Env \ {s}
  BY <1>2, <1>3 DEF Env
<1>8. \A p \in Paths : ~IsUnder(p, <<s>>) => p[1] # s
  BY DEF IsUnder
<1>9. aas.policies \subseteq LivePaths'
  BY <1>1, <1>5, <1>6, <1>8, PathFacts DEF Known, LivePaths
<1>10. Env' = {x \in Submodels : db'[x] # Absent}
  BY <1>1, <1>2, <1>6, <1>7 DEF Known
<1>11. \A p \in config : p[1] \in Env'
  BY <1>1, <1>7, <1>8 DEF Known, WithoutDesign, Configs
<1>12. db'["permalink"] = db["permalink"] /\ db'["upi"] = db["upi"]
  BY <1>2, Names DEF OwnDocuments
<1>13. \A x \in Submodels : db'[x] \in SubmodelDocuments \cup {Absent}
  BY <1>1, <1>2, <1>6 DEF Known
<1> QED
  BY <1>1, <1>2, <1>3, <1>4, <1>5, <1>7, <1>9, <1>10, <1>11, <1>12, <1>13, Together
  DEF Known

LEMMA LiveUnchanged ==
    ASSUME \A s \in Submodels : db'[s] = db[s]
    PROVE  LivePaths' = LivePaths
BY PathFacts DEF LivePaths

LEMMA AddElementStep ==
    ASSUME Inv, db["item"] # Absent, NEW s \in Submodels, NEW e \in Elements,
           AddElement(s, e)
    PROVE  Inv'
<1> DEFINE submodel == WithElement(db[s], e)
<1>1. Known /\ s \in Env
  BY Present DEF AddElement
<1>2. /\ db' = [x \in Documents |-> db'[x]] /\ db'[s] = submodel
      /\ \A x \in Documents : x # s => db'[x] = db[x]
  BY IsFunction, Names DEF AddElement
<1>3. submodel \in SubmodelDocuments /\ submodel # Absent
  BY <1>1, MethodTypes, AbsentAssumption DEF Known
<1>4. submodel.elements = db[s].elements \cup {e}
  BY <1>1 DEF Known, SubmodelDocuments, WithElement, IncreaseVersion
<1>5. \A d \in OwnDocuments : db'[d] = db[d]
  BY <1>2, Names
<1>6. LivePaths \subseteq LivePaths'
  BY <1>1, <1>2, <1>3, <1>4, PathFacts, Names DEF Known, LivePaths
<1>7. Env' = Env
  BY <1>5 DEF Env, OwnDocuments
<1>8. Env' = {x \in Submodels : db'[x] # Absent}
  BY <1>1, <1>2, <1>3, <1>7, Names DEF Known
<1>9. \A x \in Submodels : db'[x] \in SubmodelDocuments \cup {Absent}
  BY <1>1, <1>2, <1>3, Names DEF Known
<1> QED
  BY <1>1, <1>2, <1>5, <1>6, <1>7, <1>8, <1>9, Together DEF Known, OwnDocuments

LEMMA DeleteElementStep ==
    ASSUME Inv, db["item"] # Absent, NEW s \in Submodels, NEW e \in Elements,
           DeleteElement(s, e)
    PROVE  Inv'
<1> DEFINE submodel == WithoutElement(db[s], e)
           kept == WithoutPolicies(db["aas"], <<s, e>>)
           aas == IncreaseVersion(kept)
           config == WithoutDesign(db["config"], <<s, e>>)
<1>1. Known /\ s \in Env /\ <<s, e>> \in Paths
  BY Present DEF DeleteElement, Paths, ElementPaths
<1>2. /\ db' = [x \in Documents |-> db'[x]] /\ db'[s] = submodel
      /\ db'["aas"] = aas /\ db'["config"] = config
      /\ \A x \in Documents : x \notin {"aas", "config", s} => db'[x] = db[x]
  BY IsFunction, Names DEF DeleteElement, OwnDocuments
<1>3. submodel \in SubmodelDocuments /\ submodel # Absent
  BY <1>1, MethodTypes, AbsentAssumption DEF Known
<1>4. submodel.elements = db[s].elements \ {e}
  BY <1>1 DEF Known, SubmodelDocuments, WithoutElement, IncreaseVersion
<1>5. aas \in Shells /\ config \in Configs
  BY <1>1, MethodTypes DEF Known
<1>6. /\ aas.refs = Env
      /\ aas.policies = {p \in db["aas"].policies : ~IsUnder(p, <<s, e>>)}
  BY <1>1 DEF Known, Shells, WithoutPolicies, IncreaseVersion
<1>7. \A x \in Submodels \ {s} : db'[x] = db[x]
  BY <1>2, Names DEF OwnDocuments
<1>8. \A p \in Paths : p = <<s, e>> => IsUnder(p, <<s, e>>)
  BY DEF IsUnder
<1>9. aas.policies \subseteq LivePaths'
  BY <1>1, <1>2, <1>3, <1>4, <1>6, <1>7, <1>8, PathFacts DEF Known, LivePaths
<1>10. /\ db'["item"] = db["item"] /\ db'["permalink"] = db["permalink"]
       /\ db'["upi"] = db["upi"] /\ Env' = Env
  BY <1>2, Names DEF OwnDocuments, Env
<1>11. Env' = {x \in Submodels : db'[x] # Absent}
  BY <1>1, <1>2, <1>3, <1>7, <1>10 DEF Known
<1>12. \A x \in Submodels : db'[x] \in SubmodelDocuments \cup {Absent}
  BY <1>1, <1>2, <1>3, <1>7 DEF Known
<1>13. \A p \in config : p[1] \in Env'
  BY <1>1, <1>10 DEF Known, WithoutDesign
<1> QED
  BY <1>1, <1>2, <1>5, <1>6, <1>9, <1>10, <1>11, <1>12, <1>13, Together DEF Known

\* An operation that changes the aas alone, to one with the same references
\* and policies that point at what exists.
LEMMA ShellStep ==
    ASSUME Inv, db["item"] # Absent, NEW aas \in Shells,
           db' = [db EXCEPT !["aas"] = aas],
           aas.refs = db["aas"].refs, aas.policies \subseteq LivePaths
    PROVE  Inv'
<1>1. Known
  BY Present
<1>2. /\ db' = [x \in Documents |-> db'[x]] /\ db'["aas"] = aas
      /\ \A x \in Documents : x # "aas" => db'[x] = db[x]
  BY IsFunction, Names DEF OwnDocuments
<1>3. \A x \in Submodels : db'[x] = db[x]
  BY <1>2, Names DEF OwnDocuments
<1>4. /\ db'["item"] = db["item"] /\ db'["permalink"] = db["permalink"]
      /\ db'["upi"] = db["upi"] /\ db'["config"] = db["config"] /\ Env' = Env
  BY <1>2, Names DEF OwnDocuments, Env
<1>5. LivePaths' = LivePaths
  BY <1>3, LiveUnchanged
<1> QED BY <1>1, <1>2, <1>3, <1>4, <1>5, Together DEF Known

LEMMA ModifyShellStep ==
    ASSUME Inv, db["item"] # Absent, NEW path \in Paths, ModifyShell(path)
    PROVE  Inv'
<1> DEFINE target == IF path[1] \in Env THEN db[path[1]] ELSE Absent
           added == NewPolicies(target, path)
           aas == WithPolicies(db["aas"], added)
<1>1. Known
  BY Present
<1>2. added \in SUBSET Paths /\ aas \in Shells
  BY <1>1, MethodTypes DEF Known
<1>3. aas.refs = db["aas"].refs /\ aas.policies = db["aas"].policies \cup added
  BY <1>1 DEF Known, Shells, WithPolicies, IncreaseVersion
<1>4. added \subseteq LivePaths
  BY <1>1 DEF Known, LivePaths, NewPolicies
<1>5. db' = [db EXCEPT !["aas"] = aas]
  BY DEF ModifyShell
<1> QED BY <1>1, <1>2, <1>3, <1>4, <1>5, ShellStep DEF Known

LEMMA DeletePolicyStep ==
    ASSUME Inv, db["item"] # Absent, NEW path \in Paths, DeletePolicy(path)
    PROVE  Inv'
<1> DEFINE aas == WithoutPolicy(db["aas"], path)
<1>1. Known
  BY Present
<1>2. aas \in Shells
  BY <1>1, MethodTypes DEF Known
<1>3. aas.refs = db["aas"].refs /\ aas.policies = db["aas"].policies \ {path}
  BY <1>1 DEF Known, Shells, WithoutPolicy, IncreaseVersion
<1> QED BY <1>1, <1>2, <1>3, ShellStep DEF DeletePolicy, Known

LEMMA PatchConfigStep ==
    ASSUME Inv, db["item"] # Absent, NEW path \in Paths, PatchConfig(path)
    PROVE  Inv'
<1>1. Known
  BY Present
<1>2. PICK config \in Patches(db["config"], path) : db' = [db EXCEPT !["config"] = config]
  BY DEF PatchConfig
<1>3. config \in Configs
  BY <1>1, <1>2, MethodTypes DEF Known
<1>4. /\ db' = [x \in Documents |-> db'[x]] /\ db'["config"] = config
      /\ \A x \in Documents : x # "config" => db'[x] = db[x]
  BY <1>2, IsFunction, Names DEF OwnDocuments
<1>5. \A x \in Submodels : db'[x] = db[x]
  BY <1>4, Names DEF OwnDocuments
<1>6. /\ db'["item"] = db["item"] /\ db'["permalink"] = db["permalink"]
      /\ db'["upi"] = db["upi"] /\ db'["aas"] = db["aas"] /\ Env' = Env
  BY <1>4, Names DEF OwnDocuments, Env
<1>7. path[1] \in Env
  BY <1>1, PathFacts DEF PatchConfig, Can, Known, LivePaths
<1>8. \A p \in config : p[1] \in Env'
  BY <1>1, <1>2, <1>6, <1>7 DEF Known, Patches
<1>9. LivePaths' = LivePaths
  BY <1>5, LiveUnchanged
<1> QED BY <1>1, <1>3, <1>4, <1>5, <1>6, <1>8, <1>9, Together DEF Known

LEMMA ChangeStatusStep ==
    ASSUME Inv, NEW op, Admitted(op, db["item"]), ChangeStatus(op)
    PROVE  Inv'
<1> DEFINE item == HandleStatusChange(op, db["item"])
<1>1. Known
  BY Present DEF Admitted
<1>2. item \in Items /\ item.env = Env
  <2>1. item \in Items
    BY <1>1, StatusChangeOK DEF Known
  <2>2. /\ PublishDpp(db["item"]).env = db["item"].env
        /\ ArchiveDpp(db["item"]).env = db["item"].env
        /\ RestoreDpp(db["item"]).env = db["item"].env
    BY <1>1 DEF Known, Items, PublishDpp, ArchiveDpp, RestoreDpp
  <2>3. item.env = db["item"].env
    BY <2>2 DEF HandleStatusChange
  <2> QED BY <2>1, <2>3 DEF Env
<1>3. /\ db' = [x \in Documents |-> db'[x]] /\ db'["item"] = item
      /\ db'["permalink"] \in Permalinks
      /\ \A x \in Documents : x \notin {"item", "permalink"} => db'[x] = db[x]
  BY <1>1, IsFunction, Names DEF ChangeStatus, OwnDocuments, Known, Permalinks
<1>4. \A x \in Submodels : db'[x] = db[x]
  BY <1>3, Names DEF OwnDocuments
<1>5. /\ db'["upi"] = db["upi"] /\ db'["aas"] = db["aas"]
      /\ db'["config"] = db["config"] /\ Env' = Env
  BY <1>2, <1>3, Names DEF OwnDocuments, Env
<1>6. LivePaths' = LivePaths
  BY <1>4, LiveUnchanged
<1> QED BY <1>1, <1>2, <1>3, <1>4, <1>5, <1>6, Together DEF Known

LEMMA DeletePassportStep == DeletePassport => Inv'
BY Names DEF DeletePassport, Inv, TypeOK, StoreOK, EnvironmentConsistent, OwnDocuments

LEMMA Step ==
    ASSUME Inv, NEW op \in Operations, NEW arg \in Arguments(op), Perform(op, arg)
    PROVE  Inv'
<1>1. db["item"] # Absent
  BY DEF Perform, Admitted
<1>2. CASE op \in {"addSubmodel", "deleteSubmodel"}
  <2>1. arg \in SubmodelPaths /\ arg[1] \in Submodels
    BY <1>2 DEF Arguments, SubmodelPaths
  <2> QED BY <1>1, <1>2, <2>1, AddSubmodelStep, DeleteSubmodelStep
          DEF Perform, StatusOperations
<1>3. CASE op \in {"addElement", "deleteElement"}
  <2>1. arg \in ElementPaths /\ arg[1] \in Submodels /\ arg[2] \in Elements
    BY <1>3 DEF Arguments, ElementPaths
  <2> QED BY <1>1, <1>3, <2>1, AddElementStep, DeleteElementStep
          DEF Perform, StatusOperations
<1>4. CASE op \in {"modifyShell", "deletePolicy", "patchConfig"}
  <2>1. arg \in Paths
    BY <1>4 DEF Arguments
  <2> QED BY <1>1, <1>4, <2>1, ModifyShellStep, DeletePolicyStep, PatchConfigStep
          DEF Perform, StatusOperations
<1>5. CASE op \in StatusOperations
  BY <1>5, ChangeStatusStep DEF Perform, StatusOperations
<1>6. CASE op = "deletePassport"
  BY <1>6, DeletePassportStep DEF Perform, StatusOperations
<1> QED
  BY <1>2, <1>3, <1>4, <1>5, <1>6, DocumentsAssumption
  DEF AllOperations, EditOperations, StatusOperations

\* The documents are well-formed and fit together in every reachable state:
\* whatever sequence of operations is performed, no reference, policy or design
\* entry is left without the submodel it belongs to.
THEOREM Consistency == Spec => [](TypeOK /\ EnvironmentConsistent)
<1>1. Init => Inv
  BY InitConsistent DEF Inv
<1>2. Inv /\ [Next]_db => Inv'
  <2>1. ASSUME Inv, Next PROVE Inv'
    BY <2>1, Step DEF Next
  <2>2. ASSUME Inv, UNCHANGED db PROVE Inv'
    BY <2>2 DEF Inv, TypeOK, EnvironmentConsistent, LivePaths, Env
  <2> QED BY <2>1, <2>2
<1>3. Inv => TypeOK /\ EnvironmentConsistent
  BY DEF Inv
<1> QED BY <1>1, <1>2, <1>3, PTL DEF Spec

-----------------------------------------------------------------------------
(* Publication is never taken back                                         *)

\* The permalink is frozen only while the item is published, or was when it
\* was archived: such an item is no draft, and no restore makes it one.
FrozenInv ==
    /\ Inv
    /\ db["permalink"] = "frozen" =>
         \/ db["item"].status = "Published"
         \/ db["item"].status = "Archived" /\ db["item"].previous = "Published"

\* Apart from a status change and the deletion, no operation touches the
\* permalink or the status.
LEMMA EditsKeepStatus ==
    ASSUME Inv, NEW op \in Operations, NEW arg \in Arguments(op), Perform(op, arg),
           op \notin StatusOperations, op # "deletePassport"
    PROVE  /\ db'["permalink"] = db["permalink"]
           /\ db'["item"].status = db["item"].status
           /\ db'["item"].previous = db["item"].previous
<1>1. Known
  BY Present DEF Perform, Admitted
<1>2. CASE op \in {"addSubmodel", "deleteSubmodel"}
  <2>1. arg[1] \in Submodels
    BY <1>2 DEF Arguments, SubmodelPaths
  <2>2. PICK kept : /\ db'["item"] = [db["item"] EXCEPT !.env = kept]
                   /\ db'["permalink"] = db["permalink"]
    <3>1. CASE op = "addSubmodel"
      <4>1. AddSubmodel(arg[1])
        BY <3>1 DEF Perform, StatusOperations
      <4> QED BY <2>1, <4>1, IsFunction, Names DEF AddSubmodel, OwnDocuments
    <3>2. CASE op = "deleteSubmodel"
      <4>1. DeleteSubmodel(arg[1])
        BY <3>2 DEF Perform, StatusOperations
      <4> QED BY <2>1, <4>1, IsFunction, Names DEF DeleteSubmodel, OwnDocuments
    <3> QED BY <1>2, <3>1, <3>2
  <2> QED BY <1>1, <2>2 DEF Known, Items
<1>3. CASE op \in {"addElement", "deleteElement"}
  <2>1. arg[1] \in Submodels
    BY <1>3 DEF Arguments, ElementPaths
  <2> QED BY <1>3, <2>1, IsFunction, Names
          DEF Perform, AddElement, DeleteElement, OwnDocuments, StatusOperations
<1>4. CASE op \in {"modifyShell", "deletePolicy", "patchConfig"}
  BY <1>4, IsFunction, Names
  DEF Perform, ModifyShell, DeletePolicy, PatchConfig, OwnDocuments, StatusOperations
<1> QED
  BY <1>2, <1>3, <1>4, DocumentsAssumption DEF AllOperations, EditOperations

LEMMA StatusStepKeepsFrozen ==
    ASSUME FrozenInv, NEW op \in StatusOperations, Admitted(op, db["item"]),
           ChangeStatus(op)
    PROVE  /\ db'["permalink"] = "frozen" =>
                \/ db'["item"].status = "Published"
                \/ db'["item"].status = "Archived" /\ db'["item"].previous = "Published"
           /\ db["permalink"] = "frozen" => db'["permalink"] = "frozen"
<1>1. Known
  BY Present DEF Admitted, FrozenInv
<1>2. /\ db'["item"] = HandleStatusChange(op, db["item"])
      /\ db'["permalink"] =
           IF op = "publish" /\ db["permalink"] = "open" THEN "frozen" ELSE db["permalink"]
  BY IsFunction, Names DEF ChangeStatus, OwnDocuments, FrozenInv
<1>3. CASE op = "publish"
  BY <1>1, <1>2, <1>3 DEF HandleStatusChange, PublishDpp, Known, Items
<1>4. CASE op = "archive"
  BY <1>1, <1>2, <1>4
  DEF HandleStatusChange, ArchiveDpp, Known, Items, FrozenInv, Admitted, MayArchive
<1>5. CASE op = "restore"
  BY <1>1, <1>2, <1>5
  DEF HandleStatusChange, RestoreDpp, Known, Items, FrozenInv, Admitted, MayRestore
<1> QED BY <1>3, <1>4, <1>5 DEF StatusOperations

LEMMA FrozenStep ==
    ASSUME FrozenInv, Next
    PROVE  FrozenInv' /\ (db["permalink"] = "frozen" => db'["permalink"] = "frozen")
<1>1. PICK op \in Operations : \E arg \in Arguments(op) : Perform(op, arg)
  BY DEF Next
<1>2. PICK arg \in Arguments(op) : Perform(op, arg)
  BY <1>1
<1>3. Inv' /\ Admitted(op, db["item"])
  BY <1>2, Step DEF FrozenInv, Perform
<1>4. CASE op \in StatusOperations
  <2>1. ChangeStatus(op)
    BY <1>2, <1>4 DEF Perform, StatusOperations
  <2> QED BY <1>3, <1>4, <2>1, StatusStepKeepsFrozen DEF FrozenInv
<1>5. CASE op = "deletePassport"
  <2>1. db'["permalink"] = Absent /\ Absent # "frozen"
    BY <1>2, <1>5, Names, AbsentAssumption
    DEF Perform, DeletePassport, OwnDocuments, StatusOperations, Permalinks
  <2>2. db["permalink"] # "frozen"
    BY <1>3, <1>5 DEF FrozenInv, Admitted
  <2> QED BY <1>3, <2>1, <2>2 DEF FrozenInv
<1>6. CASE op \notin StatusOperations /\ op # "deletePassport"
  BY <1>2, <1>3, <1>6, EditsKeepStatus DEF FrozenInv
<1> QED BY <1>4, <1>5, <1>6

\* A permalink that was frozen at publication stays frozen, and the document
\* is not deleted any more, whatever is edited, archived and restored.
THEOREM PublicationIsFinal == Spec => FrozenForEver
<1>1. Init => FrozenInv
  <2> SUFFICES ASSUME NEW item \in InitialItems, db = InitialStore(item)
               PROVE  FrozenInv
    BY DEF Init
  <2>1. Inv
    BY InitConsistent DEF Init, Inv
  <2>2. /\ db["item"] = item
        /\ db["permalink"] = IF "Published" \in {item.status, item.previous}
                             THEN "frozen" ELSE "open"
    BY DEF InitialStore, OwnDocuments, Documents
  <2> QED BY <2>1, <2>2 DEF FrozenInv, InitialItems
<1>2. FrozenInv /\ [Next]_db =>
        FrozenInv' /\ (db["permalink"] = "frozen" => db'["permalink"] = "frozen")
  <2>1. ASSUME FrozenInv, UNCHANGED db
        PROVE  FrozenInv' /\ (db["permalink"] = "frozen" => db'["permalink"] = "frozen")
    BY <2>1 DEF FrozenInv, Inv, TypeOK, EnvironmentConsistent, LivePaths, Env
  <2> QED BY <2>1, FrozenStep
<1>3. FrozenInv /\ [Next]_db =>
        [db["permalink"] = "frozen" => db'["permalink"] = "frozen"]_db
  BY <1>2
<1> QED BY <1>1, <1>2, <1>3, PTL DEF Spec, FrozenForEver

-----------------------------------------------------------------------------
(* Types, and the content of archived documents                            *)

\* The documents keep their types through every sequence of operations: no
\* method leaves a reference outside the environment's values, or an item whose
\* previous and current status no status change leads to.
THEOREM TypeCorrect == Spec => []TypeOK
BY Consistency, PTL

\* archiveGuard, MayPublish, MayArchive and isDraft leave an archived document
\* two operations.
LEMMA AdmittedInArchive ==
    ASSUME NEW op \in Operations, Admitted(op, db["item"]), StatusOf(db) = "Archived"
    PROVE  op \in {"restore", "patchConfig"}
<1>1. db["item"].status = "Archived"
  BY DEF StatusOf, Admitted
<1>2. op \notin EditOperations /\ op \notin {"publish", "archive", "deletePassport"}
  BY <1>1 DEF Admitted, MayPublish, MayArchive
<1> QED BY <1>2, DocumentsAssumption DEF AllOperations, StatusOperations

LEMMA RestoreKeepsContent ==
    ASSUME Inv, Admitted("restore", db["item"]), ChangeStatus("restore")
    PROVE  Content(db') = Content(db) /\ StatusOf(db') = db["item"].previous
<1>1. Known
  BY Present DEF Admitted
<1>2. /\ db'["item"] = RestoreDpp(db["item"]) /\ db'["aas"] = db["aas"]
      /\ \A s \in Submodels : db'[s] = db[s]
  BY IsFunction, Names DEF ChangeStatus, HandleStatusChange, OwnDocuments
<1>3. /\ db'["item"].env = db["item"].env
      /\ db'["item"].status = db["item"].previous
  BY <1>1, <1>2 DEF Known, Items, RestoreDpp
<1>4. db'["item"] # Absent
  <2>1. HandleStatusChange("restore", db["item"]) \in Items
    BY <1>1, StatusChangeOK DEF Known
  <2> QED BY <1>2, <2>1, AbsentAssumption DEF HandleStatusChange
<1> QED BY <1>1, <1>2, <1>3, <1>4, AbsentAssumption DEF Content, StatusOf, Known

LEMMA PatchKeepsContent ==
    ASSUME Inv, NEW path, PatchConfig(path)
    PROVE  Content(db') = Content(db) /\ StatusOf(db') = StatusOf(db)
BY IsFunction, Names DEF PatchConfig, Content, StatusOf, OwnDocuments

\* While a document is archived no operation changes its environment, shell or
\* submodels, and it leaves the archive with the status it came with: the
\* guards admit restoring it and patching its configuration, and nothing else.
THEOREM ArchiveLosesNothing == Spec => ArchiveKeepsContent
<1> DEFINE Kept == StatusOf(db) = "Archived" =>
                     /\ Content(db') = Content(db)
                     /\ StatusOf(db') \in {"Archived", db["item"].previous}
<1>1. Inv /\ [Next]_db => [Kept]_db
  <2> SUFFICES ASSUME Inv, NEW op \in Operations, NEW arg \in Arguments(op),
                      Perform(op, arg), StatusOf(db) = "Archived"
               PROVE  Kept
    BY DEF Next
  <2>1. Admitted(op, db["item"]) /\ op \in {"restore", "patchConfig"}
    BY AdmittedInArchive DEF Perform
  <2>2. CASE op = "restore"
    BY <2>1, <2>2, RestoreKeepsContent DEF Perform, StatusOperations
  <2>3. CASE op = "patchConfig"
    BY <2>1, <2>3, PatchKeepsContent DEF Perform, StatusOperations
  <2> QED BY <2>1, <2>2, <2>3
<1>2. Spec => []Inv
  BY Consistency, PTL DEF Inv
<1> QED BY <1>1, <1>2, PTL DEF Spec, ArchiveKeepsContent

-----------------------------------------------------------------------------
(* Documents: their creation and deletion                                  *)

\* What is stored of configurations, and what requests have in hand.
ConfigDocuments == [design : Designs \cup {Creation!Default}, seeded : BOOLEAN, permalink : BOOLEAN]
Creations ==
    [at : {"copying", "saving"}, doc : Creation!Documents, from : Creation!Documents, env : SUBSET Creation!Parts,
     files : SUBSET (Creation!Media \X Creation!Places)]
Deletions == [at : {"deleting"}, doc : Creation!Documents, env : SUBSET Creation!Parts]
Seedings == [at : {"seeding"}, doc : Creation!Documents]

\* The types of the variables, sequences and requests in full.
CreationTyped ==
    /\ status \in [Creation!Documents -> Creation!Statuses] /\ env \in [Creation!Documents -> SUBSET Creation!Parts]
    /\ stored \subseteq Creation!Parts /\ files \in [Creation!Documents -> SUBSET (Creation!Media \X Creation!Places)]
    /\ configs \in [Creation!Documents -> Seq(ConfigDocuments)]
    /\ upis \subseteq PassportIds /\ broken \subseteq Creation!Documents /\ steps \in 0..MaxSteps
    /\ request \in [Requests -> {Creation!Idle} \cup Creations \cup Deletions \cup Seedings]

\* The parts of an environment, concept descriptions aside, are its document's.
OwnPartsOnly == \A d \in Creation!Documents : \A p \in Creation!Own(env[d]) : p.of = d

Creates(r) == request[r].at \in {"copying", "saving"}

\* No other request works on a document that is being created.
CreatedAlone ==
    \A r \in Requests : Creates(r) =>
        /\ status[request[r].doc] = "absent"
        /\ \A s \in Requests \ {r} : request[s] # Creation!Idle => request[s].doc # request[r].doc

\* A request in hand has stored what it is about to save, and knows the parts
\* of what it is about to delete.
RequestsKnow ==
    \A r \in Requests :
        /\ request[r].at = "saving" =>
            \A p \in Creation!Own(request[r].env) : p.of = request[r].doc /\ p \in stored
        /\ request[r].at = "deleting" => request[r].env = env[request[r].doc]

\* Whose parts are stored.
Accounted ==
    \A p \in Creation!Own(stored) :
        \/ p.of \in Creation!Present /\ p \in env[p.of]
        \/ p.of \in broken
        \/ \E r \in Requests :
            request[r].at = "saving" /\ request[r].doc = p.of /\ p \in request[r].env

\* Holds whatever the order of the requests.
CreationInv ==
    /\ CreationTyped /\ OwnPartsOnly /\ CreatedAlone /\ RequestsKnow /\ Accounted
    /\ Creation!ShellsAndSubmodelsResolve

-----------------------------------------------------------------------------
\* A sequence without its element at i.
LEMMA RemovedAt ==
    ASSUME NEW S, NEW q \in Seq(S), NEW i \in DOMAIN q
    PROVE  /\ Creation!RemoveAt(q, i) \in Seq(S)
           /\ Len(Creation!RemoveAt(q, i)) = Len(q) - 1
           /\ \A j \in 1..Len(q) - 1 : Creation!RemoveAt(q, i)[j] = IF j < i THEN q[j] ELSE q[j + 1]
<1> DEFINE left == SubSeq(q, 1, i - 1)
           right == SubSeq(q, i + 1, Len(q))
<1>1. i \in 1..Len(q) /\ Len(q) \in Nat
  OBVIOUS
<1>2. left \in Seq(S) /\ Len(left) = i - 1 /\ \A j \in 1..i - 1 : left[j] = q[j]
  BY <1>1
<1>3. right \in Seq(S) /\ Len(right) = Len(q) - i
      /\ \A j \in 1..Len(q) - i : right[j] = q[i + j]
  BY <1>1
<1>4. Creation!RemoveAt(q, i) = left \o right
  BY DEF Creation!RemoveAt
<1> HIDE DEF left, right
<1>5. left \o right \in Seq(S) /\ Len(left \o right) = Len(q) - 1
  BY <1>1, <1>2, <1>3
<1>6. ASSUME NEW j \in 1..Len(q) - 1
      PROVE  (left \o right)[j] = IF j < i THEN q[j] ELSE q[j + 1]
  BY <1>1, <1>2, <1>3
<1> QED BY <1>4, <1>5, <1>6

\* Links and defaults keep the configurations and what they say of seeding.
LEMMA ConfigurationsMade ==
    ASSUME NEW cs \in Seq(ConfigDocuments)
    PROVE  /\ Creation!Linked(cs) \in Seq(ConfigDocuments) /\ DOMAIN Creation!Linked(cs) = DOMAIN cs
           /\ \A i \in DOMAIN cs :
                  Creation!Linked(cs)[i].permalink /\ Creation!Linked(cs)[i].seeded = cs[i].seeded
           /\ Creation!WithDefault(cs) \in Seq(ConfigDocuments) /\ Creation!WithDefault(cs) # <<>>
           /\ Creation!WithDefault(cs) = cs \/ Creation!WithDefault(cs) = <<Creation!Config(Creation!Default, FALSE)>>
           /\ \A design \in Designs \cup {Creation!Default}, b \in BOOLEAN :
                Creation!Config(design, b) \in ConfigDocuments
<1>1. \A design \in Designs \cup {Creation!Default}, b \in BOOLEAN :
                Creation!Config(design, b) \in ConfigDocuments
  BY DEF Creation!Config, ConfigDocuments
<1>2. \A i \in DOMAIN cs : Creation!Linked(cs)[i] \in ConfigDocuments /\ Creation!Linked(cs)[i].permalink
          /\ Creation!Linked(cs)[i].seeded = cs[i].seeded
  <2> TAKE i \in DOMAIN cs
  <2>1. cs[i] \in ConfigDocuments
    OBVIOUS
  <2> QED BY <2>1 DEF Creation!Linked, ConfigDocuments
<1>3. DOMAIN Creation!Linked(cs) = 1..Len(cs) /\ Creation!Linked(cs) \in Seq(ConfigDocuments)
  <2>1. Creation!Linked(cs) \in [1..Len(cs) -> ConfigDocuments]
    BY <1>2 DEF Creation!Linked
  <2> QED BY <2>1
<1>4. Creation!WithDefault(cs) \in Seq(ConfigDocuments) /\ Creation!WithDefault(cs) # <<>>
  <2> DEFINE c == Creation!Config(Creation!Default, FALSE)
  <2>1. c \in ConfigDocuments
    BY <1>1
  <2> HIDE DEF c
  <2>2. <<c>> \in Seq(ConfigDocuments) /\ <<c>> # <<>>
    BY <2>1
  <2> QED BY <2>2 DEF Creation!WithDefault, c
<1>5. Creation!WithDefault(cs) = cs \/ Creation!WithDefault(cs) = <<Creation!Config(Creation!Default, FALSE)>>
  BY DEF Creation!WithDefault
<1>6. DOMAIN Creation!Linked(cs) = DOMAIN cs
  BY <1>3
<1> QED BY <1>1, <1>2, <1>3, <1>4, <1>5, <1>6

\* Imported configurations are not seeded ones.
LEMMA ImportedMade ==
    ASSUME NEW imported \in {<<>>} \cup {<<x>> : x \in Designs}
    PROVE  /\ [i \in DOMAIN imported |-> Creation!Config(imported[i], FALSE)] \in Seq(ConfigDocuments)
           /\ \A i \in DOMAIN imported : ~Creation!Config(imported[i], FALSE).seeded
<1> DEFINE f == [i \in DOMAIN imported |-> Creation!Config(imported[i], FALSE)]
<1>1. ASSUME imported = <<>>
      PROVE  f \in Seq(ConfigDocuments)
  <2>1. DOMAIN imported = 1..0
    BY <1>1
  <2>2. f \in [1..0 -> ConfigDocuments]
    BY <2>1
  <2> HIDE DEF f
  <2> QED BY <2>2, SeqDef
<1>2. ASSUME NEW x \in Designs, imported = <<x>>
      PROVE  f \in Seq(ConfigDocuments)
  <2>1. DOMAIN imported = 1..1 /\ \A i \in 1..1 : imported[i] = x
    <3>1. imported[1] = x
      BY <1>2
    <3> QED BY <1>2, <3>1
  <2>3. Creation!Config(x, FALSE) \in ConfigDocuments
    BY DEF Creation!Config, ConfigDocuments
  <2>4. f \in [1..1 -> ConfigDocuments]
    BY <2>1, <2>3
  <2> HIDE DEF f
  <2> QED BY <2>4, SeqDef
<1>3. \A i \in DOMAIN imported : ~Creation!Config(imported[i], FALSE).seeded
  BY DEF Creation!Config
<1> QED BY <1>1, <1>2, <1>3

\* A part tells its kind and its document.
LEMMA PartsOf ==
    /\ \A kind \in {"shell", "submodel", "concept"}, d \in Creation!Documents : Creation!Part(kind, d) \in Creation!Parts
    /\ \A kind, d : Creation!Part(kind, d).kind = kind /\ Creation!Part(kind, d).of = d
    /\ \A p \in Creation!Parts : p.kind \in {"shell", "submodel", "concept"} /\ p.of \in Creation!Documents
<1>1. \A kind, d : Creation!Part(kind, d).kind = kind /\ Creation!Part(kind, d).of = d
  BY DEF Creation!Part
<1>2. \A kind \in {"shell", "submodel", "concept"}, d \in Creation!Documents : Creation!Part(kind, d) \in Creation!Parts
  BY DEF Creation!Parts
<1>3. ASSUME NEW p \in Creation!Parts
      PROVE  p.kind \in {"shell", "submodel", "concept"} /\ p.of \in Creation!Documents
  <2>1. PICK kind \in {"shell", "submodel", "concept"}, d \in Creation!Documents : p = Creation!Part(kind, d)
    BY DEF Creation!Parts
  <2> QED BY <1>1, <2>1
<1> QED BY <1>1, <1>2, <1>3

\* A copy's own parts are of the document that it is made for.
LEMMA Copies ==
    ASSUME NEW parts \in SUBSET Creation!Parts, NEW d \in Creation!Documents
    PROVE  Creation!Copy(parts, d) \in SUBSET Creation!Parts /\ \A p \in Creation!Own(Creation!Copy(parts, d)) : p.of = d
<1>1. \A p \in Creation!Own(parts) : Creation!Part(p.kind, d) \in Creation!Parts
  BY PartsOf DEF Creation!Own
<1>2. Creation!Copy(parts, d) \subseteq Creation!Parts
  BY <1>1 DEF Creation!Copy, Creation!Concepts
<1>3. ASSUME NEW p \in Creation!Own(Creation!Copy(parts, d))
      PROVE  p.of = d
  <2>1. p \notin Creation!Concepts(parts)
    BY <1>3 DEF Creation!Own, Creation!Concepts, Creation!Copy
  <2> QED BY <1>3, <2>1, PartsOf DEF Creation!Own, Creation!Copy
<1> QED BY <1>2, <1>3

\* What a request in hand holds.
LEMMA CreationInHand ==
    ASSUME CreationTyped, NEW r \in Requests
    PROVE  /\ request[r].at = "idle" => request[r] = Creation!Idle
           /\ request[r] # Creation!Idle => request[r].doc \in Creation!Documents
           /\ Creates(r) => request[r] \in Creations
           /\ request[r].at = "deleting" => request[r] \in Deletions
           /\ request[r].at = "seeding" => request[r] \in Seedings
           /\ request[r].at \in {"idle", "copying", "saving", "deleting", "seeding"}
<1>1. request[r] \in {Creation!Idle} \cup Creations \cup Deletions \cup Seedings
  BY DEF CreationTyped
<1>2. CASE request[r] = Creation!Idle
  BY <1>2 DEF Creation!Idle, Creates
<1>3. CASE request[r] \in Creations
  BY <1>3 DEF Creations, Creation!Idle, Creates
<1>4. CASE request[r] \in Deletions
  BY <1>4 DEF Deletions, Creation!Idle, Creates
<1>5. CASE request[r] \in Seedings
  BY <1>5 DEF Seedings, Creation!Idle, Creates
<1> QED BY <1>1, <1>2, <1>3, <1>4, <1>5

\* The type invariant of DocumentCreation.
LEMMA CreationTypeOK == CreationTyped => Creation!TypeOK
<1> SUFFICES ASSUME CreationTyped PROVE Creation!TypeOK
  OBVIOUS
<1>1. ASSUME NEW d \in Creation!Documents, NEW i \in DOMAIN configs[d]
      PROVE  configs[d][i].design \in Designs \cup {Creation!Default}
  <2>1. configs[d] \in Seq(ConfigDocuments)
    BY DEF CreationTyped
  <2>2. configs[d][i] \in ConfigDocuments
    BY <2>1
  <2> QED BY <2>2 DEF ConfigDocuments
<1>2. \A r \in Requests : request[r].at \in {"idle", "copying", "saving", "deleting", "seeding"}
  BY CreationInHand
<1> QED BY <1>1, <1>2 DEF CreationTyped, Creation!TypeOK

-----------------------------------------------------------------------------
\* Then of each operation that it keeps the types.
LEMMA SaveTyped ==
    ASSUME CreationTyped, NEW d \in Creation!Documents, NEW parts \in SUBSET Creation!Parts,
           NEW media \in SUBSET (Creation!Media \X Creation!Places), NEW cs \in Seq(ConfigDocuments),
           Creation!Save(d, parts, media, cs)
    PROVE  /\ status' \in [Creation!Documents -> Creation!Statuses] /\ env' \in [Creation!Documents -> SUBSET Creation!Parts]
           /\ files' \in [Creation!Documents -> SUBSET (Creation!Media \X Creation!Places)]
           /\ configs' \in [Creation!Documents -> Seq(ConfigDocuments)] /\ upis' \subseteq PassportIds
BY DEF CreationTyped, Creation!Save, Creation!Statuses

LEMMA CreationBegins ==
    ASSUME Creation!CreationAssumption, CreationTyped, Creation!Begin
    PROVE  steps' \in 0..MaxSteps
BY DEF Creation!CreationAssumption, CreationTyped, Creation!Begin

LEMMA LoadTemplateTyped ==
    ASSUME Creation!CreationAssumption, CreationTyped, NEW r \in Requests, NEW t \in TemplateIds,
           NEW p \in PassportIds,
           Creation!LoadTemplate(r, t, p)
    PROVE  CreationTyped'
<1>1. [at |-> "copying", doc |-> p, from |-> t, env |-> env[t], files |-> files[t]] \in Creations
  BY DEF CreationTyped, Creations, Creation!Documents
<1>2. request' \in [Requests -> {Creation!Idle} \cup Creations \cup Deletions \cup Seedings]
  BY <1>1 DEF Creation!LoadTemplate, CreationTyped
<1>3. steps' \in 0..MaxSteps
  BY CreationBegins DEF Creation!LoadTemplate
<1> QED BY <1>2, <1>3 DEF Creation!LoadTemplate, CreationTyped

LEMMA CopyEnvironmentTyped ==
    ASSUME CreationTyped, NEW r \in Requests, Creation!CopyEnvironment(r)
    PROVE  CreationTyped'
<1> DEFINE q == request[r]
           copy == Creation!Copy(q.env, q.doc)
<1>1. q \in Creations
  BY CreationInHand DEF Creation!CopyEnvironment, Creates
<1>2. copy \in SUBSET Creation!Parts
  BY <1>1, Copies DEF Creations
<1> HIDE DEF copy
<1>3. [q EXCEPT !.at = "saving", !.env = copy] \in Creations
  BY <1>1, <1>2 DEF Creations
<1>4. request' = [request EXCEPT ![r] = [q EXCEPT !.at = "saving", !.env = copy]]
  BY DEF Creation!CopyEnvironment, copy, CreationTyped
<1>5. request' \in [Requests -> {Creation!Idle} \cup Creations \cup Deletions \cup Seedings]
  BY <1>3, <1>4 DEF CreationTyped
<1>6. stored' \subseteq Creation!Parts
  BY <1>2 DEF Creation!CopyEnvironment, copy, Creation!Own, CreationTyped
<1> QED BY <1>5, <1>6 DEF Creation!CopyEnvironment, CreationTyped

LEMMA CreateEnvironmentTyped ==
    ASSUME Creation!CreationAssumption, CreationTyped, NEW r \in Requests, NEW d \in Creation!Documents,
           Creation!CreateEnvironment(r, d)
    PROVE  CreationTyped'
<1>1. Creation!Part("shell", d) \in Creation!Parts
  BY PartsOf
<1>2. [at |-> "saving", doc |-> d, from |-> d, env |-> {Creation!Part("shell", d)}, files |-> {}]
        \in Creations
  BY <1>1 DEF Creations
<1>3. request' \in [Requests -> {Creation!Idle} \cup Creations \cup Deletions \cup Seedings]
  BY <1>2 DEF Creation!CreateEnvironment, CreationTyped
<1>4. steps' \in 0..MaxSteps
  BY CreationBegins DEF Creation!CreateEnvironment
<1> QED BY <1>1, <1>3, <1>4 DEF Creation!CreateEnvironment, CreationTyped

\* Of a template, with the default where there is none.
LEMMA SnapshotsMade ==
    ASSUME CreationTyped, NEW from \in Creation!Documents
    PROVE  /\ Creation!SnapshotTemplateConfigs(from) \in Seq(ConfigDocuments)
           /\ \A i \in DOMAIN Creation!SnapshotTemplateConfigs(from) :
                ~Creation!SnapshotTemplateConfigs(from)[i].seeded
<1>1. configs[from] \in Seq(ConfigDocuments)
  BY DEF CreationTyped
<1>2. \A i \in DOMAIN configs[from] : Creation!Config(configs[from][i].design, FALSE) \in ConfigDocuments
  <2> TAKE i \in DOMAIN configs[from]
  <2>1. configs[from][i] \in ConfigDocuments
    BY <1>1
  <2> QED BY <2>1 DEF Creation!Config, ConfigDocuments
<1>3. Creation!SnapshotTemplateConfigs(from) \in [1..Len(configs[from]) -> ConfigDocuments]
  <2>1. DOMAIN configs[from] = 1..Len(configs[from])
    BY <1>1
  <2> QED BY <1>2, <2>1 DEF Creation!SnapshotTemplateConfigs
<1>4. Creation!SnapshotTemplateConfigs(from) \in Seq(ConfigDocuments)
  BY <1>1, <1>3, SeqDef
<1>5. \A i \in DOMAIN Creation!SnapshotTemplateConfigs(from) :
        ~Creation!SnapshotTemplateConfigs(from)[i].seeded
  BY DEF Creation!SnapshotTemplateConfigs, Creation!Config
<1> QED BY <1>4, <1>5

LEMMA SavesTyped ==
    ASSUME CreationTyped, NEW r \in Requests, Creation!SavePassport(r) \/ Creation!SaveTemplate(r)
    PROVE  CreationTyped'
<1> DEFINE q == request[r]
           cs == Creation!Linked(Creation!WithDefault(Creation!SnapshotTemplateConfigs(q.from)))
<1>1. q \in Creations
  BY CreationInHand DEF Creation!SavePassport, Creation!SaveTemplate, Creates
<1>2. cs \in Seq(ConfigDocuments)
  <2>1. Creation!SnapshotTemplateConfigs(q.from) \in Seq(ConfigDocuments)
    BY <1>1, SnapshotsMade DEF Creations
  <2>2. Creation!WithDefault(Creation!SnapshotTemplateConfigs(q.from)) \in Seq(ConfigDocuments)
    BY <2>1, ConfigurationsMade
  <2>3. Creation!Linked(Creation!WithDefault(Creation!SnapshotTemplateConfigs(q.from))) \in Seq(ConfigDocuments)
    BY <2>2, ConfigurationsMade
  <2> QED BY <2>3
<1>3. /\ q.doc \in Creation!Documents /\ q.env \in SUBSET Creation!Parts
      /\ q.files \in SUBSET (Creation!Media \X Creation!Places)
  BY <1>1 DEF Creations
<1>4. Creation!Save(q.doc, q.env, q.files, cs) \/ Creation!Save(q.doc, q.env, q.files, <<>>)
  BY DEF Creation!SavePassport, Creation!SaveTemplate
<1> HIDE DEF cs
<1>5. PICK c \in Seq(ConfigDocuments) : Creation!Save(q.doc, q.env, q.files, c)
  <2>1. <<>> \in Seq(ConfigDocuments)
    OBVIOUS
  <2> QED BY <1>2, <1>4, <2>1
<1>6. /\ status' \in [Creation!Documents -> Creation!Statuses] /\ env' \in [Creation!Documents -> SUBSET Creation!Parts]
      /\ files' \in [Creation!Documents -> SUBSET (Creation!Media \X Creation!Places)]
      /\ configs' \in [Creation!Documents -> Seq(ConfigDocuments)] /\ upis' \subseteq PassportIds
  BY <1>3, <1>5, SaveTyped
<1>7. /\ request' \in [Requests -> {Creation!Idle} \cup Creations \cup Deletions \cup Seedings]
      /\ UNCHANGED <<stored, broken, steps>>
  BY DEF Creation!SavePassport, Creation!SaveTemplate, CreationTyped
<1> QED BY <1>6, <1>7 DEF CreationTyped

LEMMA BreakOffTyped ==
    ASSUME CreationTyped, NEW r \in Requests, Creation!BreakOff(r)
    PROVE  CreationTyped'
<1>1. request[r].doc \in Creation!Documents
  BY CreationInHand DEF Creation!BreakOff
<1> QED BY <1>1 DEF Creation!BreakOff, CreationTyped

LEMMA ImportTyped ==
    ASSUME Creation!CreationAssumption, CreationTyped, NEW d \in Creation!Documents,
           NEW f \in SUBSET (Creation!Media \X Creation!Places),
           NEW imported \in {<<>>} \cup {<<x>> : x \in Designs}, Creation!ImportEntity(d, f, imported)
    PROVE  CreationTyped'
<1> DEFINE parts == {Creation!Part(kind, d) : kind \in {"shell", "submodel", "concept"}}
           cs == [i \in DOMAIN imported |-> Creation!Config(imported[i], FALSE)]
<1>1. parts \in SUBSET Creation!Parts
  BY PartsOf
<1>2. Creation!ImportedConfigs(d, cs) \in Seq(ConfigDocuments)
  <2>1. cs \in Seq(ConfigDocuments)
    BY ImportedMade
  <2> HIDE DEF cs
  <2>2. Creation!WithDefault(cs) \in Seq(ConfigDocuments)
    BY <2>1, ConfigurationsMade
  <2>3. Creation!Linked(Creation!WithDefault(cs)) \in Seq(ConfigDocuments)
    BY <2>2, ConfigurationsMade
  <2> QED BY <2>1, <2>3 DEF Creation!ImportedConfigs
<1>3. Creation!WithNullifiedForeignFileValues(f) \in SUBSET (Creation!Media \X Creation!Places)
  BY DEF Creation!WithNullifiedForeignFileValues
<1>4. /\ Creation!Begin /\ stored' = stored \cup parts /\ UNCHANGED <<request, broken>>
      /\ Creation!Save(d, parts, Creation!WithNullifiedForeignFileValues(f), Creation!ImportedConfigs(d, cs))
  BY DEF Creation!ImportEntity
<1> HIDE DEF parts, cs
<1>5. /\ status' \in [Creation!Documents -> Creation!Statuses] /\ env' \in [Creation!Documents -> SUBSET Creation!Parts]
      /\ files' \in [Creation!Documents -> SUBSET (Creation!Media \X Creation!Places)]
      /\ configs' \in [Creation!Documents -> Seq(ConfigDocuments)] /\ upis' \subseteq PassportIds
  BY <1>1, <1>2, <1>3, <1>4, SaveTyped
<1>6. steps' \in 0..MaxSteps
  BY <1>4, CreationBegins
<1> QED BY <1>1, <1>4, <1>5, <1>6 DEF CreationTyped

LEMMA DeletionTyped ==
    ASSUME Creation!CreationAssumption, CreationTyped, NEW r \in Requests
    PROVE  /\ \A d \in Creation!Documents : Creation!LoadForDeletion(r, d) => CreationTyped'
           /\ Creation!DeleteDocument(r) => CreationTyped'
<1>1. ASSUME NEW d \in Creation!Documents, Creation!LoadForDeletion(r, d)
      PROVE  CreationTyped'
  <2>1. [at |-> "deleting", doc |-> d, env |-> env[d]] \in Deletions
    BY DEF CreationTyped, Deletions
  <2>2. request' \in [Requests -> {Creation!Idle} \cup Creations \cup Deletions \cup Seedings]
    BY <1>1, <2>1 DEF Creation!LoadForDeletion, CreationTyped
  <2>3. steps' \in 0..MaxSteps
    BY <1>1, CreationBegins DEF Creation!LoadForDeletion
  <2> QED BY <1>1, <2>2, <2>3 DEF Creation!LoadForDeletion, CreationTyped
<1>2. ASSUME Creation!DeleteDocument(r)
      PROVE  CreationTyped'
  <2>1. request[r].doc \in Creation!Documents
    BY <1>2, CreationInHand DEF Creation!DeleteDocument, Deletions
  <2>2. <<>> \in Seq(ConfigDocuments) /\ {} \in SUBSET (Creation!Media \X Creation!Places)
    OBVIOUS
  <2> QED BY <1>2, <2>1, <2>2 DEF Creation!DeleteDocument, Creation!DeleteConfigs, Creation!DeleteEnvironment,
                                 CreationTyped, Creation!Statuses
<1> QED BY <1>1, <1>2

\* A document that is there stays there when its status changes.
LEMMA StatusChanged ==
    ASSUME NEW d \in Creation!Documents, Creation!ChangeStatus(d)
    PROVE  /\ status[d] # "absent"
           /\ \E to \in {"draft", "published", "archived draft", "archived published"} :
                status' = [status EXCEPT ![d] = to]
<1>1. PICK change \in {<<"draft", "published">>, <<"draft", "archived draft">>,
          <<"published", "archived published">>,
          <<"archived draft", "draft">>, <<"archived published", "published">>} :
        status[d] = change[1] /\ status' = [status EXCEPT ![d] = change[2]]
  BY DEF Creation!ChangeStatus
<1>2. ASSUME NEW from \in {"draft", "published", "archived draft", "archived published"},
             NEW to \in {"draft", "published", "archived draft", "archived published"},
             change = <<from, to>>
      PROVE  /\ status[d] # "absent"
             /\ \E x \in {"draft", "published", "archived draft", "archived published"} :
                  status' = [status EXCEPT ![d] = x]
  <2>1. change[1] = from /\ change[2] = to
    BY <1>2
  <2> QED BY <1>1, <2>1
<1> QED BY <1>2

LEMMA OthersTyped ==
    ASSUME Creation!CreationAssumption, CreationTyped, NEW d \in Creation!Documents
    PROVE  /\ Creation!ChangeStatus(d) => CreationTyped'
           /\ \A design \in Designs : Creation!CreateConfig(d, design) => CreationTyped'
           /\ \A i \in 1..MaxSteps : Creation!DeleteConfig(d, i) => CreationTyped'
           /\ \A r \in Requests : Creation!ReadConfigs(r, d) => CreationTyped'
<1>1. ASSUME Creation!ChangeStatus(d)
      PROVE  CreationTyped'
  <2>1. status' \in [Creation!Documents -> Creation!Statuses]
    <3>1. PICK to \in {"draft", "published", "archived draft", "archived published"} :
            status' = [status EXCEPT ![d] = to]
      BY <1>1, StatusChanged
    <3>2. to \in Creation!Statuses
      BY DEF Creation!Statuses, Creation!Archived
    <3> QED BY <3>1, <3>2 DEF CreationTyped
  <2>2. steps' \in 0..MaxSteps
    BY <1>1, CreationBegins DEF Creation!ChangeStatus
  <2> QED BY <1>1, <2>1, <2>2 DEF Creation!ChangeStatus, CreationTyped
<1>2. configs[d] \in Seq(ConfigDocuments)
  BY DEF CreationTyped
<1>3. ASSUME NEW design \in Designs, Creation!CreateConfig(d, design)
      PROVE  CreationTyped'
  <2>1. Creation!Config(design, FALSE) \in ConfigDocuments
    BY DEF Creation!Config, ConfigDocuments
  <2>2. Append(configs[d], Creation!Config(design, FALSE)) \in Seq(ConfigDocuments)
    BY <1>2, <2>1, AppendProperties
  <2>3. steps' \in 0..MaxSteps
    BY <1>3, CreationBegins DEF Creation!CreateConfig
  <2> QED BY <1>3, <2>2, <2>3 DEF Creation!CreateConfig, CreationTyped
<1>4. ASSUME NEW i \in 1..MaxSteps, Creation!DeleteConfig(d, i)
      PROVE  CreationTyped'
  <2>1. i \in DOMAIN configs[d]
    BY <1>4 DEF Creation!DeleteConfig
  <2>3. Creation!RemoveAt(configs[d], i) \in Seq(ConfigDocuments)
    BY <1>2, <2>1, RemovedAt
  <2>4. steps' \in 0..MaxSteps
    BY <1>4, CreationBegins DEF Creation!DeleteConfig
  <2> QED BY <1>4, <2>3, <2>4 DEF Creation!DeleteConfig, CreationTyped
<1>5. ASSUME NEW r \in Requests, Creation!ReadConfigs(r, d)
      PROVE  CreationTyped'
  <2>1. [at |-> "seeding", doc |-> d] \in Seedings
    BY DEF Seedings
  <2>2. request' \in [Requests -> {Creation!Idle} \cup Creations \cup Deletions \cup Seedings]
    BY <1>5, <2>1 DEF Creation!ReadConfigs, CreationTyped
  <2>3. steps' \in 0..MaxSteps
    BY <1>5, CreationBegins DEF Creation!ReadConfigs
  <2> QED BY <1>5, <2>2, <2>3 DEF Creation!ReadConfigs, CreationTyped
<1> QED BY <1>1, <1>3, <1>4, <1>5

LEMMA SeedTyped ==
    ASSUME CreationTyped, NEW r \in Requests, Creation!SeedConfig(r)
    PROVE  CreationTyped'
<1>1. request[r].doc \in Creation!Documents
  BY CreationInHand DEF Creation!SeedConfig, Seedings
<1>2. Creation!Config(Creation!Default, TRUE) \in ConfigDocuments
  BY DEF Creation!Config, ConfigDocuments
<1>3. Append(configs[request[r].doc], Creation!Config(Creation!Default, TRUE)) \in Seq(ConfigDocuments)
  <2>1. configs[request[r].doc] \in Seq(ConfigDocuments)
    BY <1>1 DEF CreationTyped
  <2> QED BY <1>2, <2>1, AppendProperties
<1> QED BY <1>1, <1>3 DEF Creation!SeedConfig, CreationTyped

-----------------------------------------------------------------------------
\* Of each operation that it keeps the invariant.
LEMMA LoadTemplateStep ==
    ASSUME Creation!CreationAssumption, CreationInv, NEW r \in Requests,
           NEW t \in TemplateIds,
           NEW p \in PassportIds, Creation!LoadTemplate(r, t, p)
    PROVE  CreationInv'
<1> USE DEF CreationInv
<1>1. CreationTyped'
  BY LoadTemplateTyped
<1>2. /\ p \in Creation!Documents /\ status[p] = "absent"
      /\ \A s \in Requests : request[s] # Creation!Idle => request[s].doc # p
      /\ request[r] = Creation!Idle /\ UNCHANGED <<status, env, stored, broken>>
  BY DEF Creation!LoadTemplate, Creation!Fresh, Creation!Documents
<1>3. /\ request'[r].at = "copying" /\ request'[r].doc = p /\ request'[r] # Creation!Idle
      /\ \A s \in Requests \ {r} : request'[s] = request[s]
  BY DEF Creation!LoadTemplate, Creation!Idle, CreationTyped
<1>4. OwnPartsOnly' /\ Creation!ShellsAndSubmodelsResolve'
  BY <1>2 DEF OwnPartsOnly, Creation!ShellsAndSubmodelsResolve, Creation!Own, Creation!Concepts, Creation!Present
<1>5. CreatedAlone'
  <2>1. \A s \in Requests \ {r} : Creates(s)' = Creates(s) /\ (Creates(s) => request[s] # Creation!Idle)
    BY <1>3 DEF Creates, Creation!Idle
  <2>2. ASSUME NEW s \in Requests, Creates(s)'
        PROVE  /\ status'[request'[s].doc] = "absent"
               /\ \A u \in Requests \ {s} :
                      request'[u] # Creation!Idle => request'[u].doc # request'[s].doc
    <3>1. CASE s = r
      BY <1>2, <1>3, <3>1
    <3>2. CASE s # r
      BY <1>2, <1>3, <2>1, <2>2, <3>2 DEF CreatedAlone
    <3> QED BY <3>1, <3>2
  <2> QED BY <2>2 DEF CreatedAlone
<1>6. RequestsKnow'
  BY <1>2, <1>3 DEF RequestsKnow, Creation!Own, Creation!Concepts
<1>7. Accounted'
  BY <1>2, <1>3 DEF Accounted, Creation!Own, Creation!Concepts, Creation!Present, Creation!Idle
<1> QED BY <1>1, <1>4, <1>5, <1>6, <1>7

LEMMA CopyEnvironmentStep ==
    ASSUME CreationInv, NEW r \in Requests, Creation!CopyEnvironment(r)
    PROVE  CreationInv'
<1> USE DEF CreationInv
<1> DEFINE copy == Creation!Copy(request[r].env, request[r].doc)
<1>1. CreationTyped'
  BY CopyEnvironmentTyped
<1>2. request[r] \in Creations /\ request[r].at = "copying"
  BY CreationInHand DEF Creation!CopyEnvironment, Creates
<1>3. \A q \in Creation!Own(copy) : q.of = request[r].doc
  BY <1>2, Copies DEF Creations
<1>4. stored' = stored \cup Creation!Own(copy) /\ UNCHANGED <<status, env, broken>>
  BY DEF Creation!CopyEnvironment
<1>5. /\ request'[r].at = "saving" /\ request'[r].doc = request[r].doc
      /\ request'[r].env = copy /\ request'[r] # Creation!Idle
      /\ \A s \in Requests \ {r} : request'[s] = request[s]
  BY <1>2 DEF Creation!CopyEnvironment, CreationTyped, Creations, Creation!Idle
<1> HIDE DEF copy
<1>6. OwnPartsOnly' /\ Creation!ShellsAndSubmodelsResolve'
  BY <1>4 DEF OwnPartsOnly, Creation!ShellsAndSubmodelsResolve, Creation!Own, Creation!Concepts, Creation!Present
<1>7. CreatedAlone'
  BY <1>2, <1>4, <1>5 DEF CreatedAlone, Creates, Creation!Idle
<1>8. RequestsKnow'
  BY <1>3, <1>4, <1>5 DEF RequestsKnow, Creation!Own, Creation!Concepts
<1>9. Accounted'
  BY <1>2, <1>3, <1>4, <1>5 DEF Accounted, Creation!Own, Creation!Concepts, Creation!Present
<1> QED BY <1>1, <1>6, <1>7, <1>8, <1>9

LEMMA CreateEnvironmentStep ==
    ASSUME Creation!CreationAssumption, CreationInv, NEW r \in Requests, NEW d \in Creation!Documents,
           Creation!CreateEnvironment(r, d)
    PROVE  CreationInv'
<1> USE DEF CreationInv
<1>1. CreationTyped'
  BY CreateEnvironmentTyped
<1>2. /\ status[d] = "absent" /\ stored' = stored \cup {Creation!Part("shell", d)}
      /\ \A s \in Requests : request[s] # Creation!Idle => request[s].doc # d
      /\ request[r] = Creation!Idle /\ UNCHANGED <<status, env, broken>>
  BY DEF Creation!CreateEnvironment, Creation!Fresh
<1>3. /\ request'[r].at = "saving" /\ request'[r].doc = d /\ request'[r] # Creation!Idle
      /\ request'[r].env = {Creation!Part("shell", d)}
      /\ \A s \in Requests \ {r} : request'[s] = request[s]
  BY DEF Creation!CreateEnvironment, Creation!Idle, CreationTyped
<1>4. OwnPartsOnly' /\ Creation!ShellsAndSubmodelsResolve'
  BY <1>2 DEF OwnPartsOnly, Creation!ShellsAndSubmodelsResolve, Creation!Own, Creation!Concepts, Creation!Present
<1>5. CreatedAlone'
  <2>1. \A s \in Requests \ {r} : Creates(s)' = Creates(s) /\ (Creates(s) => request[s] # Creation!Idle)
    BY <1>3 DEF Creates, Creation!Idle
  <2>2. ASSUME NEW s \in Requests, Creates(s)'
        PROVE  /\ status'[request'[s].doc] = "absent"
               /\ \A u \in Requests \ {s} :
                      request'[u] # Creation!Idle => request'[u].doc # request'[s].doc
    <3>1. CASE s = r
      BY <1>2, <1>3, <3>1
    <3>2. CASE s # r
      BY <1>2, <1>3, <2>1, <2>2, <3>2 DEF CreatedAlone
    <3> QED BY <3>1, <3>2
  <2> QED BY <2>2 DEF CreatedAlone
<1>6. RequestsKnow'
  BY <1>2, <1>3, PartsOf DEF RequestsKnow, Creation!Own, Creation!Concepts
<1>7. Accounted'
  BY <1>2, <1>3, PartsOf DEF Accounted, Creation!Own, Creation!Concepts, Creation!Present, Creation!Idle
<1> QED BY <1>1, <1>4, <1>5, <1>6, <1>7

LEMMA SavesStep ==
    ASSUME CreationInv, NEW r \in Requests, Creation!SavePassport(r) \/ Creation!SaveTemplate(r)
    PROVE  CreationInv'
<1> USE DEF CreationInv
<1> DEFINE d == request[r].doc
<1>1. CreationTyped'
  BY SavesTyped
<1>2. request[r] \in Creations /\ request[r].at = "saving" /\ Creates(r)
  BY CreationInHand DEF Creation!SavePassport, Creation!SaveTemplate, Creates
<1>3. d \in Creation!Documents
  BY <1>2 DEF Creations
<1>4. /\ status' = [status EXCEPT ![d] = "draft"] /\ env' = [env EXCEPT ![d] = request[r].env]
      /\ request' = [request EXCEPT ![r] = Creation!Idle] /\ UNCHANGED <<stored, broken>>
  BY DEF Creation!SavePassport, Creation!SaveTemplate, Creation!Save
<1>5. /\ status'[d] = "draft" /\ env'[d] = request[r].env /\ request'[r] = Creation!Idle
      /\ \A e \in Creation!Documents \ {d} : status'[e] = status[e] /\ env'[e] = env[e]
      /\ \A s \in Requests \ {r} : request'[s] = request[s]
  BY <1>3, <1>4 DEF CreationTyped
<1>6. \A s \in Requests \ {r} : request[s] # Creation!Idle => request[s].doc # d
  BY <1>2 DEF CreatedAlone
<1>7. \A p \in Creation!Own(request[r].env) : p.of = d /\ p \in stored
  BY <1>2 DEF RequestsKnow
<1> HIDE DEF d
<1>8. OwnPartsOnly'
  BY <1>5, <1>7 DEF OwnPartsOnly, Creation!Own, Creation!Concepts
<1>9. Creation!ShellsAndSubmodelsResolve'
  BY <1>4, <1>5, <1>7 DEF Creation!ShellsAndSubmodelsResolve, Creation!Own, Creation!Concepts, Creation!Present
<1>10. CreatedAlone'
  BY <1>3, <1>5, <1>6, CreationInHand DEF CreatedAlone, Creates, Creation!Idle
<1>11. RequestsKnow'
  BY <1>4, <1>5, <1>6, CreationInHand DEF RequestsKnow, Creation!Own, Creation!Concepts, Creation!Idle
<1>12. Accounted'
  <2> SUFFICES ASSUME NEW p \in Creation!Own(stored)
               PROVE  \/ p.of \in Creation!Present' /\ p \in env'[p.of]
                      \/ p.of \in broken
                      \/ \E s \in Requests : request'[s].at = "saving"
                            /\ request'[s].doc = p.of /\ p \in request'[s].env
    BY <1>4 DEF Accounted, Creation!Own, Creation!Concepts
  <2>1. CASE p.of \in Creation!Present /\ p \in env[p.of]
    <3>1. p.of # d
      BY <1>2, <2>1 DEF CreatedAlone, Creation!Present, d
    <3> QED BY <1>5, <2>1, <3>1 DEF Creation!Present
  <2>2. ASSUME NEW s \in Requests, request[s].at = "saving", request[s].doc = p.of,
               p \in request[s].env
        PROVE  \/ p.of \in Creation!Present' /\ p \in env'[p.of]
               \/ request'[s].at = "saving" /\ request'[s].doc = p.of /\ p \in request'[s].env
    <3>1. CASE s = r
      BY <1>3, <1>5, <2>2, <3>1 DEF Creation!Present, d
    <3>2. CASE s # r
      BY <1>5, <2>2, <3>2
    <3> QED BY <3>1, <3>2
  <2> QED BY <2>1, <2>2 DEF Accounted
<1> QED BY <1>1, <1>8, <1>9, <1>10, <1>11, <1>12

LEMMA BreakOffStep ==
    ASSUME CreationInv, NEW r \in Requests, Creation!BreakOff(r)
    PROVE  CreationInv'
<1> USE DEF CreationInv
<1>1. CreationTyped'
  BY BreakOffTyped
<1>2. /\ request'[r] = Creation!Idle /\ \A s \in Requests \ {r} : request'[s] = request[s]
      /\ UNCHANGED <<status, env, stored>> /\ broken \subseteq broken'
      /\ request[r].at = "saving" => request[r].doc \in broken'
  BY DEF Creation!BreakOff, CreationTyped
<1>3. OwnPartsOnly' /\ Creation!ShellsAndSubmodelsResolve'
  BY <1>2 DEF OwnPartsOnly, Creation!ShellsAndSubmodelsResolve, Creation!Own, Creation!Concepts, Creation!Present
<1>4. CreatedAlone'
  BY <1>2 DEF CreatedAlone, Creates, Creation!Idle
<1>5. RequestsKnow'
  BY <1>2 DEF RequestsKnow, Creation!Own, Creation!Concepts, Creation!Idle
<1>6. Accounted'
  BY <1>2 DEF Accounted, Creation!Own, Creation!Concepts, Creation!Present
<1> QED BY <1>1, <1>3, <1>4, <1>5, <1>6

LEMMA ImportStep ==
    ASSUME Creation!CreationAssumption, CreationInv, NEW d \in Creation!Documents,
           NEW f \in SUBSET (Creation!Media \X Creation!Places),
           NEW imported \in {<<>>} \cup {<<x>> : x \in Designs}, Creation!ImportEntity(d, f, imported)
    PROVE  CreationInv'
<1> USE DEF CreationInv
<1> DEFINE parts == {Creation!Part(kind, d) : kind \in {"shell", "submodel", "concept"}}
<1>1. CreationTyped'
  BY ImportTyped
<1>2. /\ status' = [status EXCEPT ![d] = "draft"] /\ env' = [env EXCEPT ![d] = parts]
      /\ stored' = stored \cup parts /\ UNCHANGED <<request, broken>>
      /\ \A s \in Requests : request[s] # Creation!Idle => request[s].doc # d
  BY DEF Creation!ImportEntity, Creation!Save, Creation!Fresh
<1>3. \A p \in parts : p.of = d
  BY PartsOf
<1> HIDE DEF parts
<1>10. status[d] = "absent"
  BY DEF Creation!ImportEntity, Creation!Fresh
<1>4. /\ status'[d] = "draft" /\ env'[d] = parts
      /\ \A e \in Creation!Documents \ {d} : status'[e] = status[e] /\ env'[e] = env[e]
  BY <1>2 DEF CreationTyped
<1>5. OwnPartsOnly'
  BY <1>3, <1>4 DEF OwnPartsOnly, Creation!Own, Creation!Concepts
<1>6. Creation!ShellsAndSubmodelsResolve'
  BY <1>2, <1>4 DEF Creation!ShellsAndSubmodelsResolve, Creation!Own, Creation!Concepts, Creation!Present
<1>7. CreatedAlone'
  BY <1>2, <1>4, CreationInHand DEF CreatedAlone, Creates, Creation!Idle
<1>8. RequestsKnow'
  BY <1>2, <1>4, CreationInHand DEF RequestsKnow, Creation!Own, Creation!Concepts, Creation!Idle
<1>9. Accounted'
  <2> SUFFICES ASSUME NEW p \in Creation!Own(stored) \cup parts
               PROVE  \/ p.of \in Creation!Present' /\ p \in env'[p.of]
                      \/ p.of \in broken
                      \/ \E s \in Requests : request[s].at = "saving"
                            /\ request[s].doc = p.of /\ p \in request[s].env
    BY <1>2 DEF Accounted, Creation!Own, Creation!Concepts
  <2>1. CASE p \in parts
    BY <1>3, <1>4, <2>1 DEF Creation!Present
  <2>2. CASE p \in Creation!Own(stored) /\ p.of \in Creation!Present /\ p \in env[p.of]
    BY <1>4, <1>10, <2>2 DEF Creation!Present
  <2> QED BY <2>1, <2>2 DEF Accounted
<1> QED BY <1>1, <1>5, <1>6, <1>7, <1>8, <1>9

LEMMA DeleteDocumentStep ==
    ASSUME CreationInv, NEW r \in Requests, Creation!DeleteDocument(r), CreationTyped'
    PROVE  CreationInv'
<1> USE DEF CreationInv
<1> DEFINE d == request[r].doc
<1>1. request[r] \in Deletions /\ request[r].at = "deleting" /\ request[r] # Creation!Idle
  BY CreationInHand DEF Creation!DeleteDocument, Creation!Idle
<1>2. d \in Creation!Documents /\ request[r].env = env[d]
  BY <1>1 DEF Deletions, RequestsKnow
<1>3. /\ stored' = stored \ env[d] /\ UNCHANGED <<env, broken>>
      /\ status' = [status EXCEPT ![d] = "absent"] /\ request' = [request EXCEPT ![r] = Creation!Idle]
  BY <1>2 DEF Creation!DeleteDocument, Creation!DeleteEnvironment
<1>4. /\ status'[d] = "absent" /\ \A e \in Creation!Documents \ {d} : status'[e] = status[e]
      /\ request'[r] = Creation!Idle /\ \A s \in Requests \ {r} : request'[s] = request[s]
  BY <1>2, <1>3 DEF CreationTyped
<1>5. \A s \in Requests : Creates(s) => request[s].doc # d
  BY <1>1 DEF CreatedAlone, Creates
<1>6. \A p \in Creation!Own(env[d]) : p.of = d
  BY <1>2 DEF OwnPartsOnly
<1> HIDE DEF d
<1>7. OwnPartsOnly'
  BY <1>3 DEF OwnPartsOnly, Creation!Own, Creation!Concepts
<1>8. Creation!ShellsAndSubmodelsResolve'
  BY <1>3, <1>4, <1>6 DEF Creation!ShellsAndSubmodelsResolve, OwnPartsOnly, Creation!Own, Creation!Concepts, Creation!Present
<1>9. CreatedAlone'
  BY <1>4, <1>5, CreationInHand DEF CreatedAlone, Creates, Creations, Creation!Idle
<1>10. RequestsKnow'
  BY <1>3, <1>4, <1>5, <1>6 DEF RequestsKnow, Creation!Own, Creation!Concepts, Creation!Idle, Creates
<1>11. Accounted'
  BY <1>1, <1>3, <1>4, <1>6 DEF Accounted, Creation!Own, Creation!Concepts, Creation!Present
<1> QED BY <1>7, <1>8, <1>9, <1>10, <1>11

\* Requests begun, and what stays within a document that is there.
LEMMA OthersStep ==
    ASSUME Creation!CreationAssumption, CreationInv, NEW d \in Creation!Documents, CreationTyped',
           UNCHANGED <<env, stored, broken>>,
           \A e \in Creation!Documents : status'[e] = "absent" <=> status[e] = "absent",
           \A s \in Requests :
            \/ request'[s] = request[s]
            \/ request'[s] = Creation!Idle /\ request[s].at = "seeding"
            \/ /\ request[s] = Creation!Idle /\ status[d] # "absent"
               /\ \/ request'[s] = [at |-> "seeding", doc |-> d]
                  \/ request'[s] = [at |-> "deleting", doc |-> d, env |-> env[d]]
    PROVE  CreationInv'
<1> USE DEF CreationInv
<1>1. OwnPartsOnly'
  BY DEF OwnPartsOnly, Creation!Own, Creation!Concepts
<1>2. Creation!ShellsAndSubmodelsResolve'
  BY DEF Creation!ShellsAndSubmodelsResolve, Creation!Own, Creation!Concepts, Creation!Present
<1>3. \A s \in Requests : Creates(s)' => request'[s] = request[s]
  BY DEF Creates, Creation!Idle
<1>4. CreatedAlone'
  <2>1. ASSUME NEW s \in Requests, Creates(s)'
        PROVE  /\ status'[request'[s].doc] = "absent"
               /\ \A u \in Requests \ {s} :
                      request'[u] # Creation!Idle => request'[u].doc # request'[s].doc
    <3>1. request'[s] = request[s] /\ Creates(s) /\ request[s] # Creation!Idle
      BY <1>3, <2>1 DEF Creates, Creation!Idle
    <3>2. request[s].doc \in Creation!Documents /\ status[request[s].doc] = "absent"
      BY <3>1, CreationInHand DEF CreatedAlone
    <3>3. ASSUME NEW u \in Requests \ {s}, request'[u] # Creation!Idle
          PROVE  request'[u].doc # request[s].doc
      <4>1. CASE request'[u] = request[u]
        BY <3>1, <3>3, <4>1 DEF CreatedAlone
      <4>2. CASE request'[u] # request[u]
        <5>1. request'[u].doc = d /\ status[d] # "absent"
          BY <3>3, <4>2
        <5> QED BY <3>2, <5>1
      <4> QED BY <4>1, <4>2
    <3> QED BY <3>1, <3>2, <3>3
  <2> QED BY <2>1 DEF CreatedAlone
<1>5. RequestsKnow'
  BY DEF RequestsKnow, Creation!Own, Creation!Concepts, Creation!Idle
<1>6. Accounted'
  BY DEF Accounted, Creation!Own, Creation!Concepts, Creation!Present, Creation!Idle
<1> QED BY <1>1, <1>2, <1>4, <1>5, <1>6

\* The operations that take one step.
LEMMA DocumentStep ==
    ASSUME Creation!CreationAssumption, CreationInv, NEW d \in Creation!Documents,
           \/ Creation!ChangeStatus(d) \/ \E design \in Designs : Creation!CreateConfig(d, design)
           \/ \E i \in 1..MaxSteps : Creation!DeleteConfig(d, i)
           \/ \E f \in SUBSET (Creation!Media \X Creation!Places),
                 imported \in {<<>>} \cup {<<x>> : x \in Designs} :
                Creation!ImportEntity(d, f, imported)
    PROVE  CreationInv'
<1> USE DEF CreationInv
<1>1. CASE Creation!ChangeStatus(d)
  <2>1. PICK to \in {"draft", "published", "archived draft", "archived published"} :
            status' = [status EXCEPT ![d] = to]
    BY <1>1, StatusChanged
  <2>2. \A e \in Creation!Documents : status'[e] = "absent" <=> status[e] = "absent"
    BY <1>1, <2>1, StatusChanged DEF CreationTyped
  <2>3. CreationTyped' /\ UNCHANGED <<env, stored, broken, request>>
    BY <1>1, OthersTyped DEF Creation!ChangeStatus
  <2> QED BY <2>2, <2>3, OthersStep
<1>2. ASSUME NEW design \in Designs, Creation!CreateConfig(d, design)
      PROVE  CreationInv'
  <2>1. CreationTyped' /\ UNCHANGED <<env, stored, broken, request, status>>
    BY <1>2, OthersTyped DEF Creation!CreateConfig
  <2> QED BY <2>1, OthersStep
<1>3. ASSUME NEW i \in 1..MaxSteps, Creation!DeleteConfig(d, i)
      PROVE  CreationInv'
  <2>1. CreationTyped' /\ UNCHANGED <<env, stored, broken, request, status>>
    BY <1>3, OthersTyped DEF Creation!DeleteConfig
  <2> QED BY <2>1, OthersStep
<1> QED BY <1>1, <1>2, <1>3, ImportStep

\* The steps of a request.
LEMMA RequestStep ==
    ASSUME Creation!CreationAssumption, CreationInv, NEW r \in Requests,
           \/ \E t \in TemplateIds, p \in PassportIds : Creation!LoadTemplate(r, t, p)
           \/ \E d \in Creation!Documents :
                Creation!CreateEnvironment(r, d) \/ Creation!LoadForDeletion(r, d) \/ Creation!ReadConfigs(r, d)
           \/ Creation!CopyEnvironment(r) \/ Creation!SavePassport(r) \/ Creation!SaveTemplate(r)
           \/ Creation!BreakOff(r) \/ Creation!DeleteDocument(r) \/ Creation!SeedConfig(r)
    PROVE  CreationInv'
<1> USE DEF CreationInv
<1>1. ASSUME NEW d \in Creation!Documents, Creation!LoadForDeletion(r, d)
      PROVE  CreationInv'
  <2>1. CreationTyped'
    BY <1>1, DeletionTyped
  <2>2. \A s \in Requests : request'[s] = request[s] \/
            (request[s] = Creation!Idle /\ request'[s] = [at |-> "deleting", doc |-> d, env |-> env[d]])
    BY <1>1 DEF Creation!LoadForDeletion, CreationTyped
  <2>3. UNCHANGED <<env, stored, broken, status>> /\ status[d] # "absent"
    BY <1>1 DEF Creation!LoadForDeletion
  <2> QED BY <2>1, <2>2, <2>3, OthersStep
<1>2. ASSUME NEW d \in Creation!Documents, Creation!ReadConfigs(r, d)
      PROVE  CreationInv'
  <2>1. CreationTyped'
    BY <1>2, OthersTyped
  <2>2. \A s \in Requests : request'[s] = request[s] \/
            (request[s] = Creation!Idle /\ request'[s] = [at |-> "seeding", doc |-> d])
    BY <1>2 DEF Creation!ReadConfigs, CreationTyped
  <2>3. UNCHANGED <<env, stored, broken, status>> /\ status[d] # "absent"
    BY <1>2 DEF Creation!ReadConfigs
  <2> QED BY <2>1, <2>2, <2>3, OthersStep
<1>3. CASE Creation!SeedConfig(r)
  <2>1. CreationTyped'
    BY <1>3, SeedTyped
  <2>2. \A s \in Requests : request'[s] = request[s] \/
            (request'[s] = Creation!Idle /\ request[s].at = "seeding")
    BY <1>3 DEF Creation!SeedConfig, CreationTyped
  <2>3. UNCHANGED <<env, stored, broken, status>> /\ request[r].doc \in Creation!Documents
    BY <1>3, CreationInHand DEF Creation!SeedConfig, Seedings
  <2> QED BY <2>1, <2>2, <2>3, OthersStep
<1>4. CASE Creation!DeleteDocument(r)
  BY <1>4, DeletionTyped, DeleteDocumentStep
<1>5. ASSUME NEW t \in TemplateIds,
           NEW p \in PassportIds, Creation!LoadTemplate(r, t, p)
      PROVE  CreationInv'
  BY <1>5, LoadTemplateStep
<1>6. ASSUME NEW d \in Creation!Documents, Creation!CreateEnvironment(r, d)
      PROVE  CreationInv'
  BY <1>6, CreateEnvironmentStep
<1>7. CASE Creation!CopyEnvironment(r)
  BY <1>7, CopyEnvironmentStep
<1>8. CASE Creation!SavePassport(r) \/ Creation!SaveTemplate(r)
  BY <1>8, SavesStep
<1>9. CASE Creation!BreakOff(r)
  BY <1>9, BreakOffStep
<1> QED BY <1>1, <1>2, <1>3, <1>4, <1>5, <1>6, <1>7, <1>8, <1>9

LEMMA CreationStep ==
    Creation!CreationAssumption /\ CreationInv /\ [Creation!Next]_(Creation!vars) => CreationInv'
<1>1. Creation!CreationAssumption /\ CreationInv /\ Creation!Next => CreationInv'
  BY RequestStep, DocumentStep DEF Creation!Next
<1>2. CreationInv /\ UNCHANGED Creation!vars => CreationInv'
  BY DEF CreationInv, Creation!vars, CreationTyped, OwnPartsOnly, CreatedAlone, Creates, RequestsKnow,
         Accounted, Creation!ShellsAndSubmodelsResolve, Creation!Present, Creation!Own, Creation!Concepts
<1> QED BY <1>1, <1>2

LEMMA CreationInit ==
    Creation!CreationAssumption /\ Creation!Init => CreationInv
<1> SUFFICES ASSUME Creation!CreationAssumption, Creation!Init PROVE CreationInv
  OBVIOUS
<1>1. <<>> \in Seq(ConfigDocuments)
  OBVIOUS
<1>2. CreationTyped
  BY <1>1 DEF Creation!Init, CreationTyped, Creation!Statuses, Creation!CreationAssumption
<1>3. OwnPartsOnly /\ CreatedAlone /\ RequestsKnow /\ Accounted /\ Creation!ShellsAndSubmodelsResolve
  BY DEF Creation!Init, OwnPartsOnly, CreatedAlone, Creates, RequestsKnow, Accounted,
         Creation!ShellsAndSubmodelsResolve, Creation!Present, Creation!Own, Creation!Concepts, Creation!Idle
<1> QED BY <1>2, <1>3 DEF CreationInv

LEMMA CreationFacts ==
    CreationInv => Creation!TypeOK /\ Creation!ShellsAndSubmodelsResolve /\ Creation!OrphansAreOfBrokenCreations
BY CreationTypeOK DEF CreationInv, Accounted, Creation!OrphansAreOfBrokenCreations

-----------------------------------------------------------------------------
\* A part is stored, or a deleted document referred to it (env keeps what a
\* document had when it was deleted).
StoredOrDeleted(p) ==
    p \in stored \/ \E e \in Creation!Documents : status[e] = "absent" /\ p \in env[e]

\* So it is with all that a document refers to or a creation is about to save;
\* and the document being created refers to nothing yet.
AllAccounted ==
    /\ \A d \in Creation!Documents : \A p \in env[d] : StoredOrDeleted(p)
    /\ \A r \in Requests : Creates(r) =>
        /\ env[request[r].doc] = {}
        /\ \A p \in Creation!Concepts(request[r].env) : StoredOrDeleted(p)

\* Nothing is lost where nothing is removed and the deleted stay as they were.
LEMMA StaysAccounted ==
    ASSUME stored \subseteq stored',
           \A e \in Creation!Documents : status[e] = "absent" /\ env[e] # {} =>
              status'[e] = "absent" /\ env'[e] = env[e],
           NEW p, StoredOrDeleted(p)
    PROVE  StoredOrDeleted(p)'
BY DEF StoredOrDeleted

\* One request stores a part or two; the environments stay.
LEMMA PreparingAccounted ==
    ASSUME Creation!CreationAssumption, CreationInv, AllAccounted, NEW r \in Requests,
           \/ \E t \in TemplateIds, p \in PassportIds : Creation!LoadTemplate(r, t, p)
           \/ \E d \in Creation!Documents : Creation!CreateEnvironment(r, d)
           \/ Creation!CopyEnvironment(r) \/ Creation!BreakOff(r)
    PROVE  AllAccounted'
<1>0. CreationTyped
  BY DEF CreationInv
<1>1. UNCHANGED <<status, env>> /\ stored \subseteq stored'
  BY DEF Creation!LoadTemplate, Creation!CreateEnvironment, Creation!CopyEnvironment,
         Creation!BreakOff
<1>2. \A p : StoredOrDeleted(p) => StoredOrDeleted(p)'
  BY <1>1, StaysAccounted
<1>3. \A s \in Requests \ {r} : request'[s] = request[s]
  BY <1>0 DEF Creation!LoadTemplate, Creation!CreateEnvironment, Creation!CopyEnvironment,
              Creation!BreakOff, CreationTyped
<1>4. ASSUME Creates(r)'
      PROVE  /\ env[request'[r].doc] = {}
             /\ \A p \in Creation!Concepts(request'[r].env) : StoredOrDeleted(p)
  <2>1. ASSUME NEW t \in TemplateIds, NEW p \in PassportIds, Creation!LoadTemplate(r, t, p)
        PROVE  <1>4!2
    <3>1. request'[r].doc = p /\ request'[r].env = env[t] /\ t \in Creation!Documents
      BY <1>0, <2>1 DEF Creation!LoadTemplate, CreationTyped, Creation!Documents
    <3>2. env[p] = {}
      BY <2>1 DEF Creation!LoadTemplate, Creation!Fresh
    <3> QED BY <3>1, <3>2 DEF AllAccounted, Creation!Concepts
  <2>2. ASSUME NEW d \in Creation!Documents, Creation!CreateEnvironment(r, d)
        PROVE  <1>4!2
    <3>1. request'[r].doc = d /\ request'[r].env = {Creation!Part("shell", d)}
      BY <1>0, <2>2 DEF Creation!CreateEnvironment, CreationTyped
    <3>2. env[d] = {}
      BY <2>2 DEF Creation!CreateEnvironment, Creation!Fresh
    <3> QED BY <3>1, <3>2, PartsOf DEF Creation!Concepts
  <2>3. CASE Creation!CopyEnvironment(r)
    <3> DEFINE q == request[r]
               copy == Creation!Copy(q.env, q.doc)
    <3>1. q \in Creations /\ Creates(r)
      BY <1>0, <2>3, CreationInHand DEF Creation!CopyEnvironment, Creates
    <3>2. request'[r].doc = q.doc /\ request'[r].env = copy
      BY <1>0, <2>3, <3>1 DEF Creation!CopyEnvironment, CreationTyped, Creations
    <3>3. \A p \in Creation!Concepts(copy) : p \in Creation!Concepts(q.env)
      BY <3>1, PartsOf DEF Creation!Copy, Creation!Concepts, Creation!Own, Creations
    <3> QED BY <3>1, <3>2, <3>3 DEF AllAccounted
  <2>4. CASE Creation!BreakOff(r)
    BY <1>0, <1>4, <2>4 DEF Creation!BreakOff, CreationTyped, Creates, Creation!Idle
  <2> QED BY <2>1, <2>2, <2>3, <2>4
<1>5. ASSUME NEW s \in Requests, Creates(s)'
      PROVE  /\ env'[request'[s].doc] = {}
             /\ \A p \in Creation!Concepts(request'[s].env) : StoredOrDeleted(p)'
  <2>1. CASE s = r
    BY <1>1, <1>2, <1>4, <1>5, <2>1
  <2>2. CASE s # r
    BY <1>1, <1>2, <1>3, <1>5, <2>2 DEF AllAccounted, Creates
  <2> QED BY <2>1, <2>2
<1>6. \A d \in Creation!Documents : \A p \in env'[d] : StoredOrDeleted(p)'
  BY <1>1, <1>2 DEF AllAccounted
<1> QED BY <1>5, <1>6 DEF AllAccounted, Creation!Concepts

\* A new document d refers to what is stored, or what its creation knew.
LEMMA SavedAccounted ==
    ASSUME CreationInv, AllAccounted, NEW d \in Creation!Documents, NEW parts,
           env[d] = {}, env' = [env EXCEPT ![d] = parts], status' = [status EXCEPT ![d] = "draft"],
           stored \subseteq stored',
           \A p \in parts : StoredOrDeleted(p) \/ p \in stored',
           \A s \in Requests : Creates(s)' =>
              request'[s] = request[s] /\ request[s].doc # d
    PROVE  AllAccounted'
<1>1. /\ env'[d] = parts
      /\ \A e \in Creation!Documents \ {d} : status'[e] = status[e] /\ env'[e] = env[e]
  BY DEF CreationInv, CreationTyped
<1>2. \A p : StoredOrDeleted(p) => StoredOrDeleted(p)'
  BY <1>1 DEF StoredOrDeleted
<1>3. \A e \in Creation!Documents : \A p \in env'[e] : StoredOrDeleted(p)'
  BY <1>1, <1>2 DEF AllAccounted, StoredOrDeleted
<1>4. ASSUME NEW s \in Requests, Creates(s)'
      PROVE  /\ env'[request'[s].doc] = {}
             /\ \A p \in Creation!Concepts(request'[s].env) : StoredOrDeleted(p)'
  <2>1. request'[s] = request[s] /\ Creates(s) /\ request[s].doc # d
    BY <1>4 DEF Creates
  <2>2. request[s].doc \in Creation!Documents
    BY <2>1, CreationInHand DEF CreationInv, Creations
  <2> QED BY <1>1, <1>2, <2>1, <2>2 DEF AllAccounted
<1> QED BY <1>3, <1>4 DEF AllAccounted, Creation!Concepts

LEMMA AccountedStep ==
    ASSUME Creation!CreationAssumption, CreationInv, AllAccounted,
           [Creation!Next]_(Creation!vars)
    PROVE  AllAccounted'
<1>0. CreationTyped
  BY DEF CreationInv
<1>1. ASSUME NEW r \in Requests, Creation!SavePassport(r) \/ Creation!SaveTemplate(r)
      PROVE  AllAccounted'
  <2> DEFINE d == request[r].doc
  <2>1. Creates(r) /\ request[r].at = "saving" /\ d \in Creation!Documents
    BY <1>0, <1>1, CreationInHand
       DEF Creation!SavePassport, Creation!SaveTemplate, Creates, Creations
  <2>2. /\ status' = [status EXCEPT ![d] = "draft"] /\ env' = [env EXCEPT ![d] = request[r].env]
        /\ request' = [request EXCEPT ![r] = Creation!Idle] /\ UNCHANGED stored
    BY <1>1 DEF Creation!SavePassport, Creation!SaveTemplate, Creation!Save
  <2>3. \A p \in request[r].env : StoredOrDeleted(p)
    BY <2>1 DEF AllAccounted, CreationInv, RequestsKnow, StoredOrDeleted, Creation!Own
  <2>4. ASSUME NEW s \in Requests, Creates(s)'
        PROVE  request'[s] = request[s] /\ request[s].doc # d
    <3>1. s # r
      BY <1>0, <2>2, <2>4 DEF Creates, Creation!Idle, CreationTyped
    <3>2. request'[s] = request[s]
      BY <1>0, <2>2, <3>1 DEF CreationTyped
    <3> QED BY <2>1, <2>4, <3>1, <3>2 DEF CreationInv, CreatedAlone, Creates, Creation!Idle
  <2>5. env[d] = {}
    BY <2>1 DEF AllAccounted
  <2> HIDE DEF d
  <2> QED BY <2>1, <2>2, <2>3, <2>4, <2>5, SavedAccounted
<1>2. ASSUME NEW d \in Creation!Documents,
             NEW f, NEW imported, Creation!ImportEntity(d, f, imported)
      PROVE  AllAccounted'
  <2> DEFINE parts == {Creation!Part(kind, d) : kind \in {"shell", "submodel", "concept"}}
  <2>1. /\ status' = [status EXCEPT ![d] = "draft"] /\ env' = [env EXCEPT ![d] = parts]
        /\ stored' = stored \cup parts /\ UNCHANGED request /\ env[d] = {}
        /\ \A s \in Requests : request[s] # Creation!Idle => request[s].doc # d
    BY <1>2 DEF Creation!ImportEntity, Creation!Save, Creation!Fresh
  <2>2. ASSUME NEW s \in Requests, Creates(s)'
        PROVE  request'[s] = request[s] /\ request[s].doc # d
    BY <2>1, <2>2 DEF Creates, Creation!Idle
  <2> HIDE DEF parts
  <2> QED BY <2>1, <2>2, SavedAccounted
<1>3. ASSUME NEW r \in Requests, Creation!DeleteDocument(r)
      PROVE  AllAccounted'
  <2> DEFINE d == request[r].doc
  <2>1. request[r] \in Deletions /\ request[r].at = "deleting"
    BY <1>0, <1>3, CreationInHand DEF Creation!DeleteDocument
  <2>2. d \in Creation!Documents /\ request[r].env = env[d]
    BY <2>1 DEF Deletions, CreationInv, RequestsKnow
  <2>3. /\ stored' = stored \ env[d] /\ UNCHANGED env
        /\ status' = [status EXCEPT ![d] = "absent"]
        /\ request' = [request EXCEPT ![r] = Creation!Idle]
    BY <1>3, <2>2 DEF Creation!DeleteDocument, Creation!DeleteEnvironment
  <2>4. /\ status'[d] = "absent"
        /\ \A e \in Creation!Documents \ {d} : status'[e] = status[e]
    BY <1>0, <2>2, <2>3 DEF CreationTyped
  <2>5. \A s \in Requests : Creates(s)' => request'[s] = request[s] /\ Creates(s)
    BY <1>0, <2>3 DEF Creates, Creation!Idle, CreationTyped
  <2> HIDE DEF d
  <2>6. \A p : StoredOrDeleted(p) => StoredOrDeleted(p)'
    BY <2>2, <2>3, <2>4 DEF StoredOrDeleted
  <2> QED BY <2>3, <2>5, <2>6 DEF AllAccounted, Creation!Concepts
<1>4. ASSUME UNCHANGED <<env, stored>>,
             \A e \in Creation!Documents : status'[e] = "absent" <=> status[e] = "absent",
             \A s \in Requests : Creates(s)' => request'[s] = request[s] /\ Creates(s)
      PROVE  AllAccounted'
  <2>1. \A p : StoredOrDeleted(p) => StoredOrDeleted(p)'
    BY <1>4 DEF StoredOrDeleted
  <2> QED BY <1>4, <2>1 DEF AllAccounted, Creation!Concepts
<1>5. ASSUME NEW d \in Creation!Documents, Creation!ChangeStatus(d)
      PROVE  AllAccounted'
  <2>1. PICK to \in {"draft", "published", "archived draft", "archived published"} :
            status' = [status EXCEPT ![d] = to]
    BY <1>5, StatusChanged, <1>0
  <2>2. \A e \in Creation!Documents : status'[e] = "absent" <=> status[e] = "absent"
    BY <1>0, <1>5, <2>1, StatusChanged DEF CreationTyped
  <2>3. UNCHANGED <<env, stored, request>>
    BY <1>5 DEF Creation!ChangeStatus
  <2> QED BY <1>4, <2>2, <2>3 DEF Creates
<1>6. ASSUME NEW d \in Creation!Documents,
             \/ \E design \in Designs : Creation!CreateConfig(d, design)
             \/ \E i \in 1..MaxSteps : Creation!DeleteConfig(d, i)
      PROVE  AllAccounted'
  <2>1. UNCHANGED <<env, stored, request, status>>
    BY <1>6 DEF Creation!CreateConfig, Creation!DeleteConfig
  <2> QED BY <1>4, <2>1 DEF Creates
<1>7. ASSUME NEW r \in Requests,
             \/ \E d \in Creation!Documents :
                  Creation!LoadForDeletion(r, d) \/ Creation!ReadConfigs(r, d)
             \/ Creation!SeedConfig(r)
      PROVE  AllAccounted'
  <2>1. UNCHANGED <<env, stored, status>>
    BY <1>7 DEF Creation!LoadForDeletion, Creation!ReadConfigs, Creation!SeedConfig
  <2>2. /\ request'[r].at \in {"idle", "deleting", "seeding"}
        /\ \A s \in Requests \ {r} : request'[s] = request[s]
    <3>1. PICK q \in {"idle", "deleting", "seeding"} :
            \E value : value.at = q /\ request' = [request EXCEPT ![r] = value]
      <4>1. ASSUME NEW d \in Creation!Documents,
                   Creation!LoadForDeletion(r, d) \/ Creation!ReadConfigs(r, d)
            PROVE  \E q \in {"deleting", "seeding"} :
                     \E value : value.at = q /\ request' = [request EXCEPT ![r] = value]
        BY <4>1 DEF Creation!LoadForDeletion, Creation!ReadConfigs
      <4>2. Creation!Idle.at = "idle"
        BY DEF Creation!Idle
      <4> QED BY <1>7, <4>1, <4>2 DEF Creation!SeedConfig
    <3> QED BY <1>0, <3>1 DEF CreationTyped
  <2> QED BY <1>4, <2>1, <2>2 DEF Creates
<1>8. CASE UNCHANGED Creation!vars
  BY <1>4, <1>8 DEF Creation!vars, Creates
<1> QED BY <1>1, <1>2, <1>3, <1>5, <1>6, <1>7, <1>8, PreparingAccounted DEF Creation!Next

LEMMA AccountedInit == Creation!Init => AllAccounted
BY DEF Creation!Init, AllAccounted, Creates, Creation!Idle

\* What a document misses, a deleted one took that referred to it as well.
LEMMA MissingFacts == CreationInv /\ AllAccounted => Creation!MissingWereShared
<1> SUFFICES ASSUME CreationInv, AllAccounted,
                    NEW d \in Creation!Present, NEW p \in env[d] \ stored
             PROVE  p.kind = "concept" /\ \E e \in Creation!Documents \ Creation!Present : p \in env[e]
  BY DEF Creation!MissingWereShared
<1>1. p \notin Creation!Own(env[d])
  BY DEF CreationInv, Creation!ShellsAndSubmodelsResolve
<1>2. StoredOrDeleted(p) /\ d \in Creation!Documents
  BY DEF AllAccounted, Creation!Present
<1> QED BY <1>1, <1>2 DEF StoredOrDeleted, Creation!Own, Creation!Concepts, Creation!Present

-----------------------------------------------------------------------------
\* What a document is saved with.
LEMMA SavedConfigurations ==
    ASSUME NEW cs \in Seq(ConfigDocuments), \A i \in DOMAIN cs : ~cs[i].seeded
    PROVE  /\ Creation!Linked(Creation!WithDefault(cs)) # <<>>
           /\ \A i \in DOMAIN Creation!Linked(Creation!WithDefault(cs)) :
                /\ Creation!Linked(Creation!WithDefault(cs))[i].permalink
                /\ ~Creation!Linked(Creation!WithDefault(cs))[i].seeded
<1>1. /\ Creation!WithDefault(cs) \in Seq(ConfigDocuments) /\ Creation!WithDefault(cs) # <<>>
      /\ Creation!WithDefault(cs) = cs \/ Creation!WithDefault(cs) = <<Creation!Config(Creation!Default, FALSE)>>
  BY ConfigurationsMade
<1>2. \A i \in DOMAIN Creation!WithDefault(cs) : ~Creation!WithDefault(cs)[i].seeded
  <2>1. CASE Creation!WithDefault(cs) = cs
    BY <2>1
  <2>2. CASE Creation!WithDefault(cs) = <<Creation!Config(Creation!Default, FALSE)>>
    <3>1. DOMAIN Creation!WithDefault(cs) = 1..1 /\ Creation!WithDefault(cs)[1] = Creation!Config(Creation!Default, FALSE)
      BY <2>2
    <3>2. ~Creation!Config(Creation!Default, FALSE).seeded
      BY DEF Creation!Config
    <3>3. \A i \in 1..1 : i = 1
      OBVIOUS
    <3>4. \A i \in 1..1 : ~Creation!WithDefault(cs)[i].seeded
      BY <3>1, <3>2, <3>3
    <3> QED BY <3>1, <3>4
  <2> QED BY <1>1, <2>1, <2>2
<1>3. /\ Creation!Linked(Creation!WithDefault(cs)) \in Seq(ConfigDocuments)
      /\ DOMAIN Creation!Linked(Creation!WithDefault(cs)) = DOMAIN Creation!WithDefault(cs)
      /\ \A i \in DOMAIN Creation!WithDefault(cs) :
            /\ Creation!Linked(Creation!WithDefault(cs))[i].permalink
            /\ Creation!Linked(Creation!WithDefault(cs))[i].seeded = Creation!WithDefault(cs)[i].seeded
  BY <1>1, ConfigurationsMade
<1>4. Creation!Linked(Creation!WithDefault(cs)) # <<>>
  BY <1>1, <1>3
<1> QED BY <1>2, <1>3, <1>4

\* A passport that appears was saved or imported just now.
LEMMA AppearsStep ==
    ASSUME Creation!CreationAssumption, CreationInv, Creation!Next
    PROVE  Creation!AppearsComplete
<1> USE DEF CreationInv
<1> SUFFICES ASSUME NEW p \in PassportIds, status[p] = "absent", status'[p] # "absent"
             PROVE  /\ p \in upis' /\ configs'[p] # <<>>
                    /\ \A i \in DOMAIN configs'[p] : configs'[p][i].permalink
  BY DEF Creation!AppearsComplete
<1>1. p \in Creation!Documents /\ p \notin TemplateIds
  BY DEF Creation!Documents, Creation!CreationAssumption
<1>2. CASE \E r \in Requests : Creation!SavePassport(r) \/ Creation!SaveTemplate(r)
  <2>1. PICK r \in Requests : Creation!SavePassport(r) \/ Creation!SaveTemplate(r)
    BY <1>2
  <2> DEFINE q == request[r]
  <2>2. q.doc = p
    BY <1>1, <2>1 DEF Creation!SavePassport, Creation!SaveTemplate, Creation!Save, CreationTyped
  <2>3. Creation!Save(q.doc, q.env, q.files, Creation!Linked(Creation!WithDefault(Creation!SnapshotTemplateConfigs(q.from))))
    BY <1>1, <2>1, <2>2 DEF Creation!SavePassport, Creation!SaveTemplate
  <2>4. q \in Creations
    BY <2>1, CreationInHand DEF Creation!SavePassport, Creation!SaveTemplate, Creates
  <2>5. /\ Creation!SnapshotTemplateConfigs(q.from) \in Seq(ConfigDocuments)
        /\ \A i \in DOMAIN Creation!SnapshotTemplateConfigs(q.from) :
            ~Creation!SnapshotTemplateConfigs(q.from)[i].seeded
    BY <2>4, SnapshotsMade DEF Creations
  <2>6. /\ upis' = upis \cup ({p} \cap PassportIds)
        /\ configs'[p] = Creation!Linked(Creation!WithDefault(Creation!SnapshotTemplateConfigs(q.from)))
    BY <1>1, <2>2, <2>3 DEF Creation!Save, CreationTyped
  <2> QED BY <2>5, <2>6, SavedConfigurations
<1>3. ASSUME NEW d \in Creation!Documents, NEW f \in SUBSET (Creation!Media \X Creation!Places),
             NEW imported \in {<<>>} \cup {<<x>> : x \in Designs}, Creation!ImportEntity(d, f, imported)
      PROVE  /\ p \in upis' /\ configs'[p] # <<>>
             /\ \A i \in DOMAIN configs'[p] : configs'[p][i].permalink
  <2> DEFINE cs == [i \in DOMAIN imported |-> Creation!Config(imported[i], FALSE)]
  <2>1. d = p
    BY <1>1, <1>3 DEF Creation!ImportEntity, Creation!Save, CreationTyped
  <2>2. cs \in Seq(ConfigDocuments) /\ \A i \in DOMAIN cs : ~cs[i].seeded
    BY ImportedMade
  <2>3. /\ upis' = upis \cup ({p} \cap PassportIds)
        /\ configs'[p] = Creation!Linked(Creation!WithDefault(cs))
    BY <1>1, <1>3, <2>1 DEF Creation!ImportEntity, Creation!Save, CreationTyped, Creation!ImportedConfigs
  <2> HIDE DEF cs
  <2> QED BY <2>2, <2>3, SavedConfigurations
<1>4. ASSUME NEW d \in Creation!Documents, Creation!ChangeStatus(d)
      PROVE  FALSE
  BY <1>1, <1>4, StatusChanged DEF CreationTyped
<1>5. ASSUME NEW r \in Requests, Creation!DeleteDocument(r)
      PROVE  FALSE
  BY <1>1, <1>5 DEF Creation!DeleteDocument, CreationTyped
<1> QED BY <1>2, <1>3, <1>4, <1>5
      DEF Creation!Next, Creation!LoadTemplate, Creation!CreateEnvironment, Creation!LoadForDeletion, Creation!ReadConfigs,
         Creation!CopyEnvironment,
          Creation!BreakOff, Creation!SeedConfig, Creation!CreateConfig, Creation!DeleteConfig

-----------------------------------------------------------------------------
NoneSeeded(cs) == \A i \in DOMAIN cs : ~cs[i].seeded
OneSeeded(cs) == \A i, j \in DOMAIN cs : cs[i].seeded /\ cs[j].seeded => i = j

\* One request at a time: a request that seeds does so where nothing is seeded.
TurnInv ==
    /\ Creation!NothingOfTheDeleted
    /\ \A d \in Creation!Documents : OneSeeded(configs[d])
    /\ \A r \in Requests : request[r].at = "seeding" =>
        status[request[r].doc] # "absent" /\ NoneSeeded(configs[request[r].doc])

\* What appending and removing a configuration does to the seeded ones.
LEMMA Added ==
    ASSUME NEW cs \in Seq(ConfigDocuments), NEW c \in ConfigDocuments
    PROVE  /\ ~c.seeded => (OneSeeded(cs) => OneSeeded(Append(cs, c)))
           /\ ~c.seeded => (NoneSeeded(cs) => NoneSeeded(Append(cs, c)))
           /\ NoneSeeded(cs) => OneSeeded(Append(cs, c))
<1>1. /\ DOMAIN Append(cs, c) = 1..Len(cs) + 1 /\ Append(cs, c)[Len(cs) + 1] = c
      /\ \A i \in 1..Len(cs) : Append(cs, c)[i] = cs[i]
      /\ DOMAIN cs = 1..Len(cs) /\ Len(cs) \in Nat
  BY AppendProperties, LenProperties
<1>3. ~c.seeded => (OneSeeded(cs) => OneSeeded(Append(cs, c)))
  BY <1>1 DEF OneSeeded
<1>4. ~c.seeded => (NoneSeeded(cs) => NoneSeeded(Append(cs, c)))
  BY <1>1 DEF NoneSeeded
<1>5. NoneSeeded(cs) => OneSeeded(Append(cs, c))
  BY <1>1 DEF OneSeeded, NoneSeeded
<1> QED BY <1>3, <1>4, <1>5

LEMMA Removed ==
    ASSUME NEW cs \in Seq(ConfigDocuments), NEW k \in DOMAIN cs
    PROVE  /\ OneSeeded(cs) => OneSeeded(Creation!RemoveAt(cs, k))
           /\ NoneSeeded(cs) => NoneSeeded(Creation!RemoveAt(cs, k))
<1>1. DOMAIN cs = 1..Len(cs) /\ Len(cs) \in Nat
  BY LenProperties
<1>2. /\ DOMAIN Creation!RemoveAt(cs, k) = 1..Len(cs) - 1
      /\ \A j \in 1..Len(cs) - 1 : Creation!RemoveAt(cs, k)[j] = IF j < k THEN cs[j] ELSE cs[j + 1]
  BY RemovedAt, LenProperties
<1>6. OneSeeded(cs) => OneSeeded(Creation!RemoveAt(cs, k))
  <2> SUFFICES ASSUME OneSeeded(cs), NEW i \in 1..Len(cs) - 1, NEW j \in 1..Len(cs) - 1,
                      Creation!RemoveAt(cs, k)[i].seeded, Creation!RemoveAt(cs, k)[j].seeded
               PROVE  i = j
    BY <1>2 DEF OneSeeded
  <2>1. PICK a \in 1..Len(cs) : cs[a].seeded /\ a = IF i < k THEN i ELSE i + 1
    BY <1>1, <1>2
  <2>2. PICK b \in 1..Len(cs) : cs[b].seeded /\ b = IF j < k THEN j ELSE j + 1
    BY <1>1, <1>2
  <2>3. a = b
    BY <1>1, <2>1, <2>2 DEF OneSeeded
  <2> QED BY <1>1, <2>1, <2>2, <2>3
<1>7. NoneSeeded(cs) => NoneSeeded(Creation!RemoveAt(cs, k))
  BY <1>1, <1>2 DEF NoneSeeded
<1> QED BY <1>6, <1>7

\* A document that is saved has no seeded configuration.
LEMMA SavedSeeds ==
    ASSUME CreationInv, NEW d \in Creation!Documents,
           \/ \E r \in Requests : (Creation!SavePassport(r) \/ Creation!SaveTemplate(r)) /\ request[r].doc = d
           \/ \E f \in SUBSET (Creation!Media \X Creation!Places),
                 imported \in {<<>>} \cup {<<x>> : x \in Designs} :
                Creation!ImportEntity(d, f, imported)
    PROVE  /\ NoneSeeded(configs'[d]) /\ status'[d] = "draft"
           /\ \A e \in Creation!Documents \ {d} : configs'[e] = configs[e] /\ status'[e] = status[e]
           /\ upis' = upis \cup ({d} \cap PassportIds)
<1> USE DEF CreationInv
<1> DEFINE Goal ==
        /\ NoneSeeded(configs'[d]) /\ status'[d] = "draft"
        /\ \A e \in Creation!Documents \ {d} : configs'[e] = configs[e] /\ status'[e] = status[e]
        /\ upis' = upis \cup ({d} \cap PassportIds)
<1>1. ASSUME NEW cs, NoneSeeded(cs), NEW parts, NEW media, Creation!Save(d, parts, media, cs)
      PROVE  Goal
  <2>1. configs'[d] = cs
    BY <1>1 DEF Creation!Save, CreationTyped
  <2>2. NoneSeeded(configs'[d])
    BY <1>1, <2>1
  <2> QED BY <1>1, <2>2 DEF Creation!Save, CreationTyped
<1>2. NoneSeeded(<<>>)
  BY DEF NoneSeeded
<1> HIDE DEF Goal
<1>3. ASSUME NEW r \in Requests, Creation!SavePassport(r) \/ Creation!SaveTemplate(r), request[r].doc = d
      PROVE  Goal
  <2> DEFINE snapshot == Creation!SnapshotTemplateConfigs(request[r].from)
  <2>1. request[r] \in Creations
    BY <1>3, CreationInHand DEF Creation!SavePassport, Creation!SaveTemplate, Creates
  <2>2. snapshot \in Seq(ConfigDocuments) /\ NoneSeeded(snapshot)
    BY <2>1, SnapshotsMade DEF Creations, NoneSeeded
  <2>3. \/ Creation!Save(d, request[r].env, request[r].files, Creation!Linked(Creation!WithDefault(snapshot)))
        \/ Creation!Save(d, request[r].env, request[r].files, <<>>)
    BY <1>3 DEF Creation!SavePassport, Creation!SaveTemplate
  <2> HIDE DEF snapshot
  <2>4. NoneSeeded(Creation!Linked(Creation!WithDefault(snapshot)))
    BY <2>2, SavedConfigurations DEF NoneSeeded
  <2> QED BY <1>1, <1>2, <2>3, <2>4
<1>4. ASSUME NEW f \in SUBSET (Creation!Media \X Creation!Places),
             NEW imported \in {<<>>} \cup {<<x>> : x \in Designs}, Creation!ImportEntity(d, f, imported)
      PROVE  Goal
  <2> DEFINE cs == [i \in DOMAIN imported |-> Creation!Config(imported[i], FALSE)]
             parts == {Creation!Part(kind, d) : kind \in {"shell", "submodel", "concept"}}
  <2>1. cs \in Seq(ConfigDocuments) /\ NoneSeeded(cs)
    BY ImportedMade DEF NoneSeeded
  <2>2. Creation!Save(d, parts, Creation!WithNullifiedForeignFileValues(f), Creation!ImportedConfigs(d, cs))
    BY <1>4 DEF Creation!ImportEntity
  <2> HIDE DEF cs, parts
  <2>3. NoneSeeded(Creation!ImportedConfigs(d, cs))
    BY <2>1, SavedConfigurations DEF Creation!ImportedConfigs, NoneSeeded
  <2> QED BY <1>1, <2>2, <2>3
<1> QED BY <1>3, <1>4 DEF Goal

\* Where none is seeded one is at most.
LEMMA NoneIsAtMostOne == \A cs : NoneSeeded(cs) => OneSeeded(cs)
BY DEF NoneSeeded, OneSeeded

\* With one request at a time every step keeps TurnInv.
LEMMA TurnStep ==
    ASSUME Creation!CreationAssumption, CreationInv, TurnInv, InTurn, Creation!Next
    PROVE  TurnInv'
<1> USE DEF CreationInv
<1>1. ASSUME NEW d \in Creation!Documents,
             \/ \E r \in Requests : (Creation!SavePassport(r) \/ Creation!SaveTemplate(r)) /\ request[r].doc = d
             \/ \E f \in SUBSET (Creation!Media \X Creation!Places),
                   imported \in {<<>>} \cup {<<x>> : x \in Designs} :
                  Creation!ImportEntity(d, f, imported)
      PROVE  TurnInv'
  <2>1. /\ NoneSeeded(configs'[d]) /\ status'[d] = "draft"
        /\ \A e \in Creation!Documents \ {d} : configs'[e] = configs[e] /\ status'[e] = status[e]
        /\ upis' = upis \cup ({d} \cap PassportIds)
    BY <1>1, SavedSeeds
  <2>2. \A r \in Requests : request'[r].at = "seeding" => request'[r] = request[r]
    <3>1. CASE UNCHANGED request
      BY <3>1
    <3>2. ASSUME NEW r \in Requests, request' = [request EXCEPT ![r] = Creation!Idle]
          PROVE  \A s \in Requests : request'[s].at = "seeding" => request'[s] = request[s]
      BY <3>2 DEF CreationTyped, Creation!Idle
    <3> QED BY <1>1, <3>1, <3>2 DEF Creation!SavePassport, Creation!SaveTemplate, Creation!ImportEntity
  <2>3. Creation!NothingOfTheDeleted'
    BY <2>1 DEF TurnInv, Creation!NothingOfTheDeleted, Creation!Present
  <2>4. \A e \in Creation!Documents : OneSeeded(configs'[e])
    BY <2>1, NoneIsAtMostOne DEF TurnInv
  <2>5. ASSUME NEW r \in Requests, request'[r].at = "seeding"
        PROVE  status'[request'[r].doc] # "absent" /\ NoneSeeded(configs'[request'[r].doc])
    <3>1. request[r].doc \in Creation!Documents /\ request'[r] = request[r]
      BY <2>2, <2>5, CreationInHand DEF Seedings
    <3> QED BY <2>1, <2>5, <3>1 DEF TurnInv
  <2> QED BY <2>3, <2>4, <2>5 DEF TurnInv
<1>2. ASSUME NEW r \in Requests, Creation!DeleteDocument(r)
      PROVE  TurnInv'
  <2> DEFINE d == request[r].doc
  <2>1. d \in Creation!Documents /\ request[r] # Creation!Idle
    BY <1>2, CreationInHand DEF Creation!DeleteDocument, Deletions, Creation!Idle
  <2>2. \A s \in Requests : request'[s] = Creation!Idle
    BY <1>2, <2>1 DEF Creation!DeleteDocument, CreationTyped, InTurn
  <2>3. /\ configs'[d] = <<>> /\ status'[d] = "absent" /\ upis' = upis \ {d}
        /\ \A e \in Creation!Documents \ {d} : configs'[e] = configs[e] /\ status'[e] = status[e]
    BY <1>2, <2>1 DEF Creation!DeleteDocument, Creation!DeleteConfigs, CreationTyped
  <2>4. Creation!NothingOfTheDeleted'
    BY <2>3 DEF TurnInv, Creation!NothingOfTheDeleted, Creation!Present
  <2>5. OneSeeded(<<>>)
    BY DEF OneSeeded
  <2> QED BY <2>2, <2>3, <2>4, <2>5 DEF TurnInv, Creation!Idle
<1>3. ASSUME NEW d \in Creation!Documents, Creation!ChangeStatus(d)
      PROVE  TurnInv'
  <2>1. PICK to \in {"draft", "published", "archived draft", "archived published"} :
            status[d] # "absent" /\ status' = [status EXCEPT ![d] = to]
    BY <1>3, StatusChanged
  <2>2. \A e \in Creation!Documents : status'[e] = "absent" <=> status[e] = "absent"
    BY <2>1 DEF CreationTyped
  <2>3. UNCHANGED <<configs, upis, request>>
    BY <1>3 DEF Creation!ChangeStatus
  <2> QED BY <2>2, <2>3, CreationInHand DEF TurnInv, Creation!NothingOfTheDeleted, Creation!Present, Seedings
<1>4. ASSUME NEW d \in Creation!Documents, NEW cs, configs' = [configs EXCEPT ![d] = cs],
             status[d] # "absent", UNCHANGED <<status, upis>>,
             OneSeeded(cs), NoneSeeded(configs[d]) => NoneSeeded(cs),
             \A s \in Requests : request'[s].at = "seeding" => request'[s] = request[s]
      PROVE  TurnInv'
  <2>1. configs'[d] = cs /\ \A e \in Creation!Documents \ {d} : configs'[e] = configs[e]
    BY <1>4 DEF CreationTyped
  <2>2. Creation!NothingOfTheDeleted'
    BY <1>4, <2>1 DEF TurnInv, Creation!NothingOfTheDeleted, Creation!Present
  <2>3. \A e \in Creation!Documents : OneSeeded(configs'[e])
    BY <1>4, <2>1 DEF TurnInv
  <2>4. ASSUME NEW r \in Requests, request'[r].at = "seeding"
        PROVE  status'[request'[r].doc] # "absent" /\ NoneSeeded(configs'[request'[r].doc])
    <3>1. request[r].doc \in Creation!Documents /\ request'[r] = request[r]
      BY <1>4, <2>4, CreationInHand DEF Seedings
    <3> QED BY <1>4, <2>1, <2>4, <3>1 DEF TurnInv
  <2> QED BY <2>2, <2>3, <2>4 DEF TurnInv
<1>5. ASSUME NEW d \in Creation!Documents, NEW design \in Designs, Creation!CreateConfig(d, design)
      PROVE  TurnInv'
  <2> DEFINE c == Creation!Config(design, FALSE)
  <2>1. c \in ConfigDocuments /\ ~c.seeded /\ configs[d] \in Seq(ConfigDocuments)
    BY DEF Creation!Config, ConfigDocuments, CreationTyped
  <2>2. /\ configs' = [configs EXCEPT ![d] = Append(configs[d], c)]
        /\ status[d] # "absent" /\ UNCHANGED <<status, upis, request>>
    BY <1>5 DEF Creation!CreateConfig
  <2> HIDE DEF c
  <2>3. /\ OneSeeded(Append(configs[d], c))
        /\ NoneSeeded(configs[d]) => NoneSeeded(Append(configs[d], c))
    BY <2>1, Added DEF TurnInv
  <2> QED BY <1>4, <2>2, <2>3
<1>6. ASSUME NEW d \in Creation!Documents, NEW i \in 1..MaxSteps, Creation!DeleteConfig(d, i)
      PROVE  TurnInv'
  <2>1. i \in DOMAIN configs[d] /\ configs[d] \in Seq(ConfigDocuments)
    BY <1>6 DEF Creation!DeleteConfig, CreationTyped
  <2>2. /\ configs' = [configs EXCEPT ![d] = Creation!RemoveAt(configs[d], i)]
        /\ status[d] # "absent" /\ UNCHANGED <<status, upis, request>>
    BY <1>6 DEF Creation!DeleteConfig
  <2>4. /\ OneSeeded(Creation!RemoveAt(configs[d], i))
        /\ NoneSeeded(configs[d]) => NoneSeeded(Creation!RemoveAt(configs[d], i))
    BY <2>1, Removed DEF TurnInv
  <2> QED BY <1>4, <2>2, <2>4
<1>7. ASSUME NEW r \in Requests, Creation!SeedConfig(r)
      PROVE  TurnInv'
  <2> DEFINE d == request[r].doc
             c == Creation!Config(Creation!Default, TRUE)
  <2>1. d \in Creation!Documents /\ request[r] # Creation!Idle /\ request[r].at = "seeding"
    BY <1>7, CreationInHand DEF Creation!SeedConfig, Seedings, Creation!Idle
  <2>2. /\ configs' = [configs EXCEPT ![d] = Append(configs[d], c)]
        /\ status[d] # "absent" /\ NoneSeeded(configs[d]) /\ UNCHANGED <<status, upis>>
    BY <1>7, <2>1 DEF Creation!SeedConfig, TurnInv
  <2>3. \A s \in Requests : request'[s] = Creation!Idle
    BY <1>7, <2>1 DEF Creation!SeedConfig, CreationTyped, InTurn
  <2>4. c \in ConfigDocuments /\ configs[d] \in Seq(ConfigDocuments)
    BY <2>1 DEF Creation!Config, ConfigDocuments, CreationTyped
  <2> HIDE DEF c, d
  <2>5. OneSeeded(Append(configs[d], c))
    BY <2>2, <2>4, Added
  <2>6. configs'[d] = Append(configs[d], c)
        /\ \A e \in Creation!Documents \ {d} : configs'[e] = configs[e]
    BY <2>1, <2>2 DEF CreationTyped
  <2>7. Creation!NothingOfTheDeleted'
    BY <2>2, <2>6 DEF TurnInv, Creation!NothingOfTheDeleted, Creation!Present
  <2>8. \A e \in Creation!Documents : OneSeeded(configs'[e])
    BY <2>5, <2>6 DEF TurnInv
  <2> QED BY <2>3, <2>7, <2>8 DEF TurnInv, Creation!Idle
<1>8. ASSUME NEW r \in Requests, NEW d \in Creation!Documents, Creation!ReadConfigs(r, d)
      PROVE  TurnInv'
  <2>1. /\ request'[r].doc = d /\ \A s \in Requests \ {r} : request'[s] = request[s]
        /\ status[d] # "absent" /\ configs[d] = <<>> /\ UNCHANGED <<status, configs, upis>>
    BY <1>8 DEF Creation!ReadConfigs, CreationTyped
  <2>2. NoneSeeded(<<>>)
    BY DEF NoneSeeded
  <2> QED BY <2>1, <2>2 DEF TurnInv, Creation!NothingOfTheDeleted, Creation!Present
<1>9. ASSUME UNCHANGED <<status, configs, upis>>,
             \A s \in Requests : request'[s].at = "seeding" => request'[s] = request[s]
      PROVE  TurnInv'
  BY <1>9 DEF TurnInv, Creation!NothingOfTheDeleted, Creation!Present
<1>10. ASSUME NEW r \in Requests, NEW q,
              request' = [request EXCEPT ![r] = q], q.at # "seeding"
       PROVE  \A s \in Requests : request'[s].at = "seeding" => request'[s] = request[s]
  BY <1>10 DEF CreationTyped
<1>11. ASSUME NEW r \in Requests,
              \/ \E t \in TemplateIds, p \in PassportIds : Creation!LoadTemplate(r, t, p)
              \/ \E d \in Creation!Documents : Creation!CreateEnvironment(r, d) \/ Creation!LoadForDeletion(r, d)
              \/ Creation!CopyEnvironment(r) \/ Creation!BreakOff(r)
       PROVE  TurnInv'
  <2>1. \E q : request' = [request EXCEPT ![r] = q] /\ q.at # "seeding"
    <3>1. CASE Creation!CopyEnvironment(r)
      <4>1. request[r] \in Creations
        BY <3>1, CreationInHand DEF Creation!CopyEnvironment, Creates
      <4>2. [request[r] EXCEPT !.at = "saving", !.env = Creation!Copy(request[r].env, request[r].doc)].at
              = "saving"
        BY <4>1 DEF Creations
      <4>3. request' = [request EXCEPT ![r] = [request[r] EXCEPT !.at = "saving",
                            !.env = Creation!Copy(request[r].env, request[r].doc)]]
        BY <3>1 DEF Creation!CopyEnvironment, CreationTyped
      <4> QED BY <4>2, <4>3
    <3>2. CASE ~Creation!CopyEnvironment(r)
      BY <1>11, <3>2 DEF Creation!LoadTemplate, Creation!CreateEnvironment, Creation!LoadForDeletion, Creation!BreakOff, Creation!Idle
    <3> QED BY <3>1, <3>2
  <2>2. UNCHANGED <<status, configs, upis>>
    BY <1>11 DEF Creation!LoadTemplate, Creation!CreateEnvironment, Creation!LoadForDeletion, Creation!BreakOff,
                 Creation!CopyEnvironment
  <2> QED BY <1>9, <1>10, <2>1, <2>2
<1>12. ASSUME NEW r \in Requests, Creation!SavePassport(r) \/ Creation!SaveTemplate(r)
       PROVE  TurnInv'
  <2>1. request[r].doc \in Creation!Documents
    BY <1>12, CreationInHand DEF Creation!SavePassport, Creation!SaveTemplate, Creation!Idle
  <2> QED BY <1>1, <1>12, <2>1
<1> QED BY <1>1, <1>2, <1>3, <1>5, <1>6, <1>7, <1>8, <1>11, <1>12 DEF Creation!Next

LEMMA TurnInit ==
    Creation!Init => TurnInv /\ InTurn
BY DEF Creation!Init, TurnInv, Creation!NothingOfTheDeleted, OneSeeded, InTurn, Creation!Idle

\* Two seeded configurations would be at two positions.
LEMMA TurnFacts ==
    ASSUME CreationInv, TurnInv
    PROVE  Creation!NothingOfTheDeleted /\ Creation!SeededOnce
<1>1. ASSUME NEW d \in Creation!Documents
      PROVE  Cardinality({i \in DOMAIN configs[d] : configs[d][i].seeded}) <= 1
  <2> DEFINE seeded == {i \in DOMAIN configs[d] : configs[d][i].seeded}
  <2>1. \A i, j \in seeded : i = j
    BY DEF TurnInv, OneSeeded
  <2>2. CASE seeded = {}
    BY <2>2, FS_EmptySet
  <2>3. ASSUME NEW i \in seeded
        PROVE  Cardinality(seeded) <= 1
    <3>1. seeded = {i}
      BY <2>1
    <3>2. Cardinality({i}) = 1
      BY FS_Singleton
    <3> HIDE DEF seeded
    <3> QED BY <3>1, <3>2
  <2> QED BY <2>2, <2>3
<1> QED BY <1>1 DEF TurnInv, Creation!SeededOnce, Creation!Cardinality, Cardinality

-----------------------------------------------------------------------------
\* What holds of documents that are created and deleted, in turn or not.
CreationPartInv ==
    /\ Creating => CreationInv /\ AllAccounted
    /\ part = "creation" => TurnInv /\ InTurn

\* The steps of these parts are those of DocumentCreation.
LEMMA CreationPartStep ==
    ASSUME CreationPartInv, [PartNext]_vars
    PROVE  CreationPartInv'
<1>1. /\ part' = part
      /\ part \in {"creation", "shared creation"} =>
             [Creation!Next]_(Creation!vars)
      /\ part = "creation" =>
             \/ Creation!Next /\ InTurn'
             \/ UNCHANGED Creation!vars
  BY DEF PartNext, vars, creationVars, Creation!vars
<1>2. Creation!CreationAssumption
  BY DocumentAssumptions DEF DocumentAssumptions
<1>3. ASSUME part \in {"creation", "shared creation"}
      PROVE  CreationInv /\ CreationInv' /\ AllAccounted'
  <2>1. CreationInv /\ AllAccounted /\ [Creation!Next]_(Creation!vars)
    BY <1>1, <1>3 DEF CreationPartInv, Creating
  <2> QED BY <1>2, <2>1, CreationStep, AccountedStep
<1>4. ASSUME part = "creation"
      PROVE  TurnInv' /\ InTurn'
  <2>1. TurnInv /\ InTurn
    BY <1>4 DEF CreationPartInv
  <2>2. CASE Creation!Next /\ InTurn'
    BY <1>2, <1>3, <1>4, <2>1, <2>2, TurnStep
  <2>3. CASE UNCHANGED Creation!vars
    BY <2>1, <2>3 DEF TurnInv, InTurn, Creation!NothingOfTheDeleted, Creation!Present, Creation!vars
  <2> QED BY <1>1, <1>4, <2>2, <2>3
<1> QED BY <1>1, <1>3, <1>4 DEF CreationPartInv, Creating

\* So it holds throughout the parts that create and delete.
LEMMA CreationPart == PartSpec => []CreationPartInv
<1>1. PartInit => CreationPartInv
  BY CreationInit, AccountedInit, TurnInit, DocumentAssumptions
     DEF DocumentAssumptions, PartInit, CreationPartInv
<1>2. CreationPartInv /\ [PartNext]_vars => CreationPartInv'
  BY CreationPartStep
<1> QED BY <1>1, <1>2, PTL DEF PartSpec

\* No deletion takes the shells and submodels of another document, and of
\* concept descriptions those only that the document deleted shared with it;
\* what is left over is of creations that broke off only, and with one request
\* at a time nothing is left of a deleted document and one configuration is
\* seeded at most (copyEnvironment, deleteEnvironment, deletePassport,
\* listOrSeed).
THEOREM DocumentsStaySeparate == PartSpec => []DocumentsAreSeparate
<1>1. CreationPartInv => DocumentsAreSeparate
  BY CreationFacts, MissingFacts, TurnFacts
     DEF CreationPartInv, DocumentsAreSeparate, Creating
<1> QED BY <1>1, CreationPart, PTL

\* Whatever breaks off, a passport appears with its identifier, at least one
\* configuration, and each of these with its permalink (createPassport).
THEOREM PassportsAlwaysAppearComplete == PartSpec => PassportsAppearComplete
<1>1. CreationPartInv /\ [PartNext]_vars
        => [Creating => Creation!AppearsComplete]_vars
  <2>1. ASSUME PartNext, Creating
        PROVE  Creation!Next
    BY <2>1 DEF PartNext, Creating
  <2>2. ASSUME CreationPartInv, PartNext, Creating
        PROVE  Creation!AppearsComplete
    BY <2>1, <2>2, AppearsStep, DocumentAssumptions
       DEF CreationPartInv, DocumentAssumptions
  <2> QED BY <2>2
<1> QED BY <1>1, CreationPart, PTL DEF PartSpec, PassportsAppearComplete

-----------------------------------------------------------------------------
(* Documents: stored by former servers                                     *)

\* What StoredVersions proves of the part that former servers stored.
LEMMA FormerInit ==
    Former!Init => Former!TypeOK /\ Former!Readable!AnyDocument
BY Former!CurrentInit, DocumentAssumptions, DocumentsAssumption, AbsentAssumption
   DEF DocumentAssumptions, DocumentsAssumption, AbsentAssumption

LEMMA FormerStep ==
    Former!TypeOK /\ [Former!Next]_(Former!vars)
      => /\ Former!TypeOK'
         /\ [Former!Readable!ChangeAny]_(Former!Readable!currentVars)
BY Former!CurrentStep, DocumentAssumptions, DocumentsAssumption, AbsentAssumption
   DEF DocumentAssumptions, DocumentsAssumption, AbsentAssumption

\* That part of the run, with the invariant of StoredVersions.
FormerPartInv == part = "former" => Former!TypeOK

LEMMA FormerPartStep ==
    ASSUME [PartNext]_vars
    PROVE  /\ part' = part
           /\ part = "former" => [Former!Next]_(Former!vars)
BY DEF PartNext, vars, formerVars, Former!vars

\* Whatever versions former servers stored the parts of a document in, the
\* handlers work on one document that changes only as they ask
\* (fromPlainWithMigration and save of the repositories).
THEOREM VersionsStayInvisible == PartSpec => ImplementsCurrent
<1>1. PartInit => FormerPartInv /\ Former!Readable!AnyDocument
  BY FormerInit DEF PartInit, FormerPartInv
<1>2. FormerPartInv /\ [PartNext]_vars => FormerPartInv'
  BY FormerStep, FormerPartStep DEF FormerPartInv
<1>3. FormerPartInv /\ [PartNext]_vars
        => [part = "former" =>
                \/ Former!Readable!ChangeAny
                \/ UNCHANGED Former!Readable!currentVars]_formerVars
  BY FormerStep, FormerPartStep DEF FormerPartInv
<1> QED BY <1>1, <1>2, <1>3, PTL DEF PartSpec, ImplementsCurrent

==============================================================================
