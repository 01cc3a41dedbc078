-------------------- MODULE DigitalProductDocuments_proofs --------------------
(***************************************************************************)
(* What the handlers guarantee for every set of submodels, elements and    *)
(* requests and every bound on attempts and faults: their types, the       *)
(* activity history and, from "What an operation leaves" on, that they     *)
(* keep the promise of AtomicDocuments as long as their copies are         *)
(* current.                                                                *)
(***************************************************************************)
EXTENDS DigitalProductDocuments, FiniteSetTheorems, TLAPS

-----------------------------------------------------------------------------
(* The domain objects: every method takes well-formed values to such ones  *)

LEMMA InitialStoreOK ==
    ASSUME NEW item \in InitialItems
    PROVE  StoreOK(InitialStore(item))
<1> DEFINE st == InitialStore(item)
<1>1. st = [d \in Documents |-> st[d]]
  BY DEF InitialStore
<1>2. item \in Items
  BY DEF InitialItems
<1>3. /\ st["item"] = item /\ st["aas"] \in Shells /\ st["config"] \in Configs
      /\ st["permalink"] \in Permalinks /\ st["upi"] = "issued"
  BY <1>2 DEF InitialStore, OwnDocuments, Documents, Items, Shells, Configs, Permalinks, Paths
<1>4. ASSUME NEW s \in Submodels PROVE st[s] \in SubmodelDocuments \cup {Absent}
  BY DocumentsAssumption DEF InitialStore, OwnDocuments, Documents, SubmodelDocuments
<1> QED BY <1>1, <1>2, <1>3, <1>4 DEF StoreOK

LEMMA PathFacts ==
    /\ \A s \in Submodels : <<s>> \in Paths
    /\ \A path \in Paths : path[1] \in Submodels
    /\ \A path \in ElementPaths : path \in Paths /\ path[1] \in Submodels /\ path[2] \in Elements
    /\ \A path \in Paths : Len(path) = 2 => path[2] \in Elements /\ path = <<path[1], path[2]>>
    /\ \A path \in Paths : Len(path) # 2 => path = <<path[1]>>
BY DEF Paths, SubmodelPaths, ElementPaths

\* The methods of the domain objects keep their types.
LEMMA MethodTypes ==
    /\ \A aas \in Shells, s \in Submodels :
         /\ WithSubmodel(aas, s) \in Shells
         /\ WithoutSubmodel(aas, s) \in Shells
    /\ \A aas \in Shells, path \in Paths :
         /\ WithoutPolicies(aas, path) \in Shells
         /\ WithoutPolicy(aas, path) \in Shells
    /\ \A aas \in Shells, added \in SUBSET Paths : WithPolicies(aas, added) \in Shells
    /\ \A aas \in Shells : IncreaseVersion(aas) \in Shells
    /\ NewSubmodel \in SubmodelDocuments
    /\ \A sm \in SubmodelDocuments, e \in Elements :
         /\ WithElement(sm, e) \in SubmodelDocuments
         /\ WithoutElement(sm, e) \in SubmodelDocuments
    /\ \A config \in Configs, path \in Paths :
         /\ WithoutDesign(config, path) \in Configs
         /\ Patches(config, path) \subseteq Configs
    /\ \A path \in Paths : \A sm : NewPolicies(sm, path) \in SUBSET Paths
<1>1. \A aas \in Shells : IncreaseVersion(aas) \in Shells
  BY DEF IncreaseVersion, Shells
<1>2. \A aas \in Shells, path \in Paths : WithoutPolicies(aas, path) \in Shells
  BY DEF WithoutPolicies, Shells
<1>3. ASSUME NEW aas \in Shells, NEW path \in Paths
      PROVE  WithoutPolicy(aas, path) \in Shells
  <2>1. [aas EXCEPT !.policies = @ \ {path}] \in Shells
    BY DEF Shells
  <2> QED BY <2>1, <1>1 DEF WithoutPolicy
<1>4. \A aas \in Shells, s \in Submodels : WithSubmodel(aas, s) \in Shells
  BY PathFacts DEF WithSubmodel, Shells
<1>5. ASSUME NEW aas \in Shells, NEW s \in Submodels
      PROVE  WithoutSubmodel(aas, s) \in Shells
  <2>1. [aas EXCEPT !.refs = @ \ {s}] \in Shells
    BY DEF Shells
  <2> QED BY <2>1, <1>2, PathFacts DEF WithoutSubmodel
<1>6. ASSUME NEW aas \in Shells, NEW added \in SUBSET Paths
      PROVE  WithPolicies(aas, added) \in Shells
  <2>1. [aas EXCEPT !.policies = @ \cup added] \in Shells
    BY DEF Shells
  <2> QED BY <2>1, <1>1 DEF WithPolicies
<1>7. NewSubmodel \in SubmodelDocuments
  BY DEF NewSubmodel, SubmodelDocuments
<1>8. ASSUME NEW sm \in SubmodelDocuments, NEW e \in Elements
      PROVE  /\ WithElement(sm, e) \in SubmodelDocuments
             /\ WithoutElement(sm, e) \in SubmodelDocuments
  <2>1. /\ [sm EXCEPT !.elements = @ \cup {e}] \in SubmodelDocuments
        /\ [sm EXCEPT !.elements = @ \ {e}] \in SubmodelDocuments
    BY DEF SubmodelDocuments
  <2>2. \A doc \in SubmodelDocuments : IncreaseVersion(doc) \in SubmodelDocuments
    BY DEF SubmodelDocuments, IncreaseVersion
  <2> QED BY <2>1, <2>2 DEF WithElement, WithoutElement
<1>9. \A config \in Configs, path \in Paths :
         /\ WithoutDesign(config, path) \in Configs
         /\ Patches(config, path) \subseteq Configs
  BY DEF WithoutDesign, Patches, Configs
<1>10. \A path \in Paths : \A sm : NewPolicies(sm, path) \in SUBSET Paths
  BY DEF NewPolicies
<1> QED BY <1>1, <1>2, <1>3, <1>4, <1>5, <1>6, <1>7, <1>8, <1>9, <1>10

\* A status change takes a well-formed item to a well-formed item.
LEMMA StatusChangeOK ==
    ASSUME NEW item \in Items, NEW op, Admitted(op, item)
    PROVE  HandleStatusChange(op, item) \in Items
<1>1. CASE op = "publish"
  BY <1>1 DEF Admitted, HandleStatusChange, PublishDpp, MayPublish, Items, Statuses, StatusChanges
<1>2. CASE op = "archive"
  BY <1>2 DEF Admitted, HandleStatusChange, ArchiveDpp, MayArchive, Items, Statuses, StatusChanges
<1>3. CASE op = "restore"
  BY <1>3 DEF Admitted, HandleStatusChange, RestoreDpp, MayRestore, Items, Statuses, StatusChanges
<1>4. CASE op \notin {"publish", "archive", "restore"}
  BY <1>4 DEF HandleStatusChange
<1> QED BY <1>1, <1>2, <1>3, <1>4

-----------------------------------------------------------------------------
(* The transactions                                                        *)

\* An update of some documents, each to a value of its type.
UpdateOK(update) ==
    /\ DOMAIN update \subseteq Documents
    /\ "item" \in DOMAIN update => update["item"] \in Items \cup {Absent}
    /\ "aas" \in DOMAIN update => update["aas"] \in Shells \cup {Absent}
    /\ "config" \in DOMAIN update => update["config"] \in Configs \cup {Absent}
    /\ "permalink" \in DOMAIN update => update["permalink"] \in Permalinks \cup {Absent}
    /\ "upi" \in DOMAIN update => update["upi"] \in {"issued", Absent}
    /\ \A s \in Submodels \cap DOMAIN update :
         update[s] \in SubmodelDocuments \cup {Absent}

LEMMA Names ==
    /\ OwnDocuments \subseteq Documents /\ Submodels \subseteq Documents
    /\ \A s \in Submodels : s \notin OwnDocuments
    /\ \A d \in Documents : d \in OwnDocuments \/ d \in Submodels
BY DocumentsAssumption DEF Documents

LEMMA OverwriteOK ==
    ASSUME NEW store, StoreOK(store), NEW update, UpdateOK(update)
    PROVE  StoreOK(Overwrite(store, update))
<1> DEFINE st == Overwrite(store, update)
<1>1. st = [d \in Documents |-> st[d]]
  BY DEF Overwrite
<1>2. \A d \in Documents : st[d] = IF d \in DOMAIN update THEN update[d] ELSE store[d]
  BY DEF Overwrite
<1>3. \A s \in Submodels : st[s] \in SubmodelDocuments \cup {Absent}
  BY <1>2, Names DEF StoreOK, UpdateOK
<1>4. /\ st["item"] \in Items \cup {Absent} /\ st["aas"] \in Shells \cup {Absent}
      /\ st["config"] \in Configs \cup {Absent}
      /\ st["permalink"] \in Permalinks \cup {Absent}
      /\ st["upi"] \in {"issued", Absent}
  BY <1>2, Names DEF StoreOK, UpdateOK, OwnDocuments
<1> QED BY <1>1, <1>3, <1>4 DEF StoreOK

LEMMA NothingStored == StoreOK([d \in Documents |-> Absent])
BY Names DEF StoreOK, OwnDocuments

LEMMA NoTransactionOK == TransactionOK(NoTransaction) /\ NoTransaction.open = FALSE
BY NothingStored DEF NoTransaction, TransactionOK

LEMMA StartOK ==
    ASSUME StoreOK(db), TransactionsOK, NEW r \in Requests, StartTransaction(r)
    PROVE  /\ StoreOK(db') /\ TransactionsOK'
           /\ \A q \in Requests : txn'[q].open = IF q = r THEN TRUE ELSE txn[q].open
<1> DEFINE t == [open |-> TRUE, view |-> db, written |-> {}, missed |-> {}]
<1>1. txn' = [txn EXCEPT ![r] = t] /\ db' = db
  BY DEF StartTransaction
<1>2. TransactionOK(t)
  BY DEF TransactionOK
<1> QED BY <1>1, <1>2 DEF TransactionsOK, StoreOK

LEMMA WriteOK ==
    ASSUME StoreOK(db), TransactionsOK, NEW r \in Requests, NEW update,
           UpdateOK(update), WriteInTransaction(r, update)
    PROVE  /\ StoreOK(db') /\ TransactionsOK'
           /\ \A q \in Requests : txn'[q].open = txn[q].open
<1> DEFINE t == [open    |-> TRUE,
                 view    |-> Overwrite(txn[r].view, update),
                 written |-> txn[r].written \cup Differing(txn[r].view, update),
                 missed  |-> txn[r].missed]
<1>1. txn' = [txn EXCEPT ![r] = t] /\ db' = db /\ txn[r].open
  BY DEF WriteInTransaction
<1>2. Differing(txn[r].view, update) \subseteq Documents
  BY DEF Differing, UpdateOK
<1>3. TransactionOK(txn[r])
  BY DEF TransactionsOK
<1>4. StoreOK(t.view)
  BY <1>3, OverwriteOK DEF TransactionOK
<1>5. TransactionOK(t)
  BY <1>2, <1>3, <1>4 DEF TransactionOK
<1> QED BY <1>1, <1>5 DEF TransactionsOK, StoreOK

LEMMA AbortOK ==
    ASSUME StoreOK(db), TransactionsOK, NEW r \in Requests, AbortTransaction(r)
    PROVE  /\ StoreOK(db') /\ TransactionsOK'
           /\ \A q \in Requests : txn'[q].open = IF q = r THEN FALSE ELSE txn[q].open
<1>1. txn' = [txn EXCEPT ![r] = NoTransaction] /\ db' = db
  BY DEF AbortTransaction
<1> QED BY <1>1, NoTransactionOK DEF TransactionsOK, StoreOK, NoTransaction

LEMMA NotifyOK ==
    ASSUME TransactionsOK, NEW r \in Requests, NEW changed \in SUBSET Documents,
           NEW own, TransactionOK(own), txn' = Notify(r, changed, own)
    PROVE  /\ TransactionsOK'
           /\ \A q \in Requests :
                txn'[q].open = IF q = r THEN own.open ELSE txn[q].open
<1>1. \A q \in Requests :
        txn'[q] = IF q = r THEN own
                  ELSE IF txn[q].open THEN [txn[q] EXCEPT !.missed = @ \cup changed]
                  ELSE txn[q]
  BY DEF Notify
<1>2. txn' = [q \in Requests |-> txn'[q]]
  BY DEF Notify
<1>3. ASSUME NEW q \in Requests
      PROVE  TransactionOK(txn'[q]) /\ txn'[q].open = IF q = r THEN own.open ELSE txn[q].open
  <2>1. TransactionOK(txn[q])
    BY DEF TransactionsOK
  <2> DEFINE t == [txn[q] EXCEPT !.missed = @ \cup changed]
  <2>2. t = [open |-> txn[q].open, view |-> txn[q].view, written |-> txn[q].written,
             missed |-> txn[q].missed \cup changed]
    BY <2>1 DEF TransactionOK
  <2>3. TransactionOK(t) /\ t.open = txn[q].open
    BY <2>1, <2>2 DEF TransactionOK
  <2> QED BY <1>1, <2>1, <2>3
<1> QED BY <1>2, <1>3 DEF TransactionsOK

LEMMA CommitOK ==
    ASSUME StoreOK(db), TransactionsOK, NEW r \in Requests, CommitTransaction(r)
    PROVE  /\ StoreOK(db') /\ TransactionsOK'
           /\ \A q \in Requests : txn'[q].open = IF q = r THEN FALSE ELSE txn[q].open
<1>1. TransactionOK(txn[r])
  BY DEF TransactionsOK
<1>2. txn' = Notify(r, txn[r].written, NoTransaction)
  BY DEF CommitTransaction
<1>3. TransactionsOK' /\ \A q \in Requests :
        txn'[q].open = IF q = r THEN FALSE ELSE txn[q].open
  <2>1. txn[r].written \in SUBSET Documents
    BY <1>1 DEF TransactionOK
  <2> DEFINE own == NoTransaction
  <2>2. TransactionOK(own) /\ own.open = FALSE
    BY NoTransactionOK
  <2>3. txn' = Notify(r, txn[r].written, own)
    BY <1>2
  <2> HIDE DEF own
  <2>4. /\ TransactionsOK'
        /\ \A q \in Requests : txn'[q].open = IF q = r THEN own.open ELSE txn[q].open
    BY <2>1, <2>2, <2>3, NotifyOK
  <2> QED BY <2>2, <2>4
<1>4. StoreOK(db')
  <2> DEFINE update == [d \in txn[r].written |-> txn[r].view[d]]
  <2>1. UpdateOK(update)
    BY <1>1 DEF TransactionOK, UpdateOK, StoreOK
  <2>2. db' = Overwrite(db, update)
    BY DEF CommitTransaction, Overwrite
  <2> QED BY <2>1, <2>2, OverwriteOK
<1> QED BY <1>3, <1>4

LEMMA WriteDirectlyOK ==
    ASSUME StoreOK(db), TransactionsOK, NEW r \in Requests, NEW update,
           UpdateOK(update), WriteDirectly(r, update)
    PROVE  /\ StoreOK(db') /\ TransactionsOK'
           /\ \A q \in Requests : txn'[q].open = txn[q].open
<1>1. TransactionOK(txn[r])
  BY DEF TransactionsOK
<1>2. Differing(db, update) \in SUBSET Documents
  BY DEF Differing, UpdateOK
<1>3. db' = Overwrite(db, update) /\ txn' = Notify(r, Differing(db, update), txn[r])
  BY DEF WriteDirectly
<1>4. TransactionsOK' /\ \A q \in Requests : txn'[q].open = txn[q].open
  BY <1>1, <1>2, <1>3, NotifyOK
<1> QED BY <1>3, <1>4, OverwriteOK

-----------------------------------------------------------------------------
(* The handlers' local state                                               *)

\* Reads(op) of an operation, and Callback(op), as the sequences they are.
LEMMA ReadsOf ==
    /\ Reads("addSubmodel") = <<"aas">> /\ Reads("deletePolicy") = <<"aas">>
    /\ Reads("deleteSubmodel") = <<"aas", "submodel">>
    /\ Reads("modifyShell") = <<"aas", "submodel">>
    /\ Reads("addElement") = <<"submodel", "aas">>
    /\ Reads("deleteElement") = <<"submodel", "aas">>
    /\ Reads("patchConfig") = <<"aas", "config">>
BY DEF Reads

\* What a handler in flight knows about its copies: those it has read exist,
\* apart from the submodel that modifyShell need not find.
CopiesOK(request) ==
    request.phase \in InFlightPhases =>
      /\ request.op \in AllOperations
      /\ request.arg \in Arguments(request.op)
      /\ request.item \in Items
      /\ request.phase = "reading" =>
           \A k \in 1..Len(Reads(request.op)) : k < request.step =>
             /\ Reads(request.op)[k] = "aas" => request.aas \in Shells
             /\ Reads(request.op)[k] = "submodel" /\ request.op # "modifyShell"
                  => request.submodel \in SubmodelDocuments
             /\ Reads(request.op)[k] = "config" => request.config \in Configs
      /\ request.phase # "reading" /\ request.op \in {"deleteSubmodel", "deleteElement"}
           => request.aas \in Shells

Inv == TypeOK /\ \A r \in Requests : CopiesOK(requests[r])

LEMMA ArgumentTypes ==
    /\ \A op \in AllOperations : Arguments(op) \subseteq Paths \cup {<<>>}
    /\ \A op \in {"addSubmodel", "deleteSubmodel", "addElement", "deleteElement"} :
         \A arg \in Arguments(op) : arg[1] \in Submodels
    /\ \A op \in {"addSubmodel", "deleteSubmodel", "addElement", "deleteElement",
                   "modifyShell", "deletePolicy", "patchConfig"} :
         Arguments(op) \subseteq Paths
    /\ \A op \in {"addElement", "deleteElement"} :
         \A arg \in Arguments(op) : arg[2] \in Elements
<1>1. SubmodelPaths \subseteq Paths /\ ElementPaths \subseteq Paths
  BY DEF Paths
<1>2. \A path \in SubmodelPaths : path[1] \in Submodels
  BY DEF SubmodelPaths
<1>3. /\ \A op \in {"addSubmodel", "deleteSubmodel"} : Arguments(op) = SubmodelPaths
      /\ \A op \in {"addElement", "deleteElement"} : Arguments(op) = ElementPaths
      /\ \A op \in {"modifyShell", "deletePolicy", "patchConfig"} : Arguments(op) = Paths
      /\ \A op \in StatusOperations \cup {"deletePassport"} : Arguments(op) = {<<>>}
  BY DEF Arguments, StatusOperations
<1> QED
  BY <1>1, <1>2, <1>3, PathFacts DEF AllOperations, EditOperations

\* The request of one handler changes, and the transactions with it.
LEMMA Combine ==
    ASSUME Inv, NEW r \in Requests, NEW request \in RequestTypes, CopiesOK(request),
           Update(r, request), StoreOK(db'), TransactionsOK', BookkeepingOK',
           \A q \in Requests :
             txn'[q].open = IF q = r THEN request.phase = "open" ELSE txn[q].open
    PROVE  Inv'
<1>1. requests' = [requests EXCEPT ![r] = request] /\ requests \in [Requests -> RequestTypes]
  BY DEF Update, Inv, TypeOK
<1>2. requests' \in [Requests -> RequestTypes]
  BY <1>1
<1>3. \A q \in Requests : requests'[q] = IF q = r THEN request ELSE requests[q]
  BY <1>1
<1>4. \A q \in Requests : txn'[q].open <=> requests'[q].phase = "open"
  BY <1>3 DEF Inv, TypeOK
<1>5. \A q \in Requests : CopiesOK(requests'[q])
  BY <1>3 DEF Inv
<1> QED BY <1>2, <1>4, <1>5 DEF Inv, TypeOK

LEMMA FinishedOK ==
    ASSUME Inv, NEW r \in Requests, NEW outcome \in AnsweredPhases
    PROVE  /\ Finished(r, outcome) \in RequestTypes
           /\ CopiesOK(Finished(r, outcome))
           /\ Finished(r, outcome).phase = outcome /\ outcome # "open"
           /\ Finished(r, outcome).op = requests[r].op
           /\ Finished(r, outcome).noop = requests[r].noop
<1>1. requests[r] \in RequestTypes
  BY DEF Inv, TypeOK
<1>2. NewRequest \in RequestTypes
  BY DEF NewRequest, RequestTypes
<1> DEFINE named == [NewRequest EXCEPT !.op = requests[r].op]
           ended == [named EXCEPT !.phase = outcome]
<1>3. named \in RequestTypes /\ named.op = requests[r].op
  BY <1>1, <1>2 DEF RequestTypes
<1>4. ended \in RequestTypes /\ ended.phase = outcome /\ ended.op = requests[r].op
  BY <1>3 DEF RequestTypes
<1>5. Finished(r, outcome) = [ended EXCEPT !.noop = requests[r].noop]
  BY DEF Finished
<1>6. /\ Finished(r, outcome) \in RequestTypes /\ Finished(r, outcome).phase = outcome
      /\ Finished(r, outcome).op = requests[r].op
      /\ Finished(r, outcome).noop = requests[r].noop
  <2> HIDE DEF ended
  <2> QED BY <1>1, <1>4, <1>5 DEF RequestTypes
<1> QED BY <1>6 DEF CopiesOK, InFlightPhases, AnsweredPhases

-----------------------------------------------------------------------------
(* Answers, retries and saves                                              *)

\* The changes of copies and stale that the actions make.
LEMMA FinishBookkeeping ==
    ASSUME Inv, NEW r \in Requests,
           copies' = [copies EXCEPT ![r] = {}], stale' = stale \ {r},
           UNCHANGED <<audit, tainted>>, faults' \in Nat
    PROVE  BookkeepingOK'
BY DEF Inv, TypeOK, BookkeepingOK, audit

LEMMA FinishStep ==
    ASSUME Inv, NEW r \in Requests, NEW outcome \in AnsweredPhases,
           Finish(r, outcome), StoreOK(db'), TransactionsOK',
           UNCHANGED <<audit, tainted>>, faults' \in Nat,
           \A q \in Requests : txn'[q].open = IF q = r THEN FALSE ELSE txn[q].open
    PROVE  Inv'
<1>1. BookkeepingOK'
  BY FinishBookkeeping DEF Finish
<1>2. \A q \in Requests :
        txn'[q].open = IF q = r THEN Finished(r, outcome).phase = "open" ELSE txn[q].open
  BY FinishedOK
<1>3. Update(r, Finished(r, outcome))
  BY DEF Finish
<1> QED BY <1>1, <1>2, <1>3, FinishedOK, Combine

\* No transaction is open before and after a handler outside its callback.
LEMMA Closed ==
    ASSUME Inv, NEW r \in Requests, requests[r].phase # "open"
    PROVE  txn[r].open = FALSE
BY DEF Inv, TypeOK, TransactionsOK, TransactionOK

LEMMA RefuseStep ==
    ASSUME Inv, NEW r \in Requests, requests[r].phase # "open", Refuse(r)
    PROVE  Inv'
<1>1. /\ db' = db /\ txn' = txn /\ UNCHANGED <<audit, tainted>> /\ faults' = faults
      /\ Finish(r, "refused")
  BY DEF Refuse
<1>2. StoreOK(db') /\ TransactionsOK' /\ faults' \in Nat
  BY <1>1 DEF Inv, TypeOK, BookkeepingOK, TransactionsOK
<1>3. \A q \in Requests : txn'[q].open = IF q = r THEN FALSE ELSE txn[q].open
  BY <1>1, Closed
<1> QED BY <1>1, <1>2, <1>3, FinishStep DEF AnsweredPhases

LEMMA AdvancedOK ==
    ASSUME NEW request \in RequestTypes, CopiesOK(request), request.phase = "open"
    PROVE  /\ Advanced(request) \in RequestTypes /\ CopiesOK(Advanced(request))
           /\ Advanced(request).phase = "open"
           /\ Advanced(request).step = request.step + 1
           /\ Advanced(request).op = request.op /\ Advanced(request).arg = request.arg
           /\ Advanced(request).item = request.item
           /\ Advanced(request).noop = request.noop
<1> DEFINE next == Advanced(request)
<1>1. next \in RequestTypes
  BY DEF Advanced, RequestTypes
<1>2. /\ next.op = request.op /\ next.arg = request.arg /\ next.item = request.item
      /\ next.aas = request.aas /\ next.phase = "open"
      /\ next.step = request.step + 1 /\ next.noop = request.noop
  BY DEF Advanced, RequestTypes
<1> QED BY <1>1, <1>2 DEF CopiesOK, InFlightPhases

LEMMA RestartOK ==
    ASSUME NEW request \in RequestTypes, CopiesOK(request), request.phase = "open"
    PROVE  LET again == [request EXCEPT !.phase = "ready", !.step = 1] IN
           /\ again \in RequestTypes /\ CopiesOK(again)
           /\ again.phase = "ready" /\ again.step = 1
           /\ again.op = request.op /\ again.arg = request.arg
           /\ again.item = request.item /\ again.noop = request.noop
<1> DEFINE ready == [request EXCEPT !.phase = "ready"]
           again == [ready EXCEPT !.step = 1]
<1>1. /\ ready \in RequestTypes
      /\ ready.op = request.op /\ ready.arg = request.arg /\ ready.item = request.item
      /\ ready.aas = request.aas /\ ready.phase = "ready"
      /\ ready.noop = request.noop
  BY DEF RequestTypes, InFlightPhases
<1>2. /\ again \in RequestTypes
      /\ again.op = request.op /\ again.arg = request.arg /\ again.item = request.item
      /\ again.aas = request.aas /\ again.phase = "ready"
      /\ again.step = 1 /\ again.noop = request.noop
  <2> HIDE DEF ready
  <2> QED BY <1>1 DEF RequestTypes
<1>3. again = [request EXCEPT !.phase = "ready", !.step = 1]
  OBVIOUS
<1>4. CopiesOK(again)
  <2> HIDE DEF again
  <2> QED BY <1>2 DEF CopiesOK, InFlightPhases
<1> QED BY <1>2, <1>3, <1>4

LEMMA RetryStep ==
    ASSUME Inv, NEW r \in Requests, NEW request \in RequestTypes, CopiesOK(request),
           request.phase = "open", Retry(r, request),
           UNCHANGED <<audit, tainted>>, faults' \in Nat
    PROVE  Inv'
<1> DEFINE again == [request EXCEPT !.phase = "ready", !.step = 1]
<1>1. /\ StoreOK(db') /\ TransactionsOK'
      /\ \A q \in Requests : txn'[q].open = IF q = r THEN FALSE ELSE txn[q].open
  BY AbortOK DEF Retry, Inv, TypeOK
<1>2. CASE request.attempts < MaxAttempts
  <2>1. Update(r, again) /\ UNCHANGED <<copies, stale>>
    BY <1>2 DEF Retry
  <2>2. again \in RequestTypes /\ CopiesOK(again) /\ again.phase = "ready"
    BY RestartOK
  <2>3. BookkeepingOK'
    BY <2>1 DEF Inv, TypeOK, BookkeepingOK, audit
  <2>4. \A q \in Requests :
          txn'[q].open = IF q = r THEN again.phase = "open" ELSE txn[q].open
    BY <1>1, <2>2
  <2> HIDE DEF again
  <2> QED BY <1>1, <2>1, <2>2, <2>3, <2>4, Combine
<1>3. CASE ~(request.attempts < MaxAttempts)
  <2>1. Finish(r, "failed")
    BY <1>3 DEF Retry
  <2> QED BY <1>1, <2>1, FinishStep DEF AnsweredPhases
<1> QED BY <1>2, <1>3

LEMMA ThrowStep ==
    ASSUME Inv, NEW r \in Requests, Throw(r), UNCHANGED <<audit, tainted, faults>>
    PROVE  Inv'
<1>1. /\ StoreOK(db') /\ TransactionsOK'
      /\ \A q \in Requests : txn'[q].open = IF q = r THEN FALSE ELSE txn[q].open
  BY AbortOK DEF Throw, Inv, TypeOK
<1>2. faults' \in Nat
  BY DEF Inv, TypeOK, BookkeepingOK
<1> QED BY <1>1, <1>2, FinishStep DEF AnsweredPhases, Throw

\* The handler stays in its callback.
LEMMA StayOpen ==
    ASSUME Inv, NEW r \in Requests, requests[r].phase = "open",
           NEW request \in RequestTypes, CopiesOK(request), request.phase = "open",
           Update(r, Advanced(request)), StoreOK(db'), TransactionsOK', BookkeepingOK',
           \A q \in Requests : txn'[q].open = txn[q].open
    PROVE  Inv'
<1>1. txn[r].open = TRUE
  BY DEF Inv, TypeOK, TransactionsOK, TransactionOK
<1>2. \A q \in Requests :
        txn'[q].open = IF q = r THEN Advanced(request).phase = "open" ELSE txn[q].open
  BY <1>1, AdvancedOK
<1> QED BY <1>2, AdvancedOK, Combine

LEMMA SaveStep ==
    ASSUME Inv, NEW r \in Requests, requests[r].phase = "open",
           NEW request \in RequestTypes, CopiesOK(request), request.phase = "open",
           NEW update, UpdateOK(update), Save(r, request, update)
    PROVE  Inv'
<1>1. UNCHANGED <<audit, tainted, faults>> /\ faults' \in Nat
  BY DEF Save, Inv, TypeOK, BookkeepingOK
<1>2. CASE Retry(r, request)
  BY <1>1, <1>2, RetryStep
<1>3. CASE /\ WriteInTransaction(r, update) /\ Update(r, Advanced(request))
           /\ UNCHANGED <<copies, stale>>
  <2>1. /\ StoreOK(db') /\ TransactionsOK'
        /\ \A q \in Requests : txn'[q].open = txn[q].open
    BY <1>3, WriteOK DEF Inv, TypeOK
  <2>2. BookkeepingOK'
    BY <1>1, <1>3 DEF Inv, TypeOK, BookkeepingOK, audit
  <2> QED BY <1>3, <2>1, <2>2, StayOpen
<1> QED BY <1>2, <1>3 DEF Save

-----------------------------------------------------------------------------
(* Loading and reading                                                     *)

LEMMA LoadStep ==
    ASSUME Inv, NEW r \in Requests, NEW op \in Operations, NEW arg \in Arguments(op),
           Load(r, op, arg)
    PROVE  Inv'
<1>1. /\ StoreOK(db') /\ TransactionsOK' /\ requests[r].phase = "idle"
      /\ \A q \in Requests : txn'[q].open = txn[q].open
  BY DEF Load, Inv, TypeOK, TransactionsOK
<1>2. txn[r].open = FALSE
  BY <1>1, Closed
<1>3. BookkeepingOK'
  BY Names DEF Load, Inv, TypeOK, BookkeepingOK, audit, OwnDocuments
<1>4. op \in AllOperations /\ arg \in Paths \cup {<<>>}
  BY ArgumentTypes, DocumentsAssumption
<1> DEFINE blank == [NewRequest EXCEPT !.op = op]
<1>5. NewRequest \in RequestTypes
  BY DEF NewRequest, RequestTypes
<1>6. blank \in RequestTypes /\ blank.op = op
  BY <1>4, <1>5 DEF RequestTypes
<1>7. CASE Admitted(op, db["item"])
  <2> DEFINE phase == IF Reads(op) = <<>> THEN "ready" ELSE "reading"
             item == HandleStatusChange(op, db["item"])
             named == [blank EXCEPT !.arg = arg]
             started == [named EXCEPT !.phase = phase]
             request == [started EXCEPT !.item = item]
  <2>1. item \in Items
    <3>1. db["item"] \in Items
      BY <1>7 DEF Inv, TypeOK, StoreOK, Admitted
    <3> QED BY <1>7, <3>1, StatusChangeOK
  <2>2. blank.step = 1
    BY DEF NewRequest
  <2>3. named \in RequestTypes /\ named.op = op /\ named.arg = arg /\ named.step = 1
    <3> HIDE DEF blank
    <3> QED BY <1>4, <1>6, <2>2 DEF RequestTypes
  <2>4. /\ started \in RequestTypes /\ started.op = op /\ started.arg = arg
        /\ started.step = 1 /\ started.phase = phase
    <3> HIDE DEF named
    <3> QED BY <2>3 DEF RequestTypes, InFlightPhases
  <2>5. /\ request \in RequestTypes /\ request.op = op /\ request.arg = arg
        /\ request.step = 1 /\ request.phase = phase /\ request.item = item
    <3> HIDE DEF started, item
    <3> QED BY <2>1, <2>4 DEF RequestTypes
  <2>6. Update(r, request)
    BY <1>7 DEF Load
  <2>7. op \in {"deleteSubmodel", "deleteElement"} => phase = "reading"
    BY ReadsOf
  <2> HIDE DEF request
  <2>8. CopiesOK(request) /\ request.phase # "open"
    BY <1>4, <2>1, <2>5, <2>7 DEF CopiesOK
  <2>9. \A q \in Requests : txn'[q].open = IF q = r THEN request.phase = "open" ELSE txn[q].open
    BY <1>1, <1>2, <2>8
  <2> QED BY <1>1, <1>3, <2>5, <2>6, <2>8, <2>9, Combine
<1>8. CASE ~Admitted(op, db["item"])
  <2> DEFINE request == [blank EXCEPT !.phase = "refused"]
  <2>1. request \in RequestTypes /\ request.phase = "refused"
    <3> HIDE DEF blank
    <3> QED BY <1>6 DEF RequestTypes, AnsweredPhases
  <2>2. Update(r, request)
    BY <1>8 DEF Load
  <2> HIDE DEF request
  <2>3. CopiesOK(request) /\ request.phase # "open"
    BY <2>1 DEF CopiesOK, InFlightPhases
  <2>4. \A q \in Requests : txn'[q].open = IF q = r THEN request.phase = "open" ELSE txn[q].open
    BY <1>1, <1>2, <2>3
  <2> QED BY <1>1, <1>3, <2>1, <2>2, <2>3, <2>4, Combine
<1> QED BY <1>7, <1>8

LEMMA KeepStep ==
    ASSUME Inv, NEW r \in Requests, requests[r].phase # "open", NEW document \in Documents,
           NEW request, Advanced(request) \in RequestTypes, CopiesOK(Advanced(request)),
           Advanced(request).phase # "open", Keep(r, document, request)
    PROVE  Inv'
<1>1. /\ StoreOK(db') /\ TransactionsOK'
      /\ \A q \in Requests : txn'[q].open = txn[q].open
  BY DEF Keep, Inv, TypeOK, TransactionsOK
<1>2. BookkeepingOK'
  BY DEF Keep, Inv, TypeOK, BookkeepingOK, audit
<1>3. \A q \in Requests :
        txn'[q].open = IF q = r THEN Advanced(request).phase = "open" ELSE txn[q].open
  BY <1>1, Closed
<1> QED BY <1>1, <1>2, <1>3, Combine DEF Keep

LEMMA ReadShellStep ==
    ASSUME Inv, NEW r \in Requests, ReadShell(r)
    PROVE  Inv'
<1> DEFINE old == requests[r]
           read == [old EXCEPT !.aas = db["aas"]]
           next == Advanced(read)
<1>1. /\ old \in RequestTypes /\ CopiesOK(old) /\ old.phase = "reading"
      /\ old.step <= Len(Reads(old.op)) /\ Reads(old.op)[old.step] = "aas"
  BY DEF ReadShell, AtRead, Inv, TypeOK
<1>2. CASE db["aas"] = Absent
  BY <1>1, <1>2, RefuseStep DEF ReadShell
<1>3. CASE db["aas"] # Absent
  <2>1. db["aas"] \in Shells
    BY <1>3 DEF Inv, TypeOK, StoreOK
  <2>2. /\ read \in RequestTypes /\ read.aas = db["aas"] /\ read.step = old.step
        /\ read.op = old.op /\ read.arg = old.arg /\ read.item = old.item
        /\ read.phase = "reading" /\ read.submodel = old.submodel
        /\ read.config = old.config
    BY <1>1, <2>1 DEF RequestTypes
  <2>3. Keep(r, "aas", read)
    BY <1>3 DEF ReadShell
  <2> HIDE DEF read
  <2>4. /\ next \in RequestTypes /\ next.aas = db["aas"] /\ next.step = old.step + 1
        /\ next.op = old.op /\ next.arg = old.arg /\ next.item = old.item
        /\ next.phase = "reading" /\ next.submodel = old.submodel
        /\ next.config = old.config
    BY <2>2 DEF RequestTypes, Advanced
  <2> HIDE DEF next
  <2>5. CopiesOK(next)
    <3>1. \A k \in 1..Len(Reads(old.op)) : k < old.step + 1 => k < old.step \/ k = old.step
      BY <1>1 DEF RequestTypes
    <3> QED BY <1>1, <2>1, <2>4, <3>1 DEF CopiesOK, InFlightPhases
  <2> USE DEF next
  <2> QED BY <1>1, <2>3, <2>4, <2>5, KeepStep, Names DEF OwnDocuments
<1> QED BY <1>2, <1>3

\* A handler that reads a submodel has one in its argument.
LEMMA SubmodelReaders ==
    ASSUME NEW op \in AllOperations, NEW k \in 1..Len(Reads(op)), Reads(op)[k] = "submodel"
    PROVE  \A arg \in Arguments(op) : arg[1] \in Submodels
<1>1. op \in {"deleteSubmodel", "modifyShell", "addElement", "deleteElement"}
  <2>1. op \notin StatusOperations \cup {"deletePassport"}
    <3>1. op \in StatusOperations \cup {"deletePassport"} => Reads(op) = <<>>
      BY DEF Reads, StatusOperations
    <3>2. 1..Len(<<>>) = {}
      OBVIOUS
    <3> QED BY <3>1, <3>2
  <2>2. op \notin {"addSubmodel", "deletePolicy"}
    <3>1. Len(<<"aas">>) = 1 /\ \A i \in 1..1 : <<"aas">>[i] = "aas"
      OBVIOUS
    <3> QED BY <3>1, ReadsOf
  <2>3. op # "patchConfig"
    <3>1. /\ Len(<<"aas", "config">>) = 2
          /\ \A i \in 1..2 : <<"aas", "config">>[i] \in {"aas", "config"}
      OBVIOUS
    <3> QED BY <3>1, ReadsOf
  <2> QED BY <2>1, <2>2, <2>3 DEF AllOperations, EditOperations
<1> QED BY <1>1, ArgumentTypes, PathFacts

LEMMA ReadSubmodelStep ==
    ASSUME Inv, NEW r \in Requests, ReadSubmodel(r)
    PROVE  Inv'
<1> DEFINE old == requests[r]
           found == IF Root(r) \in old.item.env THEN db[Root(r)] ELSE Absent
           read == [old EXCEPT !.submodel = found]
           next == Advanced(read)
<1>1. /\ old \in RequestTypes /\ CopiesOK(old) /\ old.phase = "reading"
      /\ old.step <= Len(Reads(old.op)) /\ Reads(old.op)[old.step] = "submodel"
  BY DEF ReadSubmodel, AtRead, Inv, TypeOK
<1>2. Root(r) \in Submodels
  <2>1. old.op \in AllOperations /\ old.arg \in Arguments(old.op) /\ old.step \in Nat \ {0}
    BY <1>1 DEF CopiesOK, InFlightPhases, RequestTypes
  <2> QED BY <1>1, <2>1, SubmodelReaders DEF Root
<1>3. CASE found = Absent /\ old.op # "modifyShell"
  BY <1>1, <1>3, RefuseStep DEF ReadSubmodel
<1>4. CASE ~(found = Absent /\ old.op # "modifyShell")
  <2>1. found \in SubmodelDocuments \cup {Absent}
    <3>1. \A s \in Submodels : db[s] \in SubmodelDocuments \cup {Absent}
      BY DEF Inv, TypeOK, StoreOK
    <3> QED BY <1>2, <3>1
  <2>2. Keep(r, Root(r), read)
    BY <1>4 DEF ReadSubmodel
  <2> HIDE DEF found
  <2>3. /\ read \in RequestTypes /\ read.aas = old.aas /\ read.step = old.step
        /\ read.op = old.op /\ read.arg = old.arg /\ read.item = old.item
        /\ read.phase = "reading" /\ read.submodel = found
        /\ read.config = old.config
    BY <1>1, <2>1 DEF RequestTypes
  <2> HIDE DEF read
  <2>4. /\ next \in RequestTypes /\ next.aas = old.aas /\ next.step = old.step + 1
        /\ next.op = old.op /\ next.arg = old.arg /\ next.item = old.item
        /\ next.phase = "reading" /\ next.submodel = found
        /\ next.config = old.config
    BY <2>3 DEF RequestTypes, Advanced
  <2> HIDE DEF next
  <2>5. CopiesOK(next)
    <3>1. \A k \in 1..Len(Reads(old.op)) : k < old.step + 1 => k < old.step \/ k = old.step
      BY <1>1 DEF RequestTypes
    <3> QED BY <1>1, <1>4, <2>1, <2>4, <3>1 DEF CopiesOK, InFlightPhases
  <2> USE DEF next
  <2> QED BY <1>1, <1>2, <2>2, <2>4, <2>5, KeepStep, Names
<1> QED BY <1>3, <1>4

LEMMA ReadConfigStep ==
    ASSUME Inv, NEW r \in Requests, ReadConfig(r)
    PROVE  Inv'
<1> DEFINE old == requests[r]
           read == [old EXCEPT !.config = db["config"]]
           next == Advanced(read)
<1>1. /\ old \in RequestTypes /\ CopiesOK(old) /\ old.phase = "reading"
      /\ old.step <= Len(Reads(old.op)) /\ Reads(old.op)[old.step] = "config"
  BY DEF ReadConfig, AtRead, Inv, TypeOK
<1>2. CASE db["config"] = Absent
  BY <1>1, <1>2, RefuseStep DEF ReadConfig
<1>3. CASE db["config"] # Absent
  <2>1. db["config"] \in Configs
    BY <1>3 DEF Inv, TypeOK, StoreOK
  <2>2. /\ read \in RequestTypes /\ read.aas = old.aas /\ read.step = old.step
        /\ read.op = old.op /\ read.arg = old.arg /\ read.item = old.item
        /\ read.phase = "reading" /\ read.submodel = old.submodel
        /\ read.config = db["config"]
    BY <1>1, <2>1 DEF RequestTypes
  <2>3. Keep(r, "config", read)
    BY <1>3 DEF ReadConfig
  <2> HIDE DEF read
  <2>4. /\ next \in RequestTypes /\ next.aas = old.aas /\ next.step = old.step + 1
        /\ next.op = old.op /\ next.arg = old.arg /\ next.item = old.item
        /\ next.phase = "reading" /\ next.submodel = old.submodel
        /\ next.config = db["config"]
    BY <2>2 DEF RequestTypes, Advanced
  <2> HIDE DEF next
  <2>5. CopiesOK(next)
    <3>1. \A k \in 1..Len(Reads(old.op)) : k < old.step + 1 => k < old.step \/ k = old.step
      BY <1>1 DEF RequestTypes
    <3> QED BY <1>1, <2>1, <2>4, <3>1 DEF CopiesOK, InFlightPhases
  <2> USE DEF next
  <2> QED BY <1>1, <2>3, <2>4, <2>5, KeepStep, Names DEF OwnDocuments
<1> QED BY <1>2, <1>3

-----------------------------------------------------------------------------
(* Preparing the copies                                                    *)

LEMMA ReadyStep ==
    ASSUME Inv, NEW r \in Requests, requests[r].phase # "open",
           NEW request \in RequestTypes,
           request.op \in AllOperations, request.arg \in Arguments(request.op),
           request.item \in Items,
           request.op \in {"deleteSubmodel", "deleteElement"} => request.aas \in Shells,
           Ready(r, request)
    PROVE  Inv'
<1> DEFINE ready == [request EXCEPT !.phase = "ready"]
           next == [ready EXCEPT !.step = 1]
<1>1. /\ ready \in RequestTypes /\ ready.phase = "ready"
      /\ ready.op = request.op /\ ready.arg = request.arg /\ ready.item = request.item
      /\ ready.aas = request.aas
  BY DEF RequestTypes, InFlightPhases
<1>2. Update(r, next) /\ UNCHANGED <<db, txn, audit, copies, stale, tainted, faults>>
  BY DEF Ready
<1> HIDE DEF ready
<1>3. /\ next \in RequestTypes /\ next.phase = "ready"
      /\ next.op = request.op /\ next.arg = request.arg /\ next.item = request.item
      /\ next.aas = request.aas
  BY <1>1 DEF RequestTypes
<1> HIDE DEF next
<1>4. CopiesOK(next) /\ next.phase # "open"
  BY <1>3 DEF CopiesOK
<1>5. StoreOK(db') /\ TransactionsOK' /\ BookkeepingOK'
  BY <1>2 DEF Inv, TypeOK, TransactionsOK, BookkeepingOK, audit
<1>6. \A q \in Requests : txn'[q].open = IF q = r THEN next.phase = "open" ELSE txn[q].open
  BY <1>2, <1>4, Closed
<1> QED BY <1>2, <1>3, <1>4, <1>5, <1>6, Combine

\* What a handler holds when its reads are done.
LEMMA PreparedOK ==
    ASSUME Inv, NEW r \in Requests, NEW op \in AllOperations, Prepared(r, op)
    PROVE  /\ requests[r] \in RequestTypes /\ requests[r].op = op
           /\ requests[r].phase # "open"
           /\ requests[r].arg \in Arguments(op) /\ requests[r].item \in Items
           /\ op \in EditOperations \cup {"patchConfig"} => requests[r].aas \in Shells
           /\ op \in {"addElement", "deleteElement"}
                => requests[r].submodel \in SubmodelDocuments
           /\ op = "patchConfig" => requests[r].config \in Configs
<1> DEFINE old == requests[r]
<1>1. /\ old \in RequestTypes /\ CopiesOK(old) /\ old.phase = "reading" /\ old.op = op
      /\ old.step = Len(Reads(op)) + 1
  BY DEF Prepared, Inv, TypeOK
<1> HIDE DEF old
<1>2. /\ old.arg \in Arguments(op) /\ old.item \in Items
      /\ \A k \in 1..Len(Reads(op)) :
           /\ Reads(op)[k] = "aas" => old.aas \in Shells
           /\ Reads(op)[k] = "submodel" /\ op # "modifyShell"
                => old.submodel \in SubmodelDocuments
           /\ Reads(op)[k] = "config" => old.config \in Configs
  BY <1>1 DEF CopiesOK, InFlightPhases
<1>3. op \in EditOperations \cup {"patchConfig"} => old.aas \in Shells
  <2>1. \/ Len(Reads(op)) >= 1 /\ Reads(op)[1] = "aas"
        \/ Len(Reads(op)) = 2 /\ Reads(op)[2] = "aas"
        \/ op \notin EditOperations \cup {"patchConfig"}
    BY ReadsOf DEF EditOperations
  <2>2. Len(Reads(op)) >= 1 => 1 \in 1..Len(Reads(op))
    BY ReadsOf DEF Reads
  <2> QED BY <1>2, <2>1, <2>2
<1>4. op \in {"addElement", "deleteElement"} => old.submodel \in SubmodelDocuments
  BY <1>2, ReadsOf
<1>5. op = "patchConfig" => old.config \in Configs
  BY <1>2, ReadsOf
<1> QED BY <1>1, <1>2, <1>3, <1>4, <1>5 DEF old

LEMMA PrepareAddSubmodelStep ==
    ASSUME Inv, NEW r \in Requests, PrepareAddSubmodel(r)
    PROVE  Inv'
<1> DEFINE old == requests[r]
           s == Root(r)
           env == old.item.env \cup {s}
           item == [old.item EXCEPT !.env = env]
           aas == IncreaseVersion(WithSubmodel(old.aas, s))
<1>1. Prepared(r, "addSubmodel") /\ "addSubmodel" \in AllOperations
  BY DEF PrepareAddSubmodel, AllOperations, EditOperations
<1>2. /\ old \in RequestTypes /\ old.op = "addSubmodel" /\ old.phase # "open"
      /\ old.arg \in Arguments("addSubmodel") /\ old.item \in Items /\ old.aas \in Shells
  BY <1>1, PreparedOK DEF EditOperations
<1>3. s \in Submodels
  BY <1>2, ArgumentTypes DEF Root
<1>4. CASE s \in old.item.env
  BY <1>2, <1>4, RefuseStep DEF PrepareAddSubmodel
<1>5. CASE s \notin old.item.env
  <2> DEFINE added == [old EXCEPT !.item = item]
             shelled == [added EXCEPT !.aas = aas]
             request == [shelled EXCEPT !.submodel = NewSubmodel]
  <2>1. item \in Items
    BY <1>2, <1>3 DEF Items
  <2>2. aas \in Shells
    BY <1>2, <1>3, MethodTypes
  <2>3. Ready(r, request)
    BY <1>5 DEF PrepareAddSubmodel
  <2> HIDE DEF item, aas
  <2>4. added \in RequestTypes /\ added.op = old.op /\ added.arg = old.arg /\ added.item = item
    BY <1>2, <2>1 DEF RequestTypes
  <2> HIDE DEF added
  <2>5. /\ shelled \in RequestTypes /\ shelled.op = old.op /\ shelled.arg = old.arg
        /\ shelled.item = item
    BY <2>2, <2>4 DEF RequestTypes
  <2> HIDE DEF shelled
  <2>6. /\ request \in RequestTypes /\ request.op = old.op /\ request.arg = old.arg
        /\ request.item = item
    BY <2>5, MethodTypes DEF RequestTypes
  <2> HIDE DEF request
  <2> QED BY <1>1, <1>2, <2>1, <2>3, <2>6, ReadyStep
<1> QED BY <1>4, <1>5

LEMMA PrepareDeleteSubmodelStep ==
    ASSUME Inv, NEW r \in Requests, PrepareDeleteSubmodel(r)
    PROVE  Inv'
<1>1. Prepared(r, "deleteSubmodel") /\ "deleteSubmodel" \in EditOperations
  BY DEF PrepareDeleteSubmodel, EditOperations
<1>2. Ready(r, requests[r]) \/ Refuse(r)
  BY DEF PrepareDeleteSubmodel
<1> QED BY <1>1, <1>2, PreparedOK, ReadyStep, RefuseStep DEF AllOperations

LEMMA PrepareAddElementStep ==
    ASSUME Inv, NEW r \in Requests, PrepareAddElement(r)
    PROVE  Inv'
<1> DEFINE old == requests[r]
           submodel == WithElement(old.submodel, Argument(r)[2])
           request == [old EXCEPT !.submodel = submodel]
<1>1. Prepared(r, "addElement") /\ "addElement" \in EditOperations
  BY DEF PrepareAddElement, EditOperations
<1>2. /\ old \in RequestTypes /\ old.op = "addElement" /\ old.phase # "open"
      /\ old.arg \in Arguments("addElement") /\ old.item \in Items
      /\ old.submodel \in SubmodelDocuments
  BY <1>1, PreparedOK DEF AllOperations
<1>3. submodel \in SubmodelDocuments
  BY <1>2, ArgumentTypes, MethodTypes DEF Argument
<1>4. Ready(r, request) \/ Refuse(r)
  BY DEF PrepareAddElement
<1> HIDE DEF submodel
<1>5. /\ request \in RequestTypes /\ request.op = old.op /\ request.arg = old.arg
      /\ request.item = old.item
  BY <1>2, <1>3 DEF RequestTypes
<1> HIDE DEF request
<1> QED BY <1>1, <1>2, <1>4, <1>5, ReadyStep, RefuseStep DEF AllOperations

LEMMA PrepareDeleteElementStep ==
    ASSUME Inv, NEW r \in Requests, PrepareDeleteElement(r)
    PROVE  Inv'
<1> DEFINE old == requests[r]
           submodel == WithoutElement(old.submodel, Argument(r)[2])
           aas == IncreaseVersion(old.aas)
           cut == [old EXCEPT !.submodel = submodel]
           request == [cut EXCEPT !.aas = aas]
<1>1. Prepared(r, "deleteElement") /\ "deleteElement" \in EditOperations
  BY DEF PrepareDeleteElement, EditOperations
<1>2. /\ old \in RequestTypes /\ old.op = "deleteElement" /\ old.phase # "open"
      /\ old.arg \in Arguments("deleteElement") /\ old.item \in Items
      /\ old.submodel \in SubmodelDocuments /\ old.aas \in Shells
  BY <1>1, PreparedOK DEF AllOperations
<1>3. submodel \in SubmodelDocuments /\ aas \in Shells
  BY <1>2, ArgumentTypes, MethodTypes DEF Argument
<1>4. Ready(r, request) \/ Refuse(r)
  BY DEF PrepareDeleteElement
<1> HIDE DEF submodel, aas
<1>5. /\ cut \in RequestTypes /\ cut.op = old.op /\ cut.arg = old.arg /\ cut.item = old.item
  BY <1>2, <1>3 DEF RequestTypes
<1> HIDE DEF cut
<1>6. /\ request \in RequestTypes /\ request.op = old.op /\ request.arg = old.arg
      /\ request.item = old.item /\ request.aas = aas
  BY <1>3, <1>5 DEF RequestTypes
<1> HIDE DEF request
<1> QED BY <1>1, <1>2, <1>3, <1>4, <1>6, ReadyStep, RefuseStep DEF AllOperations

\* The two operations that change policies alone.
LEMMA PrepareShellStep ==
    ASSUME Inv, NEW r \in Requests, NEW op \in {"modifyShell", "deletePolicy"},
           Prepared(r, op), NEW noop \in BOOLEAN, NEW aas \in Shells,
           Ready(r, [requests[r] EXCEPT !.noop = noop, !.aas = aas])
    PROVE  Inv'
<1> DEFINE old == requests[r]
           noted == [old EXCEPT !.noop = noop]
           request == [noted EXCEPT !.aas = aas]
<1>1. op \in EditOperations
  BY DEF EditOperations
<1>2. /\ old \in RequestTypes /\ old.op = op /\ old.phase # "open"
      /\ old.arg \in Arguments(op) /\ old.item \in Items
  BY <1>1, PreparedOK DEF AllOperations
<1>3. Ready(r, request)
  OBVIOUS
<1>4. /\ noted \in RequestTypes /\ noted.op = old.op /\ noted.arg = old.arg
      /\ noted.item = old.item
  BY <1>2 DEF RequestTypes
<1> HIDE DEF noted
<1>5. /\ request \in RequestTypes /\ request.op = old.op /\ request.arg = old.arg
      /\ request.item = old.item /\ request.aas = aas
  BY <1>4 DEF RequestTypes
<1> HIDE DEF request
<1> QED BY <1>1, <1>2, <1>3, <1>5, ReadyStep DEF AllOperations

LEMMA PrepareModifyShellStep ==
    ASSUME Inv, NEW r \in Requests, PrepareModifyShell(r)
    PROVE  Inv'
<1> DEFINE added == NewPolicies(requests[r].submodel, requests[r].arg)
           aas == WithPolicies(requests[r].aas, added)
<1>1. Prepared(r, "modifyShell")
  BY DEF PrepareModifyShell
<1>2. requests[r].arg \in Paths /\ requests[r].aas \in Shells
  BY <1>1, PreparedOK, ArgumentTypes DEF AllOperations, EditOperations
<1>3. aas \in Shells
  BY <1>2, MethodTypes
<1> QED BY <1>1, <1>3, PrepareShellStep DEF PrepareModifyShell

LEMMA PrepareDeletePolicyStep ==
    ASSUME Inv, NEW r \in Requests, PrepareDeletePolicy(r)
    PROVE  Inv'
<1> DEFINE aas == WithoutPolicy(requests[r].aas, requests[r].arg)
<1>1. Prepared(r, "deletePolicy")
  BY DEF PrepareDeletePolicy
<1>2. requests[r].arg \in Paths /\ requests[r].aas \in Shells
  BY <1>1, PreparedOK, ArgumentTypes DEF AllOperations, EditOperations
<1>3. aas \in Shells
  BY <1>2, MethodTypes
<1> QED BY <1>1, <1>3, PrepareShellStep DEF PrepareDeletePolicy

LEMMA PreparePatchConfigStep ==
    ASSUME Inv, NEW r \in Requests, PreparePatchConfig(r)
    PROVE  Inv'
<1> DEFINE old == requests[r]
<1>1. Prepared(r, "patchConfig") /\ "patchConfig" \in AllOperations
  BY DEF PreparePatchConfig, AllOperations
<1>2. /\ old \in RequestTypes /\ old.op = "patchConfig" /\ old.phase # "open"
      /\ old.arg \in Arguments("patchConfig") /\ old.item \in Items
      /\ old.config \in Configs
  BY <1>1, PreparedOK
<1>3. CASE Refuse(r)
  BY <1>2, <1>3, RefuseStep
<1>4. ASSUME NEW patched \in Patches(old.config, Argument(r)),
             Ready(r, [old EXCEPT !.noop = (patched = old.config), !.config = patched])
      PROVE  Inv'
  <2> DEFINE noop == patched = old.config
             noted == [old EXCEPT !.noop = noop]
             request == [noted EXCEPT !.config = patched]
  <2>1. patched \in Configs
    BY <1>2, ArgumentTypes, MethodTypes DEF Argument
  <2>2. Ready(r, request) /\ noop \in BOOLEAN
    BY <1>4
  <2> HIDE DEF noop
  <2>3. /\ noted \in RequestTypes /\ noted.op = old.op /\ noted.arg = old.arg
        /\ noted.item = old.item
    BY <1>2, <2>2 DEF RequestTypes
  <2> HIDE DEF noted
  <2>4. /\ request \in RequestTypes /\ request.op = old.op /\ request.arg = old.arg
        /\ request.item = old.item
    BY <2>1, <2>3 DEF RequestTypes
  <2> HIDE DEF request
  <2> QED BY <1>1, <1>2, <2>2, <2>4, ReadyStep
<1> QED BY <1>3, <1>4 DEF PreparePatchConfig

-----------------------------------------------------------------------------
(* The transaction callback                                                *)

LEMMA CallbackOf ==
    /\ Callback("addSubmodel") = <<"item", "submodel", "aas", "activity">>
    /\ Callback("deleteSubmodel") =
         <<"dropSubmodel", "aas", "item", "activity", "design">>
    /\ Callback("addElement") = <<"submodel", "activity">>
    /\ Callback("deleteElement") = <<"design", "submodel", "aas", "activity">>
    /\ Callback("modifyShell") = <<"aas", "activity">>
    /\ Callback("deletePolicy") = <<"aas", "activity">>
    /\ Callback("publish") = <<"item", "permalink", "activity">>
    /\ Callback("archive") = <<"item", "activity">>
    /\ Callback("restore") = <<"item", "activity">>
    /\ Callback("deletePassport") = <<"dropAll">>
    /\ Callback("patchConfig") = <<"dropAll">>
BY DEF Callback

\* The operations whose callbacks touch a submodel or the design.
LEMMA CallbackSteps ==
    ASSUME NEW op \in AllOperations, NEW k \in 1..Len(Callback(op))
    PROVE  /\ Callback(op)[k] = "submodel" => op \in {"addSubmodel", "addElement", "deleteElement"}
           /\ Callback(op)[k] = "dropSubmodel" => op = "deleteSubmodel"
           /\ Callback(op)[k] = "design" => op \in {"deleteSubmodel", "deleteElement"}
<1>1. CASE op \in {"addSubmodel", "addElement"}
  <2>1. /\ Len(<<"item", "submodel", "aas", "activity">>) = 4
        /\ \A i \in 1..4 : <<"item", "submodel", "aas", "activity">>[i]
                             \in {"item", "submodel", "aas", "activity"}
    OBVIOUS
  <2>2. /\ Len(<<"submodel", "activity">>) = 2
        /\ \A i \in 1..2 : <<"submodel", "activity">>[i] \in {"submodel", "activity"}
    OBVIOUS
  <2> QED BY <1>1, <2>1, <2>2, CallbackOf
<1>2. CASE op = "deleteSubmodel"
  <2>1. /\ Len(<<"dropSubmodel", "aas", "item", "activity", "design">>) = 5
        /\ \A i \in 1..5 : <<"dropSubmodel", "aas", "item", "activity", "design">>[i]
                             # "submodel"
    OBVIOUS
  <2> QED BY <1>2, <2>1, CallbackOf
<1>3. CASE op = "deleteElement"
  <2>1. /\ Len(<<"design", "submodel", "aas", "activity">>) = 4
        /\ \A i \in 1..4 : <<"design", "submodel", "aas", "activity">>[i] # "dropSubmodel"
    OBVIOUS
  <2> QED BY <1>3, <2>1, CallbackOf
<1>4. CASE op \in {"modifyShell", "deletePolicy", "archive", "restore"}
  <2>1. /\ Len(<<"aas", "activity">>) = 2 /\ Len(<<"item", "activity">>) = 2
        /\ \A i \in 1..2 : /\ <<"aas", "activity">>[i] \in {"aas", "activity"}
                           /\ <<"item", "activity">>[i] \in {"item", "activity"}
    OBVIOUS
  <2> QED BY <1>4, <2>1, CallbackOf
<1>5. CASE op = "publish"
  <2>1. /\ Len(<<"item", "permalink", "activity">>) = 3
        /\ \A i \in 1..3 : <<"item", "permalink", "activity">>[i]
                             \in {"item", "permalink", "activity"}
    OBVIOUS
  <2> QED BY <1>5, <2>1, CallbackOf
<1>6. CASE op \in {"deletePassport", "patchConfig"}
  <2>1. Len(<<"dropAll">>) = 1 /\ \A i \in 1..1 : <<"dropAll">>[i] = "dropAll"
    OBVIOUS
  <2> QED BY <1>6, <2>1, CallbackOf
<1> QED
  BY <1>1, <1>2, <1>3, <1>4, <1>5, <1>6 DEF AllOperations, EditOperations, StatusOperations

\* What a handler holds in its callback.
LEMMA OpenOK ==
    ASSUME Inv, NEW r \in Requests, requests[r].phase = "open"
    PROVE  /\ requests[r] \in RequestTypes /\ CopiesOK(requests[r])
           /\ requests[r].op \in AllOperations
           /\ requests[r].arg \in Arguments(requests[r].op)
           /\ requests[r].item \in Items
           /\ requests[r].op \in {"deleteSubmodel", "deleteElement"}
                => requests[r].aas \in Shells
           /\ StoreOK(db) /\ TransactionOK(txn[r])
           /\ txn[r].open = TRUE
<1>1. /\ requests[r] \in RequestTypes /\ CopiesOK(requests[r]) /\ StoreOK(db)
      /\ TransactionOK(txn[r]) /\ txn[r].open = TRUE
  BY DEF Inv, TypeOK, TransactionsOK, TransactionOK
<1> QED BY <1>1 DEF CopiesOK, InFlightPhases

\* The step of the callback that a handler has reached.
LEMMA AtStepOK ==
    ASSUME Inv, NEW r \in Requests, NEW name, AtStep(r, name)
    PROVE  /\ requests[r].phase = "open"
           /\ requests[r].step \in 1..Len(Callback(requests[r].op))
           /\ Callback(requests[r].op)[requests[r].step] = name
<1>1. requests[r].step \in Nat \ {0}
  BY DEF Inv, TypeOK, RequestTypes
<1>2. Len(Callback(requests[r].op)) \in Nat
  <2>1. requests[r].op \in AllOperations
    BY OpenOK DEF AtStep
  <2> QED BY <2>1, CallbackOf DEF AllOperations, EditOperations, StatusOperations
<1> QED BY <1>1, <1>2 DEF AtStep, NextStep

\* Updates of one document, or of none.
LEMMA OneOK ==
    /\ \A item \in Items \cup {Absent} : UpdateOK(One("item", item))
    /\ \A aas \in Shells \cup {Absent} : UpdateOK(One("aas", aas))
    /\ \A config \in Configs \cup {Absent} : UpdateOK(One("config", config))
    /\ UpdateOK(One("permalink", "frozen"))
    /\ \A s \in Submodels : \A sm \in SubmodelDocuments \cup {Absent} : UpdateOK(One(s, sm))
    /\ UpdateOK(Nothing)
<1>1. \A d, v : DOMAIN One(d, v) = {d} /\ One(d, v)[d] = v
  BY DEF One
<1>2. DOMAIN Nothing = {}
  BY DEF Nothing
<1>3. UpdateOK(Nothing)
  BY <1>2 DEF UpdateOK
<1>4. ASSUME NEW s \in Submodels, NEW sm \in SubmodelDocuments \cup {Absent}
      PROVE  UpdateOK(One(s, sm))
  <2> DEFINE update == One(s, sm)
  <2>1. DOMAIN update = {s} /\ update[s] = sm
    BY <1>1
  <2> HIDE DEF update
  <2>2. UpdateOK(update)
    BY <2>1, Names DEF UpdateOK, OwnDocuments
  <2> QED BY <2>2 DEF update
<1>5. ASSUME NEW d \in OwnDocuments, NEW v,
             d = "item" => v \in Items \cup {Absent},
             d = "aas" => v \in Shells \cup {Absent},
             d = "config" => v \in Configs \cup {Absent},
             d = "permalink" => v \in Permalinks \cup {Absent},
             d = "upi" => v \in {"issued", Absent}
      PROVE  UpdateOK(One(d, v))
  <2> DEFINE update == One(d, v)
  <2>1. DOMAIN update = {d} /\ update[d] = v
    BY <1>1
  <2> HIDE DEF update
  <2>2. UpdateOK(update)
    BY <1>5, <2>1, Names DEF UpdateOK, OwnDocuments
  <2> QED BY <2>2 DEF update
<1> QED BY <1>3, <1>4, <1>5 DEF OwnDocuments, Permalinks

LEMMA BeginStep ==
    ASSUME Inv, NEW r \in Requests, Begin(r)
    PROVE  Inv'
<1> DEFINE old == requests[r]
           history == IF old.op = "deletePassport"
                      THEN {q \in Requests : activities[q] > 0} ELSE {}
           opened == [old EXCEPT !.phase = "open"]
           attempts == opened.attempts + 1
           counted == [opened EXCEPT !.attempts = attempts]
           request == [counted EXCEPT !.history = history]
<1>1. old \in RequestTypes /\ CopiesOK(old) /\ old.phase = "ready"
  BY DEF Begin, Inv, TypeOK
<1>2. /\ old.op \in AllOperations /\ old.arg \in Arguments(old.op) /\ old.item \in Items
      /\ old.op \in {"deleteSubmodel", "deleteElement"} => old.aas \in Shells
  BY <1>1 DEF CopiesOK, InFlightPhases
<1>3. /\ StoreOK(db') /\ TransactionsOK'
      /\ \A q \in Requests : txn'[q].open = IF q = r THEN TRUE ELSE txn[q].open
  BY StartOK DEF Begin, Inv, TypeOK
<1>4. BookkeepingOK'
  BY DEF Begin, Inv, TypeOK, BookkeepingOK, audit
<1>5. Update(r, request)
  BY <1>1 DEF Begin, RequestTypes
<1>6. history \in SUBSET Requests
  OBVIOUS
<1> HIDE DEF history
<1>7. /\ opened \in RequestTypes /\ opened.phase = "open" /\ opened.op = old.op
      /\ opened.arg = old.arg /\ opened.item = old.item /\ opened.aas = old.aas
      /\ attempts \in Nat
  BY <1>1 DEF RequestTypes, InFlightPhases
<1> HIDE DEF opened, attempts
<1>8. /\ counted \in RequestTypes /\ counted.phase = "open" /\ counted.op = old.op
      /\ counted.arg = old.arg /\ counted.item = old.item /\ counted.aas = old.aas
  BY <1>7 DEF RequestTypes
<1> HIDE DEF counted
<1>9. /\ request \in RequestTypes /\ request.phase = "open" /\ request.op = old.op
      /\ request.arg = old.arg /\ request.item = old.item /\ request.aas = old.aas
  BY <1>6, <1>8 DEF RequestTypes
<1> HIDE DEF request
<1>10. CopiesOK(request)
  BY <1>2, <1>9 DEF CopiesOK
<1>11. \A q \in Requests :
         txn'[q].open = IF q = r THEN request.phase = "open" ELSE txn[q].open
  BY <1>3, <1>9
<1> QED BY <1>3, <1>4, <1>5, <1>9, <1>10, <1>11, Combine

\* A handler in its callback with another item, or another shell, in its copies.
LEMMA CopyChanged ==
    ASSUME NEW request \in RequestTypes, CopiesOK(request), request.phase = "open"
    PROVE  /\ \A item \in Items :
                LET next == [request EXCEPT !.item = item] IN
                /\ next \in RequestTypes /\ CopiesOK(next)
                /\ next.phase = "open" /\ next.step = request.step
                /\ next.op = request.op /\ next.arg = request.arg
                /\ next.item = item /\ next.noop = request.noop
           /\ \A aas \in Shells :
                LET next == [request EXCEPT !.aas = aas] IN
                /\ next \in RequestTypes /\ CopiesOK(next)
                /\ next.phase = "open" /\ next.step = request.step
                /\ next.op = request.op /\ next.arg = request.arg
                /\ next.item = request.item /\ next.noop = request.noop
                /\ next.aas = aas
<1>1. ASSUME NEW item \in Items
      PROVE  LET next == [request EXCEPT !.item = item] IN
             /\ next \in RequestTypes /\ CopiesOK(next)
             /\ next.phase = "open" /\ next.step = request.step
             /\ next.op = request.op /\ next.arg = request.arg
             /\ next.item = item /\ next.noop = request.noop
  <2> DEFINE next == [request EXCEPT !.item = item]
  <2>1. /\ next \in RequestTypes /\ next.phase = "open" /\ next.step = request.step
        /\ next.op = request.op /\ next.arg = request.arg
        /\ next.item = item /\ next.noop = request.noop /\ next.aas = request.aas
    BY DEF RequestTypes
  <2> HIDE DEF next
  <2>2. CopiesOK(next)
    BY <2>1 DEF CopiesOK, InFlightPhases
  <2> USE DEF next
  <2> QED BY <2>1, <2>2
<1>2. ASSUME NEW aas \in Shells
      PROVE  LET next == [request EXCEPT !.aas = aas] IN
             /\ next \in RequestTypes /\ CopiesOK(next)
             /\ next.phase = "open" /\ next.step = request.step
             /\ next.op = request.op /\ next.arg = request.arg
             /\ next.item = request.item /\ next.noop = request.noop
             /\ next.aas = aas
  <2> DEFINE next == [request EXCEPT !.aas = aas]
  <2>1. /\ next \in RequestTypes /\ next.phase = "open" /\ next.step = request.step
        /\ next.op = request.op /\ next.arg = request.arg
        /\ next.item = request.item /\ next.noop = request.noop /\ next.aas = aas
    BY DEF RequestTypes
  <2> HIDE DEF next
  <2>2. CopiesOK(next)
    BY <2>1 DEF CopiesOK, InFlightPhases
  <2> USE DEF next
  <2> QED BY <2>1, <2>2
<1> QED BY <1>1, <1>2

LEMMA SaveItemStep ==
    ASSUME Inv, NEW r \in Requests, SaveItem(r)
    PROVE  Inv'
<1> DEFINE old == requests[r]
           item == [old.item EXCEPT !.env = @ \ {Root(r)}]
           spliced == [old EXCEPT !.item = item]
<1>1. old.phase = "open"
  BY DEF SaveItem, AtStep
<1>2. old \in RequestTypes /\ CopiesOK(old) /\ old.item \in Items
  BY <1>1, OpenOK
<1>3. CASE old.op # "deleteSubmodel"
  <2>1. Save(r, old, One("item", old.item))
    BY <1>3 DEF SaveItem
  <2> QED BY <1>1, <1>2, <2>1, OneOK, SaveStep
<1>4. CASE old.op = "deleteSubmodel" /\ Root(r) \notin old.item.env
  BY <1>4, ThrowStep DEF SaveItem, audit
<1>5. CASE old.op = "deleteSubmodel" /\ Root(r) \in old.item.env
  <2>1. item \in Items
    BY <1>2 DEF Items
  <2>2. /\ Save(r, spliced, One("item", spliced.item))
    BY <1>5 DEF SaveItem
  <2> HIDE DEF item
  <2>3. /\ spliced \in RequestTypes /\ CopiesOK(spliced)
        /\ spliced.item = item /\ spliced.phase = "open"
    BY <1>1, <1>2, <2>1, CopyChanged
  <2> HIDE DEF spliced
  <2> QED BY <1>1, <2>1, <2>2, <2>3, OneOK, SaveStep
<1> QED BY <1>3, <1>4, <1>5

LEMMA SaveShellStep ==
    ASSUME Inv, NEW r \in Requests, SaveShell(r)
    PROVE  Inv'
<1> DEFINE old == requests[r]
           aas == WithoutSubmodel(old.aas, Root(r))
           cut == [old EXCEPT !.aas = aas]
<1>1. old.phase = "open"
  BY DEF SaveShell, AtStep
<1>2. /\ old \in RequestTypes /\ CopiesOK(old) /\ old.aas \in Shells \cup {Absent}
      /\ old.arg \in Arguments(old.op)
  BY <1>1, OpenOK DEF RequestTypes
<1>3. CASE old.op # "deleteSubmodel"
  <2>1. Save(r, old, One("aas", old.aas))
    BY <1>3 DEF SaveShell
  <2> QED BY <1>1, <1>2, <2>1, OneOK, SaveStep
<1>4. CASE old.op = "deleteSubmodel"
  <2>1. aas \in Shells
    <3>1. old.aas \in Shells /\ Root(r) \in Submodels
      BY <1>1, <1>2, <1>4, OpenOK, ArgumentTypes DEF Root
    <3> QED BY <3>1, MethodTypes
  <2>2. Save(r, cut, One("aas", cut.aas))
    BY <1>4 DEF SaveShell
  <2> HIDE DEF aas
  <2>3. cut \in RequestTypes /\ CopiesOK(cut) /\ cut.aas = aas /\ cut.phase = "open"
    BY <1>1, <1>2, <2>1, CopyChanged
  <2> HIDE DEF cut
  <2> QED BY <1>1, <2>1, <2>2, <2>3, OneOK, SaveStep
<1> QED BY <1>3, <1>4

LEMMA SaveSubmodelStep ==
    ASSUME Inv, NEW r \in Requests, SaveSubmodel(r) \/ DropSubmodel(r)
    PROVE  Inv'
<1> DEFINE old == requests[r]
<1>1. AtStep(r, "submodel") \/ AtStep(r, "dropSubmodel")
  BY DEF SaveSubmodel, DropSubmodel
<1>2. old.phase = "open"
  BY <1>1 DEF AtStep
<1>3. /\ old \in RequestTypes /\ CopiesOK(old) /\ old.arg \in Arguments(old.op)
      /\ old.submodel \in SubmodelDocuments \cup {Absent} /\ old.op \in AllOperations
  BY <1>2, OpenOK DEF RequestTypes
<1>4. old.op \in {"addSubmodel", "deleteSubmodel", "addElement", "deleteElement"}
  BY <1>1, <1>3, AtStepOK, CallbackSteps
<1>5. Root(r) \in Submodels
  BY <1>3, <1>4, ArgumentTypes DEF Root
<1>6. Save(r, old, One(Root(r), old.submodel)) \/ Save(r, old, One(Root(r), Absent))
  BY DEF SaveSubmodel, DropSubmodel
<1> QED BY <1>2, <1>3, <1>5, <1>6, OneOK, SaveStep

LEMMA CleanDesignStep ==
    ASSUME Inv, NEW r \in Requests, CleanDesign(r)
    PROVE  Inv'
<1> DEFINE old == requests[r]
           config == txn[r].view["config"]
           update == IF config = Absent THEN Nothing
                     ELSE One("config", WithoutDesign(config, old.arg))
           cleaned == IF old.op = "deleteElement"
                      THEN [old EXCEPT !.aas = WithoutPolicies(@, old.arg)]
                      ELSE old
<1>1. AtStep(r, "design") /\ old.phase = "open"
  BY DEF CleanDesign, AtStep
<1>2. /\ old \in RequestTypes /\ CopiesOK(old) /\ old.arg \in Arguments(old.op)
      /\ old.op \in AllOperations /\ TransactionOK(txn[r])
  BY <1>1, OpenOK
<1>3. old.op \in {"deleteSubmodel", "deleteElement"} /\ old.aas \in Shells
  BY <1>1, <1>2, AtStepOK, CallbackSteps, OpenOK
<1>4. old.arg \in Paths
  BY <1>2, <1>3, ArgumentTypes
<1>5. UpdateOK(update)
  <2>1. config \in Configs \cup {Absent}
    BY <1>2 DEF TransactionOK, StoreOK
  <2> QED BY <1>4, <2>1, MethodTypes, OneOK
<1>6. cleaned \in RequestTypes /\ CopiesOK(cleaned) /\ cleaned.phase = "open"
  <2>1. CASE old.op = "deleteElement"
    <3> DEFINE aas == WithoutPolicies(old.aas, old.arg)
               cut == [old EXCEPT !.aas = aas]
    <3>1. aas \in Shells
      BY <1>3, <1>4, MethodTypes
    <3>2. cleaned = cut
      BY <2>1
    <3> HIDE DEF aas
    <3>3. cut \in RequestTypes /\ CopiesOK(cut) /\ cut.phase = "open"
      BY <1>1, <1>2, <3>1, CopyChanged
    <3> HIDE DEF cut, cleaned
    <3> QED BY <3>2, <3>3
  <2>2. CASE old.op # "deleteElement"
    BY <1>1, <1>2, <2>2
  <2> QED BY <2>1, <2>2
<1>7. UNCHANGED <<audit, tainted, faults>> /\ faults' \in Nat
  BY DEF CleanDesign, Inv, TypeOK, BookkeepingOK
<1>8. CASE Retry(r, old)
  BY <1>1, <1>2, <1>7, <1>8, RetryStep
<1>9. CASE /\ WriteInTransaction(r, update) /\ Update(r, Advanced(cleaned))
           /\ copies' = [copies EXCEPT ![r] = @ \cup {"config"}]
           /\ stale' = IF "config" \in txn[r].missed THEN stale \cup {r} ELSE stale
  <2>1. /\ StoreOK(db') /\ TransactionsOK'
        /\ \A q \in Requests : txn'[q].open = txn[q].open
    BY <1>5, <1>9, WriteOK DEF Inv, TypeOK
  <2>2. BookkeepingOK'
    BY <1>7, <1>9, Names DEF Inv, TypeOK, BookkeepingOK, audit, OwnDocuments
  <2> HIDE DEF cleaned
  <2> QED BY <1>1, <1>6, <1>9, <2>1, <2>2, StayOpen
<1> QED BY <1>8, <1>9 DEF CleanDesign

LEMMA FreezePermalinksStep ==
    ASSUME Inv, NEW r \in Requests, FreezePermalinks(r)
    PROVE  Inv'
<1>1. requests[r].phase = "open"
  BY DEF FreezePermalinks, AtStep
<1>2. requests[r] \in RequestTypes /\ CopiesOK(requests[r])
  BY <1>1, OpenOK
<1>3. Save(r, requests[r], One("permalink", "frozen")) \/ Save(r, requests[r], Nothing)
  BY DEF FreezePermalinks
<1> QED BY <1>1, <1>2, <1>3, OneOK, SaveStep

LEMMA InsertActivityStep ==
    ASSUME Inv, NEW r \in Requests, InsertActivity(r)
    PROVE  Inv'
<1>1. requests[r].phase = "open" /\ UNCHANGED <<swept, tainted, faults>>
  BY DEF InsertActivity, AtStep
<1>2. requests[r] \in RequestTypes /\ CopiesOK(requests[r])
  BY <1>1, OpenOK
<1>3. CASE Throw(r) /\ UNCHANGED activities
  BY <1>1, <1>3, ThrowStep DEF audit
<1>4. CASE /\ Update(r, Advanced(requests[r])) /\ UNCHANGED <<db, txn, copies, stale>>
           /\ \/ UNCHANGED activities
              \/ activities' = [activities EXCEPT ![r] = @ + 1]
  <2>1. /\ StoreOK(db') /\ TransactionsOK'
        /\ \A q \in Requests : txn'[q].open = txn[q].open
    BY <1>4 DEF Inv, TypeOK, TransactionsOK
  <2>2. BookkeepingOK'
    BY <1>1, <1>4 DEF Inv, TypeOK, BookkeepingOK
  <2> QED BY <1>1, <1>2, <1>4, <2>1, <2>2, StayOpen
<1> QED BY <1>3, <1>4 DEF InsertActivity

LEMMA DropAllStep ==
    ASSUME Inv, NEW r \in Requests, DropAll(r)
    PROVE  Inv'
<1> DEFINE doomed == {"aas", "item", "upi", "config"} \cup requests[r].item.env
                       \cup (IF txn[r].view["config"] # Absent
                             THEN {"permalink"} ELSE {})
           update == [d \in doomed |-> Absent]
<1>1. requests[r].phase = "open" /\ Save(r, requests[r], update)
  BY DEF DropAll, AtStep
<1>2. requests[r] \in RequestTypes /\ CopiesOK(requests[r]) /\ requests[r].item \in Items
  BY <1>1, OpenOK
<1>3. UpdateOK(update)
  <2>1. doomed \subseteq Documents
    BY <1>2, Names DEF Items, OwnDocuments
  <2> QED BY <2>1 DEF UpdateOK
<1> QED BY <1>1, <1>2, <1>3, SaveStep

LEMMA CommitStep ==
    ASSUME Inv, NEW r \in Requests, Commit(r)
    PROVE  Inv'
<1>1. /\ requests[r].phase = "open" /\ CommitTransaction(r)
      /\ Update(r, Finished(r, "ok")) /\ "ok" \in AnsweredPhases
  BY DEF Commit, AnsweredPhases
<1>2. /\ StoreOK(db') /\ TransactionsOK'
      /\ \A q \in Requests : txn'[q].open = IF q = r THEN FALSE ELSE txn[q].open
  BY <1>1, CommitOK DEF Inv, TypeOK
<1>3. BookkeepingOK'
  <2>1. activities' \in [Requests -> Nat]
    BY DEF Commit, Inv, TypeOK, BookkeepingOK
  <2>2. swept' \subseteq Requests
    <3>1. requests[r].history \subseteq Requests
      BY DEF Inv, TypeOK, RequestTypes
    <3> QED BY <3>1 DEF Commit, Inv, TypeOK, BookkeepingOK
  <2>3. copies' \in [Requests -> SUBSET Documents]
    BY DEF Commit, Inv, TypeOK, BookkeepingOK
  <2>4. stale' \subseteq Requests
    BY DEF Commit, Inv, TypeOK, BookkeepingOK, Outdated
  <2>5. tainted' \in BOOLEAN /\ faults' \in Nat
    BY DEF Commit, Inv, TypeOK, BookkeepingOK
  <2> QED BY <2>1, <2>2, <2>3, <2>4, <2>5 DEF BookkeepingOK
<1>4. \A q \in Requests :
        txn'[q].open = IF q = r THEN Finished(r, "ok").phase = "open" ELSE txn[q].open
  BY <1>1, <1>2, FinishedOK
<1> QED BY <1>1, <1>2, <1>3, <1>4, FinishedOK, Combine

LEMMA PatchConfigStep ==
    ASSUME Inv, NEW r \in Requests, PatchConfig(r)
    PROVE  Inv'
<1> DEFINE update == IF requests[r].noop THEN Nothing ELSE One("config", requests[r].config)
<1>1. /\ requests[r].phase # "open" /\ WriteDirectly(r, update)
      /\ Update(r, Finished(r, "ok")) /\ "ok" \in AnsweredPhases
  BY DEF PatchConfig, AnsweredPhases
<1>2. UpdateOK(update)
  <2>1. requests[r].config \in Configs \cup {Absent}
    BY DEF Inv, TypeOK, RequestTypes
  <2> QED BY <2>1, OneOK
<1>3. /\ StoreOK(db') /\ TransactionsOK'
      /\ \A q \in Requests : txn'[q].open = txn[q].open
  <2> HIDE DEF update
  <2> QED BY <1>1, <1>2, WriteDirectlyOK DEF Inv, TypeOK
<1>4. BookkeepingOK'
  <2>1. copies' \in [Requests -> SUBSET Documents] /\ stale' \subseteq Requests
    BY DEF PatchConfig, Inv, TypeOK, BookkeepingOK, Outdated
  <2>2. tainted' \in BOOLEAN /\ faults' \in Nat /\ activities' \in [Requests -> Nat]
    BY DEF PatchConfig, Inv, TypeOK, BookkeepingOK, audit
  <2>3. swept' \subseteq Requests
    BY DEF PatchConfig, Inv, TypeOK, BookkeepingOK, audit
  <2> QED BY <2>1, <2>2, <2>3 DEF BookkeepingOK
<1>5. \A q \in Requests :
        txn'[q].open = IF q = r THEN Finished(r, "ok").phase = "open" ELSE txn[q].open
  BY <1>1, <1>3, Closed, FinishedOK
<1> QED BY <1>1, <1>3, <1>4, <1>5, FinishedOK, Combine

-----------------------------------------------------------------------------
(* Faults, and the theorem                                                 *)

LEMMA FailoverStep ==
    ASSUME Inv, NEW r \in Requests, Failover(r)
    PROVE  Inv'
<1>1. requests[r].phase = "open" /\ Retry(r, requests[r]) /\ UNCHANGED <<audit, tainted>>
  BY DEF Failover
<1>2. faults' \in Nat
  BY DEF Failover, Inv, TypeOK, BookkeepingOK
<1> QED BY <1>1, <1>2, OpenOK, RetryStep

LEMMA CrashStep ==
    ASSUME Inv, Crash
    PROVE  Inv'
<1>1. db' = db /\ txn' = [r \in Requests |-> NoTransaction]
  BY DEF Crash, AbortAllTransactions
<1>2. StoreOK(db') /\ TransactionsOK' /\ \A r \in Requests : txn'[r].open = FALSE
  BY <1>1, NoTransactionOK DEF Inv, TypeOK, TransactionsOK
<1>3. BookkeepingOK'
  BY DEF Crash, Inv, TypeOK, BookkeepingOK, audit
<1>4. ASSUME NEW r \in Requests
      PROVE  /\ requests'[r] \in RequestTypes /\ CopiesOK(requests'[r])
             /\ requests'[r].phase # "open"
  <2>1. requests'[r] = IF InFlight(r) THEN Finished(r, "crashed") ELSE requests[r]
    BY DEF Crash
  <2>2. CASE InFlight(r)
    BY <2>1, <2>2, FinishedOK DEF AnsweredPhases
  <2>3. CASE ~InFlight(r)
    BY <2>1, <2>3 DEF InFlight, InFlightPhases, Inv, TypeOK
  <2> QED BY <2>2, <2>3
<1>5. requests' \in [Requests -> RequestTypes]
  BY <1>4 DEF Crash
<1> QED BY <1>2, <1>3, <1>4, <1>5 DEF Inv, TypeOK

LEMMA InitialInv ==
    ASSUME Init
    PROVE  Inv
<1>1. StoreOK(db)
  BY InitialStoreOK DEF Init
<1>2. TransactionsOK /\ \A r \in Requests : txn[r].open = FALSE
  BY NoTransactionOK DEF Init, InitTransactions, TransactionsOK
<1>3. /\ requests \in [Requests -> RequestTypes]
      /\ \A r \in Requests : requests[r].phase = "idle"
  <2>1. NewRequest \in RequestTypes /\ NewRequest.phase = "idle"
    BY DEF NewRequest, RequestTypes
  <2> QED BY <2>1 DEF Init
<1>4. BookkeepingOK
  BY DEF Init, BookkeepingOK
<1> QED BY <1>1, <1>2, <1>3, <1>4 DEF Inv, TypeOK, CopiesOK, InFlightPhases

LEMMA HandleStep ==
    ASSUME Inv, NEW r \in Requests, Handle(r)
    PROVE  Inv'
<1>1. CASE ReadShell(r) \/ ReadSubmodel(r) \/ ReadConfig(r)
  BY <1>1, ReadShellStep, ReadSubmodelStep, ReadConfigStep
<1>2. CASE \/ PrepareAddSubmodel(r) \/ PrepareDeleteSubmodel(r)
           \/ PrepareAddElement(r) \/ PrepareDeleteElement(r)
  BY <1>2, PrepareAddSubmodelStep, PrepareDeleteSubmodelStep,
     PrepareAddElementStep, PrepareDeleteElementStep
<1>3. CASE PrepareModifyShell(r) \/ PrepareDeletePolicy(r) \/ PreparePatchConfig(r)
  BY <1>3, PrepareModifyShellStep, PrepareDeletePolicyStep, PreparePatchConfigStep
<1>4. CASE Begin(r) \/ SaveItem(r) \/ SaveShell(r) \/ SaveSubmodel(r) \/ DropSubmodel(r)
  BY <1>4, BeginStep, SaveItemStep, SaveShellStep, SaveSubmodelStep
<1>5. CASE CleanDesign(r) \/ FreezePermalinks(r) \/ InsertActivity(r) \/ DropAll(r)
  BY <1>5, CleanDesignStep, FreezePermalinksStep, InsertActivityStep, DropAllStep
<1>6. CASE Commit(r) \/ PatchConfig(r)
  BY <1>6, CommitStep, PatchConfigStep
<1> QED BY <1>1, <1>2, <1>3, <1>4, <1>5, <1>6 DEF Handle

\* Every step keeps the types and the handlers' copies.
LEMMA StepKeepsInv ==
    ASSUME Inv, [Next]_vars
    PROVE  Inv'
<1>1. CASE UNCHANGED vars
  BY <1>1 DEF vars, Inv, TypeOK, TransactionsOK, BookkeepingOK
<1>2. CASE Next
  <2>1. CASE \E r \in Requests : Handle(r) \/ Failover(r)
    BY <2>1, HandleStep, FailoverStep
  <2>2. CASE \E r \in Requests, op \in Operations :
               \E arg \in Arguments(op) : Load(r, op, arg)
    BY <2>2, LoadStep
  <2>3. CASE Crash
    BY <2>3, CrashStep
  <2>4. CASE Quiescent
    BY <1>1, <2>4 DEF Quiescent
  <2> QED BY <1>2, <2>1, <2>2, <2>3, <2>4 DEF Next
<1> QED BY <1>1, <1>2

\* The store, the transactions and the handlers' copies are well-formed in
\* every behaviour of the handlers, whatever the documents, the requests and
\* the bounds on attempts and faults; a session has a transaction open exactly
\* while its handler is in the callback.
THEOREM TypeCorrect == Spec => []TypeOK
<1>1. Init => Inv
  BY InitialInv
<1>2. Inv /\ [Next]_vars => Inv'
  BY StepKeepsInv
<1>3. Inv => TypeOK
  BY DEF Inv
<1> QED BY <1>1, <1>2, <1>3, PTL DEF Spec

-----------------------------------------------------------------------------
(***************************************************************************)
(* The activity history is written outside the transaction whose change it *)
(* records.  That a committed change is in it nevertheless, and no more    *)
(* than once, depends on where a callback inserts, on what its second run  *)
(* finds, and on the copies that deleteSubmodel has already spliced.       *)
(***************************************************************************)

\* The operations that leave an activity, and when a callback has passed the
\* step that inserts it.
LoggedOperations == AllOperations \ {"patchConfig", "deletePassport"}

Passed(op, step) ==
    \E k \in 1..Len(Callback(op)) : k < step /\ Callback(op)[k] = "activity"

Owed(request) ==
    /\ request.op \notin {"patchConfig", "deletePassport"} /\ ~request.noop
    /\ request.phase = "ok" \/ (request.phase = "open" /\ Passed(request.op, request.step))

\* n is the number of activities of a request, gone whether a deletion has
\* removed them.  A deleteSubmodel that has inserted its activity has no
\* submodel left to splice: it throws before it could insert another.
HistoryOK(request, n, gone) ==
    /\ n <= 1
    /\ request.phase \in {"idle", "reading"} => n = 0
    /\ request.phase = "ready" => request.step = 1
    /\ request.op = "deleteSubmodel" =>
         /\ request.phase = "open" /\ request.step > 3
              => request.arg[1] \notin request.item.env
         /\ request.phase \in {"ready", "open"} /\ n > 0
              => request.arg[1] \notin request.item.env /\ request.step # 4
    /\ Owed(request) => n > 0 \/ gone

HistoryInv == \A r \in Requests : HistoryOK(requests[r], activities[r], r \in swept)

-----------------------------------------------------------------------------
(* Where the callbacks insert                                              *)

LEMMA DeleteSubmodelSteps ==
    /\ Callback("deleteSubmodel")[3] = "item"
    /\ \A k \in 1..Len(Callback("deleteSubmodel")) :
         /\ Callback("deleteSubmodel")[k] = "activity" => k = 4
         /\ Callback("deleteSubmodel")[k] = "item" => k = 3
<1> DEFINE script == <<"dropSubmodel", "aas", "item", "activity", "design">>
<1>1. /\ Len(script) = 5 /\ script[3] = "item"
      /\ \A k \in 1..5 : /\ script[k] = "activity" => k = 4
                         /\ script[k] = "item" => k = 3
  OBVIOUS
<1> QED BY <1>1, CallbackOf

\* Every logged operation inserts before its callback ends.
LEMMA EveryLoggedInserts ==
    ASSUME NEW op \in LoggedOperations
    PROVE  Passed(op, Len(Callback(op)) + 1)
<1>1. /\ Len(<<"item", "submodel", "aas", "activity">>) = 4
      /\ <<"item", "submodel", "aas", "activity">>[4] = "activity"
  OBVIOUS
<1>2. /\ Len(<<"dropSubmodel", "aas", "item", "activity", "design">>) = 5
      /\ <<"dropSubmodel", "aas", "item", "activity", "design">>[4] = "activity"
  OBVIOUS
<1>3. /\ Len(<<"submodel", "activity">>) = 2 /\ <<"submodel", "activity">>[2] = "activity"
      /\ Len(<<"aas", "activity">>) = 2 /\ <<"aas", "activity">>[2] = "activity"
      /\ Len(<<"item", "activity">>) = 2 /\ <<"item", "activity">>[2] = "activity"
  OBVIOUS
<1>4. /\ Len(<<"design", "submodel", "aas", "activity">>) = 4
      /\ <<"design", "submodel", "aas", "activity">>[4] = "activity"
  OBVIOUS
<1>5. /\ Len(<<"item", "permalink", "activity">>) = 3
      /\ <<"item", "permalink", "activity">>[3] = "activity"
  OBVIOUS
<1>6. \E k \in 1..Len(Callback(op)) : Callback(op)[k] = "activity"
  <2>1. CASE op = "addSubmodel"
    BY <1>1, <2>1, CallbackOf
  <2>2. CASE op = "deleteSubmodel"
    BY <1>2, <2>2, CallbackOf
  <2>3. CASE op = "addElement"
    BY <1>3, <2>3, CallbackOf
  <2>4. CASE op \in {"modifyShell", "deletePolicy"}
    <3>1. Callback(op) = <<"aas", "activity">>
      BY <2>4, CallbackOf
    <3> QED BY <1>3, <3>1
  <2>5. CASE op \in {"archive", "restore"}
    <3>1. Callback(op) = <<"item", "activity">>
      BY <2>5, CallbackOf
    <3> QED BY <1>3, <3>1
  <2>6. CASE op = "deleteElement"
    BY <1>4, <2>6, CallbackOf
  <2>7. CASE op = "publish"
    BY <1>5, <2>7, CallbackOf
  <2> QED
    BY <2>1, <2>2, <2>3, <2>4, <2>5, <2>6, <2>7
    DEF LoggedOperations, AllOperations, EditOperations, StatusOperations
<1>7. Len(Callback(op)) \in Nat
  BY CallbackOf DEF LoggedOperations, AllOperations, EditOperations, StatusOperations
<1> QED BY <1>6, <1>7 DEF Passed

\* A step that inserts nothing passes no insertion.
LEMMA PassedByInserting ==
    ASSUME NEW op, NEW step \in 1..Len(Callback(op)), Callback(op)[step] # "activity",
           Len(Callback(op)) \in Nat, Passed(op, step + 1)
    PROVE  Passed(op, step)
<1>1. PICK k \in 1..Len(Callback(op)) : k < step + 1 /\ Callback(op)[k] = "activity"
  BY DEF Passed
<1>2. k # step /\ k < step
  BY <1>1
<1> QED BY <1>1, <1>2 DEF Passed

-----------------------------------------------------------------------------
(* What the handlers do to one request's history                           *)

LEMMA OthersKeepHistory ==
    ASSUME Inv, HistoryInv, NEW r \in Requests, NEW request, Update(r, request),
           swept \subseteq swept',
           \A q \in Requests \ {r} :
             activities'[q] = activities[q] \/ (activities'[q] = 0 /\ q \in swept'),
           HistoryOK(request, activities'[r], r \in swept')
    PROVE  HistoryInv'
<1>1. requests' = [requests EXCEPT ![r] = request] /\ requests \in [Requests -> RequestTypes]
  BY DEF Update, Inv, TypeOK
<1>2. ASSUME NEW q \in Requests, q # r
      PROVE  HistoryOK(requests'[q], activities'[q], q \in swept')
  <2>1. requests'[q] = requests[q] /\ HistoryOK(requests[q], activities[q], q \in swept)
    BY <1>1, <1>2 DEF HistoryInv
  <2>2. CASE activities'[q] = activities[q]
    BY <2>1, <2>2 DEF HistoryOK
  <2>3. CASE activities'[q] = 0 /\ q \in swept'
    BY <2>1, <2>3 DEF HistoryOK
  <2> QED BY <1>2, <2>2, <2>3
<1> QED BY <1>1, <1>2 DEF HistoryInv

\* A request that ends without an answer of success owes nothing.
LEMMA FinishHistory ==
    ASSUME Inv, HistoryInv, NEW r \in Requests, NEW outcome \in AnsweredPhases \ {"ok"}
    PROVE  HistoryOK(Finished(r, outcome), activities[r], r \in swept)
BY FinishedOK DEF HistoryInv, HistoryOK, Owed, AnsweredPhases

LEMMA FinishKeepsHistory ==
    ASSUME Inv, HistoryInv, NEW r \in Requests, NEW outcome \in AnsweredPhases \ {"ok"},
           Finish(r, outcome), UNCHANGED audit
    PROVE  HistoryInv'
<1>1. Update(r, Finished(r, outcome)) /\ activities' = activities /\ swept' = swept
  BY DEF Finish, audit
<1> QED BY <1>1, FinishHistory, OthersKeepHistory

LEMMA RetryKeepsHistory ==
    ASSUME Inv, HistoryInv, NEW r \in Requests, NEW request \in RequestTypes,
           CopiesOK(request), request.phase = "open",
           HistoryOK(request, activities[r], r \in swept),
           Retry(r, request), UNCHANGED audit
    PROVE  HistoryInv'
<1> DEFINE again == [request EXCEPT !.phase = "ready", !.step = 1]
<1>1. CASE request.attempts < MaxAttempts
  <2>1. Update(r, again) /\ activities' = activities /\ swept' = swept
    BY <1>1 DEF Retry, audit
  <2>2. /\ again.phase = "ready" /\ again.step = 1 /\ again.op = request.op
        /\ again.arg = request.arg /\ again.item = request.item
    BY RestartOK
  <2> HIDE DEF again
  <2>3. HistoryOK(again, activities[r], r \in swept)
    BY <2>2 DEF HistoryOK, Owed
  <2> QED BY <2>1, <2>3, OthersKeepHistory
<1>2. CASE ~(request.attempts < MaxAttempts)
  BY <1>2, FinishKeepsHistory DEF Retry, AnsweredPhases
<1> QED BY <1>1, <1>2

\* The next step of a callback, after one that inserts nothing.
LEMMA AdvanceHistory ==
    ASSUME NEW request \in RequestTypes, CopiesOK(request), request.phase = "open",
           NEW n \in Nat, NEW gone, HistoryOK(request, n, gone),
           request.op \in AllOperations,
           request.step \in 1..Len(Callback(request.op)),
           Len(Callback(request.op)) \in Nat,
           Callback(request.op)[request.step] # "activity",
           request.op = "deleteSubmodel" /\ request.step = 3
             => n = 0 /\ request.arg[1] \notin request.item.env
    PROVE  HistoryOK(Advanced(request), n, gone)
<1> DEFINE next == Advanced(request)
<1>1. /\ next.phase = "open" /\ next.step = request.step + 1 /\ next.op = request.op
      /\ next.arg = request.arg /\ next.item = request.item /\ next.noop = request.noop
  BY AdvancedOK
<1> HIDE DEF next
<1>2. Owed(next) => n > 0 \/ gone
  <2>1. Owed(next) => Owed(request)
    BY <1>1, PassedByInserting DEF Owed
  <2> QED BY <2>1 DEF HistoryOK
<1>3. next.op = "deleteSubmodel" =>
        /\ next.step > 3 => next.arg[1] \notin next.item.env
        /\ n > 0 => next.arg[1] \notin next.item.env /\ next.step # 4
  BY <1>1 DEF HistoryOK
<1>4. HistoryOK(next, n, gone)
  BY <1>1, <1>2, <1>3 DEF HistoryOK
<1> QED BY <1>4 DEF next

\* A handler at a step of its callback that inserts nothing goes on.
LEMMA AdvanceKeepsHistory ==
    ASSUME Inv, HistoryInv, NEW r \in Requests, NEW name, AtStep(r, name),
           name # "activity", NEW request \in RequestTypes, CopiesOK(request),
           request.phase = "open", request.op = requests[r].op,
           request.step = requests[r].step,
           HistoryOK(request, activities[r], r \in swept),
           request.op = "deleteSubmodel" /\ name = "item"
             => activities[r] = 0 /\ request.arg[1] \notin request.item.env,
           Update(r, Advanced(request)), UNCHANGED audit
    PROVE  HistoryInv'
<1>1. /\ requests[r].phase = "open" /\ request.step \in 1..Len(Callback(request.op))
      /\ Callback(request.op)[request.step] = name
  BY AtStepOK
<1>2. request.op \in AllOperations
  BY <1>1, OpenOK
<1>3. Len(Callback(request.op)) \in Nat
  BY <1>2, CallbackOf DEF AllOperations, EditOperations, StatusOperations
<1>4. activities[r] \in Nat /\ activities' = activities /\ swept' = swept
  BY DEF Inv, TypeOK, BookkeepingOK, audit
<1>5. request.op = "deleteSubmodel" /\ request.step = 3
        => activities[r] = 0 /\ request.arg[1] \notin request.item.env
  BY <1>1, DeleteSubmodelSteps
<1>6. HistoryOK(Advanced(request), activities[r], r \in swept)
  BY <1>1, <1>2, <1>3, <1>4, <1>5, AdvanceHistory
<1> QED BY <1>4, <1>6, OthersKeepHistory

LEMMA SaveKeepsHistory ==
    ASSUME Inv, HistoryInv, NEW r \in Requests, NEW name, AtStep(r, name),
           name # "activity", NEW request \in RequestTypes, CopiesOK(request),
           request.phase = "open", request.op = requests[r].op,
           request.step = requests[r].step,
           HistoryOK(request, activities[r], r \in swept),
           request.op = "deleteSubmodel" /\ name = "item"
             => activities[r] = 0 /\ request.arg[1] \notin request.item.env,
           NEW update, Save(r, request, update)
    PROVE  HistoryInv'
<1>1. UNCHANGED audit /\ (Retry(r, request) \/ Update(r, Advanced(request)))
  BY DEF Save
<1>2. CASE Retry(r, request)
  BY <1>1, <1>2, RetryKeepsHistory
<1>3. CASE Update(r, Advanced(request))
  BY <1>1, <1>3, AdvanceKeepsHistory
<1> QED BY <1>1, <1>2, <1>3

\* The saves of copies as they are, or of shells and submodels changed.
LEMMA PlainSavesKeepHistory ==
    ASSUME Inv, HistoryInv, NEW r \in Requests,
           \/ SaveShell(r) \/ SaveSubmodel(r) \/ DropSubmodel(r)
           \/ FreezePermalinks(r) \/ DropAll(r)
    PROVE  HistoryInv'
<1> DEFINE old == requests[r]
           aas == WithoutSubmodel(old.aas, Root(r))
           cut == [old EXCEPT !.aas = aas]
<1>1. old.phase = "open"
  BY DEF SaveShell, SaveSubmodel, DropSubmodel, FreezePermalinks, DropAll, AtStep
<1>2. old \in RequestTypes /\ CopiesOK(old)
      /\ HistoryOK(old, activities[r], r \in swept)
  BY <1>1, OpenOK DEF HistoryInv
<1>3. ASSUME NEW name \in {"aas", "submodel", "dropSubmodel", "permalink", "dropAll"},
             AtStep(r, name), NEW update, Save(r, old, update)
      PROVE  HistoryInv'
  BY <1>1, <1>2, <1>3, SaveKeepsHistory
<1>4. CASE SaveShell(r) /\ old.op = "deleteSubmodel"
  <2>1. aas \in Shells
    <3>1. old.aas \in Shells /\ Root(r) \in Submodels
      BY <1>1, <1>4, OpenOK, ArgumentTypes DEF Root
    <3> QED BY <3>1, MethodTypes
  <2>2. AtStep(r, "aas") /\ Save(r, cut, One("aas", cut.aas))
    BY <1>4 DEF SaveShell
  <2> HIDE DEF aas
  <2>3. /\ cut \in RequestTypes /\ CopiesOK(cut)
        /\ cut.phase = old.phase /\ cut.op = old.op /\ cut.step = old.step
        /\ cut.arg = old.arg /\ cut.item = old.item /\ cut.noop = old.noop
    BY <1>1, <1>2, <2>1, CopyChanged
  <2> HIDE DEF cut
  <2>4. HistoryOK(cut, activities[r], r \in swept)
    BY <1>2, <2>3 DEF HistoryOK, Owed
  <2> QED BY <1>1, <2>2, <2>3, <2>4, SaveKeepsHistory
<1>5. CASE SaveShell(r) /\ old.op # "deleteSubmodel"
  <2>1. AtStep(r, "aas") /\ Save(r, old, One("aas", old.aas))
    BY <1>5 DEF SaveShell
  <2> QED BY <1>3, <2>1
<1>6. CASE SaveSubmodel(r)
  BY <1>3, <1>6 DEF SaveSubmodel
<1>7. CASE DropSubmodel(r)
  BY <1>3, <1>7 DEF DropSubmodel
<1>8. CASE FreezePermalinks(r)
  BY <1>3, <1>8 DEF FreezePermalinks
<1>9. CASE DropAll(r)
  BY <1>3, <1>9 DEF DropAll
<1> QED BY <1>4, <1>5, <1>6, <1>7, <1>8, <1>9

LEMMA SaveItemKeepsHistory ==
    ASSUME Inv, HistoryInv, NEW r \in Requests, SaveItem(r)
    PROVE  HistoryInv'
<1> DEFINE old == requests[r]
           item == [old.item EXCEPT !.env = @ \ {Root(r)}]
           spliced == [old EXCEPT !.item = item]
<1>1. AtStep(r, "item") /\ old.phase = "open"
  BY DEF SaveItem, AtStep
<1>2. /\ old \in RequestTypes /\ CopiesOK(old) /\ old.item \in Items
      /\ HistoryOK(old, activities[r], r \in swept)
  BY <1>1, OpenOK DEF HistoryInv
<1>3. CASE old.op # "deleteSubmodel"
  <2>1. Save(r, old, One("item", old.item))
    BY <1>3 DEF SaveItem
  <2> QED BY <1>1, <1>2, <1>3, <2>1, SaveKeepsHistory
<1>4. CASE old.op = "deleteSubmodel" /\ Root(r) \notin old.item.env
  BY <1>4, FinishKeepsHistory DEF SaveItem, Throw, AnsweredPhases
<1>5. CASE old.op = "deleteSubmodel" /\ Root(r) \in old.item.env
  <2>1. activities[r] = 0
    BY <1>1, <1>2, <1>5 DEF HistoryOK, Root, Inv, TypeOK, BookkeepingOK
  <2>2. item \in Items /\ Root(r) \notin item.env
    BY <1>2 DEF Items
  <2>3. Save(r, spliced, One("item", spliced.item))
    BY <1>5 DEF SaveItem
  <2> HIDE DEF item
  <2>4. /\ spliced \in RequestTypes /\ CopiesOK(spliced)
        /\ spliced.item = item /\ spliced.phase = "open"
        /\ spliced.op = old.op /\ spliced.arg = old.arg
        /\ spliced.step = old.step /\ spliced.noop = old.noop
    BY <1>1, <1>2, <2>2, CopyChanged
  <2> HIDE DEF spliced
  <2>5. HistoryOK(spliced, activities[r], r \in swept)
    BY <1>1, <1>2, <2>1, <2>2, <2>4 DEF HistoryOK, Owed, Root
  <2> QED BY <1>1, <2>1, <2>2, <2>3, <2>4, <2>5, SaveKeepsHistory DEF Root
<1> QED BY <1>3, <1>4, <1>5

LEMMA CleanDesignKeepsHistory ==
    ASSUME Inv, HistoryInv, NEW r \in Requests, CleanDesign(r)
    PROVE  HistoryInv'
<1> DEFINE old == requests[r]
           aas == WithoutPolicies(old.aas, old.arg)
           cleaned == [old EXCEPT !.aas = aas]
<1>1. AtStep(r, "design") /\ old.phase = "open" /\ UNCHANGED audit
  BY DEF CleanDesign, AtStep
<1>2. /\ old \in RequestTypes /\ CopiesOK(old) /\ old.op \in AllOperations
      /\ old.arg \in Arguments(old.op)
      /\ HistoryOK(old, activities[r], r \in swept)
  BY <1>1, OpenOK DEF HistoryInv
<1>3. CASE Retry(r, old)
  BY <1>1, <1>2, <1>3, RetryKeepsHistory
<1>4. CASE Update(r, Advanced(old))
  BY <1>1, <1>2, <1>4, AdvanceKeepsHistory
<1>5. CASE Update(r, Advanced(cleaned))
  <2>1. old.aas \in Shells /\ old.arg \in Paths
    BY <1>1, <1>2, AtStepOK, CallbackSteps, OpenOK, ArgumentTypes
  <2>2. aas \in Shells
    BY <2>1, MethodTypes
  <2> HIDE DEF aas
  <2>3. /\ cleaned \in RequestTypes /\ CopiesOK(cleaned)
        /\ cleaned.phase = "open" /\ cleaned.op = old.op /\ cleaned.arg = old.arg
        /\ cleaned.item = old.item /\ cleaned.step = old.step /\ cleaned.noop = old.noop
    BY <1>1, <1>2, <2>2, CopyChanged
  <2> HIDE DEF cleaned
  <2>4. HistoryOK(cleaned, activities[r], r \in swept)
    BY <1>1, <1>2, <2>3 DEF HistoryOK, Owed
  <2> QED BY <1>1, <1>5, <2>3, <2>4, AdvanceKeepsHistory
<1> QED BY <1>3, <1>4, <1>5 DEF CleanDesign

\* The step the history is about: the first run that comes here inserts, a
\* second one throws, or is a deleteSubmodel that had not come so far.
LEMMA InsertActivityKeepsHistory ==
    ASSUME Inv, HistoryInv, NEW r \in Requests, InsertActivity(r)
    PROVE  HistoryInv'
<1> DEFINE old == requests[r]
           next == Advanced(old)
<1>1. /\ AtStep(r, "activity") /\ old.phase = "open" /\ swept' = swept
  BY DEF InsertActivity, AtStep
<1>2. /\ old \in RequestTypes /\ CopiesOK(old) /\ old.op \in AllOperations
      /\ HistoryOK(old, activities[r], r \in swept)
      /\ activities \in [Requests -> Nat]
  BY <1>1, OpenOK DEF HistoryInv, Inv, TypeOK, BookkeepingOK
<1>3. /\ next.phase = "open" /\ next.step = old.step + 1 /\ next.op = old.op
      /\ next.arg = old.arg /\ next.item = old.item /\ next.noop = old.noop
  BY <1>1, <1>2, AdvancedOK
<1>4. old.op = "deleteSubmodel" => old.step = 4
  BY <1>1, AtStepOK, DeleteSubmodelSteps
<1> HIDE DEF next
<1>5. CASE old.noop
  <2>1. Update(r, next) /\ activities' = activities
    BY <1>5 DEF InsertActivity, next
  <2>2. HistoryOK(next, activities[r], r \in swept)
    BY <1>1, <1>2, <1>3, <1>4, <1>5 DEF HistoryOK, Owed
  <2> QED BY <1>1, <2>1, <2>2, OthersKeepHistory
<1>6. CASE ~old.noop /\ old.op # "deleteSubmodel" /\ activities[r] > 0
  <2>1. Throw(r) /\ activities' = activities
    BY <1>6 DEF InsertActivity
  <2> QED BY <1>1, <2>1, FinishKeepsHistory DEF Throw, AnsweredPhases, audit
<1>7. CASE ~old.noop /\ ~(old.op # "deleteSubmodel" /\ activities[r] > 0)
  <2>1. Update(r, next) /\ activities' = [activities EXCEPT ![r] = @ + 1]
    BY <1>7 DEF InsertActivity, next
  <2>2. activities[r] = 0
    BY <1>1, <1>2, <1>4, <1>7 DEF HistoryOK
  <2>3. activities'[r] = 1 /\ \A q \in Requests \ {r} : activities'[q] = activities[q]
    BY <1>2, <2>1, <2>2
  <2>4. HistoryOK(next, 1, r \in swept)
    BY <1>1, <1>2, <1>3, <1>4 DEF HistoryOK
  <2> QED BY <1>1, <2>1, <2>3, <2>4, OthersKeepHistory
<1> QED BY <1>5, <1>6, <1>7

\* A commit answers a change that its callback has logged; a deletion takes
\* the activities of others with it.
LEMMA CommitKeepsHistory ==
    ASSUME Inv, HistoryInv, NEW r \in Requests, Commit(r)
    PROVE  HistoryInv'
<1> DEFINE old == requests[r]
           done == Finished(r, "ok")
<1>1. /\ old.phase = "open" /\ old.step = Len(Callback(old.op)) + 1 /\ Update(r, done)
      /\ HistoryOK(old, activities[r], r \in swept)
  BY DEF Commit, HistoryInv
<1>2. done.phase = "ok" /\ done.op = old.op /\ done.noop = old.noop
  BY FinishedOK DEF AnsweredPhases
<1>3. swept' = swept \cup old.history
  BY DEF Commit
<1>4. \A q \in Requests :
        activities'[q] = activities[q] \/ (activities'[q] = 0 /\ q \in swept')
  BY <1>3 DEF Commit
<1> HIDE DEF done
<1>5. Owed(done) => activities[r] > 0 \/ r \in swept
  <2>1. old.op \in AllOperations
    BY <1>1, OpenOK
  <2> QED BY <1>1, <1>2, <2>1, EveryLoggedInserts DEF HistoryOK, Owed, LoggedOperations
<1>6. HistoryOK(done, activities'[r], r \in swept')
  <2>1. activities[r] <= 1 /\ activities[r] \in Nat
    BY <1>1 DEF HistoryOK, Inv, TypeOK, BookkeepingOK
  <2>2. CASE activities'[r] = activities[r]
    BY <1>2, <1>3, <1>5, <2>1, <2>2 DEF HistoryOK
  <2>3. CASE activities'[r] = 0 /\ r \in swept'
    BY <1>2, <2>3 DEF HistoryOK
  <2> QED BY <1>4, <2>2, <2>3
<1> QED BY <1>1, <1>3, <1>4, <1>6, OthersKeepHistory

LEMMA PatchConfigKeepsHistory ==
    ASSUME Inv, HistoryInv, NEW r \in Requests, PatchConfig(r)
    PROVE  HistoryInv'
<1> DEFINE done == Finished(r, "ok")
<1>1. /\ requests[r].op = "patchConfig" /\ Update(r, done)
      /\ activities' = activities /\ swept' = swept
      /\ HistoryOK(requests[r], activities[r], r \in swept)
  BY DEF PatchConfig, HistoryInv, audit
<1>2. done.phase = "ok" /\ done.op = "patchConfig"
  BY <1>1, FinishedOK DEF AnsweredPhases
<1> HIDE DEF done
<1>3. HistoryOK(done, activities[r], r \in swept)
  BY <1>1, <1>2 DEF HistoryOK, Owed
<1> QED BY <1>1, <1>3, OthersKeepHistory

-----------------------------------------------------------------------------
(* Before the transaction: no activity yet                                 *)

LEMMA BeginKeepsHistory ==
    ASSUME Inv, HistoryInv, NEW r \in Requests, Begin(r)
    PROVE  HistoryInv'
<1> DEFINE old == requests[r]
           history == IF old.op = "deletePassport"
                      THEN {q \in Requests : activities[q] > 0} ELSE {}
           opened == [old EXCEPT !.phase = "open", !.attempts = @ + 1, !.history = history]
<1>1. /\ old \in RequestTypes /\ old.phase = "ready"
      /\ HistoryOK(old, activities[r], r \in swept)
      /\ activities' = activities /\ swept' = swept
  BY DEF Begin, Inv, TypeOK, HistoryInv, audit
<1>2. Update(r, opened)
  BY DEF Begin
<1>3. /\ opened.phase = "open" /\ opened.step = old.step /\ opened.op = old.op
      /\ opened.arg = old.arg /\ opened.item = old.item /\ opened.noop = old.noop
  BY <1>1 DEF RequestTypes
<1> HIDE DEF opened
<1>4. old.step = 1 /\ ~Passed(old.op, 1)
  BY <1>1 DEF HistoryOK, Passed
<1>5. HistoryOK(opened, activities[r], r \in swept)
  BY <1>1, <1>3, <1>4 DEF HistoryOK, Owed
<1> QED BY <1>1, <1>2, <1>5, OthersKeepHistory

\* A handler that was idle or reading, and now reads on or is ready.
LEMMA EarlyKeepsHistory ==
    ASSUME Inv, HistoryInv, NEW r \in Requests, requests[r].phase \in {"idle", "reading"},
           NEW request, Update(r, request), UNCHANGED audit,
           \/ request.phase \in {"reading", "refused"}
           \/ request.phase = "ready" /\ request.step = 1
    PROVE  HistoryInv'
<1>1. activities[r] = 0 /\ activities' = activities /\ swept' = swept
  BY DEF HistoryInv, HistoryOK, audit
<1>2. HistoryOK(request, 0, r \in swept)
  BY DEF HistoryOK, Owed
<1> QED BY <1>1, <1>2, OthersKeepHistory

LEMMA LoadKeepsHistory ==
    ASSUME Inv, HistoryInv, NEW r \in Requests, NEW op, NEW arg, Load(r, op, arg)
    PROVE  HistoryInv'
<1> DEFINE phase == IF Reads(op) = <<>> THEN "ready" ELSE "reading"
           item == HandleStatusChange(op, db["item"])
           loaded == [NewRequest EXCEPT !.op = op, !.arg = arg, !.phase = phase,
                                        !.item = item]
           refused == [NewRequest EXCEPT !.op = op, !.phase = "refused"]
<1>1. requests[r].phase = "idle" /\ UNCHANGED audit
  BY DEF Load
<1>2. Update(r, loaded) \/ Update(r, refused)
  BY DEF Load
<1>3. refused.phase = "refused" /\ loaded.phase = phase /\ loaded.step = 1
  BY DEF NewRequest
<1>4. phase \in {"ready", "reading"}
  OBVIOUS
<1> HIDE DEF phase, loaded, refused
<1> QED BY <1>1, <1>2, <1>3, <1>4, EarlyKeepsHistory

LEMMA ReadingKeepsHistory ==
    ASSUME Inv, HistoryInv, NEW r \in Requests,
           \/ ReadShell(r) \/ ReadSubmodel(r) \/ ReadConfig(r)
    PROVE  HistoryInv'
<1>1. requests[r].phase = "reading" /\ requests[r] \in RequestTypes
  BY DEF ReadShell, ReadSubmodel, ReadConfig, AtRead, Inv, TypeOK
<1>2. CASE Refuse(r)
  BY <1>2, FinishKeepsHistory DEF Refuse, AnsweredPhases
<1>3. ASSUME NEW document, NEW copy,
             \/ Keep(r, document, [requests[r] EXCEPT !.aas = copy])
             \/ Keep(r, document, [requests[r] EXCEPT !.submodel = copy])
             \/ Keep(r, document, [requests[r] EXCEPT !.config = copy])
      PROVE  HistoryInv'
  <2>1. PICK request \in {[requests[r] EXCEPT !.aas = copy],
                          [requests[r] EXCEPT !.submodel = copy],
                          [requests[r] EXCEPT !.config = copy]} :
          Keep(r, document, request)
    BY <1>3
  <2>2. Update(r, Advanced(request)) /\ UNCHANGED audit
    BY <2>1 DEF Keep
  <2>3. Advanced(request).phase = "reading"
    BY <1>1 DEF Advanced, RequestTypes
  <2> QED BY <1>1, <2>2, <2>3, EarlyKeepsHistory
<1>4. CASE ReadShell(r)
  BY <1>2, <1>3, <1>4 DEF ReadShell
<1>5. CASE ReadSubmodel(r)
  BY <1>2, <1>3, <1>5 DEF ReadSubmodel
<1>6. CASE ReadConfig(r)
  BY <1>2, <1>3, <1>6 DEF ReadConfig
<1> QED BY <1>4, <1>5, <1>6

LEMMA PreparingKeepsHistory ==
    ASSUME Inv, HistoryInv, NEW r \in Requests,
           \/ PrepareAddSubmodel(r) \/ PrepareDeleteSubmodel(r)
           \/ PrepareAddElement(r) \/ PrepareDeleteElement(r)
           \/ PrepareModifyShell(r) \/ PrepareDeletePolicy(r) \/ PreparePatchConfig(r)
    PROVE  HistoryInv'
<1>1. requests[r].phase = "reading" /\ requests[r] \in RequestTypes
  BY DEF PrepareAddSubmodel, PrepareDeleteSubmodel, PrepareAddElement,
         PrepareDeleteElement, PrepareModifyShell, PrepareDeletePolicy,
         PreparePatchConfig, Prepared, Inv, TypeOK
<1>2. CASE Refuse(r)
  BY <1>2, FinishKeepsHistory DEF Refuse, AnsweredPhases
<1>3. ASSUME NEW request, DOMAIN request = DOMAIN requests[r], Ready(r, request)
      PROVE  HistoryInv'
  <2> DEFINE next == [request EXCEPT !.phase = "ready", !.step = 1]
  <2>1. Update(r, next) /\ UNCHANGED audit
    BY <1>3 DEF Ready
  <2>2. next.phase = "ready" /\ next.step = 1
    BY <1>1, <1>3 DEF RequestTypes
  <2> HIDE DEF next
  <2> QED BY <1>1, <2>1, <2>2, EarlyKeepsHistory
<1>4. CASE PrepareAddSubmodel(r) \/ PrepareDeleteSubmodel(r)
  BY <1>2, <1>3, <1>4 DEF PrepareAddSubmodel, PrepareDeleteSubmodel
<1>5. CASE PrepareAddElement(r) \/ PrepareDeleteElement(r)
  BY <1>2, <1>3, <1>5 DEF PrepareAddElement, PrepareDeleteElement
<1>6. CASE PrepareModifyShell(r) \/ PrepareDeletePolicy(r)
  BY <1>2, <1>3, <1>6 DEF PrepareModifyShell, PrepareDeletePolicy
<1>7. CASE PreparePatchConfig(r)
  BY <1>2, <1>3, <1>7 DEF PreparePatchConfig
<1> QED BY <1>4, <1>5, <1>6, <1>7

-----------------------------------------------------------------------------
(* Faults, and the theorems                                                *)

LEMMA CrashKeepsHistory ==
    ASSUME Inv, HistoryInv, Crash
    PROVE  HistoryInv'
<1> SUFFICES ASSUME NEW r \in Requests
             PROVE  HistoryOK(requests'[r], activities'[r], r \in swept')
  BY DEF HistoryInv
<1>1. /\ requests'[r] = IF InFlight(r) THEN Finished(r, "crashed") ELSE requests[r]
      /\ activities' = activities /\ swept' = swept
  BY DEF Crash, audit
<1> QED BY <1>1, FinishHistory DEF HistoryInv, AnsweredPhases

LEMMA StepKeepsHistory ==
    ASSUME Inv, HistoryInv, [Next]_vars
    PROVE  HistoryInv'
<1>1. CASE UNCHANGED vars
  BY <1>1 DEF vars, HistoryInv
<1>2. ASSUME NEW r \in Requests, Failover(r)
      PROVE  HistoryInv'
  <2>1. /\ requests[r].phase = "open" /\ Retry(r, requests[r]) /\ UNCHANGED audit
        /\ HistoryOK(requests[r], activities[r], r \in swept)
    BY <1>2 DEF Failover, HistoryInv
  <2> QED BY <2>1, OpenOK, RetryKeepsHistory
<1>3. ASSUME NEW r \in Requests, Handle(r)
      PROVE  HistoryInv'
  <2>1. CASE ReadShell(r) \/ ReadSubmodel(r) \/ ReadConfig(r)
    BY <2>1, ReadingKeepsHistory
  <2>2. CASE \/ PrepareAddSubmodel(r) \/ PrepareDeleteSubmodel(r)
             \/ PrepareAddElement(r) \/ PrepareDeleteElement(r)
             \/ PrepareModifyShell(r) \/ PrepareDeletePolicy(r) \/ PreparePatchConfig(r)
    BY <2>2, PreparingKeepsHistory
  <2>3. CASE \/ SaveShell(r) \/ SaveSubmodel(r) \/ DropSubmodel(r)
             \/ FreezePermalinks(r) \/ DropAll(r)
    BY <2>3, PlainSavesKeepHistory
  <2>4. CASE Begin(r) \/ SaveItem(r) \/ CleanDesign(r)
    BY <2>4, BeginKeepsHistory, SaveItemKeepsHistory, CleanDesignKeepsHistory
  <2>5. CASE InsertActivity(r) \/ Commit(r) \/ PatchConfig(r)
    BY <2>5, InsertActivityKeepsHistory, CommitKeepsHistory, PatchConfigKeepsHistory
  <2> QED BY <1>3, <2>1, <2>2, <2>3, <2>4, <2>5 DEF Handle
<1>4. CASE Next
  <2>1. CASE \E r \in Requests, op \in Operations :
               \E arg \in Arguments(op) : Load(r, op, arg)
    BY <2>1, LoadKeepsHistory
  <2>2. CASE Quiescent
    BY <1>1, <2>2 DEF Quiescent
  <2> QED BY <1>2, <1>3, <1>4, <2>1, <2>2, CrashKeepsHistory DEF Next
<1> QED BY <1>1, <1>4

LEMMA InitialHistory ==
    ASSUME Init
    PROVE  HistoryInv
<1> SUFFICES ASSUME NEW r \in Requests
             PROVE  HistoryOK(requests[r], activities[r], r \in swept)
  BY DEF HistoryInv
<1>1. requests[r].phase = "idle" /\ activities[r] = 0
  BY DEF Init, NewRequest
<1>2. requests[r].op = "none"
  BY DEF Init, NewRequest
<1> QED BY <1>1, <1>2 DEF HistoryOK, Owed

LEMMA HistoryInvariant == Spec => [](Inv /\ HistoryInv)
<1>1. Init => Inv /\ HistoryInv
  BY InitialInv, InitialHistory
<1>2. Inv /\ HistoryInv /\ [Next]_vars => Inv' /\ HistoryInv'
  BY StepKeepsInv, StepKeepsHistory
<1> QED BY <1>1, <1>2, PTL DEF Spec

\* A change that a client was told is done is in the activity history, or was
\* removed with the whole passport, whatever was retried, aborted or lost in
\* between: environment.service.ts inserts the activity before it answers.
THEOREM EveryChangeIsLogged == Spec => []CommittedIsLogged
<1>1. HistoryInv => CommittedIsLogged
  BY DEF CommittedIsLogged, HistoryInv, HistoryOK, Owed
<1> QED BY <1>1, HistoryInvariant, PTL

\* A request leaves at most one activity, however often the driver runs its
\* callback and although createMany inserts outside the transaction.
THEOREM NothingIsLoggedTwice == Spec => []LoggedOnce
<1>1. HistoryInv => LoggedOnce
  BY DEF HistoryInv, HistoryOK, LoggedOnce
<1> QED BY <1>1, HistoryInvariant, PTL

-----------------------------------------------------------------------------
(* A request that commits, without a stale copy, does its whole operation   *)
(* in one step on the documents as they are then.                           *)
(*                                                                          *)
(* The argument follows a request whose copies nobody has outdated.  Its    *)
(* copies are those the operation makes of the store as it is now           *)
(* (Intends), although other requests commit in between; its transaction's  *)
(* view holds, of every document its callback has saved, what the           *)
(* operation leaves there (After); and what it has missed is not what it    *)
(* saves, so its commit changes exactly what the operation changes.         *)

-----------------------------------------------------------------------------
(* What an operation leaves                                                *)

ItemAfter(op, arg, item) ==
    CASE op = "addSubmodel"    -> [item EXCEPT !.env = @ \cup {arg[1]}]
      [] op = "deleteSubmodel" -> [item EXCEPT !.env = @ \ {arg[1]}]
      [] OTHER                 -> HandleStatusChange(op, item)

\* The submodel an argument names, if the environment has it.
Found(item, store, arg) ==
    IF arg[1] \in item.env THEN store[arg[1]] ELSE Absent

ShellAfter(op, arg, store) ==
    CASE op = "addSubmodel"    -> IncreaseVersion(WithSubmodel(store["aas"], arg[1]))
      [] op = "deleteSubmodel" -> WithoutSubmodel(store["aas"], arg[1])
      [] op = "deleteElement"  -> IncreaseVersion(WithoutPolicies(store["aas"], arg))
      [] op = "modifyShell"    ->
           WithPolicies(store["aas"], NewPolicies(Found(store["item"], store, arg), arg))
      [] OTHER                 -> WithoutPolicy(store["aas"], arg)

SubmodelAfter(op, arg, submodel) ==
    CASE op = "addSubmodel"    -> NewSubmodel
      [] op = "deleteSubmodel" -> Absent
      [] op = "addElement"     -> WithElement(submodel, arg[2])
      [] OTHER                 -> WithoutElement(submodel, arg[2])

\* The value the operation leaves in a document that it touches.
After(op, arg, store, d) ==
    CASE op = "deletePassport" -> Absent
      [] op # "deletePassport" /\ d = "item"      -> ItemAfter(op, arg, store["item"])
      [] op # "deletePassport" /\ d = "aas"       -> ShellAfter(op, arg, store)
      [] op # "deletePassport" /\ d = "config"    -> WithoutDesign(store["config"], arg)
      [] op # "deletePassport" /\ d = "permalink" ->
           IF store["permalink"] = "open" THEN "frozen" ELSE store["permalink"]
      [] OTHER -> SubmodelAfter(op, arg, store[d])

\* The documents that a step of a callback saves.
Target(name, arg) ==
    CASE name \in {"submodel", "dropSubmodel"} -> {arg[1]}
      [] name = "design"   -> {"config"}
      [] name = "activity" -> {}
      [] name = "dropAll"  -> Documents
      [] OTHER             -> {name}

Saved(request) ==
    {d \in Documents :
       \E k \in 1..Len(Callback(request.op)) :
         /\ k < request.step
         /\ d \in Target(Callback(request.op)[k], request.arg)}

-----------------------------------------------------------------------------
(* Requests whose copies are current                                       *)

\* The copies are those that the operation makes of the store.
Intends(request, store) ==
    LET op == request.op
        arg == request.arg
        item == store["item"]
        aas == store["aas"]
    IN
    /\ op \in {"addSubmodel", "publish", "archive", "restore", "deletePassport"}
         => request.item = ItemAfter(op, arg, item)
    /\ op = "addSubmodel" =>
         /\ arg[1] \notin item.env
         /\ request.aas = ShellAfter(op, arg, store)
         /\ request.submodel = NewSubmodel
    /\ op = "deleteSubmodel" =>
         /\ arg[1] \in item.env
         /\ Can(aas.policies, arg)
         /\ WithoutSubmodel(request.aas, arg[1]) = ShellAfter(op, arg, store)
         /\ arg[1] \in request.item.env => request.item = item
    /\ op = "addElement" =>
         /\ arg[1] \in item.env
         /\ Can(aas.policies, <<arg[1]>>)
         /\ arg[2] \notin store[arg[1]].elements
         /\ request.submodel = SubmodelAfter(op, arg, store[arg[1]])
    /\ op = "deleteElement" =>
         /\ arg[1] \in item.env
         /\ arg[2] \in store[arg[1]].elements
         /\ Can(aas.policies, arg)
         /\ request.submodel = SubmodelAfter(op, arg, store[arg[1]])
         /\ WithoutPolicies(request.aas, arg) = ShellAfter(op, arg, store)
         /\ request.step > 1 => request.aas = ShellAfter(op, arg, store)
    /\ op \in {"modifyShell", "deletePolicy"} => request.aas = ShellAfter(op, arg, store)
    /\ op = "patchConfig" =>
         /\ Can(aas.policies, arg)
         /\ request.config \in Patches(store["config"], arg)
         /\ request.noop => request.config = store["config"]

\* Whether the handler has read the document of this name after the item.
Has(request, name) ==
    \E k \in 1..Len(Reads(request.op)) :
      /\ Reads(request.op)[k] = name
      /\ request.phase = "reading" => k < request.step

\* Of a handler that is still reading: the copies read so far are the store's.
ReadsCurrent(request, store) ==
    /\ request.item = HandleStatusChange(request.op, store["item"])
    /\ Has(request, "aas") => request.aas = store["aas"]
    /\ Has(request, "submodel") =>
         request.submodel = Found(store["item"], store, request.arg)
    /\ Has(request, "config") => request.config = store["config"]

\* The documents whose changes would outdate the request's copies.
Needed(request) ==
    {d \in Documents :
       \/ d = "item"
       \/ d = "aas" /\ Has(request, "aas")
       \/ d = request.arg[1] /\ Has(request, "submodel")
       \/ d = "config" /\ Has(request, "config")
       \/ /\ d = "config" /\ request.op \in {"deleteSubmodel", "deleteElement"}
          /\ request.phase = "open" /\ d \in Saved(request)}

\* What the callback has done so far: nobody else changed what it saves.
Transacts(request, t, store) ==
    /\ request.op # "patchConfig"
    /\ t.written \subseteq Saved(request)
    /\ "permalink" \notin t.missed
    /\ \A d \in t.missed : t.view[d] # Absent /\ store[d] # Absent
    /\ \A d \in Saved(request) :
         d \notin t.missed /\ t.view[d] = After(request.op, request.arg, store, d)

Fresh(request, t, held, store) ==
    request.phase \in InFlightPhases =>
      /\ request.op \in Operations
      /\ Admitted(request.op, store["item"])
      /\ Needed(request) \subseteq held
      /\ request.phase = "reading" => ReadsCurrent(request, store)
      /\ request.phase # "reading" => Intends(request, store)
      /\ request.phase = "ready" => request.step = 1
      /\ request.phase = "open" =>
           held \cap t.missed = {} /\ Transacts(request, t, store)

\* What the transactions see of the store: a document that neither the
\* transaction has written nor others have committed meanwhile is as in the
\* store, and a written document is written by one transaction.
ViewsOK ==
    \A r \in Requests :
      /\ txn[r].open =>
           /\ txn[r].written \cap txn[r].missed = {}
           /\ \A d \in Documents :
                d \notin txn[r].written \cup txn[r].missed => txn[r].view[d] = db[d]
      /\ ~txn[r].open => txn[r].written = {}
      /\ \A q \in Requests : q # r => txn[q].written \cap txn[r].written = {}

\* The item comes with all of its documents, and without it there are none.
Whole(store) ==
    IF store["item"] = Absent
    THEN \A d \in Documents : store[d] = Absent
    ELSE /\ store["aas"] # Absent /\ store["config"] # Absent
         /\ store["permalink"] # Absent /\ store["upi"] # Absent
         /\ \A s \in Submodels : store[s] # Absent <=> s \in store["item"].env

\* As long as no stale request has committed, the documents are whole and the
\* requests that are not stale are fresh.
FreshInv ==
    ~tainted =>
      /\ Whole(db)
      /\ \A r \in Requests \ stale : Fresh(requests[r], txn[r], copies[r], db)

-----------------------------------------------------------------------------
(* The scripts of the handlers, step by step                               *)

\* The operations with a transaction callback.
CallbackOperations == AllOperations \ {"patchConfig"}

\* The argument names a submodel, no document of its own, where it is used.
LEMMA RootIs ==
    ASSUME NEW op \in AllOperations \ (StatusOperations \cup {"deletePassport"}),
           NEW arg \in Arguments(op)
    PROVE  /\ arg[1] \in Submodels /\ arg[1] \in Documents /\ arg[1] \notin OwnDocuments
           /\ op = "deleteSubmodel" => arg = <<arg[1]>>
           /\ op \in {"addElement", "deleteElement"} => arg = <<arg[1], arg[2]>>
<1>1. arg \in Paths /\ arg[1] \in Submodels
  BY ArgumentTypes, PathFacts DEF AllOperations, EditOperations
<1>2. op = "deleteSubmodel" => arg = <<arg[1]>>
  BY DEF Arguments, SubmodelPaths
<1>3. op \in {"addElement", "deleteElement"} => arg = <<arg[1], arg[2]>>
  BY DEF Arguments, ElementPaths
<1> QED BY <1>1, <1>2, <1>3, Names

\* The documents that each step names.
LEMMA TargetIs ==
    ASSUME NEW arg
    PROVE  /\ Target("item", arg) = {"item"} /\ Target("aas", arg) = {"aas"}
           /\ Target("submodel", arg) = {arg[1]} /\ Target("dropSubmodel", arg) = {arg[1]}
           /\ Target("design", arg) = {"config"}
           /\ Target("permalink", arg) = {"permalink"}
           /\ Target("activity", arg) = {} /\ Target("dropAll", arg) = Documents
BY DEF Target

\* SavedIs spells out which documents a callback has saved before its step.
SavedBefore(op, arg, step, d) ==
    \/ /\ d = "item"
       /\ \/ step > 1 /\ op \in {"addSubmodel", "publish", "archive", "restore"}
          \/ step > 3 /\ op = "deleteSubmodel"
    \/ /\ d = "aas"
       /\ \/ step > 1 /\ op \in {"modifyShell", "deletePolicy"}
          \/ step > 2 /\ op = "deleteSubmodel"
          \/ step > 3 /\ op \in {"addSubmodel", "deleteElement"}
    \/ /\ d = arg[1]
       /\ \/ step > 1 /\ op \in {"deleteSubmodel", "addElement"}
          \/ step > 2 /\ op \in {"addSubmodel", "deleteElement"}
    \/ /\ d = "config"
       /\ \/ step > 1 /\ op = "deleteElement"
          \/ step > 5 /\ op = "deleteSubmodel"
    \/ d = "permalink" /\ step > 2 /\ op = "publish"
    \/ step > 1 /\ op = "deletePassport"

LEMMA SavedIs ==
    ASSUME NEW op \in CallbackOperations, NEW arg, NEW step \in Nat, NEW d \in Documents
    PROVE  (\E k \in 1..Len(Callback(op)) : k < step /\ d \in Target(Callback(op)[k], arg))
             <=> SavedBefore(op, arg, step, d)
<1> DEFINE At(script, k) == step > k /\ d \in Target(script[k], arg)
           Some(script) == \E k \in 1..Len(script) : k < step /\ d \in Target(script[k], arg)
<1>1. CASE op = "addSubmodel"
  <2> DEFINE script == <<"item", "submodel", "aas", "activity">>
  <2>1. /\ Len(script) = 4 /\ script[1] = "item" /\ script[2] = "submodel"
        /\ script[3] = "aas" /\ script[4] = "activity"
    OBVIOUS
  <2> HIDE DEF script
  <2>2. Some(script) <=> At(script, 1) \/ At(script, 2) \/ At(script, 3) \/ At(script, 4)
    BY <2>1
  <2>3. Callback(op) = script
    BY <1>1, CallbackOf DEF script
  <2> QED BY <1>1, <2>1, <2>2, <2>3, TargetIs DEF SavedBefore
<1>2. CASE op = "deleteSubmodel"
  <2> DEFINE script == <<"dropSubmodel", "aas", "item", "activity", "design">>
  <2>1. /\ Len(script) = 5 /\ script[1] = "dropSubmodel" /\ script[2] = "aas"
        /\ script[3] = "item" /\ script[4] = "activity" /\ script[5] = "design"
    OBVIOUS
  <2> HIDE DEF script
  <2>2. Some(script) <=> At(script, 1) \/ At(script, 2) \/ At(script, 3) \/ At(script, 4) \/ At(script, 5)
    BY <2>1
  <2>3. Callback(op) = script
    BY <1>2, CallbackOf DEF script
  <2> QED BY <1>2, <2>1, <2>2, <2>3, TargetIs DEF SavedBefore
<1>3. CASE op = "addElement"
  <2> DEFINE script == <<"submodel", "activity">>
  <2>1. /\ Len(script) = 2 /\ script[1] = "submodel" /\ script[2] = "activity"
    OBVIOUS
  <2> HIDE DEF script
  <2>2. Some(script) <=> At(script, 1) \/ At(script, 2)
    BY <2>1
  <2>3. Callback(op) = script
    BY <1>3, CallbackOf DEF script
  <2> QED BY <1>3, <2>1, <2>2, <2>3, TargetIs DEF SavedBefore
<1>4. CASE op = "deleteElement"
  <2> DEFINE script == <<"design", "submodel", "aas", "activity">>
  <2>1. /\ Len(script) = 4 /\ script[1] = "design" /\ script[2] = "submodel"
        /\ script[3] = "aas" /\ script[4] = "activity"
    OBVIOUS
  <2> HIDE DEF script
  <2>2. Some(script) <=> At(script, 1) \/ At(script, 2) \/ At(script, 3) \/ At(script, 4)
    BY <2>1
  <2>3. Callback(op) = script
    BY <1>4, CallbackOf DEF script
  <2> QED BY <1>4, <2>1, <2>2, <2>3, TargetIs DEF SavedBefore
<1>5. CASE op \in {"modifyShell", "deletePolicy"}
  <2> DEFINE script == <<"aas", "activity">>
  <2>1. /\ Len(script) = 2 /\ script[1] = "aas" /\ script[2] = "activity"
    OBVIOUS
  <2> HIDE DEF script
  <2>2. Some(script) <=> At(script, 1) \/ At(script, 2)
    BY <2>1
  <2>3. Callback(op) = script
    BY <1>5, CallbackOf DEF script
  <2> QED BY <1>5, <2>1, <2>2, <2>3, TargetIs DEF SavedBefore
<1>6. CASE op = "publish"
  <2> DEFINE script == <<"item", "permalink", "activity">>
  <2>1. /\ Len(script) = 3 /\ script[1] = "item" /\ script[2] = "permalink"
        /\ script[3] = "activity"
    OBVIOUS
  <2> HIDE DEF script
  <2>2. Some(script) <=> At(script, 1) \/ At(script, 2) \/ At(script, 3)
    BY <2>1
  <2>3. Callback(op) = script
    BY <1>6, CallbackOf DEF script
  <2> QED BY <1>6, <2>1, <2>2, <2>3, TargetIs DEF SavedBefore
<1>7. CASE op \in {"archive", "restore"}
  <2> DEFINE script == <<"item", "activity">>
  <2>1. /\ Len(script) = 2 /\ script[1] = "item" /\ script[2] = "activity"
    OBVIOUS
  <2> HIDE DEF script
  <2>2. Some(script) <=> At(script, 1) \/ At(script, 2)
    BY <2>1
  <2>3. Callback(op) = script
    BY <1>7, CallbackOf DEF script
  <2> QED BY <1>7, <2>1, <2>2, <2>3, TargetIs DEF SavedBefore
<1>8. CASE op = "deletePassport"
  <2> DEFINE script == <<"dropAll">>
  <2>1. /\ Len(script) = 1 /\ script[1] = "dropAll"
    OBVIOUS
  <2> HIDE DEF script
  <2>2. Some(script) <=> At(script, 1)
    BY <2>1
  <2>3. Callback(op) = script
    BY <1>8, CallbackOf DEF script
  <2> QED BY <1>8, <2>1, <2>2, <2>3, TargetIs DEF SavedBefore
<1> QED
  BY <1>1, <1>2, <1>3, <1>4, <1>5, <1>6, <1>7, <1>8
  DEF CallbackOperations, AllOperations, EditOperations, StatusOperations

\* What a handler has read once it has read everything.
Reading == {"addSubmodel", "deleteSubmodel", "addElement", "deleteElement",
            "modifyShell", "deletePolicy", "patchConfig"}
ReadingSubmodel == {"deleteSubmodel", "addElement", "deleteElement", "modifyShell"}

Includes(script, name) == \E k \in 1..Len(script) : script[k] = name

LEMMA ReadsNames ==
    ASSUME NEW op \in AllOperations
    PROVE  /\ Includes(Reads(op), "aas") <=> op \in Reading
           /\ Includes(Reads(op), "submodel") <=> op \in ReadingSubmodel
           /\ Includes(Reads(op), "config") <=> op = "patchConfig"
<1>1. CASE op \in {"addSubmodel", "deletePolicy"}
  <2> DEFINE script == <<"aas">>
  <2>1. Len(script) = 1 /\ script[1] = "aas"
    OBVIOUS
  <2>2. Reads(op) = script
    BY <1>1, ReadsOf
  <2> HIDE DEF script
  <2>3. \A name : Includes(script, name) <=> name = script[1]
    BY <2>1 DEF Includes
  <2> QED BY <1>1, <2>1, <2>2, <2>3 DEF Reading, ReadingSubmodel
<1>2. CASE op \in {"deleteSubmodel", "modifyShell"}
  <2> DEFINE script == <<"aas", "submodel">>
  <2>1. Len(script) = 2 /\ script[1] = "aas" /\ script[2] = "submodel"
    OBVIOUS
  <2>2. Reads(op) = script
    BY <1>2, ReadsOf
  <2> HIDE DEF script
  <2>3. \A name : Includes(script, name) <=> name = script[1] \/ name = script[2]
    BY <2>1 DEF Includes
  <2> QED BY <1>2, <2>1, <2>2, <2>3 DEF Reading, ReadingSubmodel
<1>3. CASE op \in {"addElement", "deleteElement"}
  <2> DEFINE script == <<"submodel", "aas">>
  <2>1. Len(script) = 2 /\ script[1] = "submodel" /\ script[2] = "aas"
    OBVIOUS
  <2>2. Reads(op) = script
    BY <1>3, ReadsOf
  <2> HIDE DEF script
  <2>3. \A name : Includes(script, name) <=> name = script[1] \/ name = script[2]
    BY <2>1 DEF Includes
  <2> QED BY <1>3, <2>1, <2>2, <2>3 DEF Reading, ReadingSubmodel
<1>4. CASE op = "patchConfig"
  <2> DEFINE script == <<"aas", "config">>
  <2>1. Len(script) = 2 /\ script[1] = "aas" /\ script[2] = "config"
    OBVIOUS
  <2>2. Reads(op) = script
    BY <1>4, ReadsOf
  <2> HIDE DEF script
  <2>3. \A name : Includes(script, name) <=> name = script[1] \/ name = script[2]
    BY <2>1 DEF Includes
  <2> QED BY <1>4, <2>1, <2>2, <2>3 DEF Reading, ReadingSubmodel
<1>5. CASE op \in StatusOperations \cup {"deletePassport"}
  <2>1. Reads(op) = <<>> /\ Len(<<>>) = 0
    BY <1>5 DEF Reads, StatusOperations
  <2> QED BY <1>5, <2>1 DEF Includes, Reading, ReadingSubmodel, StatusOperations
<1> QED
  BY <1>1, <1>2, <1>3, <1>4, <1>5 DEF AllOperations, EditOperations

LEMMA HasIs ==
    ASSUME NEW request, request.op \in AllOperations
    PROVE  /\ Has(request, "aas") => request.op \in Reading
           /\ Has(request, "submodel") => request.op \in ReadingSubmodel
           /\ Has(request, "config") => request.op = "patchConfig"
           /\ request.phase # "reading" \/ request.step = Len(Reads(request.op)) + 1 =>
                /\ Has(request, "aas") <=> request.op \in Reading
                /\ Has(request, "submodel") <=> request.op \in ReadingSubmodel
                /\ Has(request, "config") <=> request.op = "patchConfig"
<1> DEFINE Some(name) == Includes(Reads(request.op), name)
<1>1. /\ \A name : Has(request, name) => Some(name)
      /\ request.phase # "reading" \/ request.step = Len(Reads(request.op)) + 1 =>
           \A name : Has(request, name) <=> Some(name)
  <2>1. Len(Reads(request.op)) \in Nat
    BY DEF Reads
  <2> QED BY <2>1 DEF Has, Includes
<1>2. /\ Some("aas") <=> request.op \in Reading
      /\ Some("submodel") <=> request.op \in ReadingSubmodel
      /\ Some("config") <=> request.op = "patchConfig"
  BY ReadsNames
<1> HIDE DEF Some
<1> QED BY <1>1, <1>2

-----------------------------------------------------------------------------
(* Changes of documents that a request does not need                       *)

\* The result of an operation depends on the documents it has read.
LEMMA ShellFrame ==
    ASSUME NEW op, NEW arg, NEW store, NEW other,
           other["aas"] = store["aas"], other["item"] = store["item"],
           op = "modifyShell" => other[arg[1]] = store[arg[1]]
    PROVE  ShellAfter(op, arg, other) = ShellAfter(op, arg, store)
BY DEF ShellAfter, Found

LEMMA IntendsFrame ==
    ASSUME NEW request, request.op \in AllOperations, NEW store, NEW other,
           Intends(request, store),
           other["item"] = store["item"],
           request.op \in Reading => other["aas"] = store["aas"],
           request.op \in ReadingSubmodel =>
             other[request.arg[1]] = store[request.arg[1]],
           request.op = "patchConfig" => other["config"] = store["config"]
    PROVE  Intends(request, other)
<1>1. request.op \in Reading =>
        ShellAfter(request.op, request.arg, other) = ShellAfter(request.op, request.arg, store)
  BY ShellFrame DEF ReadingSubmodel
<1> QED BY <1>1 DEF Intends, Reading, ReadingSubmodel

\* Other requests' commits leave a fresh request fresh, if they change none of
\* its copies, no document that was or becomes absent, and no permalink.
LEMMA FreshFrame ==
    ASSUME NEW request, request.phase \in InFlightPhases,
           request.op \in AllOperations, request.arg \in Arguments(request.op),
           request.step \in Nat,
           NEW t, NEW u, NEW held, NEW store, NEW other, NEW changed \in SUBSET Documents,
           Fresh(request, t, held, store), Whole(store),
           held \cap changed = {}, "permalink" \notin changed,
           \A d \in Documents \ changed : other[d] = store[d],
           \A d \in changed : store[d] # Absent /\ other[d] # Absent,
           request.phase = "open" =>
             /\ u.view = t.view /\ u.written = t.written
             /\ u.missed = t.missed \cup changed /\ t.missed \subseteq Documents
             /\ t.written \cap changed = {}
             /\ \A d \in Documents : d \notin t.written \cup t.missed => t.view[d] = store[d]
    PROVE  Fresh(request, u, held, other)
<1> DEFINE op == request.op
           root == request.arg[1]
<1>1. Needed(request) \subseteq held /\ Admitted(op, store["item"]) /\ op \in Operations
  BY DEF Fresh
<1>2. other["item"] = store["item"]
  BY <1>1, Names DEF Needed, OwnDocuments
<1>3. /\ Has(request, "aas") => other["aas"] = store["aas"]
      /\ Has(request, "config") => other["config"] = store["config"]
  BY <1>1, Names DEF Needed, OwnDocuments
<1>4. /\ op \in Reading => root \in Documents /\ root \in Submodels /\ root \notin OwnDocuments
      /\ Has(request, "submodel") => root \in Documents /\ other[root] = store[root]
  <2>1. op \in Reading => root \in Documents /\ root \in Submodels /\ root \notin OwnDocuments
    BY RootIs DEF Reading, StatusOperations, AllOperations
  <2>2. Has(request, "submodel") => op \in Reading
    BY HasIs DEF Reading, ReadingSubmodel
  <2> QED BY <1>1, <2>1, <2>2 DEF Needed
<1>5. CASE request.phase = "reading"
  <2>1. ReadsCurrent(request, other)
    BY <1>2, <1>3, <1>4, <1>5 DEF Fresh, ReadsCurrent, Found
  <2> QED BY <1>1, <1>2, <1>5, <2>1 DEF Fresh
<1>6. ASSUME request.phase # "reading"
      PROVE  /\ Intends(request, other)
             /\ op \in Reading => other["aas"] = store["aas"] /\ "aas" \in held
             /\ op \in ReadingSubmodel => other[root] = store[root] /\ root \in held
  <2>1. /\ op \in Reading => other["aas"] = store["aas"] /\ "aas" \in held
        /\ op \in ReadingSubmodel => other[root] = store[root] /\ root \in held
        /\ op = "patchConfig" => other["config"] = store["config"]
    BY <1>1, <1>3, <1>4, <1>6, HasIs, Names DEF Needed, OwnDocuments
  <2> QED BY <1>2, <1>6, <2>1, IntendsFrame DEF Fresh
<1>7. CASE request.phase = "ready"
  BY <1>1, <1>2, <1>6, <1>7 DEF Fresh
<1>8. CASE request.phase = "open"
  <2>1. /\ held \cap t.missed = {} /\ op # "patchConfig" /\ t.written \subseteq Saved(request)
        /\ "permalink" \notin t.missed
        /\ \A d \in t.missed : t.view[d] # Absent /\ store[d] # Absent
        /\ \A d \in Saved(request) :
             d \notin t.missed /\ t.view[d] = After(op, request.arg, store, d)
    BY <1>8 DEF Fresh, Transacts
  <2>2. op \in CallbackOperations /\ \A d \in Saved(request) : SavedBefore(op, request.arg, request.step, d)
    BY <2>1, SavedIs DEF Saved, CallbackOperations
  <2>3. ASSUME NEW d \in Saved(request)
        PROVE  d \notin changed /\ d \in Documents
    <3>1. d \in Documents /\ SavedBefore(op, request.arg, request.step, d)
      BY <2>2 DEF Saved
    <3>2. CASE d \in {"item", "permalink"}
      BY <1>1, <3>2, Names DEF Needed, OwnDocuments
    <3>3. CASE d = "aas" /\ op # "deletePassport"
      BY <1>6, <1>8, <3>1, <3>3, Names, RootIs DEF SavedBefore, Reading, OwnDocuments
    <3>4. CASE d = "config" /\ op # "deletePassport"
      <4>1. op \in {"deleteSubmodel", "deleteElement"}
        BY <1>4, <3>1, <3>4 DEF SavedBefore, OwnDocuments, Reading
      <4> QED BY <1>1, <1>8, <3>1, <3>4, <4>1 DEF Needed
    <3>5. CASE op = "deletePassport"
      <4>1. t.view[d] = Absent /\ d \notin t.missed
        BY <2>1, <3>5 DEF After
      <4>2. d \in t.written \/ store[d] = Absent
        BY <1>8, <3>1, <4>1
      <4> QED BY <1>8, <3>1, <4>2
    <3>6. CASE d = root /\ op \in ReadingSubmodel
      BY <1>6, <1>8, <3>1, <3>6
    <3>7. CASE d = root /\ op = "addSubmodel"
      <4>1. root \notin store["item"].env
        BY <1>8, <3>7 DEF Fresh, Intends
      <4>2. store["item"] # Absent /\ root \in Submodels
        BY <1>1, <1>4, <3>7 DEF Admitted, Reading
      <4> QED BY <3>1, <3>7, <4>1, <4>2 DEF Whole
    <3> QED
      BY <3>1, <3>2, <3>3, <3>4, <3>5, <3>6, <3>7 DEF SavedBefore, ReadingSubmodel
  <2>4. ASSUME NEW d \in Saved(request)
        PROVE  After(op, request.arg, other, d) = After(op, request.arg, store, d)
    <3>1. other[d] = store[d]
      BY <2>3
    <3>2. d = "aas" /\ op # "deletePassport" =>
            ShellAfter(op, request.arg, other) = ShellAfter(op, request.arg, store)
      BY <1>2, <1>6, <1>8, <3>1, ShellFrame DEF ReadingSubmodel
    <3> QED BY <1>2, <3>1, <3>2 DEF After
  <2>5. \A d \in u.missed : u.view[d] # Absent /\ other[d] # Absent
    <3>1. ASSUME NEW d \in changed
          PROVE  t.view[d] # Absent
      <4>1. d \in t.missed \/ t.view[d] = store[d]
        BY <1>8
      <4> QED BY <2>1, <4>1
    <3>2. \A d \in t.missed : other[d] # Absent
      BY <1>8, <2>1
    <3> QED BY <1>8, <2>1, <3>1, <3>2
  <2>6. Transacts(request, u, other)
    BY <1>8, <2>1, <2>3, <2>4, <2>5 DEF Transacts
  <2> QED BY <1>1, <1>2, <1>6, <1>8, <2>1, <2>6 DEF Fresh
<1> QED BY <1>5, <1>7, <1>8 DEF InFlightPhases

-----------------------------------------------------------------------------
(* A callback that has saved everything has performed its operation        *)

LEMMA LengthIs ==
    /\ Len(Callback("addSubmodel")) = 4 /\ Len(Callback("deleteSubmodel")) = 5
    /\ Len(Callback("addElement")) = 2 /\ Len(Callback("deleteElement")) = 4
    /\ Len(Callback("modifyShell")) = 2 /\ Len(Callback("deletePolicy")) = 2
    /\ Len(Callback("publish")) = 3 /\ Len(Callback("archive")) = 2
    /\ Len(Callback("restore")) = 2 /\ Len(Callback("deletePassport")) = 1
<1>1. /\ Len(<<"item", "submodel", "aas", "activity">>) = 4
      /\ Len(<<"dropSubmodel", "aas", "item", "activity", "design">>) = 5
      /\ Len(<<"submodel", "activity">>) = 2
      /\ Len(<<"design", "submodel", "aas", "activity">>) = 4
      /\ Len(<<"aas", "activity">>) = 2 /\ Len(<<"item", "permalink", "activity">>) = 3
      /\ Len(<<"item", "activity">>) = 2 /\ Len(<<"dropAll">>) = 1
  OBVIOUS
<1> QED BY <1>1, CallbackOf

\* The documents an operation touches.
Touches(op, arg, d) ==
    \/ /\ d = "item"
       /\ op \in {"addSubmodel", "deleteSubmodel", "publish", "archive", "restore"}
    \/ /\ d = "aas"
       /\ op \in {"addSubmodel", "deleteSubmodel", "deleteElement", "modifyShell",
                  "deletePolicy"}
    \/ /\ d = arg[1]
       /\ op \in {"addSubmodel", "deleteSubmodel", "addElement", "deleteElement"}
    \/ d = "config" /\ op \in {"deleteSubmodel", "deleteElement"}
    \/ d = "permalink" /\ op = "publish"
    \/ op = "deletePassport"

LEMMA TouchedIsSaved ==
    ASSUME NEW request, request.op \in CallbackOperations,
           request.step = Len(Callback(request.op)) + 1
    PROVE  /\ Saved(request) \subseteq Documents
           /\ \A d \in Documents : d \in Saved(request) <=> Touches(request.op, request.arg, d)
<1> SUFFICES ASSUME NEW d \in Documents
             PROVE  d \in Saved(request) <=> Touches(request.op, request.arg, d)
  BY DEF Saved
<1> DEFINE op == request.op
           arg == request.arg
           step == request.step
<1>1. step \in Nat
  BY LengthIs DEF CallbackOperations, AllOperations, EditOperations, StatusOperations
<1>2. d \in Saved(request) <=> SavedBefore(op, arg, step, d)
  BY <1>1, SavedIs DEF Saved
<1>3. SavedBefore(op, arg, step, d) <=> Touches(op, arg, d)
  <2>0. step = Len(Callback(op)) + 1
    OBVIOUS
  <2>1. /\ op = "deleteSubmodel" => step = 6
        /\ op \in {"addSubmodel", "deleteElement"} => step = 5
        /\ op = "publish" => step = 4
        /\ op \in {"addElement", "modifyShell", "deletePolicy", "archive", "restore"} => step = 3
        /\ op = "deletePassport" => step = 2
    <3> DEFINE Length(o) == Len(Callback(o))
    <3>1. /\ Length("deleteSubmodel") = 5 /\ Length("addSubmodel") = 4
          /\ Length("deleteElement") = 4 /\ Length("publish") = 3
          /\ Length("addElement") = 2 /\ Length("modifyShell") = 2
          /\ Length("deletePolicy") = 2 /\ Length("archive") = 2
          /\ Length("restore") = 2 /\ Length("deletePassport") = 1
      BY LengthIs
    <3>2. step = Length(op) + 1
      BY <2>0
    <3> HIDE DEF op, step, Length
    <3> QED BY <3>1, <3>2
  <2>2. op \in {"deleteSubmodel", "addSubmodel", "deleteElement", "publish", "addElement",
                "modifyShell", "deletePolicy", "archive", "restore", "deletePassport"}
    BY DEF CallbackOperations, AllOperations, EditOperations, StatusOperations
  <2> HIDE DEF op, arg, step
  <2>3. CASE op \in {"addSubmodel", "deleteSubmodel"}
    BY <2>1, <2>3 DEF SavedBefore, Touches
  <2>4. CASE op \in {"addElement", "deleteElement"}
    BY <2>1, <2>4 DEF SavedBefore, Touches
  <2>5. CASE op \in {"modifyShell", "deletePolicy", "deletePassport"}
    BY <2>1, <2>5 DEF SavedBefore, Touches
  <2>6. CASE op \in {"publish", "archive", "restore"}
    BY <2>1, <2>6 DEF SavedBefore, Touches
  <2> QED BY <2>2, <2>3, <2>4, <2>5, <2>6
<1> QED BY <1>2, <1>3

\* The domain objects of AtomicDocuments are those of the handlers.
LEMMA SameDomain ==
    /\ \A op, item : Atomic!Admitted(op, item) <=> Admitted(op, item)
    /\ \A op, item : Atomic!HandleStatusChange(op, item) = HandleStatusChange(op, item)
    /\ \A policies, path : Atomic!Can(policies, path) <=> Can(policies, path)
    /\ \A aas : Atomic!IncreaseVersion(aas) = IncreaseVersion(aas)
    /\ \A aas, s : Atomic!WithSubmodel(aas, s) = WithSubmodel(aas, s)
    /\ \A aas, s : Atomic!WithoutSubmodel(aas, s) = WithoutSubmodel(aas, s)
    /\ \A aas, path : Atomic!WithoutPolicies(aas, path) = WithoutPolicies(aas, path)
    /\ \A aas, path : Atomic!WithoutPolicy(aas, path) = WithoutPolicy(aas, path)
    /\ \A aas, added : Atomic!WithPolicies(aas, added) = WithPolicies(aas, added)
    /\ \A submodel, path : Atomic!NewPolicies(submodel, path) = NewPolicies(submodel, path)
    /\ \A submodel, e : Atomic!WithElement(submodel, e) = WithElement(submodel, e)
    /\ \A submodel, e : Atomic!WithoutElement(submodel, e) = WithoutElement(submodel, e)
    /\ \A config, path : Atomic!WithoutDesign(config, path) = WithoutDesign(config, path)
    /\ \A config, path : Atomic!Patches(config, path) = Patches(config, path)
    /\ \A op : Atomic!Arguments(op) = Arguments(op)
    /\ Atomic!NewSubmodel = NewSubmodel /\ Atomic!Documents = Documents
    /\ Atomic!StatusOperations = StatusOperations
<1>1. /\ \A path, parent : Atomic!IsUnder(path, parent) <=> IsUnder(path, parent)
      /\ \A aas : Atomic!IncreaseVersion(aas) = IncreaseVersion(aas)
      /\ Atomic!EditOperations = EditOperations /\ Atomic!StatusOperations = StatusOperations
      /\ Atomic!Documents = Documents /\ Atomic!NewSubmodel = NewSubmodel
  BY DEF Atomic!IsUnder, IsUnder, Atomic!IncreaseVersion, IncreaseVersion,
         Atomic!EditOperations, EditOperations, Atomic!StatusOperations, StatusOperations,
         Atomic!Documents, Documents, Atomic!OwnDocuments, OwnDocuments,
         Atomic!NewSubmodel, NewSubmodel
<1>2. /\ \A op, item : Atomic!Admitted(op, item) <=> Admitted(op, item)
      /\ \A op, item : Atomic!HandleStatusChange(op, item) = HandleStatusChange(op, item)
      /\ \A policies, path : Atomic!Can(policies, path) <=> Can(policies, path)
  BY <1>1
  DEF Atomic!Admitted, Admitted, Atomic!MayPublish, MayPublish, Atomic!MayArchive, MayArchive,
      Atomic!MayRestore, MayRestore, Atomic!HandleStatusChange, HandleStatusChange,
      Atomic!PublishDpp, PublishDpp, Atomic!ArchiveDpp, ArchiveDpp, Atomic!RestoreDpp, RestoreDpp,
      Atomic!Can, Can
<1>3. /\ \A aas, s : Atomic!WithSubmodel(aas, s) = WithSubmodel(aas, s)
      /\ \A aas, path : Atomic!WithoutPolicies(aas, path) = WithoutPolicies(aas, path)
      /\ \A aas, path : Atomic!WithoutPolicy(aas, path) = WithoutPolicy(aas, path)
      /\ \A aas, added : Atomic!WithPolicies(aas, added) = WithPolicies(aas, added)
      /\ \A submodel, path : Atomic!NewPolicies(submodel, path) = NewPolicies(submodel, path)
  BY <1>1
  DEF Atomic!WithSubmodel, WithSubmodel, Atomic!WithoutPolicies, WithoutPolicies,
      Atomic!WithoutPolicy, WithoutPolicy, Atomic!WithPolicies, WithPolicies,
      Atomic!NewPolicies, NewPolicies
<1>4. \A aas, s : Atomic!WithoutSubmodel(aas, s) = WithoutSubmodel(aas, s)
  BY <1>3 DEF Atomic!WithoutSubmodel, WithoutSubmodel
<1>5. /\ \A submodel, e : Atomic!WithElement(submodel, e) = WithElement(submodel, e)
      /\ \A submodel, e : Atomic!WithoutElement(submodel, e) = WithoutElement(submodel, e)
      /\ \A config, path : Atomic!WithoutDesign(config, path) = WithoutDesign(config, path)
      /\ \A config, path : Atomic!Patches(config, path) = Patches(config, path)
  BY <1>1
  DEF Atomic!WithElement, WithElement, Atomic!WithoutElement, WithoutElement,
      Atomic!WithoutDesign, WithoutDesign, Atomic!Patches, Patches
<1>6. \A op : Atomic!Arguments(op) = Arguments(op)
  BY DEF Atomic!Arguments, Arguments, Atomic!Paths, Paths, Atomic!SubmodelPaths, SubmodelPaths,
         Atomic!ElementPaths, ElementPaths
<1> QED BY <1>1, <1>2, <1>3, <1>4, <1>5, <1>6

\* The store after an operation that touched these documents.
LEMMA Performs ==
    ASSUME StoreOK(db), NEW request, request.op \in CallbackOperations,
           request.op \in Operations, request.arg \in Arguments(request.op),
           Admitted(request.op, db["item"]), Intends(request, db),
           db' = [d \in Documents |->
                    IF Touches(request.op, request.arg, d)
                    THEN After(request.op, request.arg, db, d) ELSE db[d]]
    PROVE  Atomic!Next
<1> DEFINE op == request.op
           arg == request.arg
           s == arg[1]
<1>1. /\ db = [d \in Documents |-> db[d]] /\ db' = [d \in Documents |-> db'[d]]
      /\ \A d \in Documents : db'[d] = IF Touches(op, arg, d) THEN After(op, arg, db, d) ELSE db[d]
  BY DEF StoreOK
<1>2. op \in AllOperations /\ (op \in Reading => s \in Documents /\ s \notin OwnDocuments)
  <2>1. op \in AllOperations /\ op # "patchConfig"
    BY DEF CallbackOperations
  <2> QED BY <2>1, RootIs DEF Reading, StatusOperations
<1> SUFFICES Atomic!Perform(op, arg)
  BY SameDomain DEF Atomic!Next
<1> HIDE DEF op, arg, s
<1>3. CASE op = "addSubmodel"
  <2> DEFINE new == [db EXCEPT !["item"].env = @ \cup {s},
                               !["aas"] = IncreaseVersion(WithSubmodel(@, s)),
                               ![s] = NewSubmodel]
  <2>1. s \in Documents /\ s \notin OwnDocuments
    BY <1>2, <1>3 DEF Reading
  <2>2. \A d \in Documents : Touches(op, arg, d) <=> d \in {"item", "aas", s}
    BY <1>3 DEF Touches, s
  <2>3. /\ After(op, arg, db, "item") = [db["item"] EXCEPT !.env = @ \cup {s}]
        /\ After(op, arg, db, "aas") = IncreaseVersion(WithSubmodel(db["aas"], s))
        /\ After(op, arg, db, s) = NewSubmodel
    BY <1>3, <2>1 DEF After, ItemAfter, ShellAfter, SubmodelAfter, OwnDocuments, s
  <2>4. /\ new = [d \in Documents |-> new[d]]
        /\ new["item"] = [db["item"] EXCEPT !.env = @ \cup {s}]
        /\ new["aas"] = IncreaseVersion(WithSubmodel(db["aas"], s))
        /\ new[s] = NewSubmodel
        /\ \A d \in Documents \ {"item", "aas", s} : new[d] = db[d]
    BY <1>1, <2>1, Names DEF OwnDocuments
  <2> HIDE DEF new
  <2>5. db' = new
    BY <1>1, <2>1, <2>2, <2>3, <2>4, Names DEF OwnDocuments
  <2>6. s \notin db["item"].env
    BY <1>3 DEF Intends, op, arg, s
  <2>7. Atomic!AddSubmodel(s)
    BY <2>5, <2>6, SameDomain DEF Atomic!AddSubmodel, Atomic!Env, new
  <2> QED BY <1>3, <2>7, SameDomain DEF Atomic!Perform, op, s
<1>4. CASE op = "deleteSubmodel"
  <2> DEFINE new == [db EXCEPT !["item"].env = @ \ {s},
                               !["aas"] = WithoutSubmodel(@, s),
                               !["config"] = WithoutDesign(@, <<s>>),
                               ![s] = Absent]
  <2>1. s \in Documents /\ s \notin OwnDocuments /\ arg = <<s>>
    BY <1>2, <1>4, RootIs DEF Reading, StatusOperations, AllOperations, EditOperations, op, arg, s
  <2>2. \A d \in Documents : Touches(op, arg, d) <=> d \in {"item", "aas", "config", s}
    BY <1>4 DEF Touches, s
  <2>3. /\ After(op, arg, db, "item") = [db["item"] EXCEPT !.env = @ \ {s}]
        /\ After(op, arg, db, "aas") = WithoutSubmodel(db["aas"], s)
        /\ After(op, arg, db, "config") = WithoutDesign(db["config"], <<s>>)
        /\ After(op, arg, db, s) = Absent
    BY <1>4, <2>1 DEF After, ItemAfter, ShellAfter, SubmodelAfter, OwnDocuments, s
  <2>4. /\ new = [d \in Documents |-> new[d]]
        /\ new["item"] = [db["item"] EXCEPT !.env = @ \ {s}]
        /\ new["aas"] = WithoutSubmodel(db["aas"], s)
        /\ new["config"] = WithoutDesign(db["config"], <<s>>)
        /\ new[s] = Absent
        /\ \A d \in Documents \ {"item", "aas", "config", s} : new[d] = db[d]
    BY <1>1, <2>1, Names DEF OwnDocuments
  <2> HIDE DEF new
  <2>5. db' = new
    BY <1>1, <2>1, <2>2, <2>3, <2>4, Names DEF OwnDocuments
  <2>6. s \in db["item"].env /\ Can(db["aas"].policies, <<s>>)
    BY <1>4, <2>1 DEF Intends, op, arg, s
  <2>7. Atomic!DeleteSubmodel(s)
    BY <2>5, <2>6, SameDomain DEF Atomic!DeleteSubmodel, Atomic!Env, new
  <2> QED BY <1>4, <2>7, SameDomain DEF Atomic!Perform, op, s
<1>5. CASE op = "addElement"
  <2> DEFINE e == arg[2]
             new == [db EXCEPT ![s] = WithElement(@, e)]
  <2>1. s \in Documents /\ s \notin OwnDocuments
    BY <1>2, <1>5 DEF Reading
  <2>2. \A d \in Documents : Touches(op, arg, d) <=> d = s
    BY <1>5 DEF Touches, s
  <2>3. After(op, arg, db, s) = WithElement(db[s], e)
    BY <1>5, <2>1 DEF After, SubmodelAfter, OwnDocuments, s
  <2>4. db' = new
    BY <1>1, <2>1, <2>2, <2>3
  <2>5. s \in db["item"].env /\ Can(db["aas"].policies, <<s>>) /\ e \notin db[s].elements
    BY <1>5 DEF Intends, op, arg, s
  <2>6. Atomic!AddElement(s, e)
    BY <2>4, <2>5, SameDomain DEF Atomic!AddElement, Atomic!Env
  <2> QED BY <1>5, <2>6, SameDomain DEF Atomic!Perform, op, s
<1>6. CASE op = "deleteElement"
  <2> DEFINE e == arg[2]
             new == [db EXCEPT ![s] = WithoutElement(@, e),
                               !["aas"] = IncreaseVersion(WithoutPolicies(@, <<s, e>>)),
                               !["config"] = WithoutDesign(@, <<s, e>>)]
  <2>1. s \in Documents /\ s \notin OwnDocuments /\ arg = <<s, e>>
    BY <1>2, <1>6, RootIs DEF Reading, StatusOperations, AllOperations, EditOperations, op, arg, s
  <2>2. \A d \in Documents : Touches(op, arg, d) <=> d \in {"aas", "config", s}
    BY <1>6 DEF Touches, s
  <2>3. /\ After(op, arg, db, "aas") = IncreaseVersion(WithoutPolicies(db["aas"], <<s, e>>))
        /\ After(op, arg, db, "config") = WithoutDesign(db["config"], <<s, e>>)
        /\ After(op, arg, db, s) = WithoutElement(db[s], e)
    BY <1>6, <2>1 DEF After, ShellAfter, SubmodelAfter, OwnDocuments, s
  <2>4. /\ new = [d \in Documents |-> new[d]]
        /\ new["aas"] = IncreaseVersion(WithoutPolicies(db["aas"], <<s, e>>))
        /\ new["config"] = WithoutDesign(db["config"], <<s, e>>)
        /\ new[s] = WithoutElement(db[s], e)
        /\ \A d \in Documents \ {"aas", "config", s} : new[d] = db[d]
    BY <1>1, <2>1, Names DEF OwnDocuments
  <2> HIDE DEF new
  <2>5. db' = new
    BY <1>1, <2>1, <2>2, <2>3, <2>4, Names DEF OwnDocuments
  <2>6. s \in db["item"].env /\ e \in db[s].elements /\ Can(db["aas"].policies, <<s, e>>)
    BY <1>6, <2>1 DEF Intends, op, arg, s
  <2>7. Atomic!DeleteElement(s, e)
    BY <2>5, <2>6, SameDomain DEF Atomic!DeleteElement, Atomic!Env, new
  <2> QED BY <1>6, <2>7, SameDomain DEF Atomic!Perform, op, s
<1>7. CASE op = "modifyShell"
  <2> DEFINE added == NewPolicies(Found(db["item"], db, arg), arg)
  <2>1. \A d \in Documents : Touches(op, arg, d) <=> d = "aas"
    BY <1>7 DEF Touches
  <2>2. After(op, arg, db, "aas") = WithPolicies(db["aas"], added)
    BY <1>7 DEF After, ShellAfter
  <2>3. db' = [db EXCEPT !["aas"] = WithPolicies(@, added)]
    BY <1>1, <2>1, <2>2, Names DEF OwnDocuments
  <2>4. Atomic!ModifyShell(arg)
    BY <2>3, SameDomain DEF Atomic!ModifyShell, Atomic!Env, Found
  <2> QED BY <1>7, <2>4, SameDomain DEF Atomic!Perform, op
<1>8. CASE op = "deletePolicy"
  <2>1. \A d \in Documents : Touches(op, arg, d) <=> d = "aas"
    BY <1>8 DEF Touches
  <2>2. After(op, arg, db, "aas") = WithoutPolicy(db["aas"], arg)
    BY <1>8 DEF After, ShellAfter
  <2>3. db' = [db EXCEPT !["aas"] = WithoutPolicy(@, arg)]
    BY <1>1, <2>1, <2>2, Names DEF OwnDocuments
  <2>4. Atomic!DeletePolicy(arg)
    BY <2>3, SameDomain DEF Atomic!DeletePolicy
  <2> QED BY <1>8, <2>4, SameDomain DEF Atomic!Perform, op
<1>9. CASE op \in StatusOperations
  <2> DEFINE item == HandleStatusChange(op, db["item"])
             permalink == IF op = "publish" /\ db["permalink"] = "open"
                          THEN "frozen" ELSE db["permalink"]
  <2>1. \A d \in Documents \ {"item", "permalink"} : ~Touches(op, arg, d)
    BY <1>9 DEF Touches, StatusOperations
  <2>2. db'["item"] = item
    BY <1>1, <1>9, Names DEF Touches, After, ItemAfter, StatusOperations, OwnDocuments
  <2>3. db'["permalink"] = permalink
    BY <1>1, <1>9, Names DEF Touches, After, StatusOperations, OwnDocuments
  <2>4. db' = [db EXCEPT !["item"] = item, !["permalink"] = permalink]
    BY <1>1, <2>1, <2>2, <2>3, Names DEF OwnDocuments
  <2>5. Atomic!ChangeStatus(op)
    BY <2>4, SameDomain DEF Atomic!ChangeStatus
  <2> QED BY <1>9, <2>5, SameDomain DEF Atomic!Perform, op
<1>10. CASE op = "deletePassport"
  <2>1. \A d \in Documents : db'[d] = Absent
    BY <1>1, <1>10 DEF Touches, After
  <2>2. Atomic!DeletePassport
    BY <1>1, <2>1, SameDomain DEF Atomic!DeletePassport
  <2> QED BY <1>10, <2>2, SameDomain DEF Atomic!Perform, op
<1> QED
  BY <1>2, <1>3, <1>4, <1>5, <1>6, <1>7, <1>8, <1>9, <1>10
  DEF CallbackOperations, AllOperations, EditOperations, op

\* What the types say of the documents of a whole store with an item.
LEMMA WholeTypes ==
    ASSUME NEW store, StoreOK(store), Whole(store), store["item"] # Absent
    PROVE  /\ store["item"] \in Items /\ store["aas"] \in Shells
           /\ store["config"] \in Configs /\ store["permalink"] \in Permalinks
           /\ \A s \in store["item"].env : s \in Submodels /\ store[s] \in SubmodelDocuments
BY DEF StoreOK, Whole, Items

LEMMA EnvironmentOf ==
    ASSUME NEW item \in Items, NEW env \in SUBSET Submodels
    PROVE  [item EXCEPT !.env = env].env = env /\ [item EXCEPT !.env = env] # Absent
<1>1. [item EXCEPT !.env = env] \in Items /\ [item EXCEPT !.env = env].env = env
  BY DEF Items
<1> QED BY <1>1, AbsentAssumption

\* A status change that the guards admit changes the status.
LEMMA StatusReallyChanges ==
    ASSUME NEW item \in Items, NEW op \in StatusOperations, Admitted(op, item)
    PROVE  /\ HandleStatusChange(op, item) \in Items
           /\ HandleStatusChange(op, item).env = item.env
           /\ HandleStatusChange(op, item) # item
<1>1. HandleStatusChange(op, item) \in Items
  BY StatusChangeOK
<1>2. CASE op = "publish"
  BY <1>1, <1>2 DEF HandleStatusChange, PublishDpp, Admitted, MayPublish, Items
<1>3. CASE op = "archive"
  BY <1>1, <1>3 DEF HandleStatusChange, ArchiveDpp, Admitted, MayArchive, Items
<1>4. CASE op = "restore"
  BY <1>1, <1>4 DEF HandleStatusChange, RestoreDpp, Admitted, MayRestore, Items
<1> QED BY <1>1, <1>2, <1>3, <1>4 DEF StatusOperations

\* An operation keeps the documents whole, and one that leaves the item alone
\* touches documents that are there and stay, and no permalink.
LEMMA EffectIsWhole ==
    ASSUME NEW store, NEW other, StoreOK(store), Whole(store),
           NEW request, request.op \in CallbackOperations,
           request.arg \in Arguments(request.op),
           Admitted(request.op, store["item"]), Intends(request, store),
           \A d \in Documents :
             other[d] = IF Touches(request.op, request.arg, d)
                        THEN After(request.op, request.arg, store, d) ELSE store[d]
    PROVE  /\ Whole(other)
           /\ other["item"] = store["item"] =>
                \A d \in Documents : Touches(request.op, request.arg, d) =>
                   d # "permalink" /\ store[d] # Absent /\ other[d] # Absent
<1> DEFINE op == request.op
           arg == request.arg
           s == arg[1]
           item == store["item"]
<1>1. /\ item \in Items /\ store["aas"] \in Shells /\ store["config"] \in Configs
      /\ store["permalink"] \in Permalinks /\ item.env \in SUBSET Submodels
      /\ \A x \in item.env : x \in Submodels /\ store[x] \in SubmodelDocuments
      /\ item # Absent
  BY WholeTypes DEF Admitted, Items
<1>2. /\ store["aas"] # Absent /\ store["config"] # Absent
      /\ store["permalink"] # Absent /\ store["upi"] # Absent
      /\ \A x \in Submodels : store[x] # Absent <=> x \in item.env
  BY <1>1 DEF Whole
<1>3. op \in AllOperations /\ (op \in Reading => s \in Documents /\ s \notin OwnDocuments)
  <2>1. op \in AllOperations /\ op # "patchConfig"
    BY DEF CallbackOperations
  <2> QED BY <2>1, RootIs DEF Reading, StatusOperations
<1>4. \A d \in Documents :
        other[d] = IF Touches(op, arg, d) THEN After(op, arg, store, d) ELSE store[d]
  OBVIOUS
<1>5. op \in {"addSubmodel", "deleteSubmodel", "addElement", "deleteElement"} =>
        s \in Submodels
  BY RootIs DEF AllOperations, EditOperations, StatusOperations
<1>6. op \in {"modifyShell", "deletePolicy"} => arg \in Paths
  BY ArgumentTypes
<1>7. Intends(request, store) /\ Admitted(op, item)
  OBVIOUS
<1> HIDE DEF op, arg, s, item
<1>8. CASE op = "addSubmodel"
  <2>1. s \in Submodels /\ s \in Documents /\ s \notin OwnDocuments /\ s \notin item.env
    BY <1>3, <1>5, <1>7, <1>8 DEF Reading, Intends, op, arg, s, item
  <2>2. \A d \in Documents : Touches(op, arg, d) <=> d \in {"item", "aas", s}
    BY <1>8 DEF Touches, s
  <2> DEFINE env == item.env \cup {s}
  <2>3. /\ After(op, arg, store, "item") = [item EXCEPT !.env = env]
        /\ After(op, arg, store, "aas") \in Shells
        /\ After(op, arg, store, s) \in SubmodelDocuments
    BY <1>1, <1>8, <2>1, MethodTypes
    DEF After, ItemAfter, ShellAfter, SubmodelAfter, OwnDocuments, s, item
  <2>4. env \in SUBSET Submodels
    BY <1>1, <2>1
  <2> HIDE DEF env
  <2>5. other["item"].env = env /\ other["item"] # Absent
    <3>1. other["item"] = [item EXCEPT !.env = env]
      BY <1>4, <2>2, <2>3, Names DEF OwnDocuments
    <3> QED BY <1>1, <2>4, <3>1, EnvironmentOf
  <2>6. /\ other["aas"] # Absent /\ other[s] # Absent
        /\ \A d \in Documents \ {"item", "aas", s} : other[d] = store[d]
    BY <1>4, <2>1, <2>2, <2>3, Names, AbsentAssumption DEF OwnDocuments
  <2>7. Whole(other)
    BY <1>2, <2>1, <2>5, <2>6, Names DEF Whole, OwnDocuments, env
  <2>8. other["item"] # item
    BY <2>1, <2>5 DEF env
  <2> QED BY <2>7, <2>8 DEF item
<1>9. CASE op = "deleteSubmodel"
  <2>1. s \in Submodels /\ s \in Documents /\ s \notin OwnDocuments /\ s \in item.env
    BY <1>3, <1>5, <1>7, <1>9 DEF Reading, Intends, op, arg, s, item
  <2>2. \A d \in Documents : Touches(op, arg, d) <=> d \in {"item", "aas", "config", s}
    BY <1>9 DEF Touches, s
  <2>3. arg \in Paths
    BY <1>9, ArgumentTypes DEF op, arg
  <2> DEFINE env == item.env \ {s}
  <2>4. /\ After(op, arg, store, "item") = [item EXCEPT !.env = env]
        /\ After(op, arg, store, "aas") \in Shells
        /\ After(op, arg, store, "config") \in Configs
        /\ After(op, arg, store, s) = Absent
    BY <1>1, <1>9, <2>1, <2>3, MethodTypes
    DEF After, ItemAfter, ShellAfter, SubmodelAfter, OwnDocuments, s, item
  <2>5. env \in SUBSET Submodels
    BY <1>1, <2>1
  <2> HIDE DEF env
  <2>6. other["item"].env = env /\ other["item"] # Absent
    <3>1. other["item"] = [item EXCEPT !.env = env]
      BY <1>4, <2>2, <2>4, Names DEF OwnDocuments
    <3> QED BY <1>1, <2>5, <3>1, EnvironmentOf
  <2>7. /\ other["aas"] # Absent /\ other["config"] # Absent /\ other[s] = Absent
        /\ \A d \in Documents \ {"item", "aas", "config", s} : other[d] = store[d]
    BY <1>4, <2>1, <2>2, <2>4, Names, AbsentAssumption DEF OwnDocuments
  <2>8. Whole(other)
    BY <1>2, <2>1, <2>6, <2>7, Names DEF Whole, OwnDocuments, env
  <2>9. other["item"] # item
    BY <2>1, <2>6 DEF env
  <2> QED BY <2>8, <2>9 DEF item
<1>10. CASE op = "addElement"
  <2>1. s \in Submodels /\ s \in Documents /\ s \notin OwnDocuments /\ s \in item.env
    BY <1>3, <1>5, <1>7, <1>10 DEF Reading, Intends, op, arg, s, item
  <2>2. \A d \in Documents : Touches(op, arg, d) <=> d = s
    BY <1>10 DEF Touches, s
  <2>3. After(op, arg, store, s) \in SubmodelDocuments
    <3>1. arg[2] \in Elements
      BY <1>10, ArgumentTypes DEF op, arg
    <3> QED BY <1>1, <1>10, <2>1, <3>1, MethodTypes DEF After, SubmodelAfter, OwnDocuments
  <2>4. other[s] # Absent /\ \A d \in Documents \ {s} : other[d] = store[d]
    BY <1>4, <2>1, <2>2, <2>3, AbsentAssumption
  <2>5. Whole(other)
    BY <1>1, <1>2, <2>1, <2>4, Names DEF Whole, OwnDocuments, item
  <2> QED BY <1>2, <2>1, <2>2, <2>4, <2>5 DEF OwnDocuments, op, arg
<1>11. CASE op = "deleteElement"
  <2>1. s \in Submodels /\ s \in Documents /\ s \notin OwnDocuments /\ s \in item.env
    BY <1>3, <1>5, <1>7, <1>11 DEF Reading, Intends, op, arg, s, item
  <2>2. \A d \in Documents : Touches(op, arg, d) <=> d \in {"aas", "config", s}
    BY <1>11 DEF Touches, s
  <2>3. arg \in Paths /\ arg[2] \in Elements
    BY <1>11, ArgumentTypes DEF op, arg
  <2>4. /\ After(op, arg, store, "aas") \in Shells
        /\ After(op, arg, store, "config") \in Configs
        /\ After(op, arg, store, s) \in SubmodelDocuments
    BY <1>1, <1>11, <2>1, <2>3, MethodTypes
    DEF After, ShellAfter, SubmodelAfter, OwnDocuments
  <2>5. /\ other["aas"] # Absent /\ other["config"] # Absent /\ other[s] # Absent
        /\ \A d \in Documents \ {"aas", "config", s} : other[d] = store[d]
    BY <1>4, <2>1, <2>2, <2>4, Names, AbsentAssumption DEF OwnDocuments
  <2>6. Whole(other)
    BY <1>1, <1>2, <2>1, <2>5, Names DEF Whole, OwnDocuments, item
  <2> QED BY <1>2, <2>1, <2>2, <2>5, <2>6 DEF OwnDocuments, op, arg
<1>12. CASE op \in {"modifyShell", "deletePolicy"}
  <2>1. \A d \in Documents : Touches(op, arg, d) <=> d = "aas"
    BY <1>12 DEF Touches
  <2>2. After(op, arg, store, "aas") \in Shells
    BY <1>1, <1>6, <1>12, MethodTypes DEF After, ShellAfter
  <2>3. /\ other["aas"] # Absent
        /\ \A d \in Documents \ {"aas"} : other[d] = store[d]
    BY <1>4, <2>1, <2>2, AbsentAssumption, Names DEF OwnDocuments
  <2>4. Whole(other)
    BY <1>1, <1>2, <2>3, Names DEF Whole, OwnDocuments, item
  <2> QED BY <1>2, <2>1, <2>3, <2>4 DEF op, arg
<1>13. CASE op \in StatusOperations
  <2>1. \A d \in Documents \ {"item", "permalink"} : ~Touches(op, arg, d)
    BY <1>13 DEF Touches, StatusOperations
  <2>2. other["item"] = HandleStatusChange(op, item)
    BY <1>4, <1>13, Names DEF Touches, After, ItemAfter, StatusOperations, OwnDocuments, item
  <2>3. other["permalink"] # Absent
    BY <1>2, <1>4, <1>13, Names, AbsentAssumption
    DEF Touches, After, StatusOperations, OwnDocuments, Permalinks
  <2>4. \A d \in Documents \ {"item", "permalink"} : other[d] = store[d]
    BY <1>4, <2>1
  <2>5. /\ other["item"] # Absent /\ other["item"].env = item.env
        /\ other["item"] # item
    BY <1>1, <1>7, <1>13, <2>2, StatusReallyChanges, AbsentAssumption
  <2>6. Whole(other)
    BY <1>2, <2>3, <2>4, <2>5, Names DEF Whole, OwnDocuments
  <2> QED BY <2>5, <2>6 DEF item
<1>14. CASE op = "deletePassport"
  <2>1. \A d \in Documents : other[d] = Absent
    BY <1>4, <1>14 DEF Touches, After
  <2>2. Whole(other)
    BY <2>1, Names DEF Whole, OwnDocuments
  <2> QED BY <1>1, <2>1, <2>2, Names DEF OwnDocuments, item
<1> QED
  BY <1>3, <1>8, <1>9, <1>10, <1>11, <1>12, <1>13, <1>14
  DEF CallbackOperations, AllOperations, EditOperations, op

-----------------------------------------------------------------------------
(* The transactions' views of the store                                    *)

\* A transaction's record after a write of its own, and after others' changes.
LEMMA WriteIs ==
    ASSUME Inv, NEW r \in Requests, NEW update, WriteInTransaction(r, update)
    PROVE  /\ db' = db /\ \A q \in Requests \ {r} : txn'[q] = txn[q]
           /\ txn[r].open /\ txn'[r].open
           /\ txn'[r].view = Overwrite(txn[r].view, update)
           /\ txn'[r].written = txn[r].written \cup Differing(txn[r].view, update)
           /\ txn'[r].missed = txn[r].missed
BY DEF WriteInTransaction, Inv, TypeOK, TransactionsOK

LEMMA NotifyIs ==
    ASSUME Inv, NEW r \in Requests, NEW changed, NEW own, txn' = Notify(r, changed, own)
    PROVE  /\ txn'[r] = own
           /\ \A q \in Requests \ {r} :
                /\ txn'[q].open = txn[q].open /\ txn'[q].view = txn[q].view
                /\ txn'[q].written = txn[q].written
                /\ txn'[q].open => txn'[q].missed = txn[q].missed \cup changed
<1>1. \A q \in Requests :
        txn[q] = [open |-> txn[q].open, view |-> txn[q].view,
                  written |-> txn[q].written, missed |-> txn[q].missed]
  BY DEF Inv, TypeOK, TransactionsOK, TransactionOK
<1> QED BY <1>1 DEF Notify

LEMMA NoTransactionIs ==
    NoTransaction.open = FALSE /\ NoTransaction.written = {}
BY DEF NoTransaction

LEMMA StartKeepsViews ==
    ASSUME Inv, ViewsOK, NEW r \in Requests, StartTransaction(r)
    PROVE  ViewsOK'
<1>1. /\ db' = db /\ \A q \in Requests \ {r} : txn'[q] = txn[q]
      /\ txn'[r] = [open |-> TRUE, view |-> db, written |-> {}, missed |-> {}]
  BY DEF StartTransaction, Inv, TypeOK, TransactionsOK
<1> QED BY <1>1 DEF ViewsOK

LEMMA WriteKeepsViews ==
    ASSUME Inv, ViewsOK, NEW r \in Requests, NEW update, WriteInTransaction(r, update)
    PROVE  ViewsOK'
<1> DEFINE new == Differing(txn[r].view, update)
<1>1. \A d \in new : d \notin txn[r].missed /\ \A q \in Requests \ {r} : d \notin txn[q].written
  BY DEF WriteInTransaction, WriteConflict
<1>2. \A d \in Documents \ new : Overwrite(txn[r].view, update)[d] = txn[r].view[d]
  BY DEF Overwrite, Differing
<1> HIDE DEF new
<1> DEFINE view == Overwrite(txn[r].view, update)
<1>3. /\ db' = db /\ \A q \in Requests \ {r} : txn'[q] = txn[q]
      /\ txn[r].open /\ txn'[r].open /\ txn'[r].view = view
      /\ txn'[r].written = txn[r].written \cup new /\ txn'[r].missed = txn[r].missed
  BY WriteIs DEF new
<1>4. \A d \in Documents \ new : view[d] = txn[r].view[d]
  BY <1>2
<1> HIDE DEF view
<1>5. /\ txn'[r].written \cap txn'[r].missed = {}
      /\ \A d \in Documents :
           d \notin txn'[r].written \cup txn'[r].missed => txn'[r].view[d] = db'[d]
  BY <1>1, <1>3, <1>4 DEF ViewsOK
<1>6. \A p, q \in Requests : p # q => txn'[p].written \cap txn'[q].written = {}
  BY <1>1, <1>3 DEF ViewsOK
<1> QED BY <1>3, <1>5, <1>6 DEF ViewsOK

LEMMA AbortKeepsViews ==
    ASSUME Inv, ViewsOK, NEW r \in Requests, AbortTransaction(r)
    PROVE  ViewsOK'
<1>1. /\ db' = db /\ \A q \in Requests \ {r} : txn'[q] = txn[q]
      /\ txn'[r] = NoTransaction
  BY DEF AbortTransaction, Inv, TypeOK, TransactionsOK
<1> QED BY <1>1, NoTransactionIs DEF ViewsOK

\* Others' changes are missed by the transactions that are open.
LEMMA NotifyKeepsViews ==
    ASSUME Inv, ViewsOK, NEW r \in Requests, NEW changed, NEW own,
           txn' = Notify(r, changed, own), own.open = FALSE, own.written = {},
           \A d \in Documents \ changed : db'[d] = db[d],
           \A q \in Requests \ {r} : txn[q].written \cap changed = {}
    PROVE  ViewsOK'
<1>1. /\ txn'[r].open = FALSE /\ txn'[r].written = {}
      /\ \A q \in Requests \ {r} :
           /\ txn'[q].open = txn[q].open /\ txn'[q].view = txn[q].view
           /\ txn'[q].written = txn[q].written
           /\ txn'[q].open => txn'[q].missed = txn[q].missed \cup changed
  BY NotifyIs
<1>2. ASSUME NEW q \in Requests \ {r}, txn'[q].open
      PROVE  /\ txn'[q].written \cap txn'[q].missed = {}
             /\ \A d \in Documents :
                  d \notin txn'[q].written \cup txn'[q].missed => txn'[q].view[d] = db'[d]
  BY <1>1, <1>2 DEF ViewsOK
<1>3. \A p, q \in Requests : p # q => txn'[p].written \cap txn'[q].written = {}
  BY <1>1 DEF ViewsOK
<1>4. \A q \in Requests : ~txn'[q].open => txn'[q].written = {}
  BY <1>1 DEF ViewsOK
<1> QED BY <1>1, <1>2, <1>3, <1>4 DEF ViewsOK

LEMMA CommitKeepsViews ==
    ASSUME Inv, ViewsOK, NEW r \in Requests, CommitTransaction(r)
    PROVE  ViewsOK'
<1>1. /\ txn' = Notify(r, txn[r].written, NoTransaction)
      /\ \A d \in Documents \ txn[r].written : db'[d] = db[d]
  BY DEF CommitTransaction
<1>2. \A q \in Requests \ {r} : txn[q].written \cap txn[r].written = {}
  BY DEF ViewsOK
<1> QED BY <1>1, <1>2, NoTransactionIs, NotifyKeepsViews

LEMMA WriteDirectlyKeepsViews ==
    ASSUME Inv, ViewsOK, NEW r \in Requests, NEW update, WriteDirectly(r, update)
    PROVE  ViewsOK'
<1> DEFINE changed == Differing(db, update)
<1>1. /\ txn' = Notify(r, changed, txn[r]) /\ txn[r].open = FALSE
      /\ \A q \in Requests \ {r} : txn[q].written \cap changed = {}
  BY DEF WriteDirectly, Inv, TypeOK, TransactionsOK, TransactionOK
<1>2. \A d \in Documents \ changed : db'[d] = db[d]
  BY DEF WriteDirectly, Overwrite, Differing
<1>3. txn[r].written = {}
  BY <1>1 DEF ViewsOK
<1> HIDE DEF changed
<1> QED BY <1>1, <1>2, <1>3, NotifyKeepsViews

LEMMA SaveKeepsViews ==
    ASSUME Inv, ViewsOK, NEW r \in Requests, NEW request, NEW update,
           Save(r, request, update)
    PROVE  ViewsOK'
BY AbortKeepsViews, WriteKeepsViews DEF Save, Retry

LEMMA StepKeepsViews ==
    ASSUME Inv, ViewsOK, [Next]_vars
    PROVE  ViewsOK'
<1>1. CASE UNCHANGED <<db, txn>>
  BY <1>1 DEF ViewsOK
<1>2. CASE Crash
  <2>1. db' = db /\ \A r \in Requests : txn'[r] = NoTransaction
    BY <1>2 DEF Crash, AbortAllTransactions
  <2> QED BY <2>1, NoTransactionIs DEF ViewsOK
<1>3. ASSUME NEW r \in Requests, Handle(r) \/ Failover(r)
      PROVE  ViewsOK'
  <2>1. CASE ReadShell(r) \/ ReadSubmodel(r) \/ ReadConfig(r)
    BY <1>1, <2>1 DEF ReadShell, ReadSubmodel, ReadConfig, Refuse, Keep
  <2>2. CASE \/ PrepareAddSubmodel(r) \/ PrepareDeleteSubmodel(r)
             \/ PrepareAddElement(r) \/ PrepareDeleteElement(r)
             \/ PrepareModifyShell(r) \/ PrepareDeletePolicy(r) \/ PreparePatchConfig(r)
    BY <1>1, <2>2
    DEF PrepareAddSubmodel, PrepareDeleteSubmodel, PrepareAddElement, PrepareDeleteElement,
        PrepareModifyShell, PrepareDeletePolicy, PreparePatchConfig, Refuse, Ready
  <2>3. CASE Begin(r)
    BY <2>3, StartKeepsViews DEF Begin
  <2>4. CASE SaveItem(r)
    BY <2>4, SaveKeepsViews, AbortKeepsViews DEF SaveItem, Throw
  <2>5. CASE \/ SaveShell(r) \/ SaveSubmodel(r) \/ DropSubmodel(r)
             \/ FreezePermalinks(r) \/ DropAll(r)
    BY <2>5, SaveKeepsViews
    DEF SaveShell, SaveSubmodel, DropSubmodel, FreezePermalinks, DropAll
  <2>6. CASE CleanDesign(r)
    BY <2>6, AbortKeepsViews, WriteKeepsViews DEF CleanDesign, Retry
  <2>7. CASE InsertActivity(r)
    BY <1>1, <2>7, AbortKeepsViews DEF InsertActivity, Throw
  <2>8. CASE Commit(r) \/ PatchConfig(r)
    BY <2>8, CommitKeepsViews, WriteDirectlyKeepsViews DEF Commit, PatchConfig
  <2>9. CASE Failover(r)
    BY <2>9, AbortKeepsViews DEF Failover, Retry
  <2> QED
    BY <1>3, <2>1, <2>2, <2>3, <2>4, <2>5, <2>6, <2>7, <2>8, <2>9 DEF Handle
<1>4. CASE \E r \in Requests, op \in Operations : \E arg \in Arguments(op) : Load(r, op, arg)
  BY <1>1, <1>4 DEF Load
<1> QED BY <1>1, <1>2, <1>3, <1>4 DEF Next, Quiescent, vars

LEMMA InitialViews ==
    ASSUME Init
    PROVE  ViewsOK
<1>1. \A r \in Requests : txn[r] = NoTransaction
  BY DEF Init, InitTransactions
<1> QED BY <1>1, NoTransactionIs DEF ViewsOK

-----------------------------------------------------------------------------
(* Steps of one handler that leave the store as it is                      *)

LEMMA AbortIs ==
    ASSUME Inv, NEW r \in Requests, AbortTransaction(r)
    PROVE  db' = db /\ \A q \in Requests \ {r} : txn'[q] = txn[q]
BY DEF AbortTransaction, Inv, TypeOK, TransactionsOK

\* The other requests stay fresh while the store stays as it is.
LEMMA OthersStayFresh ==
    ASSUME Inv, FreshInv, NEW r \in Requests, NEW request, Update(r, request),
           db' = db, tainted' = tainted, stale \ {r} \subseteq stale',
           \A q \in Requests \ {r} : txn'[q] = txn[q] /\ copies'[q] = copies[q],
           ~tainted /\ r \notin stale' => Fresh(request, txn'[r], copies'[r], db)
    PROVE  FreshInv'
<1>1. requests' = [requests EXCEPT ![r] = request] /\ requests \in [Requests -> RequestTypes]
  BY DEF Update, Inv, TypeOK
<1> SUFFICES ASSUME ~tainted
             PROVE  Whole(db) /\ \A q \in Requests \ stale' :
                                   Fresh(requests'[q], txn'[q], copies'[q], db)
  BY DEF FreshInv
<1>2. ASSUME NEW q \in Requests \ stale', q # r
      PROVE  Fresh(requests'[q], txn'[q], copies'[q], db)
  <2>1. requests'[q] = requests[q] /\ txn'[q] = txn[q] /\ copies'[q] = copies[q]
    BY <1>1, <1>2
  <2>2. q \in Requests \ stale
    BY <1>2
  <2> QED BY <2>1, <2>2 DEF FreshInv
<1>3. requests'[r] = request
  BY <1>1
<1> QED BY <1>2, <1>3 DEF FreshInv

LEMMA FinishKeepsFresh ==
    ASSUME Inv, FreshInv, NEW r \in Requests, NEW outcome \in AnsweredPhases,
           Finish(r, outcome), db' = db, tainted' = tainted,
           \A q \in Requests \ {r} : txn'[q] = txn[q]
    PROVE  FreshInv'
<1> DEFINE done == Finished(r, outcome)
<1>1. Update(r, done) /\ done.phase = outcome /\ stale' = stale \ {r}
  BY FinishedOK DEF Finish
<1>2. \A q \in Requests \ {r} : copies'[q] = copies[q]
  BY DEF Finish, Inv, TypeOK, BookkeepingOK
<1> HIDE DEF done
<1>3. Fresh(done, txn'[r], copies'[r], db)
  BY <1>1 DEF Fresh, InFlightPhases, AnsweredPhases
<1> QED BY <1>1, <1>2, <1>3, OthersStayFresh

LEMMA RefuseKeepsFresh ==
    ASSUME Inv, FreshInv, NEW r \in Requests, Refuse(r)
    PROVE  FreshInv'
BY FinishKeepsFresh DEF Refuse, AnsweredPhases

LEMMA ThrowKeepsFresh ==
    ASSUME Inv, FreshInv, NEW r \in Requests, Throw(r), tainted' = tainted
    PROVE  FreshInv'
BY FinishKeepsFresh, AbortIs DEF Throw, AnsweredPhases

\* The copies that a handler is ready with, or takes into its callback.
SameCopies(request, next) ==
    /\ next.op = request.op /\ next.arg = request.arg
    /\ next.item = request.item /\ next.aas = request.aas
    /\ next.submodel = request.submodel /\ next.config = request.config
    /\ next.noop = request.noop

LEMMA IntendsCopies ==
    ASSUME NEW request, NEW next, SameCopies(request, next), NEW store,
           Intends(request, store),
           request.op = "deleteElement" /\ next.step > 1 => request.step > 1
    PROVE  Intends(next, store)
BY DEF Intends, SameCopies

LEMMA NeededCopies ==
    ASSUME NEW request, NEW next, SameCopies(request, next),
           request.phase # "reading", next.phase # "reading"
    PROVE  /\ \A name : Has(next, name) <=> Has(request, name)
           /\ next.phase # "open" => Needed(next) \subseteq Needed(request)
<1>1. \A name : Has(next, name) <=> Has(request, name)
  BY DEF Has, SameCopies
<1> QED BY <1>1 DEF Needed, SameCopies

LEMMA NothingSaved ==
    ASSUME NEW request, request.step = 1
    PROVE  Saved(request) = {}
BY DEF Saved

LEMMA RetryKeepsFresh ==
    ASSUME Inv, FreshInv, NEW r \in Requests, NEW request \in RequestTypes,
           CopiesOK(request), request.phase = "open", requests[r].phase = "open",
           request.op = requests[r].op, request.arg = requests[r].arg,
           ~tainted /\ r \notin stale => Intends(request, db),
           Retry(r, request), tainted' = tainted
    PROVE  FreshInv'
<1> DEFINE old == requests[r]
           again == [request EXCEPT !.phase = "ready", !.step = 1]
<1>1. db' = db /\ \A q \in Requests \ {r} : txn'[q] = txn[q]
  BY AbortIs DEF Retry
<1>2. CASE request.attempts < MaxAttempts
  <2>1. Update(r, again) /\ stale' = stale /\ copies' = copies
    BY <1>2 DEF Retry
  <2>2. again.phase = "ready" /\ again.step = 1 /\ SameCopies(request, again)
    BY DEF RequestTypes, SameCopies
  <2> HIDE DEF again
  <2>3. ASSUME ~tainted, r \notin stale
        PROVE  Fresh(again, txn'[r], copies[r], db)
    <3>1. Fresh(old, txn[r], copies[r], db)
      BY <2>3 DEF FreshInv
    <3>2. /\ old.op \in Operations /\ Admitted(old.op, db["item"])
          /\ Needed(old) \subseteq copies[r]
      BY <3>1 DEF Fresh, InFlightPhases
    <3>3. Intends(again, db)
      BY <2>2, <2>3, IntendsCopies
    <3>4. Needed(again) \subseteq copies[r]
      <4>1. \A name : Has(again, name) => Has(old, name)
        BY <2>2 DEF Has, SameCopies
      <4> QED BY <2>2, <3>2, <4>1 DEF Needed, SameCopies
    <3> QED BY <2>2, <3>2, <3>3, <3>4 DEF Fresh, SameCopies
  <2> QED BY <1>1, <2>1, <2>3, OthersStayFresh
<1>3. CASE ~(request.attempts < MaxAttempts)
  BY <1>1, <1>3, FinishKeepsFresh DEF Retry, AnsweredPhases
<1> QED BY <1>2, <1>3

LEMMA FailoverKeepsFresh ==
    ASSUME Inv, FreshInv, NEW r \in Requests, Failover(r)
    PROVE  FreshInv'
<1>1. requests[r].phase = "open" /\ Retry(r, requests[r]) /\ tainted' = tainted
  BY DEF Failover
<1>2. ~tainted /\ r \notin stale => Intends(requests[r], db)
  BY <1>1 DEF FreshInv, Fresh, InFlightPhases
<1> QED BY <1>1, <1>2, OpenOK, RetryKeepsFresh

LEMMA CrashKeepsFresh ==
    ASSUME Inv, FreshInv, Crash
    PROVE  FreshInv'
<1>1. db' = db /\ tainted' = tainted
  BY DEF Crash, AbortAllTransactions
<1>2. ASSUME NEW r \in Requests
      PROVE  Fresh(requests'[r], txn'[r], copies'[r], db')
  <2>1. requests'[r] = IF InFlight(r) THEN Finished(r, "crashed") ELSE requests[r]
    BY DEF Crash
  <2>2. Finished(r, "crashed").phase = "crashed"
    BY FinishedOK DEF AnsweredPhases
  <2>3. requests'[r].phase \notin InFlightPhases
    BY <2>1, <2>2 DEF InFlight, InFlightPhases
  <2> QED BY <2>3 DEF Fresh
<1> QED BY <1>1, <1>2 DEF FreshInv

-----------------------------------------------------------------------------
(* Loading and reading                                                     *)

LEMMA LoadKeepsFresh ==
    ASSUME Inv, FreshInv, NEW r \in Requests, NEW op \in Operations,
           NEW arg \in Arguments(op), Load(r, op, arg)
    PROVE  FreshInv'
<1> DEFINE phase == IF Reads(op) = <<>> THEN "ready" ELSE "reading"
           item == HandleStatusChange(op, db["item"])
           loaded == [NewRequest EXCEPT !.op = op, !.arg = arg, !.phase = phase,
                                        !.item = item]
           refused == [NewRequest EXCEPT !.op = op, !.phase = "refused"]
<1>1. /\ db' = db /\ tainted' = tainted /\ stale' = stale /\ txn' = txn
      /\ \A q \in Requests \ {r} : copies'[q] = copies[q]
  BY DEF Load, Inv, TypeOK, BookkeepingOK
<1>2. CASE Admitted(op, db["item"])
  <2>1. Update(r, loaded) /\ copies'[r] = {"item"}
    BY <1>2 DEF Load, Inv, TypeOK, BookkeepingOK
  <2>2. /\ loaded.phase = phase /\ loaded.op = op /\ loaded.item = item
        /\ loaded.step = 1 /\ loaded.arg = arg
    BY DEF NewRequest
  <2>3. /\ phase \in {"ready", "reading"}
        /\ phase = "ready" => Reads(op) = <<>>
    OBVIOUS
  <2> HIDE DEF phase, item, loaded
  <2>4. \A name : ~Has(loaded, name)
    <3>1. CASE phase = "reading"
      BY <2>2, <3>1 DEF Has
    <3>2. CASE Reads(op) = <<>>
      <4>1. Len(<<>>) = 0
        OBVIOUS
      <4> QED BY <2>2, <3>2, <4>1 DEF Has
    <3> QED BY <2>3, <3>1, <3>2
  <2>5. Needed(loaded) \subseteq {"item"}
    BY <2>2, <2>3, <2>4 DEF Needed
  <2>6. ReadsCurrent(loaded, db)
    BY <2>2, <2>4 DEF ReadsCurrent, item
  <2>7. ASSUME Reads(op) = <<>>
        PROVE  Intends(loaded, db)
    <3>1. op \in StatusOperations \cup {"deletePassport"}
      <4>1. op \in AllOperations
        BY DocumentsAssumption
      <4>2. op \notin Reading
        <5>1. ~Includes(<<>>, "aas")
          BY DEF Includes
        <5> QED BY <2>7, <4>1, <5>1, ReadsNames
      <4> QED BY <4>1, <4>2 DEF AllOperations, EditOperations, Reading
    <3>2. loaded.item = ItemAfter(op, arg, db["item"])
      BY <2>2, <3>1 DEF ItemAfter, item, StatusOperations
    <3> QED BY <2>2, <3>1, <3>2 DEF Intends, StatusOperations
  <2>8. Fresh(loaded, txn'[r], copies'[r], db)
    BY <1>2, <2>1, <2>2, <2>3, <2>5, <2>6, <2>7 DEF Fresh
  <2> QED BY <1>1, <2>1, <2>8, OthersStayFresh
<1>3. CASE ~Admitted(op, db["item"])
  <2>1. Update(r, refused) /\ refused.phase = "refused"
    BY <1>3 DEF Load, NewRequest
  <2> HIDE DEF refused
  <2>2. Fresh(refused, txn'[r], copies'[r], db)
    BY <2>1 DEF Fresh, InFlightPhases
  <2> QED BY <1>1, <2>1, <2>2, OthersStayFresh
<1> QED BY <1>2, <1>3

\* Reading one more document.
LEMMA HasNext ==
    ASSUME NEW request, NEW next, request.step \in Nat, request.phase = "reading",
           next.op = request.op, next.phase = "reading", next.step = request.step + 1,
           NEW name, request.step <= Len(Reads(request.op)),
           Reads(request.op)[request.step] = name
    PROVE  \A other : Has(next, other) => Has(request, other) \/ other = name
<1>1. \A k \in 1..Len(Reads(request.op)) : k < request.step + 1 => k < request.step \/ k = request.step
  <2>1. Len(Reads(request.op)) \in Nat
    BY DEF Reads
  <2> QED BY <2>1
<1> QED BY <1>1 DEF Has

LEMMA KeepKeepsFresh ==
    ASSUME Inv, FreshInv, NEW r \in Requests, NEW name, AtRead(r, name),
           NEW document, NEW request, Keep(r, document, request),
           name = "submodel" => document = requests[r].arg[1],
           name # "submodel" => document = name,
           LET next == Advanced(request)
               old == requests[r]
           IN /\ next.phase = "reading" /\ next.step = old.step + 1
              /\ next.op = old.op /\ next.arg = old.arg /\ next.item = old.item
              /\ next.aas = IF name = "aas" THEN db["aas"] ELSE old.aas
              /\ name # "submodel" => next.submodel = old.submodel
              /\ ~tainted /\ r \notin stale /\ name = "submodel" =>
                   next.submodel = Found(db["item"], db, old.arg)
              /\ next.config = IF name = "config" THEN db["config"] ELSE old.config
    PROVE  FreshInv'
<1> DEFINE next == Advanced(request)
           old == requests[r]
<1>1. /\ old.phase = "reading" /\ old.step \in Nat /\ old.step <= Len(Reads(old.op))
      /\ Reads(old.op)[old.step] = name
  BY DEF AtRead, Inv, TypeOK, RequestTypes
<1>2. /\ Update(r, next) /\ db' = db /\ txn' = txn /\ stale' = stale /\ tainted' = tainted
      /\ copies'[r] = copies[r] \cup {document}
      /\ \A q \in Requests \ {r} : copies'[q] = copies[q]
  BY DEF Keep, Inv, TypeOK, BookkeepingOK
<1>3. /\ next.phase = "reading" /\ next.step = old.step + 1
      /\ next.op = old.op /\ next.arg = old.arg /\ next.item = old.item
      /\ next.aas = IF name = "aas" THEN db["aas"] ELSE old.aas
      /\ name # "submodel" => next.submodel = old.submodel
      /\ ~tainted /\ r \notin stale /\ name = "submodel" =>
           next.submodel = Found(db["item"], db, old.arg)
      /\ next.config = IF name = "config" THEN db["config"] ELSE old.config
  OBVIOUS
<1> HIDE DEF next
<1>4. \A other : Has(next, other) => Has(old, other) \/ other = name
  BY <1>1, <1>3, HasNext
<1>5. ASSUME ~tainted, r \notin stale
      PROVE  Fresh(next, txn'[r], copies'[r], db)
  <2>1. Fresh(old, txn[r], copies[r], db)
    BY <1>5 DEF FreshInv
  <2>2. /\ old.op \in Operations /\ Admitted(old.op, db["item"])
        /\ Needed(old) \subseteq copies[r] /\ ReadsCurrent(old, db)
    BY <1>1, <2>1 DEF Fresh, InFlightPhases
  <2>3. ReadsCurrent(next, db)
    BY <1>3, <1>4, <1>5, <2>2 DEF ReadsCurrent
  <2>4. Needed(next) \subseteq copies'[r]
    BY <1>2, <1>3, <1>4, <2>2 DEF Needed
  <2> QED BY <1>3, <2>2, <2>3, <2>4 DEF Fresh
<1> QED BY <1>2, <1>5, OthersStayFresh

LEMMA ReadingKeepsFresh ==
    ASSUME Inv, FreshInv, NEW r \in Requests,
           \/ ReadShell(r) \/ ReadSubmodel(r) \/ ReadConfig(r)
    PROVE  FreshInv'
<1> DEFINE old == requests[r]
<1>1. old \in RequestTypes /\ old.phase = "reading"
  BY DEF ReadShell, ReadSubmodel, ReadConfig, AtRead, Inv, TypeOK
<1>2. CASE ReadShell(r) /\ db["aas"] # Absent
  <2> DEFINE read == [old EXCEPT !.aas = db["aas"]]
             next == Advanced(read)
  <2>1. AtRead(r, "aas") /\ Keep(r, "aas", read)
    BY <1>2 DEF ReadShell
  <2>2. /\ next.phase = "reading" /\ next.step = old.step + 1
        /\ next.op = old.op /\ next.arg = old.arg /\ next.item = old.item
        /\ next.aas = db["aas"] /\ next.submodel = old.submodel
        /\ next.config = old.config
    BY <1>1 DEF Advanced, RequestTypes
  <2> HIDE DEF read
  <2> QED BY <2>1, <2>2, KeepKeepsFresh
<1>3. CASE ReadConfig(r) /\ db["config"] # Absent
  <2> DEFINE read == [old EXCEPT !.config = db["config"]]
             next == Advanced(read)
  <2>1. AtRead(r, "config") /\ Keep(r, "config", read)
    BY <1>3 DEF ReadConfig
  <2>2. /\ next.phase = "reading" /\ next.step = old.step + 1
        /\ next.op = old.op /\ next.arg = old.arg /\ next.item = old.item
        /\ next.aas = old.aas /\ next.submodel = old.submodel
        /\ next.config = db["config"]
    BY <1>1 DEF Advanced, RequestTypes
  <2> HIDE DEF read
  <2> QED BY <2>1, <2>2, KeepKeepsFresh
<1>4. CASE ReadSubmodel(r)
  <2> DEFINE found == IF Root(r) \in old.item.env THEN db[Root(r)] ELSE Absent
             read == [old EXCEPT !.submodel = found]
             next == Advanced(read)
  <2>1. AtRead(r, "submodel") /\ (Refuse(r) \/ Keep(r, Root(r), read))
    BY <1>4 DEF ReadSubmodel
  <2>2. ~tainted /\ r \notin stale => found = Found(db["item"], db, old.arg)
    <3> SUFFICES ASSUME ~tainted, r \notin stale
                 PROVE  old.item.env = db["item"].env
      BY DEF Found, Root
    <3>1. /\ old.op \in Operations /\ Admitted(old.op, db["item"])
          /\ old.item = HandleStatusChange(old.op, db["item"])
      BY <1>1 DEF FreshInv, Fresh, ReadsCurrent, InFlightPhases
    <3>2. db["item"] \in Items
      BY <3>1 DEF Admitted, Inv, TypeOK, StoreOK
    <3>3. CASE old.op \in StatusOperations
      BY <3>1, <3>2, <3>3, StatusReallyChanges
    <3>4. CASE old.op \notin StatusOperations
      BY <3>1, <3>4 DEF HandleStatusChange, StatusOperations
    <3> QED BY <3>3, <3>4
  <2> HIDE DEF found
  <2>3. /\ next.phase = "reading" /\ next.step = old.step + 1
        /\ next.op = old.op /\ next.arg = old.arg /\ next.item = old.item
        /\ next.aas = old.aas /\ next.submodel = found
        /\ next.config = old.config
    BY <1>1 DEF Advanced, RequestTypes
  <2> HIDE DEF read
  <2>4. CASE Keep(r, Root(r), read)
    BY <2>1, <2>2, <2>3, <2>4, KeepKeepsFresh DEF Root
  <2> QED BY <2>1, <2>4, RefuseKeepsFresh
<1> QED
  BY <1>2, <1>3, <1>4, RefuseKeepsFresh DEF ReadShell, ReadConfig

-----------------------------------------------------------------------------
(* Preparing the copies                                                    *)

\* What a fresh handler holds when its reads are done.
LEMMA PreparedCurrent ==
    ASSUME Inv, FreshInv, NEW r \in Requests, ~tainted, r \notin stale,
           NEW op \in EditOperations \cup {"patchConfig"}, Prepared(r, op)
    PROVE  LET old == requests[r] IN
           /\ op \in Operations /\ Admitted(op, db["item"])
           /\ old.item = db["item"] /\ old.aas = db["aas"] /\ old.aas \in Shells
           /\ op \in ReadingSubmodel => old.submodel = Found(db["item"], db, old.arg)
           /\ op \in ReadingSubmodel \ {"modifyShell"} =>
                old.submodel = db[old.arg[1]] /\ old.arg[1] \in db["item"].env
           /\ op = "patchConfig" => old.config = db["config"]
           /\ Needed(old) \subseteq copies[r]
           /\ \A name : Has(old, name) <=> Includes(Reads(op), name)
<1> DEFINE old == requests[r]
<1>1. /\ old \in RequestTypes /\ CopiesOK(old) /\ old.phase = "reading" /\ old.op = op
      /\ old.step = Len(Reads(op)) + 1 /\ op \in AllOperations
      /\ Fresh(old, txn[r], copies[r], db)
  BY DEF Prepared, Inv, TypeOK, FreshInv, AllOperations
<1> HIDE DEF old
<1>2. /\ op \in Operations /\ Admitted(op, db["item"]) /\ ReadsCurrent(old, db)
      /\ Needed(old) \subseteq copies[r]
  BY <1>1 DEF Fresh, InFlightPhases
<1>3. /\ Has(old, "aas") <=> op \in Reading
      /\ Has(old, "submodel") <=> op \in ReadingSubmodel
      /\ Has(old, "config") <=> op = "patchConfig"
  BY <1>1, HasIs
<1>4. HandleStatusChange(op, db["item"]) = db["item"] /\ op \in Reading
  BY DEF HandleStatusChange, EditOperations, Reading
<1>5. \A name : Has(old, name) <=> Includes(Reads(op), name)
  <2>1. Len(Reads(op)) \in Nat
    BY DEF Reads
  <2> QED BY <1>1, <2>1 DEF Has, Includes
<1>6. /\ old.item = db["item"] /\ old.aas = db["aas"]
      /\ op \in ReadingSubmodel => old.submodel = Found(db["item"], db, old.arg)
      /\ op = "patchConfig" => old.config = db["config"]
  BY <1>1, <1>2, <1>3, <1>4 DEF ReadsCurrent
<1>7. old.aas \in Shells
  BY PreparedOK DEF old, AllOperations
<1>8. op \in ReadingSubmodel \ {"modifyShell"} => old.submodel # Absent
  <2>1. \A k \in 1..Len(Reads(op)) :
          Reads(op)[k] = "submodel" /\ op # "modifyShell" => old.submodel \in SubmodelDocuments
    BY <1>1 DEF CopiesOK, InFlightPhases
  <2>2. op \in ReadingSubmodel => \E k \in 1..Len(Reads(op)) : Reads(op)[k] = "submodel"
    BY <1>1, ReadsNames DEF Includes
  <2> QED BY <2>1, <2>2, AbsentAssumption
<1>9. op \in ReadingSubmodel \ {"modifyShell"} =>
        old.submodel = db[old.arg[1]] /\ old.arg[1] \in db["item"].env
  BY <1>6, <1>8 DEF Found
<1> QED BY <1>2, <1>5, <1>6, <1>7, <1>9 DEF old

\* A prepared request has in its copies what the operation makes of the store.
LEMMA ReadyKeepsFresh ==
    ASSUME Inv, FreshInv, NEW r \in Requests,
           NEW op \in EditOperations \cup {"patchConfig"}, Prepared(r, op),
           NEW request, DOMAIN request = DOMAIN requests[r], Ready(r, request),
           request.op = op, request.arg = requests[r].arg,
           \A next : SameCopies(request, next) /\ next.step = 1 /\ ~tainted /\ r \notin stale
                       => Intends(next, db)
    PROVE  FreshInv'
<1> DEFINE next == [request EXCEPT !.phase = "ready", !.step = 1]
<1>1. /\ Update(r, next) /\ db' = db /\ txn' = txn /\ copies' = copies
      /\ stale' = stale /\ tainted' = tainted
  BY DEF Ready
<1>2. next.phase = "ready" /\ next.step = 1 /\ SameCopies(request, next)
  BY DEF SameCopies, Inv, TypeOK, RequestTypes
<1> HIDE DEF next
<1>3. ASSUME ~tainted, r \notin stale
      PROVE  Fresh(next, txn[r], copies[r], db)
  <2>1. /\ op \in Operations /\ Admitted(op, db["item"])
        /\ Needed(requests[r]) \subseteq copies[r]
        /\ \A name : Has(requests[r], name) <=> Includes(Reads(op), name)
    BY <1>3, PreparedCurrent
  <2>2. Intends(next, db)
    BY <1>2, <1>3
  <2>3. \A name : Has(next, name) => Has(requests[r], name)
    <3>1. next.op = op
      BY <1>2 DEF SameCopies
    <3>2. \A name : Has(next, name) => Includes(Reads(op), name)
      BY <3>1 DEF Has, Includes
    <3> QED BY <2>1, <3>2
  <2>4. Needed(next) \subseteq copies[r]
    BY <1>2, <2>1, <2>3 DEF Needed, SameCopies
  <2> QED BY <1>2, <2>1, <2>2, <2>4 DEF Fresh, SameCopies
<1> QED BY <1>1, <1>3, OthersStayFresh

\* Removing policies and increasing the version do not interfere.
LEMMA PoliciesAndVersion ==
    ASSUME NEW aas \in Shells, NEW path
    PROVE  /\ WithoutPolicies(IncreaseVersion(aas), path)
                = IncreaseVersion(WithoutPolicies(aas, path))
           /\ WithoutPolicies(IncreaseVersion(WithoutPolicies(aas, path)), path)
                = IncreaseVersion(WithoutPolicies(aas, path))
<1> DEFINE kept == {p \in aas.policies : ~IsUnder(p, path)}
           next == [refs |-> aas.refs, policies |-> kept, version |-> aas.version + 1]
<1>1. aas = [refs |-> aas.refs, policies |-> aas.policies, version |-> aas.version]
  BY DEF Shells
<1>2. IncreaseVersion(aas) =
        [refs |-> aas.refs, policies |-> aas.policies, version |-> aas.version + 1]
  BY <1>1 DEF IncreaseVersion
<1>3. WithoutPolicies(aas, path) =
        [refs |-> aas.refs, policies |-> kept, version |-> aas.version]
  BY <1>1 DEF WithoutPolicies
<1>4. WithoutPolicies(IncreaseVersion(aas), path) = next
  BY <1>2 DEF WithoutPolicies
<1>5. IncreaseVersion(WithoutPolicies(aas, path)) = next
  BY <1>3 DEF IncreaseVersion
<1>6. WithoutPolicies(next, path) = next
  <2>1. {p \in kept : ~IsUnder(p, path)} = kept
    OBVIOUS
  <2> QED BY <2>1 DEF WithoutPolicies
<1> QED BY <1>4, <1>5, <1>6

LEMMA PreparingKeepsFresh ==
    ASSUME Inv, FreshInv, NEW r \in Requests,
           \/ PrepareAddSubmodel(r) \/ PrepareDeleteSubmodel(r)
           \/ PrepareAddElement(r) \/ PrepareDeleteElement(r)
           \/ PrepareModifyShell(r) \/ PrepareDeletePolicy(r) \/ PreparePatchConfig(r)
    PROVE  FreshInv'
<1> DEFINE old == requests[r]
           arg == old.arg
           s == arg[1]
<1>1. old \in RequestTypes
  BY DEF Inv, TypeOK
<1>2. CASE PrepareAddSubmodel(r) /\ s \notin old.item.env
  <2> DEFINE item == [old.item EXCEPT !.env = @ \cup {s}]
             aas == IncreaseVersion(WithSubmodel(old.aas, s))
             request == [old EXCEPT !.item = item, !.aas = aas, !.submodel = NewSubmodel]
  <2>1. Prepared(r, "addSubmodel") /\ old.op = "addSubmodel" /\ Ready(r, request)
    BY <1>2 DEF PrepareAddSubmodel, Prepared, Root
  <2> HIDE DEF item, aas
  <2>2. /\ DOMAIN request = DOMAIN old /\ request.op = old.op /\ request.arg = arg
        /\ request.item = item /\ request.aas = aas /\ request.submodel = NewSubmodel
    BY <1>1 DEF RequestTypes
  <2> HIDE DEF request
  <2>3. ASSUME NEW next, SameCopies(request, next), ~tainted, r \notin stale
        PROVE  Intends(next, db)
    <3>1. old.item = db["item"] /\ old.aas = db["aas"]
      BY <2>1, <2>3, PreparedCurrent DEF EditOperations
    <3>2. /\ item = ItemAfter("addSubmodel", arg, db["item"])
          /\ aas = ShellAfter("addSubmodel", arg, db) /\ s \notin db["item"].env
      BY <1>2, <3>1 DEF item, aas, ItemAfter, ShellAfter
    <3> QED BY <2>1, <2>2, <2>3, <3>2 DEF Intends, SameCopies
  <2> QED BY <2>1, <2>2, <2>3, ReadyKeepsFresh DEF EditOperations
<1>3. CASE PrepareDeleteSubmodel(r) /\ Can(old.aas.policies, arg)
  <2>1. Prepared(r, "deleteSubmodel") /\ old.op = "deleteSubmodel" /\ Ready(r, old)
    BY <1>3 DEF PrepareDeleteSubmodel, Prepared, Argument
  <2>2. ASSUME NEW next, SameCopies(old, next), ~tainted, r \notin stale
        PROVE  Intends(next, db)
    <3>1. old.item = db["item"] /\ old.aas = db["aas"] /\ s \in db["item"].env
      BY <2>1, <2>2, PreparedCurrent DEF EditOperations, ReadingSubmodel
    <3>2. WithoutSubmodel(old.aas, s) = ShellAfter("deleteSubmodel", arg, db)
      BY <3>1 DEF ShellAfter
    <3> QED BY <1>3, <2>1, <2>2, <3>1, <3>2 DEF Intends, SameCopies
  <2> QED BY <2>1, <2>2, ReadyKeepsFresh DEF EditOperations
<1>4. CASE PrepareAddElement(r) /\ ~Refuse(r)
  <2> DEFINE submodel == WithElement(old.submodel, arg[2])
             request == [old EXCEPT !.submodel = submodel]
  <2>1. /\ Prepared(r, "addElement") /\ old.op = "addElement" /\ Ready(r, request)
        /\ Can(old.aas.policies, <<s>>) /\ arg[2] \notin old.submodel.elements
    BY <1>4 DEF PrepareAddElement, Prepared, Root, Argument
  <2> HIDE DEF submodel
  <2>2. /\ DOMAIN request = DOMAIN old /\ request.op = old.op /\ request.arg = arg
        /\ request.submodel = submodel
    BY <1>1 DEF RequestTypes
  <2> HIDE DEF request
  <2>3. ASSUME NEW next, SameCopies(request, next), ~tainted, r \notin stale
        PROVE  Intends(next, db)
    <3>1. old.aas = db["aas"] /\ s \in db["item"].env /\ old.submodel = db[s]
      BY <2>1, <2>3, PreparedCurrent DEF EditOperations, ReadingSubmodel
    <3>2. submodel = SubmodelAfter("addElement", arg, db[s])
      BY <3>1 DEF SubmodelAfter, submodel
    <3> QED BY <2>1, <2>2, <2>3, <3>1, <3>2 DEF Intends, SameCopies
  <2> QED BY <2>1, <2>2, <2>3, ReadyKeepsFresh DEF EditOperations
<1>5. CASE PrepareDeleteElement(r) /\ ~Refuse(r)
  <2> DEFINE submodel == WithoutElement(old.submodel, arg[2])
             aas == IncreaseVersion(old.aas)
             request == [old EXCEPT !.submodel = submodel, !.aas = aas]
  <2>1. /\ Prepared(r, "deleteElement") /\ old.op = "deleteElement" /\ Ready(r, request)
        /\ Can(old.aas.policies, arg) /\ arg[2] \in old.submodel.elements
    BY <1>5 DEF PrepareDeleteElement, Prepared, Argument
  <2> HIDE DEF submodel, aas
  <2>2. /\ DOMAIN request = DOMAIN old /\ request.op = old.op /\ request.arg = arg
        /\ request.submodel = submodel /\ request.aas = aas
    BY <1>1 DEF RequestTypes
  <2> HIDE DEF request
  <2>3. ASSUME NEW next, SameCopies(request, next), next.step = 1, ~tainted, r \notin stale
        PROVE  Intends(next, db)
    <3>1. /\ old.aas = db["aas"] /\ s \in db["item"].env /\ old.submodel = db[s]
          /\ old.aas \in Shells
      BY <2>1, <2>3, PreparedCurrent DEF EditOperations, ReadingSubmodel
    <3>2. submodel = SubmodelAfter("deleteElement", arg, db[s])
      BY <3>1 DEF SubmodelAfter, submodel
    <3>3. WithoutPolicies(aas, arg) = ShellAfter("deleteElement", arg, db)
      BY <3>1, PoliciesAndVersion DEF ShellAfter, aas
    <3> QED BY <2>1, <2>2, <2>3, <3>1, <3>2, <3>3 DEF Intends, SameCopies
  <2> QED BY <2>1, <2>2, <2>3, ReadyKeepsFresh DEF EditOperations
<1>6. CASE PrepareModifyShell(r)
  <2> DEFINE added == NewPolicies(old.submodel, arg)
             aas == WithPolicies(old.aas, added)
             noop == added \subseteq old.aas.policies
             request == [old EXCEPT !.noop = noop, !.aas = aas]
  <2>1. Prepared(r, "modifyShell") /\ old.op = "modifyShell" /\ Ready(r, request)
    BY <1>6 DEF PrepareModifyShell, Prepared
  <2> HIDE DEF noop, aas
  <2>2. /\ DOMAIN request = DOMAIN old /\ request.op = old.op /\ request.arg = arg
        /\ request.aas = aas
    BY <1>1 DEF RequestTypes
  <2> HIDE DEF request
  <2>3. ASSUME NEW next, SameCopies(request, next), ~tainted, r \notin stale
        PROVE  Intends(next, db)
    <3>1. old.aas = db["aas"] /\ old.submodel = Found(db["item"], db, arg)
      BY <2>1, <2>3, PreparedCurrent DEF EditOperations, ReadingSubmodel
    <3>2. aas = ShellAfter("modifyShell", arg, db)
      BY <3>1 DEF ShellAfter, aas
    <3> QED BY <2>1, <2>2, <2>3, <3>2 DEF Intends, SameCopies
  <2> QED BY <2>1, <2>2, <2>3, ReadyKeepsFresh DEF EditOperations
<1>7. CASE PrepareDeletePolicy(r)
  <2> DEFINE aas == WithoutPolicy(old.aas, arg)
             noop == arg \notin old.aas.policies
             request == [old EXCEPT !.noop = noop, !.aas = aas]
  <2>1. Prepared(r, "deletePolicy") /\ old.op = "deletePolicy" /\ Ready(r, request)
    BY <1>7 DEF PrepareDeletePolicy, Prepared
  <2> HIDE DEF noop, aas
  <2>2. /\ DOMAIN request = DOMAIN old /\ request.op = old.op /\ request.arg = arg
        /\ request.aas = aas
    BY <1>1 DEF RequestTypes
  <2> HIDE DEF request
  <2>3. ASSUME NEW next, SameCopies(request, next), ~tainted, r \notin stale
        PROVE  Intends(next, db)
    <3>1. old.aas = db["aas"]
      BY <2>1, <2>3, PreparedCurrent DEF EditOperations
    <3>2. aas = ShellAfter("deletePolicy", arg, db)
      BY <3>1 DEF ShellAfter, aas
    <3> QED BY <2>1, <2>2, <2>3, <3>2 DEF Intends, SameCopies
  <2> QED BY <2>1, <2>2, <2>3, ReadyKeepsFresh DEF EditOperations
<1>8. CASE PreparePatchConfig(r) /\ ~Refuse(r)
  <2>1. /\ Prepared(r, "patchConfig") /\ old.op = "patchConfig"
        /\ Can(old.aas.policies, arg)
    BY <1>8 DEF PreparePatchConfig, Prepared, Argument
  <2>2. PICK patched \in Patches(old.config, arg) :
          Ready(r, [old EXCEPT !.noop = (patched = old.config), !.config = patched])
    BY <1>8 DEF PreparePatchConfig, Argument
  <2> DEFINE noop == patched = old.config
             request == [old EXCEPT !.noop = noop, !.config = patched]
  <2>3. Ready(r, request)
    BY <2>2
  <2>4. noop \in BOOLEAN /\ (noop <=> patched = old.config)
    OBVIOUS
  <2> HIDE DEF noop
  <2>5. /\ DOMAIN request = DOMAIN old /\ request.op = old.op /\ request.arg = arg
        /\ request.config = patched /\ request.noop = noop
    BY <1>1 DEF RequestTypes
  <2> HIDE DEF request
  <2>6. ASSUME NEW next, SameCopies(request, next), ~tainted, r \notin stale
        PROVE  Intends(next, db)
    <3>1. old.aas = db["aas"] /\ old.config = db["config"]
      BY <2>1, <2>6, PreparedCurrent
    <3>2. /\ next.op = "patchConfig" /\ next.config = patched /\ next.arg = arg
          /\ next.noop => patched = old.config
      BY <2>1, <2>4, <2>5, <2>6 DEF SameCopies
    <3> QED BY <2>1, <2>2, <3>1, <3>2 DEF Intends
  <2> QED BY <2>1, <2>3, <2>5, <2>6, ReadyKeepsFresh
<1> QED
  BY <1>2, <1>3, <1>4, <1>5, <1>6, <1>7, <1>8, RefuseKeepsFresh
  DEF PrepareAddSubmodel, PrepareDeleteSubmodel, Root, Argument

LEMMA BeginKeepsFresh ==
    ASSUME Inv, FreshInv, NEW r \in Requests, Begin(r)
    PROVE  FreshInv'
<1> DEFINE old == requests[r]
           history == IF old.op = "deletePassport"
                      THEN {q \in Requests : activities[q] > 0} ELSE {}
           next == [old EXCEPT !.phase = "open", !.attempts = @ + 1, !.history = history]
           t == [open |-> TRUE, view |-> db, written |-> {}, missed |-> {}]
<1>1. /\ old \in RequestTypes /\ old.phase = "ready" /\ old.op # "patchConfig"
      /\ Update(r, next) /\ stale' = stale /\ tainted' = tainted /\ copies' = copies
  BY DEF Begin, Inv, TypeOK
<1>2. /\ db' = db /\ txn'[r] = t /\ \A q \in Requests \ {r} : txn'[q] = txn[q]
  BY DEF Begin, StartTransaction, Inv, TypeOK, TransactionsOK
<1>3. next.phase = "open" /\ next.step = old.step /\ SameCopies(old, next)
  BY <1>1 DEF RequestTypes, SameCopies
<1>4. t.written = {} /\ t.missed = {}
  OBVIOUS
<1> HIDE DEF next, t
<1>5. ASSUME ~tainted, r \notin stale
      PROVE  Fresh(next, t, copies[r], db)
  <2>1. Fresh(old, txn[r], copies[r], db)
    BY <1>5 DEF FreshInv
  <2>2. /\ old.op \in Operations /\ Admitted(old.op, db["item"])
        /\ Needed(old) \subseteq copies[r] /\ Intends(old, db) /\ old.step = 1
    BY <1>1, <2>1 DEF Fresh, InFlightPhases
  <2>3. Intends(next, db)
    BY <1>3, <2>2, IntendsCopies
  <2>4. Saved(next) = {}
    BY <1>3, <2>2, NothingSaved
  <2>5. Needed(next) \subseteq copies[r]
    <3>1. \A name : Has(next, name) <=> Has(old, name)
      BY <1>1, <1>3, NeededCopies
    <3> QED BY <1>3, <2>2, <2>4, <3>1 DEF Needed, SameCopies
  <2>6. Transacts(next, t, db)
    BY <1>1, <1>3, <1>4, <2>4 DEF Transacts, SameCopies
  <2> QED BY <1>3, <1>4, <2>2, <2>3, <2>5, <2>6 DEF Fresh, SameCopies
<1> QED BY <1>1, <1>2, <1>5, OthersStayFresh

-----------------------------------------------------------------------------
(* The transaction callback                                                *)

\* The operations that have a step, and where it is in the scripts.
StepOf(op, k, name) ==
    \/ name = "item" /\ op \in {"addSubmodel", "deleteSubmodel", "publish", "archive", "restore"}
    \/ /\ name = "aas"
       /\ \/ op \in {"addSubmodel", "deleteSubmodel", "modifyShell", "deletePolicy"}
          \/ op = "deleteElement" /\ k = 3
    \/ name = "submodel" /\ op \in {"addSubmodel", "addElement"}
    \/ name = "submodel" /\ op = "deleteElement" /\ k = 2
    \/ name = "dropSubmodel" /\ op = "deleteSubmodel"
    \/ name = "design" /\ op = "deleteSubmodel" /\ k = 5
    \/ name = "design" /\ op = "deleteElement" /\ k = 1
    \/ name = "permalink" /\ op = "publish" /\ k = 2
    \/ name = "activity" /\ op \in LoggedOperations /\ k > 1
    \/ name = "dropAll" /\ op = "deletePassport" /\ k = 1

LEMMA StepIs ==
    ASSUME NEW op \in CallbackOperations, NEW k \in 1..Len(Callback(op))
    PROVE  StepOf(op, k, Callback(op)[k])
<1>1. CASE op = "addSubmodel"
  <2> DEFINE script == <<"item", "submodel", "aas", "activity">>
  <2>1. /\ Len(script) = 4 /\ script[1] = "item" /\ script[2] = "submodel"
        /\ script[3] = "aas" /\ script[4] = "activity"
    OBVIOUS
  <2>2. Callback(op) = script
    BY <1>1, CallbackOf DEF script
  <2> HIDE DEF script
  <2>3. k \in 1..4
    BY <2>1, <2>2
  <2> QED BY <1>1, <2>1, <2>2, <2>3 DEF StepOf, LoggedOperations, AllOperations, EditOperations
<1>2. CASE op = "deleteSubmodel"
  <2> DEFINE script == <<"dropSubmodel", "aas", "item", "activity", "design">>
  <2>1. /\ Len(script) = 5 /\ script[1] = "dropSubmodel" /\ script[2] = "aas"
        /\ script[3] = "item" /\ script[4] = "activity" /\ script[5] = "design"
    OBVIOUS
  <2>2. Callback(op) = script
    BY <1>2, CallbackOf DEF script
  <2> HIDE DEF script
  <2>3. k \in 1..5
    BY <2>1, <2>2
  <2> QED BY <1>2, <2>1, <2>2, <2>3 DEF StepOf, LoggedOperations, AllOperations, EditOperations
<1>3. CASE op = "addElement"
  <2> DEFINE script == <<"submodel", "activity">>
  <2>1. Len(script) = 2 /\ script[1] = "submodel" /\ script[2] = "activity"
    OBVIOUS
  <2>2. Callback(op) = script
    BY <1>3, CallbackOf DEF script
  <2> HIDE DEF script
  <2>3. k \in 1..2
    BY <2>1, <2>2
  <2> QED BY <1>3, <2>1, <2>2, <2>3 DEF StepOf, LoggedOperations, AllOperations, EditOperations
<1>4. CASE op = "deleteElement"
  <2> DEFINE script == <<"design", "submodel", "aas", "activity">>
  <2>1. /\ Len(script) = 4 /\ script[1] = "design" /\ script[2] = "submodel"
        /\ script[3] = "aas" /\ script[4] = "activity"
    OBVIOUS
  <2>2. Callback(op) = script
    BY <1>4, CallbackOf DEF script
  <2> HIDE DEF script
  <2>3. k \in 1..4
    BY <2>1, <2>2
  <2> QED BY <1>4, <2>1, <2>2, <2>3 DEF StepOf, LoggedOperations, AllOperations, EditOperations
<1>5. CASE op \in {"modifyShell", "deletePolicy"}
  <2> DEFINE script == <<"aas", "activity">>
  <2>1. Len(script) = 2 /\ script[1] = "aas" /\ script[2] = "activity"
    OBVIOUS
  <2>2. Callback(op) = script
    BY <1>5, CallbackOf DEF script
  <2> HIDE DEF script
  <2>3. k \in 1..2
    BY <2>1, <2>2
  <2> QED BY <1>5, <2>1, <2>2, <2>3 DEF StepOf, LoggedOperations, AllOperations, EditOperations
<1>6. CASE op = "publish"
  <2> DEFINE script == <<"item", "permalink", "activity">>
  <2>1. /\ Len(script) = 3 /\ script[1] = "item" /\ script[2] = "permalink"
        /\ script[3] = "activity"
    OBVIOUS
  <2>2. Callback(op) = script
    BY <1>6, CallbackOf DEF script
  <2> HIDE DEF script
  <2>3. k \in 1..3
    BY <2>1, <2>2
  <2> QED BY <1>6, <2>1, <2>2, <2>3 DEF StepOf, LoggedOperations, AllOperations, StatusOperations
<1>7. CASE op \in {"archive", "restore"}
  <2> DEFINE script == <<"item", "activity">>
  <2>1. Len(script) = 2 /\ script[1] = "item" /\ script[2] = "activity"
    OBVIOUS
  <2>2. Callback(op) = script
    BY <1>7, CallbackOf DEF script
  <2> HIDE DEF script
  <2>3. k \in 1..2
    BY <2>1, <2>2
  <2> QED BY <1>7, <2>1, <2>2, <2>3 DEF StepOf, LoggedOperations, AllOperations, StatusOperations
<1>8. CASE op = "deletePassport"
  <2> DEFINE script == <<"dropAll">>
  <2>1. Len(script) = 1 /\ script[1] = "dropAll"
    OBVIOUS
  <2>2. Callback(op) = script
    BY <1>8, CallbackOf DEF script
  <2> HIDE DEF script
  <2>3. k \in 1..1
    BY <2>1, <2>2
  <2> QED BY <1>8, <2>1, <2>2, <2>3 DEF StepOf
<1> QED
  BY <1>1, <1>2, <1>3, <1>4, <1>5, <1>6, <1>7, <1>8
  DEF CallbackOperations, AllOperations, EditOperations, StatusOperations

\* What a fresh handler holds in its callback.
LEMMA FreshAtStep ==
    ASSUME Inv, FreshInv, NEW r \in Requests, NEW name, AtStep(r, name),
           ~tainted, r \notin stale
    PROVE  LET old == requests[r] IN
           /\ old.phase = "open" /\ old.step \in 1..Len(Callback(old.op))
           /\ old.op \in CallbackOperations /\ old.op \in Operations
           /\ old.arg \in Arguments(old.op)
           /\ StepOf(old.op, old.step, name)
           /\ Admitted(old.op, db["item"]) /\ Needed(old) \subseteq copies[r]
           /\ Intends(old, db) /\ Transacts(old, txn[r], db)
           /\ copies[r] \cap txn[r].missed = {} /\ Whole(db)
<1> DEFINE old == requests[r]
<1>1. /\ old.phase = "open" /\ old.step \in 1..Len(Callback(old.op))
      /\ Callback(old.op)[old.step] = name
  BY AtStepOK
<1>2. /\ old.op \in Operations /\ Admitted(old.op, db["item"])
      /\ Needed(old) \subseteq copies[r] /\ Intends(old, db)
      /\ copies[r] \cap txn[r].missed = {} /\ Transacts(old, txn[r], db) /\ Whole(db)
  BY <1>1 DEF FreshInv, Fresh, InFlightPhases
<1>3. old.op \in CallbackOperations /\ old.arg \in Arguments(old.op)
  BY <1>1, <1>2, OpenOK DEF CallbackOperations, Transacts
<1> QED BY <1>1, <1>2, <1>3, StepIs

LEMMA SavedAdvanced ==
    ASSUME NEW request, NEW next, next.op = request.op, next.arg = request.arg,
           request.step \in 1..Len(Callback(request.op)), next.step = request.step + 1
    PROVE  \A d \in Documents :
             d \in Saved(next) <=>
               \/ d \in Saved(request)
               \/ d \in Target(Callback(request.op)[request.step], request.arg)
<1>1. \A k \in 1..Len(Callback(request.op)) :
        k < request.step + 1 <=> k < request.step \/ k = request.step
  <2>1. Len(Callback(request.op)) \in Nat
    BY DEF Callback
  <2> QED BY <2>1
<1> QED BY <1>1 DEF Saved

\* One step of a callback keeps its request fresh, if it saves what the
\* operation leaves there and nobody else has changed it.
LEMMA CallbackKeepsFresh ==
    ASSUME Inv, FreshInv, NEW r \in Requests, NEW name, AtStep(r, name),
           NEW next, Update(r, next), next.phase = "open",
           next.step = requests[r].step + 1, next.op = requests[r].op,
           next.arg = requests[r].arg,
           db' = db, tainted' = tainted, stale \subseteq stale',
           \A q \in Requests \ {r} : txn'[q] = txn[q] /\ copies'[q] = copies[q],
           copies[r] \subseteq copies'[r],
           name = "design" => "config" \in copies'[r],
           txn'[r].missed = txn[r].missed,
           txn'[r].written \subseteq txn[r].written \cup Target(name, requests[r].arg),
           \A d \in Documents \ Target(name, requests[r].arg) :
             txn'[r].view[d] = txn[r].view[d],
           ~tainted /\ r \notin stale' =>
             /\ Intends(next, db)
             /\ copies'[r] \cap txn[r].missed = {}
             /\ \A d \in Target(name, requests[r].arg) \cap Documents :
                  /\ d \notin txn[r].missed
                  /\ txn'[r].view[d] = After(requests[r].op, requests[r].arg, db, d)
    PROVE  FreshInv'
<1> DEFINE old == requests[r]
           target == Target(name, old.arg)
<1>1. ASSUME ~tainted, r \notin stale'
      PROVE  Fresh(next, txn'[r], copies'[r], db)
  <2>1. /\ old.phase = "open" /\ old.step \in 1..Len(Callback(old.op))
        /\ old.op \in CallbackOperations /\ old.op \in Operations
        /\ Admitted(old.op, db["item"]) /\ Needed(old) \subseteq copies[r]
        /\ Transacts(old, txn[r], db)
    BY <1>1, FreshAtStep
  <2>2. Callback(old.op)[old.step] = name /\ txn[r].written \subseteq Documents
        /\ txn[r].missed \subseteq Documents
    BY AtStepOK DEF Inv, TypeOK, TransactionsOK, TransactionOK
  <2>3. \A d \in Documents : d \in Saved(next) <=> d \in Saved(old) \/ d \in target
    BY <2>1, <2>2, SavedAdvanced
  <2>4. Saved(old) \subseteq Documents /\ Saved(next) \subseteq Documents
    BY DEF Saved
  <2>5. target \subseteq Documents
    <3>1. name \notin {"submodel", "dropSubmodel"} => target \subseteq Documents
      <4>1. name \in {"item", "aas", "submodel", "dropSubmodel", "design", "permalink",
                      "activity", "dropAll"}
        BY <1>1, FreshAtStep DEF StepOf
      <4> QED BY <4>1, TargetIs, Names DEF OwnDocuments
    <3>2. name \in {"submodel", "dropSubmodel"} => old.arg[1] \in Documents
      <4>1. StepOf(old.op, old.step, name) /\ old.arg \in Arguments(old.op)
        BY <1>1, FreshAtStep
      <4>2. name \in {"submodel", "dropSubmodel"} =>
              old.op \in {"addSubmodel", "addElement", "deleteElement", "deleteSubmodel"}
        BY <4>1 DEF StepOf
      <4> QED BY <4>1, <4>2, RootIs DEF AllOperations, EditOperations, StatusOperations
    <3> QED BY <3>1, <3>2, TargetIs
  <2> HIDE DEF target
  <2>6. Transacts(next, txn'[r], db)
    <3>1. /\ old.op # "patchConfig" /\ txn[r].written \subseteq Saved(old)
          /\ "permalink" \notin txn[r].missed
          /\ \A d \in txn[r].missed : txn[r].view[d] # Absent /\ db[d] # Absent
          /\ \A d \in Saved(old) :
               d \notin txn[r].missed /\ txn[r].view[d] = After(old.op, old.arg, db, d)
      BY <2>1 DEF Transacts
    <3>2. /\ txn'[r].missed = txn[r].missed /\ txn'[r].written \subseteq txn[r].written \cup target
          /\ \A d \in Documents \ target : txn'[r].view[d] = txn[r].view[d]
          /\ \A d \in target \cap Documents :
               d \notin txn[r].missed /\ txn'[r].view[d] = After(old.op, old.arg, db, d)
      BY <1>1 DEF target
    <3>3. txn'[r].written \subseteq Saved(next)
      BY <2>3, <2>4, <2>5, <3>1, <3>2
    <3>4. \A d \in txn'[r].missed : txn'[r].view[d] # Absent /\ db[d] # Absent
      BY <2>2, <3>1, <3>2
    <3>5. \A d \in Saved(next) :
            d \notin txn'[r].missed /\ txn'[r].view[d] = After(old.op, old.arg, db, d)
      BY <2>3, <2>4, <3>1, <3>2
    <3> QED BY <3>1, <3>2, <3>3, <3>4, <3>5 DEF Transacts
  <2>7. Needed(next) \subseteq copies'[r]
    <3>1. \A n : Has(next, n) <=> Has(old, n)
      BY <2>1 DEF Has
    <3>2. "config" \in Saved(next) /\ old.op \in {"deleteSubmodel", "deleteElement"} =>
            "config" \in copies'[r]
      <4>1. old.op \in {"deleteSubmodel", "deleteElement"} /\ "config" \in Saved(old) =>
              "config" \in copies[r]
        BY <2>1, <2>4 DEF Needed
      <4>2. old.op \in {"deleteSubmodel", "deleteElement"} /\ "config" \in target =>
              name = "design"
        <5>1. StepOf(old.op, old.step, name) /\ old.arg \in Arguments(old.op)
          BY <1>1, FreshAtStep
        <5>2. old.op \in {"deleteSubmodel", "deleteElement"} => old.arg[1] \notin OwnDocuments
          BY <5>1, RootIs DEF AllOperations, EditOperations, StatusOperations
        <5> QED BY <5>1, <5>2, TargetIs DEF StepOf, OwnDocuments, target
      <4> QED BY <2>3, <2>4, <4>1, <4>2
    <3> QED BY <2>1, <3>1, <3>2 DEF Needed
  <2> QED BY <1>1, <2>1, <2>6, <2>7 DEF Fresh
<1> QED BY <1>1, OthersStayFresh

LEMMA SaveKeepsFresh ==
    ASSUME Inv, FreshInv, NEW r \in Requests, NEW name, AtStep(r, name), name # "design",
           NEW request \in RequestTypes, CopiesOK(request), request.phase = "open",
           request.op = requests[r].op, request.arg = requests[r].arg,
           request.step = requests[r].step,
           NEW update, DOMAIN update \subseteq Target(name, requests[r].arg),
           ~tainted /\ r \notin stale =>
             /\ Intends(request, db)
             /\ request.op = "deleteElement" => request.step > 1,
           ~tainted /\ r \notin stale /\ ~WriteConflict(r, update) =>
             \A d \in Target(name, requests[r].arg) \cap Documents :
               /\ d \notin txn[r].missed
               /\ Overwrite(txn[r].view, update)[d]
                    = After(requests[r].op, requests[r].arg, db, d),
           Save(r, request, update)
    PROVE  FreshInv'
<1> DEFINE old == requests[r]
           target == Target(name, old.arg)
           next == Advanced(request)
           view == Overwrite(txn[r].view, update)
<1>1. tainted' = tainted /\ old.phase = "open"
  BY DEF Save, AtStep
<1>2. CASE Retry(r, request)
  BY <1>1, <1>2, RetryKeepsFresh
<1>3. CASE /\ WriteInTransaction(r, update) /\ Update(r, next)
           /\ UNCHANGED <<copies, stale>>
  <2>1. /\ db' = db /\ \A q \in Requests \ {r} : txn'[q] = txn[q]
        /\ txn'[r].view = view /\ txn'[r].missed = txn[r].missed
        /\ txn'[r].written = txn[r].written \cup Differing(txn[r].view, update)
    BY <1>3, WriteIs
  <2>2. /\ Differing(txn[r].view, update) \subseteq target
        /\ \A d \in Documents \ target : view[d] = txn[r].view[d]
    BY DEF Differing, Overwrite
  <2>3. /\ next.phase = "open" /\ next.step = request.step + 1
        /\ SameCopies(request, next)
    BY DEF Advanced, RequestTypes, SameCopies
  <2>4. ~WriteConflict(r, update)
    BY <1>3 DEF WriteInTransaction
  <2> HIDE DEF target, next, view
  <2>5. ASSUME ~tainted, r \notin stale
        PROVE  /\ Intends(next, db) /\ copies[r] \cap txn[r].missed = {}
               /\ \A d \in target \cap Documents :
                    d \notin txn[r].missed /\ txn'[r].view[d] = After(old.op, old.arg, db, d)
    <3>1. Intends(next, db)
      BY <2>3, <2>5, IntendsCopies
    <3>2. copies[r] \cap txn[r].missed = {}
      BY <2>5, FreshAtStep
    <3>3. \A d \in target \cap Documents :
            d \notin txn[r].missed /\ txn'[r].view[d] = After(old.op, old.arg, db, d)
      BY <2>1, <2>4, <2>5 DEF target, view
    <3> QED BY <3>1, <3>2, <3>3
  <2>6. next.op = old.op /\ next.arg = old.arg /\ next.step = old.step + 1
    BY <2>3 DEF SameCopies
  <2>7. /\ txn'[r].written \subseteq txn[r].written \cup target
        /\ \A d \in Documents \ target : txn'[r].view[d] = txn[r].view[d]
    BY <2>1, <2>2
  <2> QED
    BY <1>1, <1>3, <2>1, <2>3, <2>5, <2>6, <2>7, CallbackKeepsFresh DEF target
<1> QED BY <1>2, <1>3 DEF Save

\* A save of one document.
LEMMA OneIs ==
    ASSUME NEW d \in Documents, NEW value, NEW store
    PROVE  DOMAIN One(d, value) = {d} /\ Overwrite(store, One(d, value))[d] = value
BY DEF One, Overwrite

\* A document that a fresh handler needs, or that is not there, is not missed.
LEMMA NotMissed ==
    ASSUME Inv, FreshInv, NEW r \in Requests, NEW name, AtStep(r, name),
           ~tainted, r \notin stale
    PROVE  LET old == requests[r]
               missed == txn[r].missed
           IN /\ "item" \notin missed /\ "permalink" \notin missed
              /\ old.op \in Reading => "aas" \notin missed
              /\ old.op \in ReadingSubmodel \cup {"addSubmodel"} => old.arg[1] \notin missed
<1> DEFINE old == requests[r]
<1>1. /\ old.phase = "open" /\ old.op \in CallbackOperations /\ Needed(old) \subseteq copies[r]
      /\ old.arg \in Arguments(old.op) /\ Intends(old, db) /\ Transacts(old, txn[r], db)
      /\ copies[r] \cap txn[r].missed = {} /\ Whole(db) /\ Admitted(old.op, db["item"])
  BY FreshAtStep
<1>2. old.op \in AllOperations /\ (old.op \in Reading => old.arg[1] \in Submodels)
  BY <1>1, RootIs DEF CallbackOperations, Reading, StatusOperations, AllOperations
<1>3. /\ old.op \in Reading <=> Has(old, "aas")
      /\ old.op \in ReadingSubmodel <=> Has(old, "submodel")
  BY <1>1, <1>2, HasIs
<1>4. "item" \notin txn[r].missed /\ "permalink" \notin txn[r].missed
  BY <1>1, Names DEF Needed, Transacts, OwnDocuments
<1>5. old.op \in Reading => "aas" \notin txn[r].missed
  BY <1>1, <1>3, Names DEF Needed, OwnDocuments
<1>6. old.op \in ReadingSubmodel => old.arg[1] \notin txn[r].missed
  BY <1>1, <1>2, <1>3, Names DEF Needed, Reading, ReadingSubmodel
<1>7. old.op = "addSubmodel" => old.arg[1] \notin txn[r].missed
  <2> SUFFICES ASSUME old.op = "addSubmodel" PROVE old.arg[1] \notin txn[r].missed
    OBVIOUS
  <2>1. db[old.arg[1]] = Absent
    BY <1>1, <1>2 DEF Intends, Whole, Admitted, Reading
  <2> QED BY <1>1, <2>1 DEF Transacts
<1> QED BY <1>4, <1>5, <1>6, <1>7

\* Removing a submodel from the shell twice removes it once.
LEMMA WithoutSubmodelTwice ==
    ASSUME NEW aas \in Shells, NEW s
    PROVE  WithoutSubmodel(WithoutSubmodel(aas, s), s) = WithoutSubmodel(aas, s)
<1>1. s \notin WithoutSubmodel(aas, s).refs
  <2>1. CASE s \in aas.refs
    BY <2>1 DEF WithoutSubmodel, WithoutPolicies, Shells
  <2>2. CASE s \notin aas.refs
    BY <2>2 DEF WithoutSubmodel
  <2> QED BY <2>1, <2>2
<1>2. \A any : s \notin any.refs => WithoutSubmodel(any, s) = any
  BY DEF WithoutSubmodel
<1> QED BY <1>1, <1>2

LEMMA SaveItemKeepsFresh ==
    ASSUME Inv, FreshInv, NEW r \in Requests, SaveItem(r)
    PROVE  FreshInv'
<1> DEFINE old == requests[r]
           arg == old.arg
           s == arg[1]
<1>1. /\ AtStep(r, "item") /\ old.phase = "open" /\ old \in RequestTypes /\ CopiesOK(old)
      /\ old.item \in Items
  BY OpenOK DEF SaveItem, AtStep
<1>2. Target("item", arg) = {"item"} /\ "item" \in Documents
  BY TargetIs, Names DEF OwnDocuments
<1>3. ASSUME ~tainted, r \notin stale
      PROVE  /\ "item" \notin txn[r].missed /\ Intends(old, db) /\ old.op # "deleteElement"
             /\ After(old.op, arg, db, "item") = ItemAfter(old.op, arg, db["item"])
             /\ old.op # "deleteSubmodel" => old.item = ItemAfter(old.op, arg, db["item"])
  <2>1. Intends(old, db) /\ StepOf(old.op, old.step, "item")
    BY <1>1, <1>3, FreshAtStep
  <2>2. old.op \in {"addSubmodel", "deleteSubmodel", "publish", "archive", "restore"}
    BY <2>1 DEF StepOf
  <2> QED BY <1>1, <1>3, <2>1, <2>2, NotMissed DEF After, Intends
<1>4. CASE old.op # "deleteSubmodel"
  <2> DEFINE update == One("item", old.item)
  <2>1. Save(r, old, update)
    BY <1>4 DEF SaveItem
  <2>2. /\ DOMAIN update = {"item"}
        /\ Overwrite(txn[r].view, update)["item"] = old.item
    BY <1>2, OneIs
  <2> HIDE DEF update
  <2> QED BY <1>1, <1>2, <1>3, <1>4, <2>1, <2>2, SaveKeepsFresh
<1>5. CASE old.op = "deleteSubmodel" /\ s \notin old.item.env
  <2>1. Throw(r) /\ tainted' = tainted
    BY <1>5 DEF SaveItem, Root
  <2> QED BY <2>1, ThrowKeepsFresh
<1>6. CASE old.op = "deleteSubmodel" /\ s \in old.item.env
  <2> DEFINE item == [old.item EXCEPT !.env = @ \ {s}]
             spliced == [old EXCEPT !.item = item]
             update == One("item", spliced.item)
  <2>1. Save(r, spliced, update)
    BY <1>6 DEF SaveItem, Root
  <2>2. item \in Items /\ s \notin item.env
    BY <1>1 DEF Items
  <2>3. ~tainted /\ r \notin stale => item = ItemAfter(old.op, arg, db["item"])
    <3> SUFFICES ASSUME ~tainted, r \notin stale PROVE old.item = db["item"]
      BY <1>6 DEF ItemAfter
    <3> QED BY <1>3, <1>6 DEF Intends
  <2> HIDE DEF item
  <2>4. /\ spliced \in RequestTypes /\ CopiesOK(spliced) /\ spliced.phase = "open"
        /\ spliced.op = old.op /\ spliced.arg = arg /\ spliced.step = old.step
        /\ spliced.item = item
    BY <1>1, <2>2, CopyChanged
  <2>5. spliced.aas = old.aas
    BY <1>1 DEF RequestTypes
  <2>6. /\ DOMAIN update = {"item"}
        /\ Overwrite(txn[r].view, update)["item"] = spliced.item
    BY <1>2, OneIs
  <2> HIDE DEF spliced, update
  <2>7. ~tainted /\ r \notin stale => Intends(spliced, db)
    BY <1>3, <1>6, <2>2, <2>4, <2>5 DEF Intends
  <2> QED BY <1>1, <1>2, <1>3, <1>6, <2>1, <2>3, <2>4, <2>6, <2>7, SaveKeepsFresh
<1> QED BY <1>4, <1>5, <1>6

LEMMA SaveShellKeepsFresh ==
    ASSUME Inv, FreshInv, NEW r \in Requests, SaveShell(r)
    PROVE  FreshInv'
<1> DEFINE old == requests[r]
           arg == old.arg
           s == arg[1]
<1>1. /\ AtStep(r, "aas") /\ old.phase = "open" /\ old \in RequestTypes /\ CopiesOK(old)
  BY OpenOK DEF SaveShell, AtStep
<1>2. Target("aas", arg) = {"aas"} /\ "aas" \in Documents
  BY TargetIs, Names DEF OwnDocuments
<1>3. ASSUME ~tainted, r \notin stale
      PROVE  /\ "aas" \notin txn[r].missed /\ Intends(old, db)
             /\ old.op = "deleteElement" => old.step > 1
             /\ After(old.op, arg, db, "aas") = ShellAfter(old.op, arg, db)
             /\ old.op # "deleteSubmodel" => old.aas = ShellAfter(old.op, arg, db)
             /\ old.op = "deleteSubmodel" =>
                  WithoutSubmodel(old.aas, s) = ShellAfter(old.op, arg, db)
  <2>1. /\ Intends(old, db) /\ StepOf(old.op, old.step, "aas")
        /\ old.step \in 1..Len(Callback(old.op))
    BY <1>1, <1>3, FreshAtStep
  <2>2. /\ old.op \in {"addSubmodel", "deleteSubmodel", "modifyShell", "deletePolicy",
                       "deleteElement"}
        /\ old.op = "deleteElement" => old.step = 3
    BY <2>1 DEF StepOf
  <2>3. "aas" \notin txn[r].missed
    BY <1>1, <1>3, <2>2, NotMissed DEF Reading
  <2>4. After(old.op, arg, db, "aas") = ShellAfter(old.op, arg, db)
    BY <2>2 DEF After
  <2> QED BY <2>1, <2>2, <2>3, <2>4 DEF Intends
<1>4. CASE old.op # "deleteSubmodel"
  <2> DEFINE update == One("aas", old.aas)
  <2>1. Save(r, old, update)
    BY <1>4 DEF SaveShell
  <2>2. /\ DOMAIN update = {"aas"}
        /\ Overwrite(txn[r].view, update)["aas"] = old.aas
    BY <1>2, OneIs
  <2> HIDE DEF update
  <2> QED BY <1>1, <1>2, <1>3, <1>4, <2>1, <2>2, SaveKeepsFresh
<1>5. CASE old.op = "deleteSubmodel"
  <2> DEFINE aas == WithoutSubmodel(old.aas, s)
             cut == [old EXCEPT !.aas = aas]
             update == One("aas", cut.aas)
  <2>1. Save(r, cut, update)
    BY <1>5 DEF SaveShell, Root
  <2>2. old.aas \in Shells /\ s \in Submodels
    BY <1>1, <1>5, OpenOK, ArgumentTypes
  <2>3. aas \in Shells /\ WithoutSubmodel(aas, s) = aas
    BY <2>2, MethodTypes, WithoutSubmodelTwice
  <2>4. ~tainted /\ r \notin stale => aas = ShellAfter(old.op, arg, db)
    BY <1>3, <1>5
  <2> HIDE DEF aas
  <2>5. /\ cut \in RequestTypes /\ CopiesOK(cut) /\ cut.phase = "open"
        /\ cut.op = old.op /\ cut.arg = arg /\ cut.step = old.step
        /\ cut.item = old.item /\ cut.aas = aas
    BY <1>1, <2>3, CopyChanged
  <2>6. /\ DOMAIN update = {"aas"}
        /\ Overwrite(txn[r].view, update)["aas"] = cut.aas
    BY <1>2, OneIs
  <2> HIDE DEF cut, update
  <2>7. ~tainted /\ r \notin stale => Intends(cut, db)
    BY <1>3, <1>5, <2>3, <2>4, <2>5 DEF Intends
  <2> QED BY <1>1, <1>2, <1>3, <1>5, <2>1, <2>4, <2>5, <2>6, <2>7, SaveKeepsFresh
<1> QED BY <1>4, <1>5

LEMMA SaveSubmodelKeepsFresh ==
    ASSUME Inv, FreshInv, NEW r \in Requests, SaveSubmodel(r) \/ DropSubmodel(r)
    PROVE  FreshInv'
<1> DEFINE old == requests[r]
           arg == old.arg
           s == arg[1]
<1> PICK name \in {"submodel", "dropSubmodel"} :
       /\ AtStep(r, name)
       /\ Save(r, old, One(s, IF name = "submodel" THEN old.submodel ELSE Absent))
  BY DEF SaveSubmodel, DropSubmodel, Root
<1> DEFINE value == IF name = "submodel" THEN old.submodel ELSE Absent
           update == One(s, value)
<1>1. /\ AtStep(r, name) /\ old.phase = "open" /\ old \in RequestTypes /\ CopiesOK(old)
      /\ old.op \in AllOperations /\ old.arg \in Arguments(old.op) /\ Save(r, old, update)
  BY OpenOK DEF AtStep
<1>2. s \in Documents /\ s \notin OwnDocuments
  <2>1. old.op \in {"addSubmodel", "deleteSubmodel", "addElement", "deleteElement"}
    BY <1>1, AtStepOK, CallbackSteps
  <2> QED BY <1>1, <2>1, RootIs DEF StatusOperations
<1>3. Target(name, arg) = {s}
  BY TargetIs
<1>4. ASSUME ~tainted, r \notin stale
      PROVE  /\ s \notin txn[r].missed /\ Intends(old, db)
             /\ old.op = "deleteElement" => old.step > 1
             /\ value = After(old.op, arg, db, s)
  <2>1. /\ Intends(old, db) /\ StepOf(old.op, old.step, name)
        /\ old.step \in 1..Len(Callback(old.op))
    BY <1>1, <1>4, FreshAtStep
  <2>2. /\ \/ name = "submodel" /\ old.op \in {"addSubmodel", "addElement", "deleteElement"}
           \/ name = "dropSubmodel" /\ old.op = "deleteSubmodel"
        /\ old.op = "deleteElement" => old.step = 2
    BY <2>1 DEF StepOf
  <2>3. s \notin txn[r].missed
    BY <1>1, <1>4, <2>2, NotMissed DEF ReadingSubmodel
  <2>4. After(old.op, arg, db, s) = SubmodelAfter(old.op, arg, db[s])
    BY <1>2, <2>2 DEF After, OwnDocuments
  <2>5. value = SubmodelAfter(old.op, arg, db[s])
    BY <2>1, <2>2 DEF Intends, SubmodelAfter
  <2> QED BY <2>1, <2>2, <2>3, <2>4, <2>5
<1> HIDE DEF value
<1>5. DOMAIN update = {s} /\ Overwrite(txn[r].view, update)[s] = value
  BY <1>2, OneIs
<1> HIDE DEF update
<1> QED BY <1>1, <1>2, <1>3, <1>4, <1>5, SaveKeepsFresh

\* The view of a document that the callback has not saved yet and that nobody
\* else has changed is the store's.
LEMMA ViewIs ==
    ASSUME Inv, ViewsOK, FreshInv, NEW r \in Requests, NEW name, AtStep(r, name),
           ~tainted, r \notin stale, NEW d \in Documents,
           ~SavedBefore(requests[r].op, requests[r].arg, requests[r].step, d)
    PROVE  /\ d \notin txn[r].written
           /\ d \notin txn[r].missed => txn[r].view[d] = db[d]
<1> DEFINE old == requests[r]
<1>1. /\ old.op \in CallbackOperations /\ old.step \in 1..Len(Callback(old.op))
      /\ Transacts(old, txn[r], db)
  BY FreshAtStep
<1>2. old.step \in Nat
  BY DEF Inv, TypeOK, RequestTypes
<1>3. d \notin Saved(old)
  BY <1>1, <1>2, SavedIs DEF Saved
<1>4. txn[r].open
  BY OpenOK DEF AtStep
<1> QED BY <1>1, <1>3, <1>4 DEF Transacts, ViewsOK

\* Until it drops it, a fresh callback sees the configuration in its view.
LEMMA ConfigIsSeen ==
    ASSUME Inv, ViewsOK, FreshInv, NEW r \in Requests, NEW name, AtStep(r, name),
           ~tainted, r \notin stale,
           ~SavedBefore(requests[r].op, requests[r].arg, requests[r].step, "config")
    PROVE  txn[r].view["config"] # Absent
<1>1. /\ Transacts(requests[r], txn[r], db) /\ Whole(db)
      /\ Admitted(requests[r].op, db["item"])
  BY FreshAtStep
<1>2. "config" \in Documents
  BY Names DEF OwnDocuments
<1>3. db["config"] # Absent
  BY <1>1 DEF Whole, Admitted
<1>4. "config" \notin txn[r].missed => txn[r].view["config"] = db["config"]
  BY <1>2, ViewIs
<1> QED BY <1>1, <1>3, <1>4 DEF Transacts

LEMMA CleanDesignKeepsFresh ==
    ASSUME Inv, ViewsOK, FreshInv, NEW r \in Requests, CleanDesign(r)
    PROVE  FreshInv'
<1> DEFINE old == requests[r]
           arg == old.arg
           config == txn[r].view["config"]
           update == IF config = Absent THEN Nothing
                     ELSE One("config", WithoutDesign(config, arg))
           cleaned == IF old.op = "deleteElement"
                      THEN [old EXCEPT !.aas = WithoutPolicies(@, arg)]
                      ELSE old
           next == Advanced(cleaned)
           view == Overwrite(txn[r].view, update)
<1>1. /\ AtStep(r, "design") /\ old.phase = "open" /\ old \in RequestTypes /\ CopiesOK(old)
      /\ tainted' = tainted /\ "config" \in Documents
  BY OpenOK, Names DEF CleanDesign, AtStep, OwnDocuments
<1>2. Target("design", arg) = {"config"}
  BY TargetIs
<1>3. CASE Retry(r, old)
  <2>1. ~tainted /\ r \notin stale => Intends(old, db)
    BY <1>1, FreshAtStep
  <2> QED BY <1>1, <1>3, <2>1, RetryKeepsFresh
<1>4. CASE /\ WriteInTransaction(r, update) /\ Update(r, next)
           /\ copies' = [copies EXCEPT ![r] = @ \cup {"config"}]
           /\ stale' = IF "config" \in txn[r].missed THEN stale \cup {r} ELSE stale
  <2>1. /\ db' = db /\ \A q \in Requests \ {r} : txn'[q] = txn[q]
        /\ txn'[r].view = view /\ txn'[r].missed = txn[r].missed
        /\ txn'[r].written = txn[r].written \cup Differing(txn[r].view, update)
    BY <1>4, WriteIs
  <2>2. DOMAIN update \subseteq {"config"}
    BY DEF One, Nothing
  <2>3. config # Absent => view["config"] = WithoutDesign(config, arg)
    BY <1>1, OneIs
  <2>4. /\ copies'[r] = copies[r] \cup {"config"}
        /\ \A q \in Requests \ {r} : copies'[q] = copies[q]
    BY <1>4 DEF Inv, TypeOK, BookkeepingOK
  <2>5. /\ next.phase = "open" /\ next.step = old.step + 1 /\ next.op = old.op
        /\ next.arg = arg /\ next.item = old.item /\ next.submodel = old.submodel
        /\ next.aas = IF old.op = "deleteElement" THEN WithoutPolicies(old.aas, arg)
                      ELSE old.aas
    BY <1>1 DEF Advanced, RequestTypes
  <2>6. /\ Differing(txn[r].view, update) \subseteq {"config"}
        /\ \A d \in Documents \ {"config"} : view[d] = txn[r].view[d]
    BY <2>2 DEF Differing, Overwrite
  <2> HIDE DEF update, cleaned, next, view, config
  <2>7. ASSUME ~tainted, r \notin stale'
        PROVE  /\ Intends(next, db) /\ copies'[r] \cap txn[r].missed = {}
               /\ "config" \notin txn[r].missed
               /\ view["config"] = After(old.op, arg, db, "config")
    <3>1. r \notin stale /\ "config" \notin txn[r].missed
      BY <1>4, <2>7
    <3>2. /\ Intends(old, db) /\ copies[r] \cap txn[r].missed = {}
          /\ StepOf(old.op, old.step, "design") /\ Whole(db) /\ Admitted(old.op, db["item"])
          /\ old.arg \in Arguments(old.op) /\ old.op \in CallbackOperations
      BY <1>1, <2>7, <3>1, FreshAtStep
    <3>3. \/ old.op = "deleteSubmodel" /\ old.step = 5
          \/ old.op = "deleteElement" /\ old.step = 1
      BY <3>2 DEF StepOf
    <3>4. arg[1] \notin OwnDocuments
      BY <3>2, <3>3, RootIs DEF AllOperations, EditOperations, StatusOperations
    <3>5. ~SavedBefore(old.op, arg, old.step, "config")
      BY <3>3, <3>4 DEF SavedBefore, OwnDocuments
    <3>6. config = db["config"] /\ config # Absent
      BY <1>1, <2>7, <3>1, <3>5, ViewIs, ConfigIsSeen DEF config
    <3>7. view["config"] = After(old.op, arg, db, "config")
      BY <2>3, <3>3, <3>6 DEF After
    <3>8. Intends(next, db)
      <4>1. CASE old.op = "deleteSubmodel"
        BY <2>5, <3>2, <4>1 DEF Intends
      <4>2. CASE old.op = "deleteElement"
        <5>1. WithoutPolicies(old.aas, arg) = ShellAfter(old.op, arg, db)
          BY <3>2, <4>2 DEF Intends
        <5>2. db["aas"] \in Shells
          BY <3>2, WholeTypes DEF Admitted, Inv, TypeOK
        <5>3. WithoutPolicies(ShellAfter(old.op, arg, db), arg) = ShellAfter(old.op, arg, db)
          BY <4>2, <5>2, PoliciesAndVersion DEF ShellAfter
        <5>4. next.aas = ShellAfter(old.op, arg, db)
          BY <2>5, <4>2, <5>1
        <5> QED BY <2>5, <3>2, <4>2, <5>3, <5>4 DEF Intends
      <4> QED BY <3>3, <4>1, <4>2
    <3> QED BY <2>4, <3>1, <3>2, <3>7, <3>8
  <2>8. stale \subseteq stale'
    BY <1>4
  <2> QED
    BY <1>1, <1>2, <1>4, <2>1, <2>4, <2>5, <2>6, <2>7, <2>8, CallbackKeepsFresh
<1> QED BY <1>3, <1>4 DEF CleanDesign

LEMMA FreezePermalinksKeepsFresh ==
    ASSUME Inv, ViewsOK, FreshInv, NEW r \in Requests, FreezePermalinks(r)
    PROVE  FreshInv'
<1> DEFINE old == requests[r]
           arg == old.arg
           view == txn[r].view
           update == IF view["config"] # Absent /\ view["permalink"] = "open"
                     THEN One("permalink", "frozen") ELSE Nothing
<1>1. /\ AtStep(r, "permalink") /\ old.phase = "open" /\ old \in RequestTypes
      /\ CopiesOK(old) /\ Save(r, old, update)
  BY OpenOK DEF FreezePermalinks, AtStep
<1>2. Target("permalink", arg) = {"permalink"} /\ "permalink" \in Documents
  BY TargetIs, Names DEF OwnDocuments
<1>3. ASSUME ~tainted, r \notin stale
      PROVE  /\ Intends(old, db) /\ old.op # "deleteElement"
             /\ "permalink" \notin txn[r].missed
             /\ Overwrite(view, update)["permalink"] = After(old.op, arg, db, "permalink")
  <2>1. Intends(old, db) /\ StepOf(old.op, old.step, "permalink") /\ old.arg \in Arguments(old.op)
    BY <1>1, <1>3, FreshAtStep
  <2>2. old.op = "publish" /\ old.step = 2
    BY <2>1 DEF StepOf
  <2>3. arg = <<>>
    BY <2>1, <2>2 DEF Arguments
  <2>4. /\ ~SavedBefore(old.op, arg, old.step, "config")
        /\ ~SavedBefore(old.op, arg, old.step, "permalink")
    BY <2>2 DEF SavedBefore
  <2>5. "permalink" \notin txn[r].missed
    BY <1>1, <1>3, NotMissed
  <2>6. view["config"] # Absent /\ view["permalink"] = db["permalink"]
    BY <1>1, <1>2, <1>3, <2>4, <2>5, ViewIs, ConfigIsSeen
  <2>7. After(old.op, arg, db, "permalink")
          = IF db["permalink"] = "open" THEN "frozen" ELSE db["permalink"]
    BY <2>2 DEF After
  <2>8. Overwrite(view, Nothing)["permalink"] = view["permalink"]
    BY <1>2 DEF Overwrite, Nothing
  <2>9. Overwrite(view, One("permalink", "frozen"))["permalink"] = "frozen"
    BY <1>2, OneIs
  <2> QED BY <2>1, <2>2, <2>5, <2>6, <2>7, <2>8, <2>9
<1>4. DOMAIN update \subseteq {"permalink"}
  BY DEF One, Nothing
<1> HIDE DEF update
<1> QED BY <1>1, <1>2, <1>3, <1>4, SaveKeepsFresh

LEMMA DropAllKeepsFresh ==
    ASSUME Inv, ViewsOK, FreshInv, NEW r \in Requests, DropAll(r)
    PROVE  FreshInv'
<1> DEFINE old == requests[r]
           arg == old.arg
           view == txn[r].view
           doomed == {"aas", "item", "upi", "config"} \cup old.item.env
                       \cup (IF view["config"] # Absent THEN {"permalink"} ELSE {})
           update == [d \in doomed |-> Absent]
<1>1. /\ AtStep(r, "dropAll") /\ old.phase = "open" /\ old \in RequestTypes
      /\ CopiesOK(old) /\ Save(r, old, update) /\ old.item \in Items
  BY OpenOK DEF DropAll, AtStep
<1>2. Target("dropAll", arg) = Documents
  BY TargetIs
<1>3. /\ DOMAIN update = doomed /\ \A d \in doomed : update[d] = Absent
      /\ \A d \in Documents : Overwrite(view, update)[d] = IF d \in doomed THEN Absent
                                                           ELSE view[d]
  BY DEF Overwrite
<1>4. doomed \subseteq Documents
  BY <1>1, Names DEF Items, OwnDocuments
<1>5. ASSUME ~tainted, r \notin stale
      PROVE  /\ Intends(old, db) /\ old.op = "deletePassport"
             /\ Transacts(old, txn[r], db)
             /\ \A d \in Documents \ doomed : view[d] = db[d] /\ db[d] = Absent
  <2>1. /\ Intends(old, db) /\ StepOf(old.op, old.step, "dropAll") /\ Whole(db)
        /\ Transacts(old, txn[r], db) /\ Admitted(old.op, db["item"])
    BY <1>1, <1>5, FreshAtStep
  <2>2. old.op = "deletePassport" /\ old.step = 1
    BY <2>1 DEF StepOf
  <2>3. \A d \in Documents : ~SavedBefore(old.op, arg, old.step, d)
    BY <2>2 DEF SavedBefore
  <2>4. "permalink" \in doomed
    <3>1. "config" \in Documents
      BY Names DEF OwnDocuments
    <3>2. view["config"] # Absent
      BY <1>1, <1>5, <2>3, <3>1, ConfigIsSeen
    <3> QED BY <3>2
  <2>5. old.item.env = db["item"].env
    BY <2>1, <2>2 DEF Intends, ItemAfter, HandleStatusChange
  <2>6. ASSUME NEW d \in Documents, d \notin doomed
        PROVE  view[d] = db[d] /\ db[d] = Absent
    <3>1. d \in Submodels /\ d \notin db["item"].env
      BY <2>4, <2>5, <2>6, Names DEF OwnDocuments
    <3>2. db[d] = Absent
      BY <2>1, <3>1 DEF Whole, Admitted
    <3>3. d \notin txn[r].missed
      BY <2>1, <3>2 DEF Transacts
    <3> QED BY <1>1, <1>5, <2>3, <3>2, <3>3, ViewIs
  <2> QED BY <2>1, <2>2, <2>6
<1> HIDE DEF doomed, update
<1>6. ASSUME ~tainted, r \notin stale, ~WriteConflict(r, update), NEW d \in Documents
      PROVE  d \notin txn[r].missed /\ Overwrite(view, update)[d] = After(old.op, arg, db, d)
  <2>1. After(old.op, arg, db, d) = Absent
    BY <1>5, <1>6 DEF After
  <2>2. CASE d \in doomed
    <3>1. d \in txn[r].missed => view[d] # Absent
      BY <1>5, <1>6 DEF Transacts
    <3>2. d \in txn[r].missed => d \in Differing(view, update)
      BY <1>3, <2>2, <3>1 DEF Differing
    <3> QED BY <1>3, <1>6, <2>1, <2>2, <3>2 DEF WriteConflict
  <2>3. CASE d \notin doomed
    <3>1. view[d] = db[d] /\ db[d] = Absent /\ Transacts(old, txn[r], db)
      BY <1>5, <1>6, <2>3
    <3> QED BY <1>3, <2>1, <2>3, <3>1 DEF Transacts
  <2> QED BY <2>2, <2>3
<1> QED BY <1>1, <1>2, <1>3, <1>4, <1>5, <1>6, SaveKeepsFresh

LEMMA InsertActivityKeepsFresh ==
    ASSUME Inv, FreshInv, NEW r \in Requests, InsertActivity(r)
    PROVE  FreshInv'
<1> DEFINE old == requests[r]
           next == Advanced(old)
<1>1. /\ AtStep(r, "activity") /\ old.phase = "open" /\ old \in RequestTypes
      /\ tainted' = tainted
  BY OpenOK DEF InsertActivity, AtStep
<1>2. CASE Throw(r)
  BY <1>1, <1>2, ThrowKeepsFresh
<1>3. CASE Update(r, next) /\ UNCHANGED <<db, txn, copies, stale>>
  <2>1. next.phase = "open" /\ next.step = old.step + 1 /\ SameCopies(old, next)
    BY <1>1 DEF Advanced, RequestTypes, SameCopies
  <2> HIDE DEF next
  <2>2. Target("activity", old.arg) = {}
    BY TargetIs
  <2>3. ASSUME ~tainted, r \notin stale
        PROVE  Intends(next, db) /\ copies[r] \cap txn[r].missed = {}
    <3>1. /\ Intends(old, db) /\ copies[r] \cap txn[r].missed = {}
          /\ StepOf(old.op, old.step, "activity")
      BY <1>1, <2>3, FreshAtStep
    <3>2. old.step > 1
      BY <3>1 DEF StepOf
    <3> QED BY <2>1, <3>1, <3>2, IntendsCopies
  <2>4. next.op = old.op /\ next.arg = old.arg
    BY <2>1 DEF SameCopies
  <2> QED BY <1>1, <1>3, <2>1, <2>2, <2>3, <2>4, CallbackKeepsFresh
<1> QED BY <1>2, <1>3 DEF InsertActivity

-----------------------------------------------------------------------------
(* Committing: the others, the store, and the step of the abstract module  *)

\* A request answers and changes these documents: the others either lose a
\* copy, or stay fresh.
LEMMA AnswerKeepsFresh ==
    ASSUME Inv, ViewsOK, FreshInv, NEW r \in Requests, NEW changed \in SUBSET Documents,
           NEW own, txn' = Notify(r, changed, own), Update(r, Finished(r, "ok")),
           copies' = [copies EXCEPT ![r] = {}],
           stale' = (stale \cup Outdated(r, changed)) \ {r},
           ~tainted' => ~tainted,
           \A q \in Requests \ {r} : txn[q].written \cap changed = {},
           \A d \in Documents \ changed : db'[d] = db[d],
           ~tainted' =>
             /\ Whole(db')
             /\ db'["item"] = db["item"] =>
                  \A d \in changed : d # "permalink" /\ db[d] # Absent /\ db'[d] # Absent
    PROVE  FreshInv'
<1> SUFFICES ASSUME ~tainted', NEW q \in Requests \ stale'
             PROVE  Fresh(requests'[q], txn'[q], copies'[q], db')
  BY DEF FreshInv
<1>1. CASE q = r
  <2>1. requests'[r].phase = "ok"
    <3> DEFINE done == Finished(r, "ok")
    <3>1. Update(r, done) /\ done.phase = "ok"
      BY FinishedOK DEF AnsweredPhases
    <3> HIDE DEF done
    <3> QED BY <3>1 DEF Update, Inv, TypeOK
  <2> QED BY <1>1, <2>1 DEF Fresh, InFlightPhases
<1>2. CASE q # r
  <2>1. /\ requests'[q] = requests[q] /\ copies'[q] = copies[q]
        /\ q \notin stale /\ copies[q] \cap changed = {}
    BY <1>2 DEF Update, Outdated, Inv, TypeOK, BookkeepingOK
  <2>2. CASE requests[q].phase \notin InFlightPhases
    BY <2>1, <2>2 DEF Fresh
  <2>3. CASE requests[q].phase \in InFlightPhases
    <3> DEFINE request == requests[q]
    <3>1. Fresh(request, txn[q], copies[q], db) /\ Whole(db)
      BY <2>1 DEF FreshInv
    <3>2. /\ request.op \in AllOperations /\ request.arg \in Arguments(request.op)
          /\ request.step \in Nat
      BY <2>3 DEF Inv, TypeOK, RequestTypes, CopiesOK
    <3>3. "item" \notin changed
      <4>1. "item" \in Needed(request)
        BY Names DEF Needed, OwnDocuments
      <4> QED BY <2>1, <2>3, <3>1, <4>1 DEF Fresh
    <3>4. db'["item"] = db["item"]
      BY <3>3, Names DEF OwnDocuments
    <3>5. request.phase = "open" =>
            /\ txn'[q].view = txn[q].view /\ txn'[q].written = txn[q].written
            /\ txn'[q].missed = txn[q].missed \cup changed
            /\ txn[q].missed \subseteq Documents
            /\ txn[q].written \cap changed = {}
            /\ \A d \in Documents :
                 d \notin txn[q].written \cup txn[q].missed => txn[q].view[d] = db[d]
      <4>1. TransactionOK(txn[q]) /\ (txn[q].open <=> request.phase = "open")
        BY DEF Inv, TypeOK, TransactionsOK
      <4> QED BY <1>2, <4>1, NotifyIs DEF ViewsOK, TransactionOK
    <3>6. /\ "permalink" \notin changed
          /\ \A d \in changed : db[d] # Absent /\ db'[d] # Absent
      BY <3>4
    <3> HIDE DEF request
    <3>7. Fresh(request, txn'[q], copies[q], db')
      BY <2>1, <2>3, <3>1, <3>2, <3>5, <3>6, FreshFrame DEF request
    <3> QED BY <2>1, <3>7 DEF request
  <2> QED BY <2>2, <2>3
<1> QED BY <1>1, <1>2

\* What a fresh request commits is what its operation does to the store.
LEMMA CommitIsEffect ==
    ASSUME Inv, ViewsOK, FreshInv, NEW r \in Requests, Commit(r), ~tainted, r \notin stale
    PROVE  LET old == requests[r] IN
           /\ old.op \in CallbackOperations /\ old.op \in Operations
           /\ old.arg \in Arguments(old.op)
           /\ Admitted(old.op, db["item"]) /\ Intends(old, db) /\ Whole(db)
           /\ \A d \in txn[r].written : d \in Documents /\ Touches(old.op, old.arg, d)
           /\ db' = [d \in Documents |->
                       IF Touches(old.op, old.arg, d)
                       THEN After(old.op, old.arg, db, d) ELSE db[d]]
<1> DEFINE old == requests[r]
<1>1. /\ old.phase = "open" /\ old.step = Len(Callback(old.op)) + 1
      /\ db' = [d \in Documents |-> IF d \in txn[r].written THEN txn[r].view[d] ELSE db[d]]
  BY DEF Commit, CommitTransaction
<1>2. /\ old.op \in Operations /\ Admitted(old.op, db["item"]) /\ Intends(old, db)
      /\ Transacts(old, txn[r], db) /\ Whole(db)
  BY <1>1 DEF FreshInv, Fresh, InFlightPhases
<1>3. old.op \in CallbackOperations /\ old.arg \in Arguments(old.op)
  BY <1>1, <1>2, OpenOK DEF CallbackOperations, Transacts
<1> HIDE DEF old
<1>4. /\ Saved(old) \subseteq Documents
      /\ \A d \in Documents : d \in Saved(old) <=> Touches(old.op, old.arg, d)
  BY <1>1, <1>3, TouchedIsSaved
<1>5. txn[r].written \subseteq Saved(old)
  BY <1>2 DEF Transacts
<1>6. ASSUME NEW d \in Documents
      PROVE  (IF d \in txn[r].written THEN txn[r].view[d] ELSE db[d])
               = IF Touches(old.op, old.arg, d) THEN After(old.op, old.arg, db, d) ELSE db[d]
  <2>1. CASE d \in Saved(old)
    <3>1. d \notin txn[r].missed /\ txn[r].view[d] = After(old.op, old.arg, db, d)
      BY <1>2, <2>1 DEF Transacts
    <3>2. d \notin txn[r].written => txn[r].view[d] = db[d]
      BY <1>1, <3>1, OpenOK DEF ViewsOK, old
    <3> QED BY <1>4, <2>1, <3>1, <3>2
  <2>2. CASE d \notin Saved(old)
    BY <1>4, <1>5, <2>2
  <2> QED BY <2>1, <2>2
<1>7. db' = [d \in Documents |-> IF Touches(old.op, old.arg, d)
                                 THEN After(old.op, old.arg, db, d) ELSE db[d]]
  BY <1>1, <1>6
<1> QED BY <1>2, <1>3, <1>4, <1>5, <1>7 DEF old

LEMMA CommitIsAtomic ==
    ASSUME Inv, ViewsOK, FreshInv, NEW r \in Requests, Commit(r)
    PROVE  tainted' \/ Atomic!Next
<1>1. CASE tainted \/ r \in stale
  BY <1>1 DEF Commit
<1>2. CASE ~tainted /\ r \notin stale
  <2> DEFINE old == requests[r]
  <2>1. /\ old.op \in CallbackOperations /\ old.op \in Operations
        /\ old.arg \in Arguments(old.op)
        /\ Admitted(old.op, db["item"]) /\ Intends(old, db)
        /\ db' = [d \in Documents |-> IF Touches(old.op, old.arg, d)
                                      THEN After(old.op, old.arg, db, d) ELSE db[d]]
    BY <1>2, CommitIsEffect
  <2>2. StoreOK(db)
    BY DEF Inv, TypeOK
  <2> HIDE DEF old
  <2> QED BY <2>1, <2>2, Performs
<1> QED BY <1>1, <1>2

LEMMA CommitKeepsFresh ==
    ASSUME Inv, ViewsOK, FreshInv, NEW r \in Requests, Commit(r)
    PROVE  FreshInv'
<1> DEFINE changed == txn[r].written
           old == requests[r]
<1>1. /\ requests[r].phase = "open" /\ txn' = Notify(r, changed, NoTransaction)
      /\ Update(r, Finished(r, "ok")) /\ copies' = [copies EXCEPT ![r] = {}]
      /\ stale' = (stale \cup Outdated(r, changed)) \ {r}
      /\ tainted' = (tainted \/ r \in stale)
      /\ \A d \in Documents \ changed : db'[d] = db[d]
  BY DEF Commit, CommitTransaction
<1>2. changed \in SUBSET Documents
  BY <1>1, OpenOK DEF TransactionOK
<1>3. \A q \in Requests \ {r} : txn[q].written \cap changed = {}
  BY DEF ViewsOK
<1>4. ASSUME ~tainted'
      PROVE  /\ Whole(db')
             /\ db'["item"] = db["item"] =>
                  \A d \in changed : d # "permalink" /\ db[d] # Absent /\ db'[d] # Absent
  <2>1. ~tainted /\ r \notin stale
    BY <1>1, <1>4
  <2>2. /\ old.op \in CallbackOperations /\ old.arg \in Arguments(old.op)
        /\ Admitted(old.op, db["item"]) /\ Intends(old, db) /\ Whole(db)
        /\ \A d \in changed : d \in Documents /\ Touches(old.op, old.arg, d)
        /\ db' = [d \in Documents |-> IF Touches(old.op, old.arg, d)
                                      THEN After(old.op, old.arg, db, d) ELSE db[d]]
    BY <2>1, CommitIsEffect
  <2>3. StoreOK(db)
    BY DEF Inv, TypeOK
  <2> HIDE DEF old, changed
  <2>4. \A d \in Documents : db'[d] = IF Touches(old.op, old.arg, d)
                                      THEN After(old.op, old.arg, db, d) ELSE db[d]
    BY <2>2
  <2> DEFINE other == db'
  <2>5. \A d \in Documents : other[d] = IF Touches(old.op, old.arg, d)
                                        THEN After(old.op, old.arg, db, d) ELSE db[d]
    BY <2>4
  <2> HIDE DEF other
  <2>6. /\ Whole(other)
        /\ other["item"] = db["item"] =>
             \A d \in Documents : Touches(old.op, old.arg, d) =>
                d # "permalink" /\ db[d] # Absent /\ other[d] # Absent
    BY <2>2, <2>3, <2>5, EffectIsWhole
  <2> QED BY <2>2, <2>6 DEF other
<1> HIDE DEF changed
<1> QED BY <1>1, <1>2, <1>3, <1>4, AnswerKeepsFresh

\* A fresh applyPatch sets the configuration that the patch makes of the
\* store's.
LEMMA PatchIsEffect ==
    ASSUME Inv, FreshInv, NEW r \in Requests, PatchConfig(r), ~tainted, r \notin stale
    PROVE  LET old == requests[r] IN
           /\ "patchConfig" \in Operations /\ old.op = "patchConfig"
           /\ old.arg \in Arguments(old.op)
           /\ Admitted(old.op, db["item"]) /\ Can(db["aas"].policies, old.arg)
           /\ old.config \in Patches(db["config"], old.arg)
           /\ db' = [db EXCEPT !["config"] = old.config]
           /\ Whole(db) /\ Whole(db')
           /\ db["config"] # Absent /\ db'["config"] # Absent
<1> DEFINE old == requests[r]
           arg == old.arg
           update == IF old.noop THEN Nothing ELSE One("config", old.config)
           other == db'
<1>1. old.phase = "ready" /\ old.op = "patchConfig" /\ db' = Overwrite(db, update)
  BY DEF PatchConfig, WriteDirectly
<1>2. /\ old.op \in Operations /\ Admitted(old.op, db["item"]) /\ Intends(old, db)
      /\ Whole(db)
  BY <1>1 DEF FreshInv, Fresh, InFlightPhases
<1>3. arg \in Paths
  <2>1. arg \in Arguments(old.op)
    BY <1>1 DEF Inv, CopiesOK, InFlightPhases
  <2> QED BY <1>1, <2>1 DEF Arguments
<1>4. /\ Can(db["aas"].policies, arg) /\ old.config \in Patches(db["config"], arg)
      /\ old.noop => old.config = db["config"]
  BY <1>1, <1>2 DEF Intends
<1>5. db["item"] # Absent /\ db["config"] # Absent
  BY <1>2 DEF Admitted, Whole
<1>6. StoreOK(db) /\ "config" \in Documents
  BY Names DEF Inv, TypeOK, OwnDocuments
<1>7. old.config \in Configs /\ old.config # Absent
  <2>1. db["config"] \in Configs
    BY <1>5, <1>6 DEF StoreOK
  <2> QED BY <1>3, <1>4, <2>1, MethodTypes, AbsentAssumption
<1>8. db' = [db EXCEPT !["config"] = old.config]
  <2>1. CASE old.noop
    <3>1. old.config = db["config"]
      BY <1>4, <2>1
    <3>2. Overwrite(db, Nothing) = [d \in Documents |-> db[d]]
      BY DEF Overwrite, Nothing
    <3>3. db = [d \in Documents |-> db[d]]
      BY <1>6 DEF StoreOK
    <3> QED BY <1>1, <1>6, <2>1, <3>1, <3>2, <3>3
  <2>2. CASE ~old.noop
    <3> DEFINE config == old.config
    <3>1. Overwrite(db, One("config", config))
            = [d \in Documents |-> IF d = "config" THEN config ELSE db[d]]
      BY DEF Overwrite, One
    <3>2. db = [d \in Documents |-> db[d]]
      BY <1>6 DEF StoreOK
    <3>3. db' = Overwrite(db, One("config", config))
      BY <1>1, <2>2
    <3> HIDE DEF config
    <3>4. db' = [db EXCEPT !["config"] = config]
      BY <1>6, <3>1, <3>2, <3>3
    <3> QED BY <3>4 DEF config
  <2> QED BY <2>1, <2>2
<1>9. other["config"] = old.config /\ \A d \in Documents \ {"config"} : other[d] = db[d]
  <2>1. DOMAIN db = Documents
    BY <1>6 DEF StoreOK
  <2> QED BY <1>6, <1>8, <2>1
<1>10. Whole(other)
  <2> HIDE DEF other
  <2>1. /\ other["item"] = db["item"] /\ other["aas"] = db["aas"]
        /\ other["permalink"] = db["permalink"] /\ other["upi"] = db["upi"]
        /\ \A s \in Submodels : other[s] = db[s]
    BY <1>9, Names DEF OwnDocuments
  <2> QED BY <1>2, <1>5, <1>7, <1>9, <2>1 DEF Whole
<1>11. /\ "patchConfig" \in Operations /\ arg \in Arguments(old.op)
       /\ other["config"] # Absent
  BY <1>1, <1>2, <1>3, <1>7, <1>9 DEF Arguments
<1> QED BY <1>1, <1>2, <1>4, <1>5, <1>8, <1>10, <1>11

LEMMA PatchIsAtomic ==
    ASSUME Inv, FreshInv, NEW r \in Requests, PatchConfig(r)
    PROVE  tainted' \/ Atomic!Next
<1>1. CASE tainted \/ r \in stale
  BY <1>1 DEF PatchConfig
<1>2. CASE ~tainted /\ r \notin stale
  <2> DEFINE arg == requests[r].arg
             config == requests[r].config
  <2>1. /\ "patchConfig" \in Operations /\ arg \in Arguments("patchConfig")
        /\ Admitted("patchConfig", db["item"]) /\ Can(db["aas"].policies, arg)
        /\ config \in Patches(db["config"], arg)
        /\ db' = [db EXCEPT !["config"] = config]
    BY <1>2, PatchIsEffect
  <2> HIDE DEF arg, config
  <2>2. Atomic!PatchConfig(arg)
    BY <2>1, SameDomain DEF Atomic!PatchConfig
  <2>3. Atomic!Perform("patchConfig", arg)
    BY <2>1, <2>2, SameDomain DEF Atomic!Perform
  <2> QED BY <2>1, <2>3, SameDomain DEF Atomic!Next
<1> QED BY <1>1, <1>2

LEMMA PatchConfigKeepsFresh ==
    ASSUME Inv, ViewsOK, FreshInv, NEW r \in Requests, PatchConfig(r)
    PROVE  FreshInv'
<1> DEFINE update == IF requests[r].noop THEN Nothing ELSE One("config", requests[r].config)
           changed == Differing(db, update)
           own == txn[r]
<1>1. /\ txn' = Notify(r, changed, own)
      /\ Update(r, Finished(r, "ok")) /\ copies' = [copies EXCEPT ![r] = {}]
      /\ stale' = (stale \cup Outdated(r, changed)) \ {r}
      /\ tainted' = (tainted \/ r \in stale) /\ db' = Overwrite(db, update)
      /\ \A q \in Requests \ {r} : txn[q].written \cap changed = {}
  BY DEF PatchConfig, WriteDirectly
<1>2. DOMAIN update \subseteq {"config"}
  BY DEF One, Nothing
<1> HIDE DEF update
<1>3. changed \in SUBSET Documents /\ changed \subseteq {"config"}
  BY <1>2, Names DEF Differing, OwnDocuments
<1>4. \A d \in Documents \ changed : db'[d] = db[d]
  BY <1>1 DEF Overwrite, Differing
<1>5. ASSUME ~tainted'
      PROVE  /\ Whole(db')
             /\ db'["item"] = db["item"] =>
                  \A d \in changed : d # "permalink" /\ db[d] # Absent /\ db'[d] # Absent
  <2>1. ~tainted /\ r \notin stale
    BY <1>1, <1>5
  <2>2. Whole(db') /\ db["config"] # Absent /\ db'["config"] # Absent
    BY <2>1, PatchIsEffect
  <2> QED BY <1>3, <2>2
<1> HIDE DEF changed, own
<1> QED BY <1>1, <1>3, <1>4, <1>5, AnswerKeepsFresh

-----------------------------------------------------------------------------
(* All steps together, and the theorem                                     *)

LEMMA StepKeepsFresh ==
    ASSUME Inv, ViewsOK, FreshInv, [Next]_vars
    PROVE  FreshInv'
<1>1. CASE UNCHANGED vars
  BY <1>1 DEF vars, FreshInv
<1>2. ASSUME NEW r \in Requests, Handle(r)
      PROVE  FreshInv'
  <2>1. CASE ReadShell(r) \/ ReadSubmodel(r) \/ ReadConfig(r)
    BY <2>1, ReadingKeepsFresh
  <2>2. CASE \/ PrepareAddSubmodel(r) \/ PrepareDeleteSubmodel(r)
             \/ PrepareAddElement(r) \/ PrepareDeleteElement(r)
             \/ PrepareModifyShell(r) \/ PrepareDeletePolicy(r) \/ PreparePatchConfig(r)
    BY <2>2, PreparingKeepsFresh
  <2>3. CASE SaveItem(r) \/ SaveShell(r) \/ SaveSubmodel(r) \/ DropSubmodel(r)
    BY <2>3, SaveItemKeepsFresh, SaveShellKeepsFresh, SaveSubmodelKeepsFresh
  <2>4. CASE Begin(r) \/ CleanDesign(r) \/ FreezePermalinks(r) \/ DropAll(r)
    BY <2>4, BeginKeepsFresh, CleanDesignKeepsFresh, FreezePermalinksKeepsFresh,
       DropAllKeepsFresh
  <2>5. CASE InsertActivity(r) \/ Commit(r) \/ PatchConfig(r)
    BY <2>5, InsertActivityKeepsFresh, CommitKeepsFresh, PatchConfigKeepsFresh
  <2> QED BY <1>2, <2>1, <2>2, <2>3, <2>4, <2>5 DEF Handle
<1>3. CASE Next
  <2>1. CASE \E r \in Requests, op \in Operations :
               \E arg \in Arguments(op) : Load(r, op, arg)
    BY <2>1, LoadKeepsFresh
  <2>2. CASE Quiescent
    BY <1>1, <2>2 DEF Quiescent
  <2> QED BY <1>2, <1>3, <2>1, <2>2, FailoverKeepsFresh, CrashKeepsFresh DEF Next
<1> QED BY <1>1, <1>3

LEMMA InitialFresh ==
    ASSUME Init
    PROVE  FreshInv
<1>1. PICK item \in InitialItems : db = InitialStore(item)
  BY DEF Init
<1>2. item \in Items /\ item # Absent
  BY AbsentAssumption DEF InitialItems
<1>3. /\ db["item"] = item /\ db["config"] = {path \in Paths : path[1] \in item.env}
      /\ db["aas"] = [refs |-> item.env, version |-> 0,
                      policies |-> {path \in Paths : path[1] \in item.env}]
      /\ db["permalink"] \in Permalinks /\ db["upi"] = "issued"
  BY <1>1, Names DEF InitialStore, OwnDocuments, Permalinks
<1>4. /\ db["aas"] # Absent /\ db["config"] # Absent
      /\ db["permalink"] # Absent /\ db["upi"] # Absent
  <2>1. {path \in Paths : path[1] \in item.env} \in Configs
    BY DEF Configs
  <2>2. db["aas"] \in Shells
    BY <1>2, <1>3 DEF Shells, Items
  <2> QED BY <1>3, <2>1, <2>2, AbsentAssumption
<1>5. \A s \in Submodels : db[s] # Absent <=> s \in item.env
  <2>1. [elements |-> Elements, version |-> 0] \in SubmodelDocuments
    BY DEF SubmodelDocuments
  <2>2. ASSUME NEW s \in Submodels
        PROVE  db[s] = IF s \in item.env THEN [elements |-> Elements, version |-> 0]
                       ELSE Absent
    BY <1>1, Names DEF InitialStore, OwnDocuments
  <2> QED BY <2>1, <2>2, AbsentAssumption
<1>6. Whole(db)
  BY <1>2, <1>3, <1>4, <1>5 DEF Whole
<1>7. \A r \in Requests : requests[r].phase = "idle"
  BY DEF Init, NewRequest
<1> QED BY <1>6, <1>7 DEF FreshInv, Fresh, InFlightPhases

\* Only a commit and a save of the configuration change the store.
LEMMA OnlyAnswersWrite ==
    ASSUME Inv, [Next]_vars
    PROVE  db' = db \/ \E r \in Requests : Commit(r) \/ PatchConfig(r)
<1>1. ASSUME NEW r \in Requests, Handle(r)
      PROVE  db' = db \/ Commit(r) \/ PatchConfig(r)
  <2>1. CASE ReadShell(r) \/ ReadSubmodel(r) \/ ReadConfig(r)
    BY <2>1 DEF ReadShell, ReadSubmodel, ReadConfig, Refuse, Keep
  <2>2. CASE \/ PrepareAddSubmodel(r) \/ PrepareDeleteSubmodel(r)
             \/ PrepareAddElement(r) \/ PrepareDeleteElement(r)
             \/ PrepareModifyShell(r) \/ PrepareDeletePolicy(r) \/ PreparePatchConfig(r)
    BY <2>2 DEF PrepareAddSubmodel, PrepareDeleteSubmodel, PrepareAddElement,
       PrepareDeleteElement, PrepareModifyShell, PrepareDeletePolicy, PreparePatchConfig,
       Refuse, Ready
  <2>3. \A request, update : Save(r, request, update) => db' = db
    BY DEF Save, Retry, AbortTransaction, WriteInTransaction
  <2>4. CASE SaveItem(r) \/ SaveShell(r) \/ SaveSubmodel(r) \/ DropSubmodel(r)
    BY <2>3, <2>4 DEF SaveItem, SaveShell, SaveSubmodel, DropSubmodel, Throw, AbortTransaction
  <2>5. CASE FreezePermalinks(r) \/ DropAll(r)
    BY <2>3, <2>5 DEF FreezePermalinks, DropAll
  <2>6. CASE Begin(r) \/ CleanDesign(r) \/ InsertActivity(r)
    BY <2>6 DEF Begin, CleanDesign, InsertActivity, StartTransaction, Retry, Throw,
       AbortTransaction, WriteInTransaction
  <2> QED BY <1>1, <2>1, <2>2, <2>4, <2>5, <2>6 DEF Handle
<1>2. CASE UNCHANGED vars
  BY <1>2 DEF vars
<1>3. CASE Next
  <2>1. ASSUME NEW r \in Requests, NEW op, NEW arg, Load(r, op, arg)
        PROVE  db' = db
    BY <2>1 DEF Load
  <2>2. ASSUME NEW r \in Requests, Failover(r)
        PROVE  db' = db
    BY <2>2 DEF Failover, Retry, AbortTransaction
  <2>3. CASE Crash
    BY <2>3 DEF Crash, AbortAllTransactions
  <2>4. CASE Quiescent
    BY <1>2, <2>4 DEF Quiescent
  <2> QED BY <1>1, <1>3, <2>1, <2>2, <2>3, <2>4 DEF Next
<1> QED BY <1>2, <1>3

LEMMA StepIsAtomic ==
    ASSUME Inv, ViewsOK, FreshInv, [Next]_vars
    PROVE  [tainted' \/ Atomic!Next]_db
BY OnlyAnswersWrite, CommitIsAtomic, PatchIsAtomic

LEMMA FreshInvariant == Spec => [](Inv /\ ViewsOK /\ FreshInv)
<1>1. Init => Inv /\ ViewsOK /\ FreshInv
  BY InitialInv, InitialViews, InitialFresh
<1>2. Inv /\ ViewsOK /\ FreshInv /\ [Next]_vars => Inv' /\ ViewsOK' /\ FreshInv'
  BY StepKeepsInv, StepKeepsViews, StepKeepsFresh
<1> QED BY <1>1, <1>2, PTL DEF Spec

\* The handlers keep the promise of AtomicDocuments as long as nobody has
\* committed over a stale copy: in every behaviour, every change of the store
\* is a whole operation of AtomicDocuments, done in one step on the documents
\* as they are then, until a request commits a copy that somebody had changed
\* since it was read.  Write conflicts, second runs of a callback on copies it
\* has changed already, failovers and crashes do not break it.
THEOREM FreshRequestsAreAtomic == Spec => FreshIsAtomic
<1>1. Inv /\ ViewsOK /\ FreshInv /\ [Next]_vars => [tainted' \/ Atomic!Next]_db
  BY StepIsAtomic
<1> QED BY <1>1, FreshInvariant, PTL DEF Spec, FreshIsAtomic

-----------------------------------------------------------------------------
(* One request at a time                                                   *)

\* With one request in flight nobody changes a document behind its back.
AloneInv ==
    /\ \A r, q \in Requests : InFlight(r) /\ InFlight(q) => r = q
    /\ stale = {} /\ ~tainted
    /\ \A r \in Requests : ~InFlight(r) => copies[r] = {}
    /\ \A r \in Requests : txn[r].missed = {}

\* A step of the request in flight: it goes on, or it answers and its copies
\* are gone.
LEMMA AloneStep ==
    ASSUME Inv, AloneInv, NEW r \in Requests, InFlight(r),
           NEW request, Update(r, request), tainted' = tainted, stale' = {},
           \A q \in Requests \ {r} : copies'[q] = copies[q],
           request.phase \in InFlightPhases \/ copies'[r] = {},
           \A q \in Requests : txn'[q].missed = {}
    PROVE  AloneInv'
<1>1. requests'[r] = request /\ \A q \in Requests \ {r} : requests'[q] = requests[q]
  BY DEF Update, Inv, TypeOK
<1>2. \A q \in Requests \ {r} : ~InFlight(q) /\ ~InFlight(q)'
  BY <1>1 DEF AloneInv, InFlight
<1>3. InFlight(r)' \/ copies'[r] = {}
  BY <1>1 DEF InFlight
<1> QED BY <1>2, <1>3 DEF AloneInv

\* Transactions that begin, write or abort miss nothing.
LEMMA NothingMissed ==
    ASSUME Inv, AloneInv, NEW r \in Requests
    PROVE  /\ StartTransaction(r) => \A q \in Requests : txn'[q].missed = {}
           /\ AbortTransaction(r) => \A q \in Requests : txn'[q].missed = {}
           /\ \A update : WriteInTransaction(r, update) =>
                            \A q \in Requests : txn'[q].missed = {}
           /\ UNCHANGED txn => \A q \in Requests : txn'[q].missed = {}
<1>1. DOMAIN txn = Requests /\ NoTransaction.missed = {}
  BY DEF Inv, TypeOK, TransactionsOK, NoTransaction
<1>2. ASSUME StartTransaction(r)
      PROVE  \A q \in Requests : txn'[q].missed = {}
  BY <1>1, <1>2 DEF StartTransaction, AloneInv
<1>3. ASSUME AbortTransaction(r)
      PROVE  \A q \in Requests : txn'[q].missed = {}
  <2> DEFINE closed == NoTransaction
  <2>1. txn' = [txn EXCEPT ![r] = closed] /\ closed.missed = {}
    BY <1>1, <1>3 DEF AbortTransaction
  <2> HIDE DEF closed
  <2> QED BY <1>1, <2>1 DEF AloneInv
<1>4. ASSUME NEW update, WriteInTransaction(r, update)
      PROVE  \A q \in Requests : txn'[q].missed = {}
  BY <1>4, WriteIs DEF AloneInv
<1>5. ASSUME UNCHANGED txn
      PROVE  \A q \in Requests : txn'[q].missed = {}
  BY <1>5 DEF AloneInv
<1> QED BY <1>2, <1>3, <1>4, <1>5

LEMMA FinishKeepsAlone ==
    ASSUME Inv, AloneInv, NEW r \in Requests, InFlight(r), NEW outcome,
           Finish(r, outcome), tainted' = tainted,
           \A q \in Requests : txn'[q].missed = {}
    PROVE  AloneInv'
<1>1. /\ Update(r, Finished(r, outcome)) /\ stale' = {}
      /\ copies'[r] = {} /\ \A q \in Requests \ {r} : copies'[q] = copies[q]
  BY DEF Finish, Inv, TypeOK, BookkeepingOK, AloneInv
<1> QED BY <1>1, AloneStep

\* The request a step goes on with: the handler's, with other copies.
GoesOn(r, request) ==
    /\ DOMAIN request = DOMAIN requests[r]
    /\ request.phase = requests[r].phase

LEMMA PhaseIs ==
    ASSUME Inv, NEW r \in Requests, InFlight(r), NEW request, GoesOn(r, request)
    PROVE  /\ [request EXCEPT !.phase = "ready", !.step = 1].phase \in InFlightPhases
           /\ Advanced(request).phase \in InFlightPhases
<1>1. "phase" \in DOMAIN request
  BY DEF GoesOn, Inv, TypeOK, RequestTypes
<1> QED BY <1>1 DEF GoesOn, Advanced, InFlight, InFlightPhases

LEMMA RetryKeepsAlone ==
    ASSUME Inv, AloneInv, NEW r \in Requests, InFlight(r), NEW request, GoesOn(r, request),
           Retry(r, request), tainted' = tainted
    PROVE  AloneInv'
<1>1. \A q \in Requests : txn'[q].missed = {}
  BY NothingMissed DEF Retry
<1> DEFINE again == [request EXCEPT !.phase = "ready", !.step = 1]
<1>2. CASE Update(r, again) /\ UNCHANGED <<copies, stale>>
  <2>1. again.phase \in InFlightPhases
    BY PhaseIs
  <2> HIDE DEF again
  <2>2. stale' = {} /\ \A q \in Requests \ {r} : copies'[q] = copies[q]
    BY <1>2 DEF AloneInv
  <2> QED BY <1>1, <1>2, <2>1, <2>2, AloneStep
<1>3. CASE Finish(r, "failed")
  BY <1>1, <1>3, FinishKeepsAlone
<1> QED BY <1>2, <1>3 DEF Retry

LEMMA SaveKeepsAlone ==
    ASSUME Inv, AloneInv, NEW r \in Requests, InFlight(r), NEW request, GoesOn(r, request),
           NEW update, Save(r, request, update)
    PROVE  AloneInv'
<1> DEFINE next == Advanced(request)
<1>1. tainted' = tainted
  BY DEF Save
<1>2. CASE Retry(r, request)
  BY <1>1, <1>2, RetryKeepsAlone
<1>3. CASE WriteInTransaction(r, update) /\ Update(r, next) /\ UNCHANGED <<copies, stale>>
  <2>1. \A q \in Requests : txn'[q].missed = {}
    BY <1>3, NothingMissed
  <2>2. stale' = {} /\ \A q \in Requests \ {r} : copies'[q] = copies[q]
    BY <1>3 DEF AloneInv
  <2>3. next.phase \in InFlightPhases
    BY PhaseIs
  <2> HIDE DEF next
  <2> QED BY <1>1, <1>3, <2>1, <2>2, <2>3, AloneStep
<1> QED BY <1>2, <1>3 DEF Save

LEMMA RefuseKeepsAlone ==
    ASSUME Inv, AloneInv, NEW r \in Requests, InFlight(r), Refuse(r)
    PROVE  AloneInv'
BY FinishKeepsAlone, NothingMissed DEF Refuse

LEMMA ReadingKeepsAlone ==
    ASSUME Inv, AloneInv, NEW r \in Requests,
           \/ ReadShell(r) \/ ReadSubmodel(r) \/ ReadConfig(r)
    PROVE  AloneInv'
<1> DEFINE old == requests[r]
<1>1. InFlight(r) /\ old \in RequestTypes
  BY DEF ReadShell, ReadSubmodel, ReadConfig, AtRead, InFlight, InFlightPhases, Inv, TypeOK
<1>2. ASSUME NEW document, NEW request, GoesOn(r, request), Keep(r, document, request)
      PROVE  AloneInv'
  <2> DEFINE next == Advanced(request)
  <2>1. next.phase \in InFlightPhases
    BY <1>1, <1>2, PhaseIs
  <2>2. /\ Update(r, next) /\ tainted' = tainted /\ stale' = {} /\ UNCHANGED txn
        /\ \A q \in Requests \ {r} : copies'[q] = copies[q]
    BY <1>2 DEF Keep, AloneInv, Inv, TypeOK, BookkeepingOK
  <2> HIDE DEF next
  <2> QED BY <1>1, <2>1, <2>2, AloneStep, NothingMissed
<1>3. \A copy : /\ GoesOn(r, [old EXCEPT !.aas = copy])
                /\ GoesOn(r, [old EXCEPT !.submodel = copy])
                /\ GoesOn(r, [old EXCEPT !.config = copy])
  BY <1>1 DEF GoesOn, RequestTypes
<1>4. CASE ReadShell(r)
  BY <1>1, <1>2, <1>3, <1>4, RefuseKeepsAlone DEF ReadShell
<1>5. CASE ReadSubmodel(r)
  BY <1>1, <1>2, <1>3, <1>5, RefuseKeepsAlone DEF ReadSubmodel
<1>6. CASE ReadConfig(r)
  BY <1>1, <1>2, <1>3, <1>6, RefuseKeepsAlone DEF ReadConfig
<1> QED BY <1>4, <1>5, <1>6

LEMMA PreparingKeepsAlone ==
    ASSUME Inv, AloneInv, NEW r \in Requests,
           \/ PrepareAddSubmodel(r) \/ PrepareDeleteSubmodel(r)
           \/ PrepareAddElement(r) \/ PrepareDeleteElement(r)
           \/ PrepareModifyShell(r) \/ PrepareDeletePolicy(r) \/ PreparePatchConfig(r)
    PROVE  AloneInv'
<1> DEFINE old == requests[r]
<1>1. InFlight(r) /\ old \in RequestTypes
  BY DEF PrepareAddSubmodel, PrepareDeleteSubmodel, PrepareAddElement,
         PrepareDeleteElement, PrepareModifyShell, PrepareDeletePolicy,
         PreparePatchConfig, Prepared, InFlight, InFlightPhases, Inv, TypeOK
<1>2. ASSUME NEW request, GoesOn(r, request), Ready(r, request)
      PROVE  AloneInv'
  <2> DEFINE next == [request EXCEPT !.phase = "ready", !.step = 1]
  <2>1. next.phase \in InFlightPhases
    BY <1>1, <1>2, PhaseIs
  <2>2. /\ Update(r, next) /\ tainted' = tainted /\ stale' = {} /\ UNCHANGED txn
        /\ \A q \in Requests \ {r} : copies'[q] = copies[q]
    BY <1>2 DEF Ready, AloneInv
  <2> HIDE DEF next
  <2> QED BY <1>1, <2>1, <2>2, AloneStep, NothingMissed
<1>3. CASE PrepareAddSubmodel(r)
  <2> DEFINE item == [old.item EXCEPT !.env = @ \cup {Root(r)}]
             aas == IncreaseVersion(WithSubmodel(old.aas, Root(r)))
             request == [old EXCEPT !.item = item, !.aas = aas, !.submodel = NewSubmodel]
  <2>1. Ready(r, request) \/ Refuse(r)
    BY <1>3 DEF PrepareAddSubmodel
  <2> HIDE DEF item, aas
  <2>2. GoesOn(r, request)
    BY <1>1 DEF GoesOn, RequestTypes
  <2> HIDE DEF request
  <2> QED BY <1>1, <1>2, <2>1, <2>2, RefuseKeepsAlone
<1>4. CASE PrepareDeleteSubmodel(r)
  BY <1>1, <1>2, <1>4, RefuseKeepsAlone DEF PrepareDeleteSubmodel, GoesOn
<1>5. \A copy : GoesOn(r, [old EXCEPT !.submodel = copy])
  BY <1>1 DEF GoesOn, RequestTypes
<1>6. \A submodel, aas : GoesOn(r, [old EXCEPT !.submodel = submodel, !.aas = aas])
  BY <1>1 DEF GoesOn, RequestTypes
<1>7. \A noop, aas : GoesOn(r, [old EXCEPT !.noop = noop, !.aas = aas])
  BY <1>1 DEF GoesOn, RequestTypes
<1>8. \A noop, config : GoesOn(r, [old EXCEPT !.noop = noop, !.config = config])
  BY <1>1 DEF GoesOn, RequestTypes
<1>9. CASE PrepareAddElement(r)
  BY <1>1, <1>2, <1>5, <1>9, RefuseKeepsAlone DEF PrepareAddElement
<1>10. CASE PrepareDeleteElement(r)
  BY <1>1, <1>2, <1>6, <1>10, RefuseKeepsAlone DEF PrepareDeleteElement
<1>11. CASE PrepareModifyShell(r)
  BY <1>2, <1>7, <1>11 DEF PrepareModifyShell
<1>12. CASE PrepareDeletePolicy(r)
  BY <1>2, <1>7, <1>12 DEF PrepareDeletePolicy
<1>13. CASE PreparePatchConfig(r)
  BY <1>1, <1>2, <1>8, <1>13, RefuseKeepsAlone DEF PreparePatchConfig
<1> QED BY <1>3, <1>4, <1>9, <1>10, <1>11, <1>12, <1>13

LEMMA BeginKeepsAlone ==
    ASSUME Inv, AloneInv, NEW r \in Requests, Begin(r)
    PROVE  AloneInv'
<1> DEFINE old == requests[r]
           history == IF old.op = "deletePassport"
                      THEN {q \in Requests : activities[q] > 0} ELSE {}
           opened == [old EXCEPT !.phase = "open", !.attempts = @ + 1, !.history = history]
<1>1. InFlight(r) /\ old \in RequestTypes /\ Update(r, opened)
  BY DEF Begin, InFlight, InFlightPhases, Inv, TypeOK
<1> HIDE DEF history
<1>2. opened.phase \in InFlightPhases
  BY <1>1 DEF RequestTypes, InFlightPhases
<1>3. /\ tainted' = tainted /\ stale' = {} /\ StartTransaction(r)
      /\ \A q \in Requests \ {r} : copies'[q] = copies[q]
  BY DEF Begin, AloneInv
<1> HIDE DEF opened
<1> QED BY <1>1, <1>2, <1>3, AloneStep, NothingMissed

\* The steps of the callback.
LEMMA CallbackKeepsAlone ==
    ASSUME Inv, AloneInv, NEW r \in Requests,
           \/ SaveItem(r) \/ SaveShell(r) \/ SaveSubmodel(r) \/ DropSubmodel(r)
           \/ CleanDesign(r) \/ FreezePermalinks(r) \/ InsertActivity(r) \/ DropAll(r)
    PROVE  AloneInv'
<1> DEFINE old == requests[r]
<1>1. InFlight(r) /\ old \in RequestTypes
  BY DEF SaveItem, SaveShell, SaveSubmodel, DropSubmodel, CleanDesign, FreezePermalinks,
         InsertActivity, DropAll, AtStep, InFlight, InFlightPhases, Inv, TypeOK
<1>2. /\ GoesOn(r, old)
      /\ \A copy : GoesOn(r, [old EXCEPT !.item = copy]) /\ GoesOn(r, [old EXCEPT !.aas = copy])
  BY <1>1 DEF GoesOn, RequestTypes
<1>3. Throw(r) /\ tainted' = tainted => AloneInv'
  BY <1>1, FinishKeepsAlone, NothingMissed DEF Throw
<1>4. CASE SaveItem(r)
  <2> DEFINE item == [old.item EXCEPT !.env = @ \ {Root(r)}]
             spliced == [old EXCEPT !.item = item]
  <2>1. \/ Save(r, spliced, One("item", spliced.item))
        \/ Throw(r) /\ tainted' = tainted
        \/ Save(r, old, One("item", old.item))
    BY <1>4 DEF SaveItem
  <2> HIDE DEF item
  <2>2. GoesOn(r, spliced)
    BY <1>2
  <2> HIDE DEF spliced
  <2> QED BY <1>1, <1>2, <1>3, <2>1, <2>2, SaveKeepsAlone
<1>5. CASE SaveShell(r)
  <2> DEFINE aas == WithoutSubmodel(old.aas, Root(r))
             cut == [old EXCEPT !.aas = aas]
  <2>1. Save(r, cut, One("aas", cut.aas)) \/ Save(r, old, One("aas", old.aas))
    BY <1>5 DEF SaveShell
  <2> HIDE DEF aas
  <2>2. GoesOn(r, cut)
    BY <1>2
  <2> HIDE DEF cut
  <2> QED BY <1>1, <1>2, <2>1, <2>2, SaveKeepsAlone
<1>6. CASE SaveSubmodel(r) \/ DropSubmodel(r)
  BY <1>1, <1>2, <1>6, SaveKeepsAlone DEF SaveSubmodel, DropSubmodel
<1>7. CASE FreezePermalinks(r) \/ DropAll(r)
  <2>1. PICK update : Save(r, old, update)
    BY <1>7 DEF FreezePermalinks, DropAll
  <2> QED BY <1>1, <1>2, <2>1, SaveKeepsAlone
<1>8. CASE CleanDesign(r)
  <2> DEFINE config == txn[r].view["config"]
             update == IF config = Absent THEN Nothing
                       ELSE One("config", WithoutDesign(config, old.arg))
             aas == WithoutPolicies(old.aas, old.arg)
             cleaned == IF old.op = "deleteElement" THEN [old EXCEPT !.aas = aas] ELSE old
             next == Advanced(cleaned)
  <2>1. tainted' = tainted
    BY <1>8 DEF CleanDesign
  <2>2. CASE Retry(r, old)
    BY <1>1, <1>2, <2>1, <2>2, RetryKeepsAlone
  <2>3. CASE /\ WriteInTransaction(r, update) /\ Update(r, next)
             /\ copies' = [copies EXCEPT ![r] = @ \cup {"config"}]
             /\ stale' = IF "config" \in txn[r].missed THEN stale \cup {r} ELSE stale
    <3>1. stale' = {} /\ \A q \in Requests \ {r} : copies'[q] = copies[q]
      BY <2>3 DEF AloneInv, Inv, TypeOK, BookkeepingOK
    <3> HIDE DEF update, aas
    <3>2. GoesOn(r, cleaned)
      BY <1>2
    <3> HIDE DEF cleaned
    <3>3. next.phase \in InFlightPhases
      BY <1>1, <3>2, PhaseIs
    <3> HIDE DEF next
    <3> QED BY <1>1, <2>1, <2>3, <3>1, <3>3, AloneStep, NothingMissed
  <2> QED BY <1>8, <2>2, <2>3 DEF CleanDesign
<1>9. CASE InsertActivity(r)
  <2> DEFINE next == Advanced(old)
  <2>1. tainted' = tainted
    BY <1>9 DEF InsertActivity
  <2>2. \/ Throw(r)
        \/ Update(r, next) /\ UNCHANGED <<txn, copies, stale>>
    BY <1>9 DEF InsertActivity
  <2>3. next.phase \in InFlightPhases
    BY <1>1, <1>2, PhaseIs
  <2>4. UNCHANGED <<copies, stale>> =>
          stale' = {} /\ \A q \in Requests \ {r} : copies'[q] = copies[q]
    BY DEF AloneInv
  <2> HIDE DEF next
  <2> QED BY <1>1, <1>3, <2>1, <2>2, <2>3, <2>4, AloneStep, NothingMissed
<1> QED BY <1>4, <1>5, <1>6, <1>7, <1>8, <1>9

\* A request that commits outdates nobody's copies.
LEMMA AnswerKeepsAlone ==
    ASSUME Inv, AloneInv, NEW r \in Requests, InFlight(r), NEW changed, NEW own,
           own.missed = {}, txn' = Notify(r, changed, own), Update(r, Finished(r, "ok")),
           copies' = [copies EXCEPT ![r] = {}],
           stale' = (stale \cup Outdated(r, changed)) \ {r},
           tainted' = (tainted \/ r \in stale)
    PROVE  AloneInv'
<1>1. \A q \in Requests \ {r} : ~InFlight(q) /\ copies[q] = {} /\ ~txn[q].open
  BY DEF AloneInv, InFlight, InFlightPhases, Inv, TypeOK
<1>2. stale' = {} /\ tainted' = tainted
  BY <1>1 DEF Outdated, AloneInv, Inv, TypeOK, BookkeepingOK
<1>3. \A q \in Requests : txn'[q].missed = {}
  BY <1>1 DEF Notify, AloneInv
<1>4. copies'[r] = {} /\ \A q \in Requests \ {r} : copies'[q] = copies[q]
  BY DEF Inv, TypeOK, BookkeepingOK
<1> QED BY <1>2, <1>3, <1>4, AloneStep

LEMMA CommitKeepsAlone ==
    ASSUME Inv, AloneInv, NEW r \in Requests, Commit(r) \/ PatchConfig(r)
    PROVE  AloneInv'
<1>1. InFlight(r)
  BY DEF Commit, PatchConfig, InFlight, InFlightPhases
<1>2. CASE Commit(r)
  <2> DEFINE own == NoTransaction
  <2>1. own.missed = {} /\ txn' = Notify(r, txn[r].written, own)
    BY <1>2 DEF NoTransaction, Commit, CommitTransaction
  <2> HIDE DEF own
  <2> QED BY <1>1, <1>2, <2>1, AnswerKeepsAlone DEF Commit
<1>3. CASE PatchConfig(r)
  <2> DEFINE update == IF requests[r].noop THEN Nothing ELSE One("config", requests[r].config)
             changed == Differing(db, update)
  <2>1. /\ txn' = Notify(r, changed, txn[r])
        /\ stale' = (stale \cup Outdated(r, changed)) \ {r}
    BY <1>3 DEF PatchConfig, WriteDirectly
  <2>2. txn[r].missed = {}
    BY DEF AloneInv
  <2> HIDE DEF changed
  <2> QED BY <1>1, <1>3, <2>1, <2>2, AnswerKeepsAlone DEF PatchConfig
<1> QED BY <1>2, <1>3

LEMMA CrashKeepsAlone ==
    ASSUME Inv, AloneInv, Crash
    PROVE  AloneInv'
<1>1. \A r \in Requests : ~InFlight(r)'
  <2> SUFFICES ASSUME NEW r \in Requests
               PROVE  ~InFlight(r)'
    OBVIOUS
  <2>1. requests'[r] = IF InFlight(r) THEN Finished(r, "crashed") ELSE requests[r]
    BY DEF Crash
  <2>2. Finished(r, "crashed").phase = "crashed"
    BY FinishedOK DEF AnsweredPhases
  <2> QED BY <2>1, <2>2 DEF InFlight, InFlightPhases
<1>2. \A r \in Requests : copies'[r] = {} /\ txn'[r].missed = {}
  BY DEF Crash, AbortAllTransactions, NoTransaction
<1>3. stale' = {} /\ ~tainted'
  BY DEF Crash, AloneInv
<1> QED BY <1>1, <1>2, <1>3 DEF AloneInv

\* The next request is loaded when no other is in flight.
LEMMA LoadKeepsAlone ==
    ASSUME Inv, AloneInv, Concurrency = 1, IsFiniteSet(Requests),
           NEW r \in Requests, NEW op, NEW arg, Load(r, op, arg)
    PROVE  AloneInv'
<1> DEFINE inFlight == {q \in Requests : InFlight(q)}
<1>1. inFlight = {}
  <2>1. IsFiniteSet(inFlight)
    BY FS_Subset
  <2>2. Cardinality(inFlight) \in Nat /\ Cardinality(inFlight) < 1
    BY <2>1, FS_CardinalityType DEF Load
  <2>3. Cardinality(inFlight) = 0
    BY <2>2
  <2> HIDE DEF inFlight
  <2> QED BY <2>1, <2>3, FS_EmptySet
<1>2. \A q \in Requests : ~InFlight(q) /\ copies[q] = {}
  BY <1>1 DEF AloneInv
<1>3. UNCHANGED <<txn, stale, tainted>>
  BY DEF Load
<1>4. \A q \in Requests \ {r} : requests'[q] = requests[q] /\ copies'[q] = copies[q]
  BY DEF Load, Update, Inv, TypeOK, BookkeepingOK
<1>5. \A q \in Requests \ {r} : ~InFlight(q)' /\ copies'[q] = {}
  BY <1>2, <1>4 DEF InFlight
<1>6. ~InFlight(r)' => copies'[r] = {}
  <2>1. CASE Admitted(op, db["item"])
    <3> DEFINE phase == IF Reads(op) = <<>> THEN "ready" ELSE "reading"
               loaded == [NewRequest EXCEPT !.op = op, !.arg = arg, !.phase = phase,
                                            !.item = HandleStatusChange(op, db["item"])]
    <3>1. Update(r, loaded) /\ loaded.phase = phase
      BY <2>1 DEF Load, NewRequest
    <3>2. phase \in InFlightPhases
      BY DEF InFlightPhases
    <3> HIDE DEF phase, loaded
    <3> QED BY <3>1, <3>2 DEF Update, Inv, TypeOK, InFlight
  <2>2. CASE ~Admitted(op, db["item"])
    BY <1>2, <2>2 DEF Load
  <2> QED BY <2>1, <2>2
<1>7. \A q \in Requests : txn'[q].missed = {}
  BY <1>3 DEF AloneInv
<1>8. stale' = {} /\ ~tainted'
  BY <1>3 DEF AloneInv
<1> QED BY <1>5, <1>6, <1>7, <1>8 DEF AloneInv

LEMMA StepKeepsAlone ==
    ASSUME Inv, AloneInv, Concurrency = 1, IsFiniteSet(Requests), [Next]_vars
    PROVE  AloneInv'
<1>1. CASE UNCHANGED vars
  BY <1>1 DEF vars, AloneInv, InFlight
<1>2. ASSUME NEW r \in Requests, Failover(r)
      PROVE  AloneInv'
  <2>1. InFlight(r) /\ Retry(r, requests[r]) /\ tainted' = tainted
    BY <1>2 DEF Failover, InFlight, InFlightPhases
  <2> QED BY <2>1, RetryKeepsAlone DEF GoesOn
<1>3. ASSUME NEW r \in Requests, Handle(r)
      PROVE  AloneInv'
  <2>1. CASE ReadShell(r) \/ ReadSubmodel(r) \/ ReadConfig(r)
    BY <2>1, ReadingKeepsAlone
  <2>2. CASE \/ PrepareAddSubmodel(r) \/ PrepareDeleteSubmodel(r)
             \/ PrepareAddElement(r) \/ PrepareDeleteElement(r)
             \/ PrepareModifyShell(r) \/ PrepareDeletePolicy(r) \/ PreparePatchConfig(r)
    BY <2>2, PreparingKeepsAlone
  <2>3. CASE \/ SaveItem(r) \/ SaveShell(r) \/ SaveSubmodel(r) \/ DropSubmodel(r)
             \/ CleanDesign(r) \/ FreezePermalinks(r) \/ InsertActivity(r) \/ DropAll(r)
    BY <2>3, CallbackKeepsAlone
  <2>4. CASE Begin(r) \/ Commit(r) \/ PatchConfig(r)
    BY <2>4, BeginKeepsAlone, CommitKeepsAlone
  <2> QED BY <1>3, <2>1, <2>2, <2>3, <2>4 DEF Handle
<1>4. CASE Next
  <2>1. CASE \E r \in Requests, op \in Operations :
               \E arg \in Arguments(op) : Load(r, op, arg)
    BY <2>1, LoadKeepsAlone
  <2>2. CASE Quiescent
    BY <1>1, <2>2 DEF Quiescent
  <2> QED BY <1>2, <1>3, <1>4, <2>1, <2>2, CrashKeepsAlone DEF Next
<1> QED BY <1>1, <1>4

LEMMA InitialAlone ==
    ASSUME Init
    PROVE  AloneInv
BY DEF Init, InitTransactions, NoTransaction, NewRequest, AloneInv, InFlight, InFlightPhases

LEMMA InitialIsAtomic ==
    ASSUME Init
    PROVE  Atomic!Init
<1>1. PICK item \in InitialItems : db = InitialStore(item)
  BY DEF Init
<1>2. /\ Atomic!Documents = Documents /\ Atomic!Paths = Paths
      /\ Atomic!Items = Items
  BY DEF Atomic!Documents, Documents, Atomic!OwnDocuments, OwnDocuments,
         Atomic!Paths, Paths, Atomic!SubmodelPaths, SubmodelPaths,
         Atomic!ElementPaths, ElementPaths, Atomic!Items, Items,
         Atomic!Statuses, Statuses, Atomic!StatusChanges, StatusChanges
<1>3. Atomic!InitialItems = InitialItems
  BY <1>2 DEF Atomic!InitialItems, InitialItems
<1>4. Atomic!InitialStore(item) = InitialStore(item)
  BY <1>2 DEF Atomic!InitialStore, InitialStore
<1> QED BY <1>1, <1>3, <1>4 DEF Atomic!Init

\* With one request at a time the handlers implement AtomicDocuments: every
\* behaviour of theirs, with its conflicts, second runs, failovers and crashes,
\* is one of atomic operations that follow each other.
THEOREM OneAtATimeIsAtomic ==
    ASSUME Concurrency = 1, IsFiniteSet(Requests)
    PROVE  Spec => AtomicSpec
<1>1. Init => AloneInv /\ Atomic!Init
  BY InitialAlone, InitialIsAtomic
<1>2. Inv /\ AloneInv /\ [Next]_vars => AloneInv'
  BY StepKeepsAlone
<1>3. AloneInv => ~tainted
  BY DEF AloneInv
<1>4. Inv /\ ViewsOK /\ FreshInv /\ [Next]_vars => [tainted' \/ Atomic!Next]_db
  BY StepIsAtomic
<1>5. Spec => [](Inv /\ ViewsOK /\ FreshInv)
  BY FreshInvariant
<1>6. Spec => Init /\ [][Next]_vars
  BY PTL DEF Spec
<1> QED BY <1>1, <1>2, <1>3, <1>4, <1>5, <1>6, PTL DEF AtomicSpec, Atomic!Spec

-----------------------------------------------------------------------------
(* What AtomicDocuments guarantees, the handlers guarantee                 *)

\* Of MCDocuments' parts only the promise is of interest here; nothing happens
\* in the others.
Facts == INSTANCE Documents_proofs WITH
    TemplateIds <- {}, PassportIds <- {}, OwnMedia <- {}, OtherMedia <- {}, Designs <- {},
    FormerSubmodels <- {}, FormerMedia <- {}, FormerLinks <- {},
    MaxSteps <- 0, MaxVersion <- 0, None <- Absent,
    part <- "promise", status <- {}, env <- {}, stored <- {}, files <- {}, configs <- {},
    upis <- {}, request <- {}, broken <- {}, steps <- 0,
    former <- {}, formerShell <- {}, formerSubmodels <- {},
    document <- {}, history <- {}, job <- {}, answer <- {}, asked <- {}, aborts <- 0,
    form <- {}

\* The operations of AtomicDocuments, as this module and the facts name them.
LEMMA SameDocuments ==
    /\ Facts!Documents = Atomic!Documents
    /\ Facts!Init <=> Atomic!Init
    /\ Facts!EnvironmentConsistent <=> Atomic!EnvironmentConsistent
BY DEF Facts!Documents, Facts!OwnDocuments, Facts!Init, Facts!InitialItems, Facts!InitialStore,
       Facts!Items, Facts!Statuses, Facts!StatusChanges, Facts!EnvironmentConsistent,
       Facts!Env, Facts!LivePaths, Facts!Paths, Facts!SubmodelPaths, Facts!ElementPaths,
       Atomic!Documents, Atomic!OwnDocuments, Atomic!Init, Atomic!InitialItems,
       Atomic!InitialStore, Atomic!Items, Atomic!Statuses, Atomic!StatusChanges,
       Atomic!EnvironmentConsistent, Atomic!Env, Atomic!LivePaths, Atomic!Paths,
       Atomic!SubmodelPaths, Atomic!ElementPaths

\* The types that the assumptions on the constants are about.
LEMMA SameTypes ==
    /\ Facts!OwnDocuments = OwnDocuments /\ Facts!AllOperations = AllOperations
    /\ Facts!Statuses = Statuses /\ Facts!Items = Items /\ Facts!Shells = Shells
    /\ Facts!SubmodelDocuments = SubmodelDocuments /\ Facts!Configs = Configs
    /\ Facts!Permalinks = Permalinks
BY DEF Facts!OwnDocuments, Facts!AllOperations, Facts!EditOperations, Facts!StatusOperations,
       Facts!Statuses, Facts!Items, Facts!StatusChanges, Facts!Shells,
       Facts!SubmodelDocuments, Facts!Configs, Facts!Permalinks, Facts!Paths,
       Facts!SubmodelPaths, Facts!ElementPaths,
       OwnDocuments, AllOperations, EditOperations, StatusOperations, Statuses, Items,
       StatusChanges, Shells, SubmodelDocuments, Configs, Permalinks, Paths,
       SubmodelPaths, ElementPaths

\* What the facts assume of their constants.
LEMMA FactsAssumptions ==
    /\ Facts!DocumentAssumptions
    /\ Facts!DocumentsAssumption /\ Facts!AbsentAssumption
<1>1. Facts!DocumentAssumptions
  BY DEF Facts!DocumentAssumptions, Facts!Creation!CreationAssumption
<1>2. Facts!DocumentsAssumption /\ Facts!AbsentAssumption
  BY SameTypes, DocumentsAssumption, AbsentAssumption
     DEF Facts!DocumentsAssumption, Facts!AbsentAssumption
<1> QED BY <1>1, <1>2

LEMMA SameOperations == Facts!Next <=> Atomic!Next
<1>1. ASSUME NEW op, NEW arg
      PROVE  /\ Facts!Arguments(op) = Atomic!Arguments(op)
             /\ Facts!Perform(op, arg) <=> Atomic!Perform(op, arg)
  BY DEF Facts!Arguments, Facts!Paths, Facts!SubmodelPaths, Facts!ElementPaths,
         Facts!Perform, Facts!Admitted, Facts!EditOperations, Facts!StatusOperations,
         Facts!MayPublish, Facts!MayArchive, Facts!MayRestore, Facts!HandleStatusChange,
         Facts!PublishDpp, Facts!ArchiveDpp, Facts!RestoreDpp, Facts!Env, Facts!Can,
         Facts!AddSubmodel, Facts!DeleteSubmodel, Facts!AddElement, Facts!DeleteElement,
         Facts!ModifyShell, Facts!DeletePolicy, Facts!PatchConfig, Facts!ChangeStatus,
         Facts!DeletePassport, Facts!IncreaseVersion, Facts!WithSubmodel,
         Facts!WithoutSubmodel, Facts!WithoutPolicies, Facts!IsUnder, Facts!WithElement,
         Facts!WithoutElement, Facts!NewSubmodel, Facts!WithoutDesign, Facts!NewPolicies,
         Facts!WithPolicies, Facts!WithoutPolicy, Facts!Patches, Facts!Documents,
         Facts!OwnDocuments,
         Atomic!Arguments, Atomic!Paths, Atomic!SubmodelPaths, Atomic!ElementPaths,
         Atomic!Perform, Atomic!Admitted, Atomic!EditOperations, Atomic!StatusOperations,
         Atomic!MayPublish, Atomic!MayArchive, Atomic!MayRestore, Atomic!HandleStatusChange,
         Atomic!PublishDpp, Atomic!ArchiveDpp, Atomic!RestoreDpp, Atomic!Env, Atomic!Can,
         Atomic!AddSubmodel, Atomic!DeleteSubmodel, Atomic!AddElement, Atomic!DeleteElement,
         Atomic!ModifyShell, Atomic!DeletePolicy, Atomic!PatchConfig, Atomic!ChangeStatus,
         Atomic!DeletePassport, Atomic!IncreaseVersion, Atomic!WithSubmodel,
         Atomic!WithoutSubmodel, Atomic!WithoutPolicies, Atomic!IsUnder, Atomic!WithElement,
         Atomic!WithoutElement, Atomic!NewSubmodel, Atomic!WithoutDesign, Atomic!NewPolicies,
         Atomic!WithPolicies, Atomic!WithoutPolicy, Atomic!Patches, Atomic!Documents,
         Atomic!OwnDocuments
<1> QED BY <1>1 DEF Facts!Next, Atomic!Next

\* A stale commit is never forgotten.
LEMMA TaintStays ==
    ASSUME [Next]_vars, tainted
    PROVE  tainted'
<1>1. ASSUME NEW r \in Requests, Handle(r)
      PROVE  tainted'
  <2>1. CASE ReadShell(r) \/ ReadSubmodel(r) \/ ReadConfig(r)
    BY <2>1 DEF ReadShell, ReadSubmodel, ReadConfig, Refuse, Keep
  <2>2. CASE \/ PrepareAddSubmodel(r) \/ PrepareDeleteSubmodel(r)
             \/ PrepareAddElement(r) \/ PrepareDeleteElement(r)
             \/ PrepareModifyShell(r) \/ PrepareDeletePolicy(r) \/ PreparePatchConfig(r)
    BY <2>2 DEF PrepareAddSubmodel, PrepareDeleteSubmodel, PrepareAddElement,
       PrepareDeleteElement, PrepareModifyShell, PrepareDeletePolicy, PreparePatchConfig,
       Refuse, Ready
  <2>3. \A request, update : Save(r, request, update) => tainted'
    BY DEF Save
  <2>4. CASE SaveItem(r) \/ SaveShell(r) \/ SaveSubmodel(r) \/ DropSubmodel(r)
    BY <2>3, <2>4 DEF SaveItem, SaveShell, SaveSubmodel, DropSubmodel
  <2>5. CASE FreezePermalinks(r) \/ DropAll(r)
    BY <2>3, <2>5 DEF FreezePermalinks, DropAll
  <2>6. CASE \/ Begin(r) \/ CleanDesign(r) \/ InsertActivity(r)
             \/ Commit(r) \/ PatchConfig(r)
    BY <2>6 DEF Begin, CleanDesign, InsertActivity, Commit, PatchConfig
  <2> QED BY <1>1, <2>1, <2>2, <2>4, <2>5, <2>6 DEF Handle
<1> QED BY <1>1 DEF Next, vars, Load, Failover, Crash, Quiescent

\* As long as no stale request has committed, the documents are well-formed and
\* fit together.
FitInv == ~tainted => Facts!Inv

LEMMA StepKeepsFit ==
    ASSUME FitInv, [tainted' \/ Atomic!Next]_db, tainted => tainted'
    PROVE  FitInv'
<1> SUFFICES ASSUME ~tainted'
             PROVE  Facts!Inv'
  BY DEF FitInv
<1>1. Facts!Inv
  BY DEF FitInv
<1>2. CASE UNCHANGED db
  BY <1>1, <1>2 DEF Facts!Inv, Facts!TypeOK, Facts!StoreOK, Facts!EnvironmentConsistent,
     Facts!LivePaths, Facts!Env
<1>3. CASE Atomic!Next
  <2>1. PICK op \in Operations : \E arg \in Facts!Arguments(op) : Facts!Perform(op, arg)
    BY <1>3, SameOperations DEF Facts!Next
  <2> QED BY <1>1, <2>1, Facts!Step, FactsAssumptions
       DEF Facts!DocumentAssumptions, Facts!DocumentsAssumption, Facts!AbsentAssumption
<1> QED BY <1>2, <1>3

\* Until a request commits a stale copy, the documents of a passport fit
\* together in every state, however the requests interleave: the environment
\* lists the submodels that exist and that the shell references, policies and
\* design entries point into it, and without the item nothing is left.
THEOREM FreshDocumentsFit == Spec => [](~tainted => Atomic!EnvironmentConsistent)
<1>1. Init => FitInv
  BY InitialIsAtomic, SameDocuments, SameTypes, Facts!InitConsistent, FactsAssumptions
     DEF FitInv, Facts!Inv, Facts!DocumentAssumptions, Facts!DocumentsAssumption,
         Facts!AbsentAssumption
<1>2. Inv /\ ViewsOK /\ FreshInv /\ FitInv /\ [Next]_vars => FitInv'
  BY StepIsAtomic, TaintStays, StepKeepsFit
<1>3. FitInv => (~tainted => Atomic!EnvironmentConsistent)
  BY SameDocuments DEF FitInv, Facts!Inv
<1> QED BY <1>1, <1>2, <1>3, FreshInvariant, PTL DEF Spec

=============================================================================
