----------------------- MODULE DigitalProductDocuments -----------------------
(***************************************************************************)
(* The write path of one digital product document (a passport) and of the  *)
(* documents it owns: its asset administration shell (aas), its submodels, *)
(* its presentation configuration, its permalink and its unique product    *)
(* identifier (upi), each a MongoDB document of its own.                   *)
(*                                                                         *)
(* Every HTTP handler has the same shape, and this module keeps it:        *)
(*   Load      the item is read and its status is guarded,                 *)
(*   Read*     further documents are read, one await each,                 *)
(*   Prepare   permissions are checked and the copies changed in memory,   *)
(*   Begin     session.withTransaction starts its callback,                *)
(*   Save* ... the callback saves whole copies, one await each,            *)
(*   Commit    the transaction commits and the handler answers.            *)
(* The reads happen outside the transaction; the callback is run again,    *)
(* on copies it has already changed, when the transaction is aborted.      *)
(***************************************************************************)
EXTENDS DocumentDomain, FiniteSets

CONSTANTS
    Requests,           \* the HTTP requests, each handled once
    Concurrency,        \* bound: requests in flight at the same time
    MaxAttempts,        \* bound: transactions withTransaction starts in 120 s
    MaxFaults           \* bound: failovers and server crashes in a behaviour

VARIABLES
    db, txn,            \* the store and its transactions
    requests,           \* the handlers' local state
    activities,         \* activity documents each request has left
    swept,              \* requests whose activities a deletion removed
    copies,             \* documents a request holds a copy of
    stale,              \* requests with a copy that somebody changed since
    tainted,            \* whether a request has committed while stale
    faults              \* failovers and crashes so far

INSTANCE MongoTransactions WITH Sessions <- Requests

Atomic == INSTANCE AtomicDocuments

vars == <<db, txn, requests, activities, swept, copies, stale, tainted, faults>>
audit == <<activities, swept>>

ASSUME BoundsAssumption ==
    /\ Concurrency \in Nat \ {0}
    /\ MaxAttempts \in Nat \ {0}
    /\ MaxFaults \in Nat

-----------------------------------------------------------------------------
(* The handlers' scripts                                                   *)

\* The documents a handler reads after the item, in order.
Reads(op) ==
    CASE op \in {"addSubmodel", "deletePolicy"}    -> <<"aas">>
      [] op \in {"deleteSubmodel", "modifyShell"}  -> <<"aas", "submodel">>
      [] op \in {"addElement", "deleteElement"}    -> <<"submodel", "aas">>
      [] op = "patchConfig"                        -> <<"aas", "config">>
      [] OTHER                                     -> <<>>

\* The steps of the transaction callback, in order.
Callback(op) ==
    CASE op = "addSubmodel"    -> <<"item", "submodel", "aas", "activity">>
      [] op = "deleteSubmodel" ->
           <<"dropSubmodel", "aas", "item", "activity", "design">>
      [] op = "addElement"     -> <<"submodel", "activity">>
      [] op = "deleteElement"  -> <<"design", "submodel", "aas", "activity">>
      [] op \in {"modifyShell", "deletePolicy"} -> <<"aas", "activity">>
      [] op = "publish"        -> <<"item", "permalink", "activity">>
      [] op \in {"archive", "restore"} -> <<"item", "activity">>
      [] OTHER                 -> <<"dropAll">>

NewRequest ==
    [op |-> "none", arg |-> <<>>, phase |-> "idle", step |-> 1, attempts |-> 0,
     item |-> Absent, aas |-> Absent, submodel |-> Absent, config |-> Absent,
     history |-> {}, noop |-> FALSE]

InFlightPhases == {"reading", "ready", "open"}
AnsweredPhases == {"ok", "refused", "failed", "crashed"}

InFlight(r) == requests[r].phase \in InFlightPhases
Answered(r) == requests[r].phase \in AnsweredPhases

NextStep(r) == Callback(requests[r].op)[requests[r].step]
AtStep(r, name) ==
    /\ requests[r].phase = "open"
    /\ requests[r].step <= Len(Callback(requests[r].op))
    /\ NextStep(r) = name

Argument(r) == requests[r].arg
Root(r) == requests[r].arg[1]

-----------------------------------------------------------------------------
(* Bookkeeping shared by the actions                                       *)

Update(r, request) == requests' = [requests EXCEPT ![r] = request]

\* The handler answers, or is lost in a crash; its copies are gone.
Finished(r, outcome) ==
    [NewRequest EXCEPT !.op = requests[r].op, !.phase = outcome,
                       !.noop = requests[r].noop]

Finish(r, outcome) ==
    /\ Update(r, Finished(r, outcome))
    /\ copies' = [copies EXCEPT ![r] = {}]
    /\ stale' = stale \ {r}

\* The handler throws before its transaction.
Refuse(r) ==
    /\ Finish(r, "refused")
    /\ UNCHANGED <<db, txn, audit, tainted, faults>>

\* Requests other than r whose copies the change of these documents outdates.
Outdated(r, changed) == {q \in Requests \ {r} : copies[q] \cap changed # {}}

\* The transaction is aborted by a write conflict or a failover: the driver
\* runs the callback again, on the copies it has left, for up to 120 seconds.
Retry(r, request) ==
    /\ AbortTransaction(r)
    /\ IF request.attempts < MaxAttempts
       THEN /\ Update(r, [request EXCEPT !.phase = "ready", !.step = 1])
            /\ UNCHANGED <<copies, stale>>
       ELSE Finish(r, "failed")

\* Mutant: the session is not ended when the callback throws.
ThrowInSession(r) ==
    /\ UNCHANGED <<db, txn>>
    /\ Finish(r, "failed")

\* The callback throws: the transaction is aborted and the error answered.
Throw(r) ==
    /\ AbortTransaction(r)
    /\ Finish(r, "failed")

Advanced(request) == [request EXCEPT !.step = @ + 1]

\* One save or delete inside the callback, of the copies in request.
Save(r, request, update) ==
    /\ \/ /\ WriteConflict(r, update)
          /\ Retry(r, request)
       \/ /\ WriteInTransaction(r, update)
          /\ Update(r, Advanced(request))
          /\ UNCHANGED <<copies, stale>>
    /\ UNCHANGED <<audit, tainted, faults>>

One(d, value) == [x \in {d} |-> value]
Nothing == [x \in {} |-> Absent]

-----------------------------------------------------------------------------
(* Loading the item: ownership, archive guard and status machine           *)

Load(r, op, arg) ==
    /\ requests[r].phase = "idle"
    /\ Cardinality({q \in Requests : InFlight(q)}) < Concurrency
    /\ IF Admitted(op, db["item"])
       THEN /\ Update(r, [NewRequest EXCEPT
                            !.op = op, !.arg = arg,
                            !.phase = IF Reads(op) = <<>> THEN "ready" ELSE "reading",
                            !.item = HandleStatusChange(op, db["item"])])
            /\ copies' = [copies EXCEPT ![r] = {"item"}]
       ELSE /\ Update(r, [NewRequest EXCEPT !.op = op, !.phase = "refused"])
            /\ UNCHANGED copies
    /\ UNCHANGED <<db, txn, audit, stale, tainted, faults>>

-----------------------------------------------------------------------------
(* Reading the other documents, outside any transaction                    *)

AtRead(r, name) ==
    /\ requests[r].phase = "reading"
    /\ requests[r].step <= Len(Reads(requests[r].op))
    /\ Reads(requests[r].op)[requests[r].step] = name

Keep(r, document, request) ==
    /\ Update(r, Advanced(request))
    /\ copies' = [copies EXCEPT ![r] = @ \cup {document}]
    /\ UNCHANGED <<db, txn, audit, stale, tainted, faults>>

\* getFirstAssetAdministrationShell / loadAbility
ReadShell(r) ==
    /\ AtRead(r, "aas")
    /\ IF db["aas"] = Absent
       THEN Refuse(r)
       ELSE Keep(r, "aas", [requests[r] EXCEPT !.aas = db["aas"]])

\* findSubmodelByIdOrFail; modifyShell reads all submodels and needs none.
ReadSubmodel(r) ==
    /\ AtRead(r, "submodel")
    /\ LET found == IF Root(r) \in requests[r].item.env THEN db[Root(r)] ELSE Absent
       IN IF found = Absent /\ requests[r].op # "modifyShell"
          THEN Refuse(r)
          ELSE Keep(r, Root(r), [requests[r] EXCEPT !.submodel = found])

\* requireOwned
ReadConfig(r) ==
    /\ AtRead(r, "config")
    /\ IF db["config"] = Absent
       THEN Refuse(r)
       ELSE Keep(r, "config", [requests[r] EXCEPT !.config = db["config"]])

-----------------------------------------------------------------------------
(* Checking permissions and changing the copies, in memory                 *)

Prepared(r, op) ==
    /\ requests[r].op = op
    /\ requests[r].phase = "reading"
    /\ requests[r].step = Len(Reads(op)) + 1

Ready(r, request) ==
    /\ Update(r, [request EXCEPT !.phase = "ready", !.step = 1])
    /\ UNCHANGED <<db, txn, audit, copies, stale, tainted, faults>>

PrepareAddSubmodel(r) ==
    /\ Prepared(r, "addSubmodel")
    /\ LET s == Root(r) req == requests[r] IN
       IF s \in req.item.env
       THEN Refuse(r)
       ELSE Ready(r, [req EXCEPT
              !.item.env = @ \cup {s},
              !.aas = IncreaseVersion(WithSubmodel(@, s)),
              !.submodel = NewSubmodel])

PrepareDeleteSubmodel(r) ==
    /\ Prepared(r, "deleteSubmodel")
    /\ IF Can(requests[r].aas.policies, Argument(r))
       THEN Ready(r, requests[r])
       ELSE Refuse(r)

PrepareAddElement(r) ==
    /\ Prepared(r, "addElement")
    /\ LET req == requests[r] e == Argument(r)[2] IN
       IF Can(req.aas.policies, <<Root(r)>>) /\ e \notin req.submodel.elements
       THEN Ready(r, [req EXCEPT !.submodel = WithElement(@, e)])
       ELSE Refuse(r)

\* The policies of the element go later, when the event bus is notified.
PrepareDeleteElement(r) ==
    /\ Prepared(r, "deleteElement")
    /\ LET req == requests[r] e == Argument(r)[2] IN
       IF e \in req.submodel.elements /\ Can(req.aas.policies, Argument(r))
       THEN Ready(r, [req EXCEPT !.submodel = WithoutElement(@, e),
                                 !.aas = IncreaseVersion(@)])
       ELSE Refuse(r)

PrepareModifyShell(r) ==
    /\ Prepared(r, "modifyShell")
    /\ LET req == requests[r]
           added == NewPolicies(req.submodel, req.arg)
       IN Ready(r, [req EXCEPT !.noop = added \subseteq req.aas.policies,
                               !.aas = WithPolicies(@, added)])

PrepareDeletePolicy(r) ==
    /\ Prepared(r, "deletePolicy")
    /\ LET req == requests[r] IN
       Ready(r, [req EXCEPT !.noop = req.arg \notin req.aas.policies,
                            !.aas = WithoutPolicy(@, req.arg)])

PreparePatchConfig(r) ==
    /\ Prepared(r, "patchConfig")
    /\ IF Can(requests[r].aas.policies, Argument(r))
       THEN \E patched \in Patches(requests[r].config, Argument(r)) :
              Ready(r, [requests[r] EXCEPT !.noop = (patched = requests[r].config),
                                           !.config = patched])
       ELSE Refuse(r)

-----------------------------------------------------------------------------
(* The transaction callback                                                *)

\* A deletion removes the activities that its snapshot shows.
Begin(r) ==
    /\ requests[r].phase = "ready"
    /\ requests[r].op # "patchConfig"
    /\ StartTransaction(r)
    /\ Update(r, [requests[r] EXCEPT
         !.phase = "open", !.attempts = @ + 1,
         !.history = IF requests[r].op = "deletePassport"
                     THEN {q \in Requests : activities[q] > 0} ELSE {}])
    /\ UNCHANGED <<audit, copies, stale, tainted, faults>>

\* deleteSubmodel splices the environment inside the callback: a second run
\* finds the submodel gone from the copy and throws.
SaveItem(r) ==
    /\ AtStep(r, "item")
    /\ LET req == requests[r] IN
       IF req.op = "deleteSubmodel"
       THEN LET spliced == [req EXCEPT !.item.env = @ \ {Root(r)}] IN
            IF Root(r) \in req.item.env
            THEN Save(r, spliced, One("item", spliced.item))
            ELSE Throw(r) /\ UNCHANGED <<audit, tainted, faults>>
       ELSE Save(r, req, One("item", req.item))

\* Mutant: the reference and the policies of the submodel stay.
SaveShellAsLoaded(r) ==
    /\ AtStep(r, "aas")
    /\ Save(r, requests[r], One("aas", requests[r].aas))

SaveShell(r) ==
    /\ AtStep(r, "aas")
    /\ LET req == IF requests[r].op = "deleteSubmodel"
                  THEN [requests[r] EXCEPT !.aas = WithoutSubmodel(@, Root(r))]
                  ELSE requests[r]
       IN Save(r, req, One("aas", req.aas))

SaveSubmodel(r) ==
    /\ AtStep(r, "submodel")
    /\ Save(r, requests[r], One(Root(r), requests[r].submodel))

DropSubmodel(r) ==
    /\ AtStep(r, "dropSubmodel")
    /\ Save(r, requests[r], One(Root(r), Absent))

\* PresentationDeletionObserver reads the configuration in the session;
\* SecurityDeletionObserver removes policies from the copy of the aas.
CleanDesign(r) ==
    /\ AtStep(r, "design")
    /\ LET req == requests[r]
           config == txn[r].view["config"]
           update == IF config = Absent THEN Nothing
                     ELSE One("config", WithoutDesign(config, req.arg))
           cleaned == IF req.op = "deleteElement"
                      THEN [req EXCEPT !.aas = WithoutPolicies(@, req.arg)]
                      ELSE req
       IN \/ /\ WriteConflict(r, update)
             /\ Retry(r, req)
          \/ /\ WriteInTransaction(r, update)
             /\ Update(r, Advanced(cleaned))
             /\ copies' = [copies EXCEPT ![r] = @ \cup {"config"}]
             /\ stale' = IF "config" \in txn[r].missed
                         THEN stale \cup {r} ELSE stale
    /\ UNCHANGED <<audit, tainted, faults>>

\* freezeAllForPassport finds the permalinks through their configurations.
FreezePermalinks(r) ==
    /\ AtStep(r, "permalink")
    /\ LET view == txn[r].view IN
       Save(r, requests[r],
            IF view["config"] # Absent /\ view["permalink"] = "open"
            THEN One("permalink", "frozen") ELSE Nothing)

\* Mutants: the activity is taken for inserted when the callback runs again,
\* or every run inserts one of its own.
InsertInFirstRun(r) ==
    /\ AtStep(r, "activity")
    /\ activities' = [activities EXCEPT
                        ![r] = IF requests[r].attempts = 1 THEN @ + 1 ELSE @]
    /\ Update(r, Advanced(requests[r]))
    /\ UNCHANGED <<db, txn, copies, stale, swept, tainted, faults>>
InsertInEveryRun(r) ==
    /\ AtStep(r, "activity")
    /\ activities' = [activities EXCEPT ![r] = @ + 1]
    /\ Update(r, Advanced(requests[r]))
    /\ UNCHANGED <<db, txn, copies, stale, swept, tainted, faults>>

\* createMany hands its options to map and not to insertMany: the activity is
\* inserted outside the transaction.  deleteSubmodel creates a new activity in
\* every run of its callback, the others insert the same _id again.
InsertActivity(r) ==
    /\ AtStep(r, "activity")
    /\ IF requests[r].noop
       THEN /\ Update(r, Advanced(requests[r]))
            /\ UNCHANGED <<db, txn, activities, copies, stale>>
       ELSE IF requests[r].op # "deleteSubmodel" /\ activities[r] > 0
       THEN /\ Throw(r)
            /\ UNCHANGED activities
       ELSE /\ activities' = [activities EXCEPT ![r] = @ + 1]
            /\ Update(r, Advanced(requests[r]))
            /\ UNCHANGED <<db, txn, copies, stale>>
    /\ UNCHANGED <<swept, tainted, faults>>

\* Mutant: the unique product identifier stays.
DropAllButIdentifier(r) ==
    /\ AtStep(r, "dropAll")
    /\ Save(r, requests[r],
            [d \in {"aas", "item", "config", "permalink"}
                     \cup requests[r].item.env |-> Absent])

\* deletePassport: the documents of the environment as it was loaded, the
\* item, its identifier, its configuration and the permalink found through it.
DropAll(r) ==
    /\ AtStep(r, "dropAll")
    /\ LET doomed == {"aas", "item", "upi", "config"} \cup requests[r].item.env
                       \cup (IF txn[r].view["config"] # Absent
                             THEN {"permalink"} ELSE {})
       IN Save(r, requests[r], [d \in doomed |-> Absent])

Commit(r) ==
    /\ requests[r].phase = "open"
    /\ requests[r].step = Len(Callback(requests[r].op)) + 1
    /\ CommitTransaction(r)
    /\ Update(r, Finished(r, "ok"))
    /\ copies' = [copies EXCEPT ![r] = {}]
    /\ stale' = (stale \cup Outdated(r, txn[r].written)) \ {r}
    /\ tainted' = (tainted \/ r \in stale)
    /\ activities' = [q \in Requests |->
                        IF q \in requests[r].history THEN 0 ELSE activities[q]]
    /\ swept' = swept \cup requests[r].history
    /\ UNCHANGED faults

\* applyPatch saves the configuration without a transaction, and not at all
\* when the patch changed nothing in its copy.
PatchConfig(r) ==
    /\ requests[r].phase = "ready"
    /\ requests[r].op = "patchConfig"
    /\ LET update == IF requests[r].noop THEN Nothing
                     ELSE One("config", requests[r].config) IN
       /\ WriteDirectly(r, update)
       /\ stale' = (stale \cup Outdated(r, Differing(db, update))) \ {r}
    /\ Update(r, Finished(r, "ok"))
    /\ copies' = [copies EXCEPT ![r] = {}]
    /\ tainted' = (tainted \/ r \in stale)
    /\ UNCHANGED <<audit, faults>>

-----------------------------------------------------------------------------
(* Faults                                                                  *)

\* A transient error, such as the failover of the replica set's primary.
Failover(r) ==
    /\ requests[r].phase = "open"
    /\ faults < MaxFaults
    /\ Retry(r, requests[r])
    /\ faults' = faults + 1
    /\ UNCHANGED <<audit, tainted>>

\* The server process dies: the requests in flight are lost.
Crash ==
    /\ faults < MaxFaults
    /\ \E r \in Requests : InFlight(r)
    /\ AbortAllTransactions
    /\ requests' = [r \in Requests |->
                      IF InFlight(r) THEN Finished(r, "crashed") ELSE requests[r]]
    /\ copies' = [r \in Requests |-> {}]
    /\ stale' = {}
    /\ faults' = faults + 1
    /\ UNCHANGED <<audit, tainted>>

-----------------------------------------------------------------------------
Init ==
    /\ InitTransactions
    /\ requests = [r \in Requests |-> NewRequest]
    /\ activities = [r \in Requests |-> 0]
    /\ swept = {}
    /\ copies = [r \in Requests |-> {}]
    /\ stale = {}
    /\ tainted = FALSE
    /\ faults = 0
    /\ \E item \in InitialItems : db = InitialStore(item)

Handle(r) ==
    \/ ReadShell(r)            \/ ReadSubmodel(r)         \/ ReadConfig(r)
    \/ PrepareAddSubmodel(r)   \/ PrepareDeleteSubmodel(r)
    \/ PrepareAddElement(r)    \/ PrepareDeleteElement(r)
    \/ PrepareModifyShell(r)   \/ PrepareDeletePolicy(r)
    \/ PreparePatchConfig(r)
    \/ Begin(r)                \/ SaveItem(r)             \/ SaveShell(r)
    \/ SaveSubmodel(r)         \/ DropSubmodel(r)         \/ CleanDesign(r)
    \/ FreezePermalinks(r)     \/ InsertActivity(r)       \/ DropAll(r)
    \/ Commit(r)               \/ PatchConfig(r)

\* Every request has been answered; the server waits for more.
Quiescent ==
    /\ \A r \in Requests : Answered(r)
    /\ UNCHANGED vars

Next ==
    \/ \E r \in Requests : Handle(r) \/ Failover(r)
    \/ \E r \in Requests, op \in Operations :
         \E arg \in Arguments(op) : Load(r, op, arg)
    \/ Crash
    \/ Quiescent

\* A handler that can take its next step takes it: the event loop runs every
\* settled promise.  Nothing makes clients send requests or faults happen.
Fairness == \A r \in Requests : WF_vars(Handle(r))

Spec == Init /\ [][Next]_vars /\ Fairness

-----------------------------------------------------------------------------
(* Properties                                                              *)

RequestTypes ==
    [op : AllOperations \cup {"none"}, arg : Paths \cup {<<>>},
     phase : {"idle"} \cup InFlightPhases \cup AnsweredPhases,
     step : Nat \ {0}, attempts : Nat,
     item : Items \cup {Absent}, aas : Shells \cup {Absent},
     submodel : SubmodelDocuments \cup {Absent}, config : Configs \cup {Absent},
     history : SUBSET Requests, noop : BOOLEAN]

TransactionOK(t) ==
    /\ t = [open |-> t.open, view |-> t.view, written |-> t.written, missed |-> t.missed]
    /\ t.open \in BOOLEAN
    /\ StoreOK(t.view)
    /\ t.written \subseteq Documents
    /\ t.missed \subseteq Documents

TransactionsOK ==
    /\ txn = [r \in Requests |-> txn[r]]
    /\ \A r \in Requests : TransactionOK(txn[r])

BookkeepingOK ==
    /\ activities \in [Requests -> Nat]
    /\ swept \subseteq Requests
    /\ copies \in [Requests -> SUBSET Documents]
    /\ stale \subseteq Requests
    /\ tainted \in BOOLEAN
    /\ faults \in Nat

\* The types of the store, of the transactions' views of it, and of the
\* handlers' copies; a session has a transaction open exactly while its
\* handler is in the callback.
TypeOK ==
    /\ StoreOK(db)
    /\ TransactionsOK
    /\ requests \in [Requests -> RequestTypes]
    /\ \A r \in Requests : txn[r].open <=> requests[r].phase = "open"
    /\ BookkeepingOK

\* A change that a client was told is done is in the activity history, unless
\* it changed nothing or the whole document was deleted: the handlers insert
\* the activity before they answer (environment.service.ts), and an abort and
\* a second run of the callback must not lose it.
CommittedIsLogged ==
    \A r \in Requests :
      /\ requests[r].phase = "ok"
      /\ requests[r].op \notin {"patchConfig", "deletePassport"}
      /\ ~requests[r].noop
      => activities[r] > 0 \/ r \in swept

\* However often the driver runs a callback again, a request leaves at most
\* one activity, though createMany inserts it outside the transaction.
LoggedOnce == \A r \in Requests : activities[r] <= 1

\* A request that commits while every copy it holds is current does what the
\* operation does when it runs alone, in one step and as a whole, through
\* conflicts, retries, failovers and crashes: the gap between a handler's reads
\* and its transaction is the only thing that can break the promise of
\* AtomicDocuments.
FreshIsAtomic == [][tainted' \/ Atomic!Next]_db

\* With one request at a time the handlers implement AtomicDocuments.
AtomicSpec == Atomic!Spec

\* Every request that a handler has started is answered (or lost in a crash):
\* conflicting transactions do not abort each other for ever.
EveryRequestAnswered ==
    \A r \in Requests : InFlight(r) ~> Answered(r)

StatusOf(store) == Atomic!StatusOf(store)

\* passport.service.ts: "Only passports with the status "Draft" can be deleted".
OnlyDraftsDeleted ==
    [][ db["item"] # Absent /\ db'["item"] = Absent
          => db["item"].status = "Draft" ]_vars

\* digital-product-document.service.ts: "Cannot modify an archived digital
\* product document".
ArchivedIsReadOnly ==
    [][ StatusOf(db) = "Archived" => Atomic!Content(db') = Atomic!Content(db) ]_vars

\* lifecycle.md: a published document can be edited and archived; no operation
\* makes it a draft again.
PublishedStaysPublic ==
    [][ StatusOf(db) = "Published" => StatusOf(db') # "Draft" ]_vars

\* lifecycle.md: the one operation on an archived document is to restore it;
\* its presentation configuration stays as it is.
ArchivedDesignStays ==
    [][ StatusOf(db) = "Archived" /\ StatusOf(db') = "Archived"
          => db'["config"] = db["config"] ]_vars

=============================================================================
