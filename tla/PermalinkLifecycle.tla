-------------------------- MODULE PermalinkLifecycle --------------------------
(***************************************************************************)
(* The permalinks of one passport: their creation with a presentation      *)
(* configuration, changes of slug and base URL, the pinning of the public  *)
(* URL when the passport is published or first shown, and what visitors    *)
(* are told.  Publication, deletion and lazy creation run in transactions; *)
(* changes and visits read and save without one.                           *)
(*                                                                         *)
(* A handler slot (an element of Requests) serves one request after        *)
(* another; at names the await it will resume from.  A request that is     *)
(* refused before it wrote anything is no step of its own.                 *)
(***************************************************************************)
EXTENDS Naturals, FiniteSets, StatusMachine

CONSTANTS
    Requests,           \* handler slots: requests in flight at the same time
    Keys,               \* bound: presentation configurations at one time
    Slugs, Bases,       \* slugs and base URLs that clients choose from
    InstanceBase,       \* the base URL of the instance
    Operations,         \* the operations clients ask for
    MaxAttempts,        \* bound: transactions withTransaction starts in 120 s
    MaxFaults,          \* bound: failed reads, failovers and crashes
    Absent,             \* the value of a document that does not exist
    Null                \* null

StatusOrDelete == StatusOperations \cup {"deletePassport"}

AllOperations ==
    StatusOrDelete \cup {"patch", "visit", "list", "createConfig",
                         "deleteConfig", "listConfigs"}

ASSUME LifecycleAssumption ==
    /\ InstanceBase \in Bases
    /\ Operations \subseteq AllOperations
    /\ MaxAttempts \in Nat \ {0} /\ MaxFaults \in Nat
    /\ Null \notin Keys \cup Slugs \cup Bases

-----------------------------------------------------------------------------
(* The documents.  A permalink belongs to one configuration, by a unique   *)
(* index, and shares its key here.                                         *)

PassportDoc == <<"passport", "passport">>
ConfigDoc(k) == <<"config", k>>
LinkDoc(k) == <<"permalink", k>>

ConfigDocs == {ConfigDoc(k) : k \in Keys}
LinkDocs == {LinkDoc(k) : k \in Keys}
Documents == {PassportDoc} \cup ConfigDocs \cup LinkDocs

VARIABLES
    db, txn,            \* the store and its transactions
    requests,           \* the handlers' local state
    fallback,           \* base URL of the organization, else of the instance
    released,           \* whether the passport has ever been published
    faults              \* failures so far

INSTANCE MongoTransactions WITH Sessions <- Requests

vars == <<db, txn, requests, fallback, released, faults>>

Urls == Bases \X (Slugs \cup Keys)

Links == [slug : Slugs \cup {Null}, base : Bases \cup {Null}, url : Urls \cup {Null}]

Passports ==
    {p \in [status : Statuses, previous : Statuses \cup {"none"}] :
       <<p.previous, p.status>> \in StatusChanges}

ASSUME ValuesAssumption ==
    /\ Absent \notin Links /\ Absent \notin Passports /\ Absent # "present"
    /\ Null \notin Urls

IsPublished(passport) == passport # Absent /\ passport.status = "Published"

NewLink == [slug |-> Null, base |-> Null, url |-> Null]

Changes ==
    {<<"slug", s>> : s \in Slugs \cup {Null}} \cup {<<"base", b>> : b \in Bases \cup {Null}}

\* withSlug, withBaseUrl
Changed(link, change) ==
    IF change[1] = "slug" THEN [link EXCEPT !.slug = change[2]]
                          ELSE [link EXCEPT !.base = change[2]]

\* resolvePublicUrl of permalink k, with the fallback base URL.
PublicUrl(k, link, base) ==
    <<IF link.base # Null THEN link.base ELSE base,
      IF link.slug # Null THEN link.slug ELSE k>>

\* freezePermalink, up to the save.
Pin(k, link, base) ==
    IF link.url # Null THEN link
    ELSE [link EXCEPT !.url = PublicUrl(k, link, base)]

\* The configurations, and the permalinks reached through one (the $lookup
\* in findAllByPassportId), that a store or a snapshot shows.
Configured(store) == {k \in Keys : store[ConfigDoc(k)] # Absent}
Reachable(store) == {k \in Configured(store) : store[LinkDoc(k)] # Absent}

\* Another permalink has the slug: the unique index on slug.
SlugTaken(k, slug) ==
    /\ slug # Null
    /\ \E j \in Keys \ {k} : db[LinkDoc(j)] # Absent /\ db[LinkDoc(j)].slug = slug

-----------------------------------------------------------------------------
(* The handlers' local state                                               *)

NewRequest ==
    [op |-> "none", at |-> "idle", key |-> Null, change |-> Null,
     member |-> FALSE, passport |-> Absent, base |-> Null,
     links   |-> [k \in Keys |-> Absent],   \* copies of permalinks
     found   |-> [k \in Keys |-> Absent],   \* what a save has found
     sought  |-> {},                        \* saves that have looked
     pending |-> {},                        \* permalinks still to save
     attempts |-> 0]

At(r, label) == requests[r].at = label

\* Where a transaction is open.
InCallback ==
    {"save", "find", "drop", "ensure", "create", "recheck", "base", "pin", "commit"}

Update(r, request) == requests' = [requests EXCEPT ![r] = request]

GoTo(r, label) == Update(r, [requests[r] EXCEPT !.at = label])

\* The handler answers, an error or a result, and is free again.
Finish(r) == Update(r, NewRequest)

\* The driver runs the callback again, for up to 120 seconds.
Retry(r) ==
    /\ AbortTransaction(r)
    /\ IF requests[r].attempts < MaxAttempts
       THEN Update(r, [requests[r] EXCEPT
              !.at = "ready", !.key = Null, !.base = Null, !.pending = {},
              !.links = NewRequest.links])
       ELSE Finish(r)

One(d, value) == [x \in {d} |-> value]
Nothing == [x \in {} |-> Absent]

\* Save or delete in the callback, then continue as request.
Save(r, update, request) ==
    \/ /\ WriteConflict(r, update)
       /\ Retry(r)
    \/ /\ WriteInTransaction(r, update)
       /\ Update(r, request)

\* A key no document and no handler knows: what randomUUID gives.
Fresh ==
    {k \in Keys :
       /\ db[ConfigDoc(k)] = Absent /\ db[LinkDoc(k)] = Absent
       /\ \A r \in Requests :
            /\ requests[r].key # k /\ requests[r].links[k] = Absent
            /\ txn[r].open =>
                 /\ txn[r].view[ConfigDoc(k)] = Absent
                 /\ txn[r].view[LinkDoc(k)] = Absent
                 /\ {ConfigDoc(k), LinkDoc(k)} \cap txn[r].missed = {}}

-----------------------------------------------------------------------------
(* Status changes and deletion                                             *)

\* isDraft, and the guards of the status machine.
Admitted(op, passport) ==
    /\ passport # Absent
    /\ op \in {"publish", "deletePassport"} => MayPublish(passport)
    /\ op = "archive" => MayArchive(passport)
    /\ op = "restore" => MayRestore(passport)

LoadForStatus(r, op) ==
    /\ At(r, "idle")
    /\ Admitted(op, db[PassportDoc])
    /\ Update(r, [NewRequest EXCEPT
         !.op = op, !.at = "ready",
         !.passport = HandleStatusChange(op, db[PassportDoc])])
    /\ UNCHANGED <<db, txn, fallback, released, faults>>

Begin(r) ==
    /\ At(r, "ready")
    /\ StartTransaction(r)
    /\ Update(r, [requests[r] EXCEPT
         !.at = CASE requests[r].op = "list"           -> "ensure"
                  [] requests[r].op = "deletePassport" -> "drop"
                  [] OTHER                             -> "save",
         !.attempts = @ + 1])
    /\ UNCHANGED <<fallback, released, faults>>

SavePassport(r) ==
    /\ At(r, "save")
    /\ Save(r, One(PassportDoc, requests[r].passport),
            [requests[r] EXCEPT
               !.at = IF requests[r].op = "publish" THEN "find" ELSE "commit"])
    /\ UNCHANGED <<fallback, released, faults>>

\* freezeAllForPassport: findAllByPassportId in the session.
FindPermalinks(r) ==
    /\ At(r, "find")
    /\ LET found == Reachable(txn[r].view) IN
       Update(r, [requests[r] EXCEPT
         !.at = IF found = {} THEN "commit" ELSE "base", !.pending = found])
    /\ UNCHANGED <<db, txn, fallback, released, faults>>

\* Mutant: the session is not ended when the callback throws.
LoadBaseLeaking(r) ==
    /\ At(r, "base")
    /\ \/ /\ Update(r, [requests[r] EXCEPT !.base = fallback, !.at = "pin"])
          /\ UNCHANGED faults
       \/ /\ faults < MaxFaults
          /\ faults' = faults + 1
          /\ Finish(r)
    /\ UNCHANGED <<txn, db, fallback, released>>

\* Mutant: as on the way to an answer, a failed read is no obstacle.
LoadBaseTolerant(r) ==
    /\ At(r, "base")
    /\ \/ /\ Update(r, [requests[r] EXCEPT !.base = fallback, !.at = "pin"])
          /\ UNCHANGED faults
       \/ /\ faults < MaxFaults
          /\ faults' = faults + 1
          /\ GoTo(r, "commit")
    /\ UNCHANGED <<txn, db, fallback, released>>

\* loadBranding and getPermalinkBaseUrl, outside the session: an error fails
\* the request and aborts the transaction.
LoadBase(r) ==
    /\ At(r, "base")
    /\ \/ /\ Update(r, [requests[r] EXCEPT !.base = fallback, !.at = "pin"])
          /\ UNCHANGED <<txn, db, faults>>
       \/ /\ faults < MaxFaults
          /\ faults' = faults + 1
          /\ AbortTransaction(r)
          /\ Finish(r)
    /\ UNCHANGED <<fallback, released>>

\* Mutant: the permalink is saved without the transaction's session.
PinDirectly(r, k) ==
    /\ At(r, "pin")
    /\ k \in requests[r].pending
    /\ LET pinned == Pin(k, txn[r].view[LinkDoc(k)], requests[r].base) IN
       /\ \A u \in Requests : LinkDoc(k) \notin txn[u].written
       /\ db' = [db EXCEPT ![LinkDoc(k)] = pinned]
       /\ Update(r, [requests[r] EXCEPT
            !.pending = @ \ {k}, !.links[k] = pinned,
            !.at = IF requests[r].pending = {k} THEN "commit" ELSE "pin"])
    /\ UNCHANGED <<txn, fallback, released, faults>>

\* freezePermalink in the session, of one permalink after another.
PinInTransaction(r, k) ==
    /\ At(r, "pin")
    /\ k \in requests[r].pending
    /\ LET pinned == Pin(k, txn[r].view[LinkDoc(k)], requests[r].base) IN
       Save(r, One(LinkDoc(k), pinned),
            [requests[r] EXCEPT
               !.pending = @ \ {k}, !.links[k] = pinned,
               !.at = IF requests[r].pending = {k} THEN "commit" ELSE "pin"])
    /\ UNCHANGED <<fallback, released, faults>>

\* deletePassport: the configurations and the permalinks reached through them.
DropAll(r) ==
    /\ At(r, "drop")
    /\ LET view == txn[r].view
           doomed == {PassportDoc} \cup {ConfigDoc(k) : k \in Configured(view)}
                       \cup {LinkDoc(k) : k \in Reachable(view)}
       IN Save(r, [d \in doomed |-> Absent], [requests[r] EXCEPT !.at = "commit"])
    /\ UNCHANGED <<fallback, released, faults>>

\* A created permalink is shown in the answer, the others end here.
Commit(r) ==
    /\ At(r, "commit")
    /\ CommitTransaction(r)
    /\ IF requests[r].op = "list"
       THEN Update(r, [requests[r] EXCEPT !.at = "branding",
                                          !.pending = {requests[r].key}])
       ELSE Finish(r)
    /\ released' = (released \/ IsPublished(db'[PassportDoc]))
    /\ UNCHANGED <<fallback, faults>>

-----------------------------------------------------------------------------
(* GET /p?passportId: the permalinks of the passport, one made if none     *)

\* Mutant: a draft is shown to every visitor.
VisibleToAll(passport, member) == passport # Absent

Visible(passport, member) ==
    /\ passport # Absent
    /\ IsPublished(passport) \/ member

LoadForList(r, member) ==
    /\ At(r, "idle")
    /\ Visible(db[PassportDoc], member)
    /\ Update(r, [NewRequest EXCEPT !.op = "list", !.at = "list",
                    !.member = member, !.passport = db[PassportDoc]])
    /\ UNCHANGED <<db, txn, fallback, released, faults>>

ListPermalinks(r) ==
    /\ At(r, "list")
    /\ LET found == Reachable(db) IN
       IF found # {}
       THEN Update(r, [requests[r] EXCEPT
              !.at = "branding", !.pending = found,
              !.links = [k \in Keys |-> IF k \in found THEN db[LinkDoc(k)]
                                                       ELSE Absent]])
       ELSE IF requests[r].member THEN GoTo(r, "ready") ELSE Finish(r)
    /\ UNCHANGED <<db, txn, fallback, released, faults>>

\* ensureDefaultForPassport, the configuration: one that exists or a new one.
\* When the bound on keys leaves none, the request fails.
EnsureDefault(r) ==
    /\ At(r, "ensure")
    /\ LET existing == Configured(txn[r].view)
           next(k) == [requests[r] EXCEPT !.key = k, !.at = "create"]
       IN \/ /\ \E k \in existing : Update(r, next(k))
             /\ UNCHANGED <<db, txn>>
          \/ /\ existing = {}
             /\ \E k \in Fresh : /\ WriteInTransaction(r, One(ConfigDoc(k), "present"))
                                 /\ Update(r, next(k))
          \/ /\ existing = {} /\ Fresh = {}
             /\ AbortTransaction(r)
             /\ Finish(r)
    /\ UNCHANGED <<fallback, released, faults>>

\* createPermalinksForConfigs: a permalink that exists is answered as it is.
CreatePermalink(r) ==
    /\ At(r, "create")
    /\ LET k == requests[r].key
           existing == txn[r].view[LinkDoc(k)]
       IN IF existing # Absent
          THEN /\ Update(r, [requests[r] EXCEPT !.links[k] = existing, !.at = "commit"])
               /\ UNCHANGED <<db, txn>>
          ELSE Save(r, One(LinkDoc(k), NewLink),
                    [requests[r] EXCEPT !.links[k] = NewLink, !.at = "recheck"])
    /\ UNCHANGED <<fallback, released, faults>>

\* Mutant: the new permalink of a published passport is not frozen.
LeaveUnpinned(r) ==
    /\ At(r, "recheck")
    /\ GoTo(r, "commit")
    /\ UNCHANGED <<db, txn, fallback, released, faults>>

\* freezeNewPermalinkIfPublished: the passport is read outside the session.
RecheckPassport(r) ==
    /\ At(r, "recheck")
    /\ IF IsPublished(db[PassportDoc])
       THEN Update(r, [requests[r] EXCEPT !.at = "base",
                                          !.pending = {requests[r].key}])
       ELSE GoTo(r, "commit")
    /\ UNCHANGED <<db, txn, fallback, released, faults>>

-----------------------------------------------------------------------------
(* GET and PATCH /p/:id: resolveToPassport                                 *)

\* By its id or by its slug, a permalink that exists now.
ResolvePermalink(r, op, k, member, change) ==
    /\ At(r, "idle")
    /\ db[LinkDoc(k)] # Absent
    /\ Update(r, [NewRequest EXCEPT
         !.op = op, !.at = "config", !.key = k, !.member = member,
         !.change = change, !.links[k] = db[LinkDoc(k)]])
    /\ UNCHANGED <<db, txn, fallback, released, faults>>

ResolveConfig(r) ==
    /\ At(r, "config")
    /\ IF db[ConfigDoc(requests[r].key)] # Absent
       THEN GoTo(r, "passport")
       ELSE Finish(r)
    /\ UNCHANGED <<db, txn, fallback, released, faults>>

ResolvePassport(r) ==
    /\ At(r, "passport")
    /\ LET passport == db[PassportDoc] IN
       IF Visible(passport, requests[r].member)
       THEN Update(r, [requests[r] EXCEPT
              !.passport = passport, !.pending = {requests[r].key},
              !.at = IF requests[r].op = "patch" THEN "update" ELSE "effective"])
       ELSE Finish(r)
    /\ UNCHANGED <<db, txn, fallback, released, faults>>

\* Mutant: a change of a pinned permalink moves its pin along.
LoadForUpdateRepinning(r) ==
    /\ At(r, "update")
    /\ LET k == requests[r].key
           link == db[LinkDoc(k)]
           changed == Changed(link, requests[r].change)
       IN IF link # Absent
          THEN Update(r, [requests[r] EXCEPT
                 !.links[k] = IF link.url = Null THEN changed
                              ELSE [changed EXCEPT !.url = PublicUrl(k, changed, fallback)],
                 !.at = "patching"])
          ELSE Finish(r)
    /\ UNCHANGED <<db, txn, fallback, released, faults>>

\* updatePermalink reads the permalink again; assertNotPublished.
LoadForUpdate(r) ==
    /\ At(r, "update")
    /\ LET k == requests[r].key link == db[LinkDoc(k)] IN
       IF link # Absent /\ link.url = Null
       THEN Update(r, [requests[r] EXCEPT
              !.links[k] = Changed(link, requests[r].change), !.at = "patching"])
       ELSE Finish(r)
    /\ UNCHANGED <<db, txn, fallback, released, faults>>

-----------------------------------------------------------------------------
(* Pinning on the way to an answer: resolvePublicUrlWithFreeze             *)

\* A branding that cannot be loaded is shown as the default and pins nothing.
LoadBranding(r) ==
    /\ At(r, "branding")
    /\ LET req == requests[r]
           due == IF IsPublished(req.passport)
                  THEN {k \in req.pending : req.links[k].url = Null} ELSE {}
       IN \/ /\ Update(r, [req EXCEPT
                  !.base = fallback, !.pending = due,
                  !.at = IF due = {} THEN "answer" ELSE "pinning",
                  !.links = [k \in Keys |-> IF k \in due
                                            THEN Pin(k, req.links[k], fallback)
                                            ELSE req.links[k]]])
             /\ UNCHANGED faults
          \/ /\ faults < MaxFaults
             /\ faults' = faults + 1
             /\ Update(r, [req EXCEPT !.base = Null, !.pending = {},
                                      !.at = "answer"])
    /\ UNCHANGED <<db, txn, fallback, released>>

Saving == {"patching", "pinning", "failing"}

\* save without a session: first it looks for the document ...
FindForSave(r, k) ==
    /\ requests[r].at \in Saving
    /\ k \in requests[r].pending \ requests[r].sought
    /\ Update(r, [requests[r] EXCEPT !.found[k] = db[LinkDoc(k)],
                                     !.sought = @ \cup {k}])
    /\ UNCHANGED <<db, txn, fallback, released, faults>>

\* ... then it writes the fields that differ from what it found, or a new
\* document if it found none.
Merged(found, target, current) ==
    [f \in {"slug", "base", "url"} |->
       IF found = Absent \/ found[f] # target[f] THEN target[f] ELSE current[f]]

\* The document was deleted in between, or is back; or its slug is taken.
SaveFails(r, k) ==
    LET found == requests[r].found[k] target == requests[r].links[k] IN
    \/ (found = Absent) # (db[LinkDoc(k)] = Absent)
    \/ found = Absent /\ SlugTaken(k, target.slug)
    \/ found # Absent /\ found.slug # target.slug /\ SlugTaken(k, target.slug)

\* The request without k among its saves; the saves of a list run together,
\* and when one fails the others are still made.
Without(r, k, ending, otherwise) ==
    IF requests[r].pending = {k} THEN ending
    ELSE [requests[r] EXCEPT !.found[k] = Absent, !.sought = @ \ {k},
                             !.pending = @ \ {k}, !.at = otherwise]

AfterSave(r, k) ==
    LET req == [requests[r] EXCEPT !.found[k] = Absent, !.sought = {}] IN
    Without(r, k,
        CASE requests[r].at = "patching" -> [req EXCEPT !.at = "branding"]
          [] requests[r].at = "pinning"  -> [req EXCEPT !.at = "answer", !.pending = {}]
          [] OTHER                       -> NewRequest,
        requests[r].at)

WriteLink(r, k) ==
    /\ requests[r].at \in Saving
    /\ k \in requests[r].sought
    /\ IF SaveFails(r, k)
       THEN /\ Update(r, Without(r, k, NewRequest, "failing"))
            /\ UNCHANGED <<db, txn>>
       ELSE /\ WriteDirectly(r, One(LinkDoc(k),
                  Merged(requests[r].found[k], requests[r].links[k], db[LinkDoc(k)])))
            /\ Update(r, AfterSave(r, k))
    /\ UNCHANGED <<fallback, released, faults>>

\* What the answer says is the public URL of permalink k.
Told(r, k) ==
    LET link == requests[r].links[k]
        base == IF requests[r].base = Null THEN InstanceBase ELSE requests[r].base
    IN IF link.url # Null THEN link.url ELSE PublicUrl(k, link, base)

Answer(r) ==
    /\ At(r, "answer")
    /\ Finish(r)
    /\ UNCHANGED <<db, txn, fallback, released, faults>>

-----------------------------------------------------------------------------
(* Presentation configurations: list or seed, create, delete               *)

LoadForConfigs(r, op) ==
    /\ At(r, "idle")
    /\ db[PassportDoc] # Absent
    /\ Update(r, [NewRequest EXCEPT
         !.op = op, !.at = IF op = "createConfig" THEN "seed" ELSE "effective"])
    /\ UNCHANGED <<db, txn, fallback, released, faults>>

AfterConfigs(r) ==
    IF requests[r].op = "visit" THEN GoTo(r, "branding") ELSE Finish(r)

\* listOrSeed, also on a visit's way to the effective configuration.
ListConfigs(r) ==
    /\ At(r, "effective")
    /\ IF Configured(db) = {} THEN GoTo(r, "seed") ELSE AfterConfigs(r)
    /\ UNCHANGED <<db, txn, fallback, released, faults>>

\* The configuration is saved without a permalink.  When the bound on keys
\* leaves none, the request fails.
SaveConfig(r) ==
    /\ At(r, "seed")
    /\ \/ /\ \E k \in Fresh : WriteDirectly(r, One(ConfigDoc(k), "present"))
          /\ AfterConfigs(r)
       \/ /\ Fresh = {}
          /\ Finish(r)
          /\ UNCHANGED <<db, txn>>
    /\ UNCHANGED <<fallback, released, faults>>

\* delete: requireOwned, then deleteById, which leaves the permalink.
LoadForDeleteConfig(r, k) ==
    /\ At(r, "idle")
    /\ db[PassportDoc] # Absent /\ db[ConfigDoc(k)] # Absent
    /\ Update(r, [NewRequest EXCEPT !.op = "deleteConfig", !.at = "remove", !.key = k])
    /\ UNCHANGED <<db, txn, fallback, released, faults>>

RemoveConfig(r) ==
    /\ At(r, "remove")
    /\ WriteDirectly(r, One(ConfigDoc(requests[r].key), Absent))
    /\ Finish(r)
    /\ UNCHANGED <<fallback, released, faults>>

-----------------------------------------------------------------------------
(* The surroundings                                                        *)

\* The organization changes its branding, or an operator the settings.
ChangeFallback(base) ==
    /\ base # fallback
    /\ fallback' = base
    /\ UNCHANGED <<db, txn, requests, released, faults>>

\* A transient error, such as the failover of the replica set's primary.
Failover(r) ==
    /\ txn[r].open
    /\ faults < MaxFaults
    /\ faults' = faults + 1
    /\ Retry(r)
    /\ UNCHANGED <<fallback, released>>

\* The server process dies.
Crash ==
    /\ faults < MaxFaults
    /\ \E r \in Requests : ~At(r, "idle")
    /\ faults' = faults + 1
    /\ AbortAllTransactions
    /\ requests' = [r \in Requests |-> NewRequest]
    /\ UNCHANGED <<fallback, released>>

-----------------------------------------------------------------------------
\* createPassport makes a draft with one permalink per configuration, one
\* default or one for each of the template's; a draft from before there were
\* permalinks has no configuration.
Init ==
    /\ \E made \in SUBSET Keys :
         db = [d \in Documents |->
                 CASE d = PassportDoc -> [status |-> "Draft", previous |-> "none"]
                   [] d \in {ConfigDoc(k) : k \in made} -> "present"
                   [] d \in {LinkDoc(k) : k \in made}   -> NewLink
                   [] OTHER                             -> Absent]
    /\ InitTransactions
    /\ requests = [r \in Requests |-> NewRequest]
    /\ fallback \in Bases
    /\ released = FALSE
    /\ faults = 0

Arrive(r) ==
    \/ \E op \in Operations \cap StatusOrDelete : LoadForStatus(r, op)
    \/ "list" \in Operations /\ \E member \in BOOLEAN : LoadForList(r, member)
    \/ "visit" \in Operations /\ \E k \in Keys, member \in BOOLEAN :
            ResolvePermalink(r, "visit", k, member, Null)
    \/ "patch" \in Operations /\ \E k \in Keys, change \in Changes :
            ResolvePermalink(r, "patch", k, TRUE, change)
    \/ \E op \in Operations \cap {"createConfig", "listConfigs"} : LoadForConfigs(r, op)
    \/ "deleteConfig" \in Operations /\ \E k \in Keys : LoadForDeleteConfig(r, k)

Handle(r) ==
    \/ Begin(r)            \/ SavePassport(r)      \/ FindPermalinks(r)
    \/ LoadBase(r)         \/ DropAll(r)           \/ Commit(r)
    \/ ListPermalinks(r)   \/ EnsureDefault(r)     \/ CreatePermalink(r)
    \/ RecheckPassport(r)  \/ ResolveConfig(r)     \/ ResolvePassport(r)
    \/ LoadForUpdate(r)    \/ LoadBranding(r)      \/ Answer(r)
    \/ ListConfigs(r)      \/ SaveConfig(r)        \/ RemoveConfig(r)
    \/ \E k \in Keys :
         PinInTransaction(r, k) \/ FindForSave(r, k) \/ WriteLink(r, k)

\* No request is in flight; the server waits for one.
Waiting ==
    /\ \A r \in Requests : At(r, "idle")
    /\ UNCHANGED vars

Next ==
    \/ \E r \in Requests : Arrive(r) \/ Handle(r) \/ Failover(r)
    \/ \E base \in Bases : ChangeFallback(base)
    \/ Crash
    \/ Waiting

\* The event loop resumes every handler whose await has settled.
Fairness == \A r \in Requests : WF_vars(Handle(r))

Spec == Init /\ [][Next]_vars /\ Fairness

-----------------------------------------------------------------------------
(* Properties                                                              *)

StoreOK(store) ==
    /\ store = [d \in Documents |-> store[d]]
    /\ store[PassportDoc] \in Passports \cup {Absent}
    /\ \A k \in Keys : /\ store[ConfigDoc(k)] \in {"present", Absent}
                       /\ store[LinkDoc(k)] \in Links \cup {Absent}

Labels ==
    InCallback \cup Saving \cup
    {"idle", "ready", "list", "config", "passport", "update", "effective",
     "seed", "remove", "branding", "answer"}

RequestTypes ==
    [op : AllOperations \cup {"none"}, at : Labels, key : Keys \cup {Null},
     change : Changes \cup {Null}, member : BOOLEAN,
     passport : Passports \cup {Absent}, base : Bases \cup {Null},
     links : [Keys -> Links \cup {Absent}], found : [Keys -> Links \cup {Absent}],
     sought : SUBSET Keys, pending : SUBSET Keys, attempts : Nat]

\* The types of the documents and of what the handlers hold; a handler has a
\* transaction open exactly while it is in the callback.
TypeOK ==
    /\ StoreOK(db)
    /\ \A r \in Requests :
         /\ requests[r] \in RequestTypes
         /\ StoreOK(txn[r].view)
         /\ txn[r].open <=> requests[r].at \in InCallback
    /\ fallback \in Bases
    /\ released \in BOOLEAN
    /\ faults \in Nat

Link(k) == db[LinkDoc(k)]
Pinned(k) == Link(k) # Absent /\ Link(k).url # Null

\* A permalink is pinned only once the passport has been published: the pin of
\* a publication is undone with it, and creation and visits pin only what a
\* committed publication made public (freezeAllForPassport,
\* freezeNewPermalinkIfPublished, resolvePublicUrlWithFreeze).
PinnedOnlyAfterPublication ==
    \A k \in Keys : Pinned(k) => released

\* A publication commits together with the pins of the permalinks that its
\* transaction reaches (freezeAllForPassport in modifyPassportStatus), through
\* conflicts, second runs and failed reads, and with any other requests in
\* between: whichever of them nobody else changed since it began is pinned in
\* the store from that step on.  (One changed before its turn is a write
\* conflict.  One created meanwhile is not reached, and a change that was read
\* before may take the pin away: PublishedUrlIsImmutable.)
PublicationPins ==
    [][ \A r \in Requests :
          requests[r].op = "publish" /\ txn[r].open /\ ~txn[r].open' /\ db' # db
            => \A k \in Reachable(txn[r].view) :
                 LinkDoc(k) \notin txn[r].missed => Pinned(k)' ]_vars

\* A visitor who is no member is answered only about a passport that has been
\* published (resolveToPassport, getByPassport), whatever happens meanwhile.
VisitorsSeePublished ==
    \A r \in Requests :
      At(r, "answer") /\ ~requests[r].member => released

\* When requests do not overlap, a passport published from a draft has no
\* permalink that can still change, however its configurations came and went.
\* (A passport restored to published may have one: nothing pins it before it
\* is first shown.)
PublishedIsPinned ==
    LET passport == db[PassportDoc] IN
    IsPublished(passport) /\ passport.previous = "Draft"
      => \A k \in Reachable(db) : Pinned(k)

\* When requests do not overlap, the public URL in an answer about a published
\* passport is the pinned one, and one is pinned unless the branding could not
\* be loaded.
ToldIsPinned ==
    \A r \in Requests, k \in Keys :
      /\ At(r, "answer") /\ IsPublished(requests[r].passport)
      /\ requests[r].links[k] # Absent
      => /\ Pinned(k) => Told(r, k) = Link(k).url
         /\ requests[r].base # Null => Pinned(k)

\* permalink.ts: "Permalink publishedUrl is immutable once set and cannot be
\* changed."
PublishedUrlIsImmutable ==
    [][ \A k \in Keys : Pinned(k) /\ Link(k)' # Absent
          => Link(k)'.url = Link(k).url ]_vars

\* permalink.ts: "Cannot modify a published permalink; slug and baseUrl are
\* locked."  So the slug in a pinned URL goes on leading to its permalink.
PinnedUrlResolves ==
    \A k \in Keys : Pinned(k) => Link(k).url[2] \in {k, Link(k).slug}

=============================================================================

