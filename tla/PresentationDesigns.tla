------------------------ MODULE PresentationDesigns --------------------------
(***************************************************************************)
(* Presentation configurations as they are used: the requests on the       *)
(* configurations of a document, served without a transaction, and the     *)
(* client's store, its panel for the design of an element and the route    *)
(* that names the configuration in use.  There is one component to choose, *)
(* so that a design is a set of paths (and of types, for default           *)
(* components).  That the documents exist and are the users' is assumed;   *)
(* what deletions and moves of elements do is in module DocumentRequests,  *)
(* what publications do with permalinks in module PermalinkLifecycle.      *)
(***************************************************************************)
EXTENDS Naturals, Sequences, SequencesExt, FiniteSets

CONSTANTS
    Documents,
    Paths,              \* paths of the elements, by document
    Types,              \* types that default components are chosen for
    Readable, Editable, \* paths each user may read and edit
    Others,             \* users of the interface without the client
    Overlap,            \* whether requests may overlap
    Hasty,              \* whether an editor is left before its page arrived
    Starts,             \* configurations at the start
    MaxConfigs, MaxRequests, MaxAsked, MaxFaults, MaxLost, MaxVisits      \* bounds

VARIABLES
    stored,             \* the configurations, by age
    last,               \* history: who last wrote an entry wanted it
    asked,              \* history: entries asked for by users who may edit them
    requests,           \* requests, by number
    starting,           \* views that have yet to ask for the configurations
    view,               \* the document whose editor is open
    store,              \* the client's store
    query, pushing,     \* "config" of the route, and a navigation under way
    others, faults, lost, visits        \* counters for the bounds

server == <<stored, last>>
client == <<view, store, query, pushing>>
vars == <<server, asked, requests, starting, client, others, faults, lost, visits>>

-----------------------------------------------------------------------------
(* The domain *)

Tab == "tab"
Users == {Tab} \cup Others
None == 0
NoDocument == "none"
Ages == 1..MaxConfigs

Can(user, action, path) ==
    path \in (IF action = "Edit" THEN Editable ELSE Readable)[user]

\* The keys of a patch that permissions are asked for.
IsPath(key) == key \notin Types

\* A patch is what to set and what to remove.
Patches(doc) == {p \in [set : SUBSET (Paths[doc] \cup Types), remove : SUBSET (Paths[doc] \cup Types)] :
                    Cardinality(p.set \cup p.remove) \in {1, 2} /\ p.set \cap p.remove = {}}
MayApply(user, patch) ==
    \A key \in patch.set \cup patch.remove : IsPath(key) => Can(user, "Edit", key)
WithPatch(design, patch) == (design \cup patch.set) \ patch.remove

FilterReadable(user, design) == {key \in design : IsPath(key) => Can(user, "Read", key)}

\* The configurations of a document, oldest first.
OfDocument(doc) == SelectSeq([age \in Ages |-> age],
                             LAMBDA age : age \in DOMAIN stored /\ stored[age].doc = doc)
RequireOwned(age, doc) == age \in DOMAIN stored /\ stored[age].doc = doc

-----------------------------------------------------------------------------
(* Requests *)

Steps == {"sent", "save", "answered", "failed", "done"}
Request(by, op, doc, target, patch) ==
    [by |-> by, op |-> op, doc |-> doc, target |-> target, patch |-> patch, step |-> "sent",
     answer |-> <<>>, previous |-> IF by = Tab THEN store.configs ELSE <<>>]
NoPatch == [set |-> {}, remove |-> {}]
Open == {n \in DOMAIN requests : requests[n].step # "done"}
MaySend == Len(requests) < MaxRequests /\ (Overlap \/ Open = {})
Send(r) == requests' = Append(requests, r)
At(n, op, step) == requests[n].op = op /\ requests[n].step = step
Reply(n, step, answer) ==
    requests' = [requests EXCEPT ![n].step = step, ![n].answer = answer]
Finish(n) ==
    requests' = [requests EXCEPT ![n] =
                    [by |-> Tab, op |-> "none", doc |-> NoDocument, target |-> None,
                     patch |-> NoPatch, step |-> "done", answer |-> <<>>, previous |-> <<>>]]

\* What the answer shows of a configuration.
Shown(user, age) == [id |-> age, design |-> FilterReadable(user, stored[age].design)]

-----------------------------------------------------------------------------
(* Server *)

\* The configurations, or a new one when there is none: a read and a save.
List(n) ==
    LET r == requests[n]
        found == OfDocument(r.doc)
    IN  /\ At(n, "list", "sent")
        /\ Reply(n, IF found = <<>> THEN "save" ELSE "answered",
                 [i \in DOMAIN found |-> Shown(r.by, found[i])])
        /\ UNCHANGED <<server, asked, starting, client, others, faults, lost, visits>>

\* A new configuration is younger than all there have ever been.
NextAge == 1 + Cardinality({key[1] : key \in DOMAIN last})
Create(doc) ==
    /\ NextAge <= MaxConfigs
    /\ stored' = [age \in DOMAIN stored \cup {NextAge} |->
                    IF age = NextAge THEN [doc |-> doc, design |-> {}] ELSE stored[age]]
    /\ last' = [key \in DOMAIN last \cup ({NextAge} \X (Paths[doc] \cup Types)) |->
                    IF key \in DOMAIN last THEN last[key] ELSE FALSE]

Seed(n) ==
    /\ At(n, "list", "save")
    /\ Create(requests[n].doc)
    /\ Reply(n, "answered", <<[id |-> NextAge, design |-> {}]>>)
    /\ UNCHANGED <<asked, starting, client, others, faults, lost, visits>>

CreateConfig(n) ==
    /\ At(n, "create", "sent")
    /\ Create(requests[n].doc)
    /\ Reply(n, "answered", <<>>)
    /\ UNCHANGED <<asked, starting, client, others, faults, lost, visits>>

Get(n) ==
    LET r == requests[n]
    IN  /\ At(n, "get", "sent")
        /\ IF RequireOwned(r.target, r.doc)
           THEN Reply(n, "answered", <<Shown(r.by, r.target)>>)
           ELSE Reply(n, "failed", <<>>)
        /\ UNCHANGED <<server, asked, starting, client, others, faults, lost, visits>>

Delete(n) ==
    /\ At(n, "delete", "sent")
    /\ IF RequireOwned(requests[n].target, requests[n].doc)
       THEN Reply(n, "save", <<>>)
       ELSE Reply(n, "failed", <<>>)
    /\ UNCHANGED <<server, asked, starting, client, others, faults, lost, visits>>

DeleteById(n) ==
    /\ At(n, "delete", "save")
    /\ stored' = [age \in DOMAIN stored \ {requests[n].target} |-> stored[age]]
    /\ Reply(n, "answered", <<>>)
    /\ UNCHANGED <<last, asked, starting, client, others, faults, lost, visits>>

\* The answer is the configuration as saved, and not filtered.
ApplyPatch(n) ==
    LET r == requests[n]
        design == stored[r.target].design
        next == WithPatch(design, r.patch)
    IN  /\ At(n, "patch", "sent")
        /\ IF ~RequireOwned(r.target, r.doc) \/ ~MayApply(r.by, r.patch)
           THEN Reply(n, "failed", <<>>)
           ELSE Reply(n, IF next = design THEN "answered" ELSE "save",
                      <<[id |-> r.target, design |-> next]>>)
        /\ UNCHANGED <<server, asked, starting, client, others, faults, lost, visits>>

\* The whole configuration is saved, and created again when it was deleted.
Save(n) ==
    LET r == requests[n]
        doc == IF r.target \in DOMAIN stored THEN stored[r.target].doc ELSE r.doc
    IN  /\ At(n, "patch", "save")
        /\ stored' = [age \in DOMAIN stored \cup {r.target} |->
                        IF age = r.target THEN [doc |-> doc, design |-> r.answer[1].design]
                        ELSE stored[age]]
        /\ last' = [key \in DOMAIN last |->
                        IF key[1] = r.target /\ key[2] \in r.patch.set \cup r.patch.remove
                        THEN key[2] \in r.patch.set ELSE last[key]]
        /\ Reply(n, "answered", r.answer)
        /\ UNCHANGED <<asked, starting, client, others, faults, lost, visits>>

\* A request fails before it is served, or its answer is lost.
Fail(n) ==
    /\ requests[n].step = "sent" /\ faults < MaxFaults
    /\ Reply(n, "failed", <<>>)
    /\ faults' = faults + 1
    /\ UNCHANGED <<server, asked, starting, client, others, lost, visits>>
LoseAnswer(n) ==
    /\ requests[n].step = "answered" /\ lost < MaxLost
    /\ Reply(n, "failed", <<>>)
    /\ lost' = lost + 1
    /\ UNCHANGED <<server, asked, starting, client, others, faults, visits>>

Serve(n) == List(n) \/ Seed(n) \/ CreateConfig(n) \/ Get(n) \/ Delete(n) \/ DeleteById(n)
            \/ ApplyPatch(n) \/ Save(n)

-----------------------------------------------------------------------------
(* Users without the client *)

\* Entries a user asks for and may edit.
Allowed(by, doc, patch) ==
    {<<doc, key>> : key \in {k \in patch.set : IsPath(k) => Can(by, "Edit", k)}}

Ask(by) ==
    /\ MaySend /\ others < MaxAsked
    /\ others' = others + 1
    /\ \E doc \in Documents : \E target \in Ages :
          \/ \E op \in {"list", "create"} :
                /\ target = 1
                /\ Send(Request(by, op, doc, None, NoPatch))
                /\ UNCHANGED asked
          \/ \E op \in {"get", "delete"} :
                /\ Send(Request(by, op, doc, target, NoPatch))
                /\ UNCHANGED asked
          \/ \E patch \in Patches(doc) :
                /\ Send(Request(by, "patch", doc, target, patch))
                /\ asked' = asked \cup Allowed(by, doc, patch)
    /\ UNCHANGED <<server, starting, client, faults, lost, visits>>

Answered(n) ==
    /\ requests[n].by # Tab /\ requests[n].step \in {"answered", "failed"}
    /\ Finish(n)
    /\ UNCHANGED <<server, asked, starting, client, others, faults, lost, visits>>

-----------------------------------------------------------------------------
(* The client's store *)

EmptyStore == [configs |-> <<>>, active |-> None, reference |-> NoDocument]

\* The configuration in use: the chosen one if there is, else the first.
ActiveConfig(s) ==
    LET chosen == SelectSeq(s.configs, LAMBDA c : c.id = s.active)
    IN  IF chosen # <<>> THEN chosen[1].id
        ELSE IF s.configs # <<>> THEN s.configs[1].id ELSE None
ActiveDesign(s) ==
    UNION {s.configs[i].design : i \in {i \in DOMAIN s.configs : s.configs[i].id = ActiveConfig(s)}}

SetActiveConfigId(s, id) == [s EXCEPT !.active = id]

\* A patch goes to the configuration in use, if the store is bound to a document.
PatchActive(patch) ==
    /\ MaySend
    /\ store.reference # NoDocument /\ ActiveConfig(store) # None
    /\ Send(Request(Tab, "patch", store.reference, ActiveConfig(store), patch))
    /\ asked' = asked \cup Allowed(Tab, view, patch)
    /\ UNCHANGED <<server, starting, client, others, faults, lost, visits>>

Replace(configs, answer) ==
    [i \in DOMAIN configs |-> IF configs[i].id = answer.id THEN answer ELSE configs[i]]

FetchAnswered(n) ==
    /\ requests[n].by = Tab /\ requests[n].op = "list"
    /\ requests[n].step \in {"answered", "failed"}
    /\ store' = [store EXCEPT !.configs = requests[n].answer]
    /\ Finish(n)
    /\ UNCHANGED <<server, asked, starting, view, query, pushing, others, faults, lost, visits>>

PatchAnswered(n) ==
    LET r == requests[n]
    IN  /\ r.by = Tab /\ r.op = "patch" /\ r.step \in {"answered", "failed"}
        /\ store' = [store EXCEPT !.configs = IF r.step = "failed" THEN r.previous
                                              ELSE Replace(@, r.answer[1])]
        /\ Finish(n)
        /\ UNCHANGED <<server, asked, starting, view, query, pushing, others, faults, lost, visits>>

-----------------------------------------------------------------------------
(* The editor of a document, its panel and the route *)

NotPushing == [on |-> FALSE, config |-> None]
Settled == Overlap \/ (Open = {} /\ starting = {} /\ ~pushing.on)
QuietServer == UNCHANGED <<server, asked, others, faults, lost>>

\* An address may name a configuration of any document, or an unknown one.
Mount(doc, config) ==
    /\ view = NoDocument /\ visits < MaxVisits
    /\ view' = doc /\ query' = config /\ pushing' = NotPushing
    /\ store' = SetActiveConfigId(store, config)
    /\ starting' = starting \cup {doc}
    /\ visits' = visits + 1
    /\ QuietServer /\ UNCHANGED requests

\* The store is reset, whatever is still under way.
Unmount ==
    /\ view # NoDocument /\ Settled /\ (Hasty \/ starting = {})
    /\ view' = NoDocument /\ store' = EmptyStore
    /\ query' = None /\ pushing' = NotPushing
    /\ QuietServer /\ UNCHANGED <<requests, starting, visits>>

\* The configurations are asked for once the page of submodels has arrived,
\* by then perhaps of an editor that was left.
Fetch(doc) ==
    /\ doc \in starting /\ Len(requests) < MaxRequests
    /\ starting' = starting \ {doc}
    /\ store' = [store EXCEPT !.reference = doc]
    /\ Send(Request(Tab, "list", doc, None, NoPatch))
    /\ QuietServer /\ UNCHANGED <<view, query, pushing, visits>>

\* The panel offers the configurations from two on; a choice is told to the route.
OnConfigChange(id) ==
    /\ view # NoDocument /\ Settled
    /\ \E path \in Paths[view] : Can(Tab, "Edit", path)
    /\ Len(store.configs) >= 2 /\ \E i \in DOMAIN store.configs : store.configs[i].id = id
    /\ id # ActiveConfig(store)
    /\ store' = SetActiveConfigId(store, id)
    /\ pushing' = IF query = id THEN pushing ELSE [on |-> TRUE, config |-> id]
    /\ QuietServer /\ UNCHANGED <<requests, starting, view, query, visits>>

\* The design of an element is chosen, or back to the default.
OnComponentChange(path) ==
    /\ view # NoDocument /\ Settled
    /\ path \in Paths[view] /\ Can(Tab, "Edit", path)
    /\ PatchActive(IF path \in ActiveDesign(store) THEN [set |-> {}, remove |-> {path}]
                   ELSE [set |-> {path}, remove |-> {}])

\* The route changed: the store follows.
Navigated ==
    /\ pushing.on
    /\ query' = pushing.config /\ pushing' = NotPushing
    /\ store' = SetActiveConfigId(store, pushing.config)
    /\ QuietServer /\ UNCHANGED <<requests, starting, view, visits>>

\* The browser goes back to the address without a configuration, or on to one.
Browse(config) ==
    /\ view # NoDocument /\ Settled /\ visits < MaxVisits
    /\ pushing' = [on |-> TRUE, config |-> config]
    /\ visits' = visits + 1
    /\ QuietServer /\ UNCHANGED <<requests, starting, view, query, store>>

-----------------------------------------------------------------------------
(* The system *)

TypeOK ==
    /\ DOMAIN stored \subseteq Ages
    /\ \A age \in DOMAIN stored :
          /\ stored[age].doc \in Documents
          /\ stored[age].design \subseteq Paths[stored[age].doc] \cup Types
    /\ view \in Documents \cup {NoDocument}
    /\ store.active \in 0..MaxConfigs /\ store.reference \in Documents \cup {NoDocument}
    /\ \A n \in DOMAIN requests : requests[n].step \in Steps
    /\ starting \subseteq Documents
    /\ query \in 0..MaxConfigs

Init ==
    /\ \E owners \in Starts :
          stored = [age \in DOMAIN owners |-> [doc |-> owners[age], design |-> {}]]
    /\ last = [key \in UNION {{age} \X (Paths[stored[age].doc] \cup Types) : age \in DOMAIN stored}
                    |-> FALSE]
    /\ asked = {} /\ requests = <<>> /\ starting = {}
    /\ view = NoDocument /\ store = EmptyStore /\ query = None /\ pushing = NotPushing
    /\ others = 0 /\ faults = 0 /\ lost = 0 /\ visits = 0

User ==
    \/ \E doc \in Documents, config \in 0..MaxConfigs : Mount(doc, config)
    \/ Unmount
    \/ \E id \in Ages : OnConfigChange(id) \/ Browse(id)
    \/ Browse(None)
    \/ \E path \in UNION {Paths[doc] : doc \in Documents} : OnComponentChange(path)
Client ==
    \/ \E doc \in Documents : Fetch(doc)
    \/ Navigated
    \/ \E n \in DOMAIN requests : FetchAnswered(n) \/ PatchAnswered(n) \/ Answered(n)
Next ==
    \/ User \/ Client
    \/ \E user \in Others : Ask(user)
    \/ \E n \in DOMAIN requests : Serve(n) \/ Fail(n) \/ LoseAnswer(n)
Spec == Init /\ [][Next]_vars

-----------------------------------------------------------------------------
(* Properties *)

\* Whatever is asked, whenever it is served, and whichever editor the client
\* has meanwhile opened or left: a design is stored only for entries that a
\* user who may edit them has at some time asked for, and with the document
\* they are of.  An entry removed since may come back when requests overlap
\* (PatchesMerge).
DesignsAreAsked ==
    \A age \in DOMAIN stored : \A key \in stored[age].design :
        <<stored[age].doc, key>> \in asked

\* Patches of different entries leave each other's alone: what the last patch
\* of an entry wanted is stored, unless requests overlap.
PatchesMerge ==
    \A key \in DOMAIN last : key[1] \in DOMAIN stored =>
        (last[key] <=> key[2] \in stored[key[1]].design)

\* When all is answered, the panel of the only user shows the configurations of
\* the document that is open and what may be read of them as stored, unless they
\* did not arrive or requests overlap.
ShownIsStored ==
    (view # NoDocument /\ starting = {} /\ Open = {} /\ store.configs # <<>>) =>
        /\ [i \in DOMAIN store.configs |-> store.configs[i].id] = OfDocument(view)
        /\ \A i \in DOMAIN store.configs :
              LET config == store.configs[i]
              IN  /\ config.design \subseteq stored[config.id].design
                  /\ FilterReadable(Tab, stored[config.id].design) \subseteq config.design

\* Without an editor the store is empty and bound to no document.
ResetClears == view = NoDocument => store = EmptyStore

\* Address and panel name the same configuration when no navigation is under way.
RouteTellsConfig ==
    (view # NoDocument /\ ~pushing.on) => store.active = query
=============================================================================

