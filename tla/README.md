# A TLA+ model of open-dpp

open-dpp keeps *digital product documents*: product passports and the templates
they are made from. A document is not one record but several MongoDB documents
that refer to each other, and the server changes them with many small HTTP
handlers; a web client works on copies of what they answered. This directory
models how the handlers keep (and where they do not keep) the documents
consistent, and how what the client shows and sends stays in step with them. Paths
below are relative to `src/apps/main/src/` unless they start with `src/`.

## 1. Inventory

| Component | State | Operations | Hard behaviour |
|---|---|---|---|
| Status machine (`digital-product-document/domain`) | previous and current status of an item | publish, archive, restore | long sequences; a stale copy overwrites the status |
| Passports, templates (`passports`, `templates`) | the item: organization, environment, status | create (empty, from a template, import), status change, delete, export | the draft check precedes the transaction; creation takes two transactions |
| Editing service (`digital-product-document/application`, `aas/presentation/environment.service.ts`) | none of its own: copies of item, aas, submodels in memory | add, modify and delete submodels, elements, values, table rows, columns and groups, the shell and its policies | copies are read before the transaction and saved whole in it; the callback runs again after a conflict |
| Shell domain (`aas/domain`) | aas with references and rules; submodels with nested elements and tables | methods called by the editing service, visitors, schema migrations | references, policies, design entries must not outlive their target |
| Access control (`aas/domain/security`) | rules: subject, object path, permissions | add, modify, move, delete policies; `can` | roles compared with roles; inheritance along paths |
| Presentation configurations | element design by path, default components, label | list or seed, create, patch, delete, snapshot from template, clean, move | seeds and patches run without a transaction |
| Permalinks | slug, base URL, published URL | create, update, freeze (at publication and on read), resolve | a freeze races an update or a creation |
| Unique product identifiers | reference to the item; GS1 identity and link | create, find, delete, build, parse | deleted with the item; text that means something in a link |
| Activity history | one document per change | insert, list by cursor, download, delete with the item | inserted outside the transaction |
| Repositories (`lib/repositories.ts`) | – | save (reads, then inserts or updates), find, pages | save creates what is missing; a cursor over a changing list |
| Serialization (`aas/infrastructure/serialization`) | – | export by subject, import of four versions | what is hidden must not leave, files of others must not come |
| Accounts and address changes (`identity`) | users, one pending request per user | request, complete, revoke, expire, profiles, roles | revoke races completion and a new request |
| Organizations, members, invitations | membership, roles, invitations | found, invite, accept, remove, change roles, seed the first administrator | what the guard read is old when the handler acts |
| Instance settings, branding | one document; the environment overrides it | read with defaults, update | two first reads; enforced values |
| Policy (quotas, caps), AI chat | counters per organization | check, count, reset | check then act |
| Media and virus scan | object store and record | upload, replace, delete | two stores, no common transaction |
| Web client (`src/apps/client`) | copies: session, selection, pages, tables, trees, forms | navigate, list, edit, save | late answers, several tabs, failed requests |
| Analytics, traceability events, email, OpenAPI, shared packages, tests | see `PROJECT.json` | | input and output, derived data, schemas |

**How they interact.** A controller loads the item and checks ownership, the
service guards the status, the environment service reads the shell and the
submodels, changes the objects in memory (change trackers collect events, an
event bus collects deletions), and then calls `session.withTransaction` with a
callback that saves the copies one by one, notifies the observers (which clean
policies and presentation configurations) and inserts an activity. Nothing locks
the item between the first read and the transaction, and `save` has no version
check: the transaction protects only what happens inside it. The other services
read, decide and write without a transaction. The client updates what it shows
from the answers to its own requests, without reading everything again.

**What must hold.** The environment lists exactly the submodels that exist and
that the shell references; policies and design entries point into existing
submodels; an archived document is read-only; only drafts are deleted;
publication is final; a committed change has its activity; restructuring a table
loses no cell that its rows share; nobody sees or gains what the policies keep from them; an address
changes only by a confirmed link; counters count; every request ends; what the
client shows is what the server has.

## 2. Modules

| Module | Models |
|---|---|
| `MongoTransactions` | sessions, snapshots, first-writer-wins conflicts, commit, abort, writes without a session (external) |
| `StatusMachine` | statuses, publish, archive, restore and their guards |
| `DocumentDomain` | the documents of a passport, methods of the domain objects, guards on the item |
| `AtomicDocuments` | the abstract specification: each operation in one step |
| `DigitalProductDocuments` | the editing handlers, status changes and deletion: one action per await; implements `AtomicDocuments`, up to stale reads |
| `PermalinkLifecycle` | permalinks and configurations of one passport; one action per await |
| `DocumentCreation` | creation of templates and passports, copies, imports, deletion, seeding; several documents that share parts |
| `CurrentDocument`, `StoredVersions` | what handlers see of a document; the versions its parts are stored in, which implement it |
| `Activities`, `SubmodelContent`, `DocumentRequests`, `PassportEndpoints`, `TemplateEndpoints`, `DocumentEndpoints` | change events and activities; aggregates in memory; the environment service and the requests; the endpoints; their composition with the history |
| `Tables` | table and nested-table extension with designs |
| `AccessControl` | rules, entries, inheritance, ranks, moves |
| `SubmodelElements`, `ElementExchange`, `Interchange` | elements with their visitors, copies and migrations; reading and writing back values; export and import |
| `Gs1Identities` | GTIN, batch, serial number, data attributes, digital link |
| `Pagination` | pages by creation time and by id, the download of the history, the client's table of pages |
| `UserAccounts`, `Organizations`, `InstanceSettings`, `MediaStorage`, `TokenQuota` | the services around the documents; one action per await; `UserAccounts`, `Organizations` and `TokenQuota` end with their theorems, as `StoredVersions` does |
| `ClientSession` | start, navigation guard, selection of an organization, tabs |
| `TableEditor`, `AasEditor`, `PermissionsForm`, `PresentationDesigns` | the client's editors, each with the server it talks to |
| `ProfilePage`, `PeopleViews`, `SigningViews` | the client's forms around accounts, people and settings |
| `MC...` | instances for TLC, one behaviour part per question |
| `..._proofs` | theorems for TLAPS; `Documents_proofs` what `AtomicDocuments` promises and what `MCDocuments` states of creation, deletion (`DocumentCreation`) and stored versions; `Runs_proofs` what `MCPlatform`, `MCPermalinkLifecycle` and, of its users, `MCClient` state, with the proofs of `InstanceSettings` and `MediaStorage` |

### State of `DigitalProductDocuments` and the code
* `db` – the committed MongoDB documents of one passport: `"item"`, `"aas"`,
  `"config"` (the presentation configuration), `"permalink"` (`"open"` until
  `publishedUrl` is set, then `"frozen"`), `"upi"` and one per submodel id.
* `txn` – per request the open transaction: snapshot with its own writes, the
  documents it wrote, the documents others committed since the snapshot.
* `requests[r]` – the handler's local variables: operation, argument (an idShort
  path), phase (`idle`, `reading`, `ready` between reads and transaction, `open`
  in the callback, then an answer), the next read or step of the callback, how
  often the callback was started, and the copies `item`, `aas`, `submodel`,
  `config`; `history` is the set of requests whose activities a deletion's
  snapshot shows; `noop` says that the activity or the patch has no change in it.
* `activities[r]`, `swept` – the activity documents request `r` left, and the
  requests whose activities were deleted with the passport.
* `copies`, `stale`, `tainted` – history variables that no handler reads: the
  documents a request holds copies of, the requests one of whose copies somebody
  else has changed since, and whether such a request has committed.
* `faults` – counts failovers and crashes, bounded by `MaxFaults`.

Every await of a handler ends an action. `Load` is the ownership check, the
guard and, for a status change, the status machine, which run in the turn that
receives the item; `ReadShell`, `ReadSubmodel`, `ReadConfig` are the further
reads in the handler's order (`Reads`); the `Prepare...` actions are the
synchronous part that checks permissions and changes the copies; `Begin`
starts the callback; the `Save...`, `Drop...`, `CleanDesign`,
`FreezePermalinks` and `InsertActivity` actions are its steps in the code's order
(`Callback`); `Commit` commits. `PatchConfig` is the one write without a
session. A conflict aborts the transaction and the driver runs the callback
again (`Retry`) on the same copies, which `deleteSubmodel` has already spliced:
its second run throws. `InsertActivity` writes outside the transaction, as
`createMany` hands its options to `map`.

Abstractions: one passport with one shell and one configuration; idShorts equal ids;
elements are one level deep; a policy is the set of paths that carry one (the
default policies, which let members do everything), so `Can` is
the lookup along the path; a document's version counts the edits so that two
edits differ; `DropAll` and the several documents a patch or the cleaning of
configurations touch are one action each, because those statements run in one
transaction with nothing but their own writes in between. A `save` without a session
(`PatchConfig`) looks the document up and then writes it, two awaits of which nothing
but the insertion of a missing document depends on the first: here it is one step,
in `PermalinkLifecycle` it is two. Of permalinks there is just the one of the
configuration, pinned or not; their creation, changes and pins are the subject of
`PermalinkLifecycle`. In the same way the activities' deletion takes effect at the commit, of the activities the
snapshot showed.

### State of `PermalinkLifecycle` and the code

* `db` – the passport's status, and per key `k` a presentation configuration and
  the permalink that belongs to it (slug, base URL, published URL, each or `Null`).
  The unique index on `presentationConfigurationId` lets the two share the key.
* `txn` – as above, one session per handler slot.
* `requests[r]` – a slot serves one request after another: its operation, the
  await it will resume from (`at`), the key, the change a PATCH asks for,
  whether the client is a member, the copies of the passport and of permalinks,
  the base URL read, the permalinks still to save (`pending`) and, for a save
  without a session, which documents it has looked for (`sought`) and what it
  found (`found`).
* `fallback` – the base URL that organization or instance supply; `released` –
  a history variable: a published passport has been committed; `faults`.

| Actions | Code |
|---|---|
| `LoadForStatus`, `Begin`, `SavePassport`, `FindPermalinks`, `LoadBase`, `PinInTransaction`, `Commit` | `modifyPassportStatus`, `freezeAllForPassport`, `freezePermalink` |
| `DropAll` | `deletePassport`: what it deletes of these documents |
| `LoadForList`, `ListPermalinks`, `EnsureDefault`, `CreatePermalink`, `RecheckPassport` | `getByPassport` with `ensureDefaultForPassport`, `createPermalinksForConfigs`, `freezeNewPermalinkIfPublished` |
| `ResolvePermalink`, `ResolveConfig`, `ResolvePassport` | `resolveToPassport` |
| `LoadForUpdate`, `FindForSave`, `WriteLink` | `updatePermalink` and the two steps of `save` (`lib/repositories.ts`) |
| `LoadBranding`, `Answer` | `resolveBranding`, `resolvePublicUrlWithFreeze` |
| `LoadForConfigs`, `ListConfigs`, `SaveConfig`, `LoadForDeleteConfig`, `RemoveConfig` | listing or seeding, creation and deletion of configurations; a visit seeds too (`getEffective`) |

Abstractions: a PATCH changes the slug or the base URL (one that changes both is
refused or saved as a whole just the same); the branding and the instance settings
are one value, read at once; the permalinks of a publication are pinned in any
order; a key may be used again when no document and no handler knows it any more,
which is how a new id is drawn from a finite set; when the bound on keys leaves
none, the request fails. A second creation for the same configuration is a write
conflict: the duplicate key, of which `createPermalinksForConfigs` speaks, aborts
the transaction, so the recovering read fails and the callback runs again.
The store starts with a draft, with the permalinks
`createPassport` makes or, from the time before there were permalinks, with none.
Refusals before anything was written are no steps.

### The other modules, their state and the code

**Documents as wholes.** `DocumentCreation` keeps for every document its status and
the parts its environment refers to; parts may be shared, which is where
`copyEnvironment` and `deleteEnvironment` meet. A request's steps are its
transactions and the reads before them; `broken` remembers creations that a crash
or an error cut in two. `StoredVersions` has a version per part, migrated by every
read and raised by the save of just that part; the refinement to `CurrentDocument`
is the claim that no handler can tell.

**Requests and history.** `SubmodelContent` is the state a request holds in memory:
content by path, rows, policies, trackers, events for the observers. An
operation is the *set* of its outcomes, empty when the code throws.
`DocumentRequests` is the environment service and the service above it: each
request becomes a job (`Job`) that its transaction carries out, and may carry out
again on what is in memory after an abort. `PassportEndpoints` and
`TemplateEndpoints` have one action per route of the two controllers.
`Activities` has one operator per class of change and activity. The change classes
`ColumnMovedToGroup` and `ColumnModifiedInGroup` exist in the code and are never
created, and adding a column to an empty table makes a header row without a
`RowAdded`; the model does the same. The requester owns the document's
organization unless a property is about who may: what a role may do is in
`AccessControl`, and the history's policies are of one subordinate subject. After an
abort the second run of a submodel's deletion fails, as in the code.

**Tables and access.** `Tables` has the rows as trees; an action is a request of the
controller, on the table or on all instances of a nested one, and the requests for
single elements, which make rows differ; a cell is followed by its path and value
(`CellPaths`, `CellAt`), below groups and nested tables too. `AccessControl` has for each subject at
most one entry per object; `Access` is what `can` answers. Policies inside tables
are refused by the code, so `movePolicies` matters mostly for designs; it is
modelled and checked all the same.

**Exchange.** `SubmodelElements` are the visitors as recursive operators on trees:
JSON, values, value modification, copies, the links of version 1.
`ElementExchange` puts an owner and a reading client around one submodel,
`Interchange` exports and imports. What a reader sees is compared with the tree element
by element (`DataIn`), entries of arrays and children of entities and relationships
included. A list is readable only as a whole, because
policies in tables are refused. Of a client's edit only the values are kept; texts,
semantics, qualifiers and extensions are left out of the trees, so are entities,
ranges and relationships as targets of value writes, which the code refuses.
Media ids are no URLs. That the import drops supplemental semantic ids and
qualifiers' kinds, and that policies of hidden elements travel with an export, is
visible in the code and no property's subject.

**Identities.** `Gs1Identities` scales the lengths of a GTIN and of texts; the AI
table is abstracted to one or two entries per kind of entry, and the resolver's
address is left out.

**Platform.** `UserAccounts`, `Organizations`, `InstanceSettings`, `MediaStorage`
and `TokenQuota` have the same shape: the collections, `handlers[h]` with the await
it resumes from, and history variables. better-auth is external: founding,
accepting, removing and renaming follow what the hooks and repositories of the code
see of it, and it may refuse. `save` of a member upserts, so a member removed in
between returns; neither the last owner nor the last administrator is guarded.
The settings that the environment enforces are stored when any setting is saved.
Writes of the database and the object store may be refused in `MediaStorage`
(`CallFails`), which leaves what was written before; `stray` remembers media whose
request failed or died between object and record. In `TokenQuota` a chat (`handlers`)
does not wait for the tokens of its calls to be counted: `handleLLMEnd` is a callback of
LangChain, which unless told otherwise puts callbacks in a queue of the process and
runs them one at a time in the background. `ended` is that queue, `RunCallback` takes
the next one up, and `Background` goes through the same reads and writes of the quota
as the questions do; `midway` remembers that a month began while a question was being
admitted or tokens waited to be counted. The queue is external code; it is shared by
the organizations of an instance, whose callbacks the model leaves out. A call of the
database that is refused while the quota is written loses its tokens, and is left out
too.

**Client.** `ClientSession` has per tab the selection, the page and what the page
was loaded for; the settings page is mounted anew on every navigation, and a login
reloads the page. `Ordered` says that answers come in the order of the requests,
`Disturbed` that other tabs and the server end sessions and memberships.
`TableEditor` has the rows, the context and the columns on display and the requests
in flight, `AasEditor` the tree, the drawer, the route and the copy of the rules
(its requests, that read or write, are served in any order, may fail before or after
they had their effect, and `missed` remembers what the client was not told of:
a page, the rules, the status, or values stored after the page was loaded),
`PermissionsForm` the cloned entries, `PresentationDesigns` the store, the panel and
the route, together with the server's requests that work without a transaction.
`ProfilePage`, `PeopleViews` and `SigningViews` are forms and the lists beside
them. Each has the server's side of its requests as far as the page can tell. A request of
`TableEditor` may be refused or fail without effect; one that has its effect while its
answer is lost is modelled in `AasEditor` and left out there. Session, role and saved
names are followed in one tab (`ClientSession`), the page of an organization also
where answers come in any order.
The parts called *shared* or *hasty* in the runs have others who change
the same things, or a user who does not wait; in the others the user waits for an
answer before the next click on the same form, as the disabled buttons ask for.
Messages, layout, galleries, thumbnails and charts are left out.

## 3. Runs

A run checks one module of `MC...`; where the questions concern several components
the initial state chooses a `part` (`service` in `MCPlatform`), the variables of the other parts stay in one
state, and every property is the conjunction of what it says of each part.

| Run | Properties | Question |
|---|---|---|
| `write_path` | `TypeOK`, `CommittedIsLogged`, `LoggedOnce`, `FreshIsAtomic` | what holds with two editing handlers interleaved, conflicts, retries, one fault? |
| `one_at_a_time` | `AtomicSpec` | do handlers running alone implement the abstract specification, with faults at any step? |
| `every_request_answered` | `EveryRequestAnswered` | is every started request answered? |
| `permalinks` | `TypeOK`, `PinnedOnlyAfterPublication`, `VisitorsSeePublished`, `PublicationPins`; `LoneIsPinned`, `LonePinnedUrlsStay` | two overlapping requests: is nothing pinned or shown before a publication has committed, and is what a publication reaches pinned when it commits? one at a time: does a publication pin every permalink, is a pinned URL told, kept and resolved? |
| `documents` | `TypeOK`, `EnvironmentConsistent`, `ArchiveKeepsContent`, `FrozenForEver` (promise); `PassportsAppearComplete`, `DocumentsAreSeparate` (creation); `ImplementsCurrent`, `ReadAsStored` (former versions, answers, identities); `HistoryTellsChanges` (endpoints) | are documents whole, separate, readable and told of, whatever happens to them? |
| `platform` | `PendingChangesAgree`, `EmailChangesAreConfirmed`, `MembershipIsGranted`, `StoredOnce`, `LimitsAreCounted`, `DoneAsAsked` | what do accounts, organizations, settings, media and quotas keep with overlapping requests and crashes, and what with one request at a time? |
| `shells` | `TablesStayRegular`, `RestructuringIsLossless`, `PoliciesFit`, `AccessIsKept` | do tables stay tables, which cells are lost, and does access change only by administration? |
| `exchange` | `ReadersSeeTheirs`, `CopiesAgree`, `WriteBackIsHarmless`, `TransfersKeepSecrets` | do the conversions show, copy and take back what they may, but for the exceptions below? |
| `client` | `WhatIsShownIsTrue`, `WhatHappensIsMeant`, `EverythingEnds` | is what pages show what the server has, as far as they were told, what they do what the user meant, and does every wait end? |
| `editors` | `EditorsAndServerAgree`, `OnlyEditedIsSaved` | do the editors and the server agree although not everything is read again, and requests fail? |
| `published_url_lost` | `PublishedUrlIsImmutable` | violated: `permalink/domain/permalink.ts:147` says the URL is immutable; a PATCH that read the permalink before the publication sets it back to null |

`FreshIsAtomic` is the central property: as long as no request has committed
with an outdated copy, every change of the store is one operation of
`AtomicDocuments` performed as a whole. It locates the anomalies of stale copies in
one place, the window between a handler's reads and its transaction, and shows that
conflicts, second runs of a callback, failovers, crashes, the event bus and the
write without a session add none.

The permalink violation has its cause in `updatePermalink`, which reads and saves
without the transaction that its guard (`assertNotPublished`) would need; with
requests one at a time the guard is enough (`LonePinnedUrlsStay`). A passport that
is restored to published may have a permalink that is not pinned until it is first
shown, because only `Publish` pins, and so may a permalink that is created while a
publication is under way. Hence no property says that a published passport has no
open permalink: `PublicationPins` says what a publication does to those it reaches and
nobody changed meanwhile, and `LoneIsPinned` speaks, one request at a time, of passports
published from a draft.

`QuotaCountsTokens` is about counting, not about stopping. As tokens are counted in the
background, a question asked after the last answer may be admitted before the tokens of
that answer are counted, so even one chat goes on beyond its quota; no property says
otherwise.

**Bounds.** Two submodels and one element in `write_path` (the smallest instance in
which requests touch the same or different submodels and elements); one
submodel where the question is about one document. Two requests at a time: every
conflict is between two transactions, and a third adds no new kind of step.
`MaxAttempts` stands for the 120 seconds in which the driver retries; 2 lets a
callback run twice, 3 in the liveness run lets both transactions abort each other
more than once. `MaxFaults = 1` puts one failover or crash at any step. `MaxVersion`
bounds the edits of the promise. `InitialStatuses` picks the statuses behaviours
start in, in the state that a creation, first publication or first archiving
leaves. Where one request at a time is the question, a single handler slot is
reused, with more users, keys or requests instead. `MaxRequests`, `MaxChanges`,
`MaxSteps`, `MaxActs`, `MaxClicks` bound requests in a behaviour: two or three of
them reach every pair of operations in either order, which is what the hazards of
these parts take. Tables have two rows, up to two columns, a group and a nested
table with one and two rows, so that header and other rows, first and further
instances differ. Caps and limits are reached: a file larger than what is left, a
quota of three tokens (two, where chats overlap) with calls of one or two, up to two
callbacks in the queue, a month that turns three times (once). Pages hold two
of three or four items, with three points of time, so that some were created in the same
millisecond. In `editors` a user writes twice. In `documents` one instance of `DocumentCreation` plays both
its parts; one request at a time is the same machine whose steps keep at most one
request under way (`InTurn`). The shells and submodels of `StoredVersions` and the
sizes and cap of `MediaStorage` are constants of the runs, so that the theorems
speak of every value of them. Handlers, requests and interchangeable ids are symmetric
in the safety runs that say `SYMMETRY`; runs with liveness have none. Deadlock is
not checked where a bound or a deleted document ends a behaviour; the handlers'
runs end in `Quiescent`, the permalink runs wait for requests in `Waiting`.

**Fairness.** `WF_vars(Handle(r))`: a handler that can take its next step takes
it, because Node's event loop runs every settled promise and the driver answers
every call. Nothing makes a client send a request or a fault happen. A write
without a session (`PatchConfig`) waits for the transactions that wrote the
configuration; weak fairness is enough because each of them ends and no new
one is sent for ever. In `client` the fairness is of the same kind: a request is
served or fails, an answer that arrived is taken up, a navigation that was started
goes on; users need not act, and for lists, the reader asks for the next page.

**Divergences met while modelling.** The violation run shows one; the others are
stated as properties in their modules, are refuted by TLC on instances like those of
the runs, and are checked by no run:

| Property (module) | What the code does |
|---|---|
| `OnlyDraftsDeleted`, `ArchivedIsReadOnly`, `PublishedStaysPublic`, `ArchivedDesignStays` (`DigitalProductDocuments`) | a passport published after the draft check is deleted (`passport.service.ts:132`); an edit lands after the archiving (`digital-product-document.service.ts:799`); adding a submodel saves an old status; a patch of a configuration never looks at the status |
| `PinnedUrlResolves` (`PermalinkLifecycle`), with two requests | the slug changes under the pinned URL (`permalink.ts:169`) |
| `RevokedNeverCompletes`, `ProfileSaveKeepsRole` (`UserAccounts`), overlapping | a revoked change completes when the revocation comes after the hook (`src/CONTEXT.md:25`); saving a profile writes back an old role |
| `OneFilePerField` (`MediaStorage`), `QuotaCountsTokens` (`TokenQuota`), overlapping | two uploads leave two records of a field (`media.service.ts:106`); two chats that reset or create the quota lose tokens (`policy.service.ts:235`) |
| `NoEmptyGroup`, `NoTableInGroup`, `EjectionKeepsCells` (`Tables`) | groups may come empty or with a table; ejecting from rows that differ loses the cells that only some rows of the group have (`table-extension.ts:250`), and `OnlyStraysAreLost` says that it loses no others |
| `EnvironmentsResolve` (`DocumentCreation`), `SeededOnce` overlapping | deleting a draft deletes the concept descriptions it shares with its template (`environment.service.ts:1290`), and `MissingWereShared` says that a document misses nothing else; two readers seed two configurations |
| `EveryChangeIsTold`, `EveryPolicyChangeIsTold` (`DocumentEndpoints`) | translations change without an activity (`value-modifier-visitor.ts:149`), and `ChangesButTranslationsAreTold` says that all else is told; policies that follow an element are not told of |
| `LockedKeepsStored` (`InstanceSettings`) | enforced values are stored by any update |
| `ReadableIsAnswered`, `ReadableValueIsAnswered`, `ListItemsMatch` (`ElementExchange`) | one hidden statement makes a submodel unreadable; empty values are refused; a migrated list keeps its item type |
| `TotalIsPaged`, `EmptyPagesShowZero`, `StartsAtTheFirst` (`Pagination`) | items of one millisecond are skipped (`lib/repositories.ts:136`), and `TotalIsRead` says that no others are; empty pages show a count; a reload after a reset starts behind the first rows |
| `ColourIsOfSelected` (`ClientSession`), `RemovedRowIsClicked` (`TableEditor`), `NewListIsOpened` and `TreeIsNeverOld` (`AasEditor`), `InheritingHasNoEntry` (`PermissionsForm`), `PatchesMerge` with overlap and `ResetClears` (`PresentationDesigns`), `StatusIsOfEmail` (`ProfilePage`) | late answers and failed requests that the client takes for its own or for done; a reload that fails (`aas-editor.ts:136`), a lost answer, or values stored after the reload leave the old tree |
| `NoForeignFiles` (`Interchange`) | an import leaves foreign files in the statements of entities and in annotations (`aas-serialization.service.ts:256`) |
| `MemberRoleIsGranted`, `AcceptedIsGranted` (`PeopleViews`) | a refused change of a role or acceptance is shown as a success |

Further limits of the code that the models share: a draft address is not restored
when its save failed, a sign-up page assumes that sign-up is allowed when the settings
could not be fetched, a password-reset request whose call throws leaves its page
waiting (the one page that `EverythingEnds` leaves out), and a dialog closed before its answer loses
the event that reloads the list.

## 4. Proofs

Proved by TLAPS for every set of submodels, elements, permalinks and requests, every
set of initial statuses and every bound on concurrency, attempts and faults (what a
theorem assumes beyond that is said with it):

| Theorem | Module | States |
|---|---|---|
| `Consistency` | `Documents_proofs` | the documents of a passport are well-formed and fit together after any sequence of operations |
| `PublicationIsFinal` | `Documents_proofs` | a frozen permalink stays frozen, so its passport is never deleted |
| `TypeCorrect` | `Documents_proofs` | the documents keep their types through every sequence of operations |
| `ArchiveLosesNothing` | `Documents_proofs` | an archived document keeps its environment, shell and submodels, and leaves the archive with the status it came with |
| `TypeCorrect` | `DigitalProductDocuments_proofs` | store, snapshots and copies are well-formed; a session has a transaction open exactly while its handler is in the callback |
| `EveryChangeIsLogged` | `DigitalProductDocuments_proofs` | an answered change has its activity |
| `NothingIsLoggedTwice` | `DigitalProductDocuments_proofs` | a request leaves at most one activity |
| `FreshRequestsAreAtomic` | `DigitalProductDocuments_proofs` | every change of the store is one whole operation of `AtomicDocuments`, until a request commits a stale copy |
| `OneAtATimeIsAtomic` | `DigitalProductDocuments_proofs` | with one request at a time the handlers implement `AtomicDocuments` (`Concurrency = 1`, finitely many requests) |
| `FreshDocumentsFit` | `DigitalProductDocuments_proofs` | until a stale copy is committed the documents fit together |
| `VersionsAreInvisible` | `StoredVersions` | parts stored in any mixture of versions behave as one current document: `StoredVersions` implements `CurrentDocument` |
| `ListedAsRead` | `StoredVersions` | the status filter on the stored form selects by the status that a read gives |
| `TypeCorrect` | `StoredVersions` | stored forms stay what they are |
| `TypeCorrect` | `PermalinkLifecycle_proofs` | documents and the permalink handlers' copies are well-formed; a transaction is open exactly while its handler is in the callback |
| `PinnedAfterPublication` | `PermalinkLifecycle_proofs` | no permalink is pinned before a publication has committed |
| `VisitorsSeeOnlyPublished` | `PermalinkLifecycle_proofs` | a stranger is answered only about a passport that has been published |
| `PublicationAlwaysPins` | `PermalinkLifecycle_proofs` | a publication commits with it the pins of all permalinks that its transaction reaches and nobody changed meanwhile, however requests overlap |
| `LonePublishedIsPinned` | `PermalinkLifecycle_proofs` | one handler slot: a passport published from a draft has no permalink that can still change |
| `LoneToldIsPinned` | `PermalinkLifecycle_proofs` | one handler slot: an answer about a published passport says the pinned URL |
| `LonePinnedUrlResolves` | `PermalinkLifecycle_proofs` | one handler slot: the slug in a pinned URL leads to its permalink |
| `LonePinsStay` | `PermalinkLifecycle_proofs` | one handler slot: no step changes a pinned URL |
| `TypeCorrect` | `TokenQuota` | documents, configuration and copies keep their forms; there are never more quota documents than handlers and the background |
| `NobodyIsOvercharged` | `TokenQuota` | no quota document of the month counts more than was spent, however many questions overlap |
| `LoneQuotaIsExact` | `TokenQuota` | one question at a time, its callbacks in the background: between two writes the quota says what the callbacks have counted, unless the month began before all was counted |
| `TypeCorrect` | `Organizations` | collections and what handlers have in hand keep their forms through every interleaving and restart |
| `NoSlugTwice` | `Organizations` | no two organizations share a slug, however creations and renamings overlap |
| `RolesChangeByOwners` | `Organizations` | only a member's role changes, and only at the request of somebody who has been an owner |
| `LoneMembersAreGranted` | `Organizations` | one request at a time: a new member founded the organization or uses up an invitation to an address of theirs |
| `LoneInvitationsAreSentByManagers` | `Organizations` | one request at a time: who sends an invitation may manage the organization at that moment |
| `TypeCorrect` | `UserAccounts` | accounts, requests, links and handlers keep their forms |
| `ChangesFollowLinks` | `UserAccounts` | an address changes only to one that received a link for exactly this change, however many requests overlap |
| `PendingChangesAreRevocable` | `UserAccounts` | short of a crash, no change is pending without its revoke link |
| `OwnAddressIsNotPending` | `UserAccounts` | short of a crash, no request for the user's own address is left when the handlers are done |
| `LoneToldIsPending` | `UserAccounts` | one request at a time: a change a user was told is pending stays so until they end it or it expires |
| `LoneRevokedNeverCompletes` | `UserAccounts` | one request at a time: a change whose revocation was confirmed never completes |
| `SeedsOnlyWithoutAdmin` | `Organizations` | a start of the server seeds an administrator only when there is none |
| `DocumentsStaySeparate` | `Documents_proofs` | however requests overlap and break off, a present document keeps its shells and submodels and misses only concept descriptions that a deleted one shared with it, and what is left over is of broken creations; one request at a time leaves nothing of a deleted document and seeds once |
| `PassportsAlwaysAppearComplete` | `Documents_proofs` | a passport appears with its identifier, a configuration and a permalink for each |
| `VersionsStayInvisible` | `Documents_proofs` | the same as `VersionsAreInvisible`, for the part of run `documents` |
| `LonePermalinksArePinned`, `LonePermalinkUrlsStay` | `Runs_proofs` | one request at a time: all that `LoneIsPinned` and `LonePinnedUrlsStay` say of run `permalinks` |
| `PendingChangesAlwaysAgree`, `EmailChangesAlwaysConfirmed` | `Runs_proofs` | pending changes agree with what users were told and can revoke; addresses change by confirmed links only |
| `MembershipAlwaysGranted` | `Runs_proofs` | who becomes a member, who invites, who changes roles, and when a start seeds |
| `AlwaysDoneAsAsked` | `Runs_proofs` | settings change only as asked, even when two first readers store the defaults |
| `AlwaysStoredOnce` | `Runs_proofs` | no slug twice; one request at a time: one file per data field, and records match objects; with overlapping uploads the record and object of a free file differ only where a request is between them, or failed or died there |
| `LimitsAlwaysCounted` | `Runs_proofs` | the quota says what the callbacks have counted (a month that began in the middle left out), at most that when questions overlap; what is stored exceeds the cap by less than the file let in last |
| `ClientDoesWhatIsMeant` | `Runs_proofs` | all that `WhatHappensIsMeant` says of run `client`, in whatever order answers come |

**Assumptions.** `DocumentsAssumption` (ids of submodels differ from the names of
the other documents), `AbsentAssumption` (a missing document is not a value of
one), `BoundsAssumption` (the bounds are numbers); for permalinks
`LifecycleAssumption` and `ValuesAssumption` (the instance has a base URL, null and
a missing document are no values); `QuotaAssumption` (limits, costs and bounds are
numbers), `OrganizationsAssumption` (the administrator's address is one of the
addresses, the bounds are numbers) and `UserAccountsAssumption` (no more users than
addresses, the bounds are numbers, null is no request), `MediaAssumption` (sizes are
positive and there is a largest, the object names made of data fields are no upload's
own), `PeopleViewsAssumption` (null is no role), `CreationAssumption` (templates are no passports, own media no others', the bound
is a number). TLC evaluates them in every run. The theorems of `TokenQuota` take finitely many
handlers, because the number of documents is bounded by theirs. Theorems about one
request at a time say so: `Requests = {r}`, `Handler = {h}`, or the run's part `creation`,
whose steps keep `InTurn`.

**Arguments.**

* *Atomic specification.* `TypeOK /\ EnvironmentConsistent` is inductive as it
  stands. `FrozenForEver` needs `FrozenInv`: a frozen permalink implies that the
  item is published or was archived while published, because otherwise restoring it
  could make a frozen draft.
* *Types of the handlers.* `TypeOK` is not inductive: a callback that removes a
  submodel from the copy of the shell keeps the type only if the handler has read
  a shell. `Inv` adds `CopiesOK`, what a handler in flight holds after each read
  of `Reads`: an item, an argument of its operation, and the copies it has
  come to. `StartOK`, `WriteOK`, `AbortOK`, `CommitOK` and `WriteDirectlyOK` say
  the same of the transactions, once for all handlers.
* *Activity history.* `HistoryInv` says when an activity is owed (the callback
  has passed the inserting step) and why a second run does not insert again:
  an operation that finds its activity throws, and `deleteSubmodel`, which makes a
  new activity in every run, has by then no submodel to splice and throws earlier.
  A commit after the last step of a script has passed an inserting step
  (`EveryLoggedInserts`).
* *Permalinks.* `Inv` follows the word "published" through the copies. The store may
  say it only when `released` holds (`Truthful`). A transaction's view may say it
  earlier, when the transaction has itself saved the published passport
  (`Releasing`): its commit makes `released` true, and an abort, a failover or a crash
  forgets the view. A handler's copies may say what its transaction may, except that a
  publication has a published passport in hand from the start; `HandlerInv` therefore
  singles out `publish` and the steps after its save. `Stage` says which operation is where and
  `Held` what a handler has in hand there (a permalink to pin exists in the view, a
  copy to save exists), which types need. `PublicationInv` is about a publication that
  overlaps with anything: its view is the store where it neither wrote nor missed
  (`Sees`), every permalink it reaches is on its list or has its pin until the list is
  empty (`Publishing`), so the commit stores the pins of all that nobody else changed; a
  write conflict or a failed read begins anew. `Local`, `Saved`, `WroteDirectly`, `Retried`,
  `Aborted` and `Ended` carry `Inv` through each kind of step once for all handlers.

* *Atomicity of fresh requests.* The invariant follows one request through its script.
  `Intends` is what the request is going to do, as one operation of
  `AtomicDocuments` on the store; `After` is what its transaction's view must be when
  the steps it has passed are applied to the store it began in; `Transacts` relates
  the two for a request whose copies are not stale. `ViewsOK` says what a snapshot
  shows of documents nobody else has changed, and `FreshInv` that a fresh request
  either has an untouched snapshot or is on its way from one. A write conflict or a
  failover runs the callback again on copies that the first run has changed; that this
  makes no difference to a fresh request is the part of the proof that found most of
  the cases. The commit of a fresh request is then `Atomic!Next`, and the direct saves
  are so by themselves.
* *One at a time.* `AloneInv` says that with `Concurrency = 1` nobody can make a copy
  stale, so `tainted` stays false and every step is an atomic operation or a stutter.
  `IsFiniteSet(Requests)` is there because the guard of arrival counts requests by
  `Cardinality`. `FreshDocumentsFit` carries `Consistency` of the abstract documents
  over to the store of the handlers.
* *Stored versions.* The refinement mapping reads each part by its migrations
  (`ReadStatus`, `ReadThumbnails`, `ReadPolicies`, `ReadLinks`). One lemma per
  operation shows that a save of some parts is the current document's operation on
  what is read: a save raises a part to the current version and reading it again gives
  what was saved; parts not saved read as before.
* *One handler slot.* `PublishedUrlIsImmutable` is false when requests overlap (section
  3), so what the code does guarantee is stated for `Requests = {r}`. `LoneInv` says
  that the handler's copies are what is stored (`LoneCopies`), or what it is about to
  save over what it has found (`LoneSaves`); that its transaction sees the store but for
  its own writes, shows every pin as it is stored, and has no permalink left to pin
  that it is not on its way to (`LoneTransaction`, `Due`); and that a passport published
  from a draft has no reachable permalink without a pin (`LoneStore`). A passport
  restored to published may have one, hence `FromDraft`. Each step lemma proves
  `LoneNext`: the invariant again, and that no pin has changed.
* *Quota.* No key is unique, so overlapping questions insert several documents of a
  month, and an update writes the sum computed from an old copy. `HonestInv` says what
  survives: a document, or a copy of one, counts at most what was spent in its month;
  a copy reset for a new month starts at zero while its tokens are still due; the turn
  of the month only makes documents old; and a handler that inserts has found none
  (`InsertionsBounded`). With one slot the chat and the background still run side by side;
  `InTurn` says that, in a month that began quietly, they never write at the same time: a
  call of the model comes after the chat has stored the month's first quota or its reset,
  and from then on only the background writes, one callback after the other. So "at
  most" becomes "exactly" (`SayIn`), short of what the background is about to write.
* *Organizations.* `SlugInv` rests on ids and slugs being given out once (a slug is
  checked by the unique index at the write, not at the read) and on a copy of an
  organization having the id and slug of one that exists. `MemberInv` says that a member in
  hand is the same member, but for the role, as any with its id, and that who stands
  between guard and save has been an owner: this is weaker than "is an owner", which is
  false when a demotion comes between. With one slot what the guard and the
  look-up have found still stands at the save (`StillStands`).
* *Email changes.* `PendingInv` carries two relations between what is stored and what is
  in flight, for as long as nothing crashes: a pending request has its revoke link out or
  a handler that has yet to send it or take the request back (`Warned`), and one for the
  address the user has is about to be refused or cleared by a handler (`Cleared`).
  `PassesOn` is what a handler owes at each step, and `PendingMoves` that no other
  handler can spoil it. With one slot, `RowsOK` (ids of requests are given out once, no
  pending request is revoked) and `Stands` (what was found is still there) give
  `ToldPendingIsPending` and `RevokedNeverCompletes`, which overlapping requests break
  (section 3).
* *Parts of a run.* A run's behaviour never changes its `part` (`service`), and is one of that
  part's specification as long as it plays (`AccountsPart`, `MediaPart`, ...); so what a
  component guarantees is what the run states of it. Where a component's specification
  has fairness, the proof is about its steps (`Steps`), and lemmas such as
  `LoneFactsAreTheSame` say that two instances of a module with the same parameters are
  the same formulas.
* *Settings.* A handler about to save holds the stored settings but for what it was asked
  to change (`SettingsInv`); between two first readers nothing differs from the defaults.
* *Media.* Usage is a fold over the finite set of records, which unfolds to a recursive
  function on its subsets: the lemmas up to `UsageIsSum` show that adding a record adds
  its size and removing one subtracts it, by taking a smallest set for which
  they fail. `MediaInv` says, for one request at a time, that an upload let in found less
  than twice the cap, and has its name and data field to itself when it saves.
  `SharedMediaInv` gives each upload an identity that no other record or request has
  (`HasIdentity`), says what is in the object store at each await (`HasObject`), and that
  record and object of a free file differ only while a request is between the two or, for
  those in `stray`, after one that ended there.
* *Creation and deletion.* `EnvironmentConsistent` of a single document does not say that
  two documents keep apart; `CreationInv` does: a document's own parts carry its name
  (`OwnPartsOnly`), only one request works on a document that is being created
  (`CreatedAlone`), a request that is about to save has stored what it will refer to and
  one that is about to delete knows the whole environment (`RequestsKnow`), and every
  stored part is that of a present document, of a creation under way or of one that broke
  off (`Accounted`). `AllAccounted` adds that what a document refers to is stored, or is a
  concept description that a deleted document referred to as well. `TurnInv` adds for one request at a time that nothing is left of what
  was deleted, and that a request about to seed still finds nothing seeded: with
  overlapping requests a deletion or another seed comes between.
* *Client.* Which page a tab enters is decided where an answer is taken up; `TabsOK` lets the
  lemmas on `Received` and `beforeEach` speak of every tab, and `SameTabOperations` carries
  them over to the part whose answers come in any order. `ProfileInv` says that what differs
  from the loaded values was edited, that what is being sent was edited, and that nothing
  else fills a form while it is saved. `FlightOK` says that of two requests of a page about
  people the second one loads a list, so a request that raises somebody is a dialog's.

**Only model-checked.** `EveryRequestAnswered` and `EverythingEnds` are liveness under
fairness, out of the prover's reach. What a copied tree of elements, a path, a
cell of a table or an imported environment becomes is computed by recursion over data:
`SubmodelElements`, `ElementExchange`, `Interchange` and `Tables` declare `RECURSIVE`
operators, so that the runs `shells`, `exchange` and `editors`, whose modules use them,
have no theorems. `ReadAsStored` and `HistoryTellsChanges` speak of GS1 check digits
(weighted sums over typed digits) and of the endpoints, where every change is an
activity per path computed from nested content; `ListedAsRead` is the part of
`ReadAsStored` that is proved. The client's `WhatIsShownIsTrue` follows requests through
queues that are filtered by `SelectSeq`, a recursion over data; TLC explores these machines whole.
`FreshIsAtomic`, `PublicationPins` and the other properties of `write_path`,
`permalinks` and `platform` are both: checked with a fault at every step, and proved.

The map of `PROJECT.json` lists the definitions that translate operations; a helper whose
lines lie within those of a listed definition is not listed on its own.
## 5. Not modelled

Analytics (derived, recomputed), traceability events (append-only), email, OpenAPI
descriptions, schemas and environment variables, the AI agent and its tools, the
virus scanner, downloads of media, the resolver's redirect, and the tests: input and
output, or data without a rule of their own. Within the modelled parts the notes of
`PROJECT.json` and section 2 say what is left out.
