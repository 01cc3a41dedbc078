----------------------- MODULE PermalinkLifecycle_proofs -----------------------
(***************************************************************************)
(* Type correctness of PermalinkLifecycle; that nothing is pinned or shown *)
(* to a visitor before the passport has been published; that a publication *)
(* pins; and what holds of pins when requests do not overlap.              *)
(*                                                                         *)
(* The first argument follows the word "published" through the copies.  A  *)
(* stored passport, a handler's copy of it (but for the publication        *)
(* itself) or a stored pin may say so only when released holds.  A         *)
(* transaction's view may say so earlier, when the transaction has itself  *)
(* saved the published passport: its commit makes released true, its abort *)
(* forgets the view.                                                       *)
(*                                                                         *)
(* The second, PublicationInv, is about the transaction of a publication:  *)
(* what it has pinned so far, and what of its view the store still shows.  *)
(*                                                                         *)
(* The third, LoneInv, is about one handler slot: its copies are what is  *)
(* stored, or what it is about to save, and its transaction sees the store *)
(* but for its own writes.  It is stated and proved in the second half.    *)
(***************************************************************************)
EXTENDS PermalinkLifecycle, TLAPS

\* Published now or before it was archived.
Public(passport) ==
    passport # Absent /\ "Published" \in {passport.status, passport.previous}

HasPin(link) == link # Absent /\ link.url # Null

\* Released, or sure to be when transaction t commits.
Releasing(t, rel) ==
    rel \/ (/\ t.open /\ PassportDoc \in t.written
            /\ IsPublished(t.view[PassportDoc]))

\* A store that speaks of a publication only if it is certain.
Truthful(store, certain) ==
    /\ Public(store[PassportDoc]) => certain
    /\ \A k \in Keys : HasPin(store[LinkDoc(k)]) => certain

TransactionInv(t, rel) ==
    /\ t = [open |-> t.open, view |-> t.view, written |-> t.written, missed |-> t.missed]
    /\ t.open \in BOOLEAN
    /\ StoreOK(t.view)
    /\ t.open => Truthful(t.view, Releasing(t, rel))

Shown == {"list", "visit", "patch"}

\* What a handler q with transaction t may know.
HandlerInv(q, t, rel) ==
    /\ q.at \in InCallback <=> t.open
    /\ q.op # "publish" /\ Public(q.passport) => rel
    /\ q.op = "publish" => IsPublished(q.passport)
    /\ q.at \in {"save", "drop"} /\ Releasing(t, rel) => rel
    /\ q.at \in {"find", "base", "pin"} => Releasing(t, rel)
    /\ \A k \in Keys : HasPin(q.links[k]) => Releasing(t, rel)
    /\ q.op \in Shown /\ q.at \notin {"idle", "config", "passport"} => q.member \/ rel

\* Which operation is where.
Stage(q) ==
    /\ q.at \in InCallback \cup {"ready"} => q.op \in StatusOrDelete \cup {"list"}
    /\ q.at \in {"save", "find", "drop"} => q.op # "list"
    /\ q.at = "list" => q.op = "list"
    /\ q.at \in {"config", "passport"} => q.op \in {"visit", "patch"}
    /\ q.at = "update" => q.op = "patch"
    /\ q.at \in {"effective", "seed"} => q.op \in {"visit", "listConfigs", "createConfig"}
    /\ q.at \in {"branding", "answer"} \cup Saving => q.op \in Shown

\* What handler q, whose transaction sees view, has in hand.
Held(q, view) ==
    /\ q.at = "pin" => q.base \in Bases
    /\ q.at \in {"base", "pin"} => \A k \in q.pending : view[LinkDoc(k)] # Absent
    /\ q.at \in {"create", "recheck"} => q.key \in Keys
    /\ q.at = "recheck" => view[LinkDoc(q.key)] # Absent /\ q.links[q.key] # Absent
    /\ q.op = "list" /\ q.at \in {"base", "pin", "commit"}
         => q.key \in Keys /\ q.links[q.key] # Absent
    /\ q.op \in {"visit", "patch"}
         => q.key \in Keys /\ q.links[q.key] # Absent /\ q.pending \subseteq {q.key}
    /\ q.op = "patch" => q.change \in Changes
    /\ q.at \in {"branding"} \cup Saving => \A k \in q.pending : q.links[k] # Absent
    /\ q.at \notin Saving => q.sought = {}
    /\ q.sought \subseteq q.pending

Consistent(q, t, rel) ==
    /\ q \in RequestTypes
    /\ HandlerInv(q, t, rel)
    /\ Stage(q)
    /\ Held(q, t.view)

RequestInv(q, t, rel) == TransactionInv(t, rel) /\ Consistent(q, t, rel)

Inv ==
    /\ StoreOK(db)
    /\ Truthful(db, released)
    /\ txn = [r \in Requests |-> txn[r]]
    /\ requests = [r \in Requests |-> requests[r]]
    /\ \A r \in Requests : RequestInv(requests[r], txn[r], released)
    /\ fallback \in Bases
    /\ released \in BOOLEAN
    /\ faults \in Nat

-----------------------------------------------------------------------------
(* Documents                                                               *)

LEMMA Names ==
    ASSUME NEW k \in Keys, NEW j \in Keys
    PROVE  /\ PassportDoc \in Documents /\ ConfigDoc(k) \in Documents
           /\ LinkDoc(k) \in Documents
           /\ ConfigDoc(k) # PassportDoc /\ LinkDoc(k) # PassportDoc
           /\ LinkDoc(k) # ConfigDoc(j)
           /\ LinkDoc(k) = LinkDoc(j) => k = j
           /\ ConfigDoc(k) = ConfigDoc(j) => k = j
BY DEF PassportDoc, ConfigDoc, LinkDoc, Documents, ConfigDocs, LinkDocs

\* The values an update may give to documents.
UpdateOK(update) ==
    /\ PassportDoc \in DOMAIN update => update[PassportDoc] \in Passports \cup {Absent}
    /\ \A k \in Keys :
         /\ ConfigDoc(k) \in DOMAIN update => update[ConfigDoc(k)] \in {"present", Absent}
         /\ LinkDoc(k) \in DOMAIN update => update[LinkDoc(k)] \in Links \cup {Absent}

\* The publications an update speaks of are certain.
UpdateTruthful(update, certain) ==
    /\ PassportDoc \in DOMAIN update /\ Public(update[PassportDoc]) => certain
    /\ \A k \in Keys :
         LinkDoc(k) \in DOMAIN update /\ HasPin(update[LinkDoc(k)]) => certain

LEMMA OverwriteOK ==
    ASSUME NEW store, StoreOK(store), NEW update, UpdateOK(update)
    PROVE  StoreOK(Overwrite(store, update))
<1> DEFINE new == Overwrite(store, update)
<1>1. new = [d \in Documents |-> new[d]]
  BY DEF Overwrite
<1>2. \A d \in Documents : new[d] = IF d \in DOMAIN update THEN update[d] ELSE store[d]
  BY DEF Overwrite
<1>3. new[PassportDoc] \in Passports \cup {Absent}
  BY <1>2 DEF StoreOK, UpdateOK, Documents
<1>4. ASSUME NEW k \in Keys
      PROVE  /\ new[ConfigDoc(k)] \in {"present", Absent}
             /\ new[LinkDoc(k)] \in Links \cup {Absent}
  BY <1>2, Names DEF StoreOK, UpdateOK
<1> QED BY <1>1, <1>3, <1>4 DEF StoreOK

LEMMA OverwriteTruthful ==
    ASSUME NEW store, NEW update, NEW certain \in BOOLEAN,
           Truthful(store, certain), UpdateTruthful(update, certain)
    PROVE  Truthful(Overwrite(store, update), certain)
<1> DEFINE new == Overwrite(store, update)
<1>1. \A d \in Documents : new[d] = IF d \in DOMAIN update THEN update[d] ELSE store[d]
  BY DEF Overwrite
<1>2. Public(new[PassportDoc]) => certain
  BY <1>1 DEF Truthful, UpdateTruthful, Documents
<1>3. \A k \in Keys : HasPin(new[LinkDoc(k)]) => certain
  BY <1>1, Names DEF Truthful, UpdateTruthful
<1> QED BY <1>2, <1>3 DEF Truthful

LEMMA OneOK ==
    ASSUME NEW d, NEW value
    PROVE  /\ DOMAIN One(d, value) = {d}
           /\ One(d, value)[d] = value
BY DEF One

-----------------------------------------------------------------------------
(* Transactions                                                            *)

LEMMA NoTransactionOK ==
    ASSUME NEW rel
    PROVE  NoTransaction.open = FALSE /\ TransactionInv(NoTransaction, rel)
<1>1. StoreOK([d \in Documents |-> Absent])
  BY Names DEF StoreOK, Documents
<1> QED BY <1>1 DEF NoTransaction, TransactionInv

\* What a handler may know does not shrink when released becomes true.
LEMMA Monotone ==
    ASSUME NEW q, NEW t, NEW rel \in BOOLEAN, NEW rel2 \in BOOLEAN, rel => rel2,
           RequestInv(q, t, rel)
    PROVE  RequestInv(q, t, rel2)
<1>1. Releasing(t, rel) => Releasing(t, rel2)
  BY DEF Releasing
<1>2. TransactionInv(t, rel2)
  BY <1>1 DEF RequestInv, TransactionInv, Truthful
<1>3. HandlerInv(q, t, rel) => HandlerInv(q, t, rel2)
  BY <1>1 DEF HandlerInv
<1> QED BY <1>2, <1>3 DEF RequestInv, Consistent

\* A transaction that only misses more documents is as it was otherwise.
LEMMA Missing ==
    ASSUME NEW q, NEW t, NEW rel \in BOOLEAN, NEW changed, RequestInv(q, t, rel)
    PROVE  RequestInv(q, [t EXCEPT !.missed = @ \cup changed], rel)
<1> DEFINE u == [t EXCEPT !.missed = @ \cup changed]
<1>1. /\ u.open = t.open /\ u.view = t.view /\ u.written = t.written
      /\ u = [open |-> u.open, view |-> u.view, written |-> u.written, missed |-> u.missed]
  BY DEF RequestInv, TransactionInv
<1> HIDE DEF u
<1>2. Releasing(u, rel) <=> Releasing(t, rel)
  BY <1>1 DEF Releasing
<1>3. TransactionInv(u, rel)
  BY <1>1, <1>2 DEF RequestInv, TransactionInv, Truthful
<1>4. HandlerInv(q, t, rel) => HandlerInv(q, u, rel)
  BY <1>1, <1>2 DEF HandlerInv
<1> QED BY <1>1, <1>3, <1>4 DEF RequestInv, Consistent, u

\* A step of one handler that leaves the store alone.
LEMMA OneHandler ==
    ASSUME Inv, NEW r \in Requests, NEW q, NEW t,
           requests' = [requests EXCEPT ![r] = q], txn' = [txn EXCEPT ![r] = t],
           RequestInv(q, t, released),
           UNCHANGED <<db, fallback, released>>, faults' \in Nat
    PROVE  Inv'
<1>1. /\ requests' = [p \in Requests |-> requests'[p]]
      /\ txn' = [p \in Requests |-> txn'[p]]
  BY DEF Inv
<1>2. ASSUME NEW p \in Requests
      PROVE  RequestInv(requests'[p], txn'[p], released')
  BY DEF Inv
<1> QED BY <1>1, <1>2 DEF Inv

\* ... and its transaction.
LEMMA Local ==
    ASSUME Inv, NEW r \in Requests, NEW q, Update(r, q),
           Consistent(q, txn[r], released),
           UNCHANGED <<db, txn, fallback, released>>, faults' \in Nat
    PROVE  Inv'
<1>1. txn' = [txn EXCEPT ![r] = txn[r]]
  BY DEF Inv
<1>2. RequestInv(q, txn[r], released)
  BY DEF Inv, RequestInv
<1> QED BY <1>1, <1>2, OneHandler DEF Update

LEMMA NewRequestOK ==
    ASSUME NEW t, t.open = FALSE, NEW rel
    PROVE  Consistent(NewRequest, t, rel)
<1>1. NewRequest \in RequestTypes
  BY DEF NewRequest, RequestTypes, Labels
<1>2. HandlerInv(NewRequest, t, rel)
  BY DEF NewRequest, HandlerInv, InCallback, Saving, Shown, HasPin, Public
<1>3. Stage(NewRequest) /\ Held(NewRequest, t.view)
  BY DEF NewRequest, Stage, Held, InCallback, Saving
<1> QED BY <1>1, <1>2, <1>3 DEF Consistent

\* The transaction is aborted, the handler goes on as q.
LEMMA Aborted ==
    ASSUME Inv, NEW r \in Requests, AbortTransaction(r), NEW q, Update(r, q),
           Consistent(q, NoTransaction, released),
           UNCHANGED <<fallback, released>>, faults' \in Nat
    PROVE  Inv'
<1>1. RequestInv(q, NoTransaction, released)
  BY NoTransactionOK DEF RequestInv
<1> QED BY <1>1, OneHandler DEF AbortTransaction, Update

\* The handler ends, and aborts its transaction or had none.
LEMMA EndedInCallback ==
    ASSUME Inv, NEW r \in Requests, AbortTransaction(r), Finish(r),
           UNCHANGED <<fallback, released>>, faults' \in Nat
    PROVE  Inv'
<1>1. Consistent(NewRequest, NoTransaction, released)
  BY NewRequestOK, NoTransactionOK
<1> QED BY <1>1, Aborted DEF Finish

LEMMA Ended ==
    ASSUME Inv, NEW r \in Requests, ~txn[r].open, Finish(r),
           UNCHANGED <<db, txn, fallback, released>>, faults' \in Nat
    PROVE  Inv'
<1>1. txn[r].open = FALSE
  BY DEF Inv, RequestInv, TransactionInv
<1>2. Consistent(NewRequest, txn[r], released)
  BY <1>1, NewRequestOK
<1> QED BY <1>2, Local DEF Finish

LEMMA Retried ==
    ASSUME Inv, NEW r \in Requests, Retry(r), txn[r].open,
           UNCHANGED <<fallback, released>>, faults' \in Nat
    PROVE  Inv'
<1> DEFINE q == [requests[r] EXCEPT
              !.at = "ready", !.key = Null, !.base = Null, !.pending = {},
              !.links = NewRequest.links]
<1>0. AbortTransaction(r)
  BY DEF Retry
<1>1. CASE Finish(r)
  BY <1>0, <1>1, EndedInCallback
<1>2. CASE Update(r, q)
  <2>1. Consistent(requests[r], txn[r], released)
    BY DEF Inv, RequestInv
  <2>2. q \in RequestTypes
    BY <2>1 DEF Consistent, RequestTypes, Labels, NewRequest
  <2>3. /\ q.at = "ready" /\ q.op = requests[r].op /\ q.passport = requests[r].passport
        /\ q.member = requests[r].member /\ q.pending = {}
        /\ q.sought = requests[r].sought
        /\ \A k \in Keys : q.links[k] = Absent
    BY <2>1 DEF Consistent, RequestTypes, NewRequest
  <2>4. requests[r].at \in InCallback
    BY <2>1 DEF Consistent, HandlerInv
  <2> HIDE DEF q
  <2>5. HandlerInv(q, NoTransaction, released)
    BY <2>1, <2>3, <2>4, NoTransactionOK
       DEF Consistent, HandlerInv, InCallback, HasPin
  <2>6. q.op \notin {"visit", "patch"} /\ Stage(q)
    BY <2>1, <2>3, <2>4
       DEF Consistent, Stage, InCallback, Saving, StatusOrDelete, StatusOperations
  <2>7. q.sought = {}
    BY <2>1, <2>3, <2>4 DEF Consistent, Held, InCallback, Saving
  <2>8. Held(q, NoTransaction.view)
    BY <2>3, <2>6, <2>7 DEF Held, Saving
  <2>9. Consistent(q, NoTransaction, released)
    BY <2>2, <2>5, <2>6, <2>8 DEF Consistent
  <2> QED BY <1>2, <2>9, Aborted DEF Retry, q
<1> QED BY <1>1, <1>2 DEF Retry

\* The transaction of r once it has written update.
Written(r, update) ==
    [open    |-> TRUE,
     view    |-> Overwrite(txn[r].view, update),
     written |-> txn[r].written \cup Differing(txn[r].view, update),
     missed  |-> txn[r].missed]

LEMMA Wrote ==
    ASSUME Inv, NEW r \in Requests, NEW update, NEW q,
           WriteInTransaction(r, update), Update(r, q),
           UpdateOK(update),
           Releasing(txn[r], released) => Releasing(Written(r, update), released),
           UpdateTruthful(update, Releasing(Written(r, update), released)),
           Consistent(q, Written(r, update), released),
           UNCHANGED <<fallback, released>>, faults' \in Nat
    PROVE  Inv'
<1> DEFINE t == txn[r]  u == Written(r, update)  sure == Releasing(u, released)
<1>1. txn' = [txn EXCEPT ![r] = u] /\ UNCHANGED db
  BY DEF WriteInTransaction, Written
<1>2. /\ StoreOK(t.view) /\ t.open
      /\ Truthful(t.view, Releasing(t, released))
  BY DEF Inv, RequestInv, TransactionInv, WriteInTransaction
<1>3. sure \in BOOLEAN
  BY DEF Releasing, Written, Inv, IsPublished
<1>4. Truthful(t.view, sure)
  BY <1>2 DEF Truthful
<1>5. StoreOK(u.view) /\ Truthful(u.view, sure)
  BY <1>2, <1>3, <1>4, OverwriteOK, OverwriteTruthful DEF Written
<1>6. TransactionInv(u, released)
  BY <1>5 DEF TransactionInv, Written
<1>7. RequestInv(q, u, released)
  BY <1>6 DEF RequestInv
<1> QED BY <1>1, <1>7, OneHandler DEF Update

LEMMA Saved ==
    ASSUME Inv, NEW r \in Requests, NEW update, NEW q, txn[r].open,
           Save(r, update, q), UpdateOK(update),
           Releasing(txn[r], released) => Releasing(Written(r, update), released),
           UpdateTruthful(update, Releasing(Written(r, update), released)),
           Consistent(q, Written(r, update), released),
           UNCHANGED <<fallback, released, faults>>
    PROVE  Inv'
<1>0. faults' \in Nat
  BY DEF Inv
<1>1. CASE WriteConflict(r, update) /\ Retry(r)
  BY <1>0, <1>1, Retried
<1>2. CASE WriteInTransaction(r, update) /\ Update(r, q)
  BY <1>0, <1>2, Wrote
<1> QED BY <1>1, <1>2 DEF Save

\* An update that leaves the passport alone keeps a certainty.
LEMMA StillReleasing ==
    ASSUME NEW r \in Requests, NEW update, PassportDoc \notin DOMAIN update,
           Releasing(txn[r], released)
    PROVE  Releasing(Written(r, update), released)
<1>1. PassportDoc \in Documents
  BY DEF Documents
<1>2. Written(r, update).view[PassportDoc] = txn[r].view[PassportDoc]
  BY <1>1 DEF Written, Overwrite
<1> QED BY <1>2 DEF Releasing, Written

\* After a write without a session or a commit, the others know what they knew.
LEMMA Notified ==
    ASSUME Inv, NEW r \in Requests, NEW changed, NEW own, NEW q, NEW rel \in BOOLEAN,
           released => rel,
           txn' = Notify(r, changed, own), requests' = [requests EXCEPT ![r] = q],
           RequestInv(q, own, rel), released' = rel
    PROVE  /\ txn' = [p \in Requests |-> txn'[p]]
           /\ requests' = [p \in Requests |-> requests'[p]]
           /\ \A p \in Requests : RequestInv(requests'[p], txn'[p], released')
<1>1. /\ txn' = [p \in Requests |-> txn'[p]]
      /\ requests' = [p \in Requests |-> requests'[p]]
  BY DEF Inv, Notify
<1>2. ASSUME NEW p \in Requests
      PROVE  RequestInv(requests'[p], txn'[p], rel)
  <2>1. CASE p = r
    <3>1. txn'[p] = own /\ requests'[p] = q
      BY <2>1 DEF Notify, Inv
    <3> QED BY <3>1
  <2>2. CASE p # r
    <3>1. requests'[p] = requests[p]
      BY <2>2 DEF Inv
    <3>2. RequestInv(requests[p], txn[p], released) /\ released \in BOOLEAN
      BY DEF Inv
    <3>3. txn'[p] = txn[p] \/ txn'[p] = [txn[p] EXCEPT !.missed = @ \cup changed]
      BY <2>2 DEF Notify
    <3>4. RequestInv(requests[p], txn'[p], released)
      BY <3>2, <3>3, Missing
    <3> QED BY <3>1, <3>2, <3>4, Monotone
  <2> QED BY <2>1, <2>2
<1> QED BY <1>1, <1>2

LEMMA WroteDirectly ==
    ASSUME Inv, NEW r \in Requests, NEW update, NEW q,
           WriteDirectly(r, update), Update(r, q), UpdateOK(update),
           UpdateTruthful(update, released),
           Consistent(q, txn[r], released),
           UNCHANGED <<fallback, released, faults>>
    PROVE  Inv'
<1>1. StoreOK(db') /\ Truthful(db', released)
  BY OverwriteOK, OverwriteTruthful DEF Inv, WriteDirectly
<1>2. RequestInv(q, txn[r], released)
  BY DEF Inv, RequestInv
<1>3. /\ txn' = [p \in Requests |-> txn'[p]]
      /\ requests' = [p \in Requests |-> requests'[p]]
      /\ \A p \in Requests : RequestInv(requests'[p], txn'[p], released')
  <2>1. released \in BOOLEAN
    BY DEF Inv
  <2>2. /\ txn' = Notify(r, Differing(db, update), txn[r])
        /\ requests' = [requests EXCEPT ![r] = q]
        /\ released' = released
    BY DEF WriteDirectly, Update
  <2> QED BY <1>2, <2>1, <2>2, Notified
<1> QED BY <1>1, <1>3 DEF Inv

-----------------------------------------------------------------------------
(* Status changes and deletion                                             *)

LEMMA Known ==
    ASSUME Inv, NEW r \in Requests
    PROVE  /\ requests[r] \in RequestTypes
           /\ TransactionInv(txn[r], released)
           /\ HandlerInv(requests[r], txn[r], released)
           /\ Stage(requests[r]) /\ Held(requests[r], txn[r].view)
           /\ StoreOK(db) /\ Truthful(db, released)
           /\ released \in BOOLEAN /\ faults \in Nat /\ fallback \in Bases
           /\ txn[r].open \in BOOLEAN
           /\ txn[r].open <=> requests[r].at \in InCallback
BY DEF Inv, RequestInv, Consistent, TransactionInv, HandlerInv

LEMMA StatusChangeOK ==
    ASSUME NEW op, NEW passport, passport \in Passports \cup {Absent},
           Admitted(op, passport)
    PROVE  /\ HandleStatusChange(op, passport) \in Passports
           /\ op # "publish" /\ Public(HandleStatusChange(op, passport)) => Public(passport)
           /\ op = "publish" => IsPublished(HandleStatusChange(op, passport))
<1> USE ValuesAssumption DEF Public, IsPublished
<1>1. passport \in Passports /\ passport # Absent
  BY DEF Admitted
<1>2. CASE op = "publish"
  BY <1>1, <1>2 DEF Admitted, HandleStatusChange, PublishDpp, MayPublish, Passports, Statuses, StatusChanges
<1>3. CASE op = "archive"
  BY <1>1, <1>3 DEF Admitted, HandleStatusChange, ArchiveDpp, MayArchive, Passports, Statuses, StatusChanges
<1>4. CASE op = "restore"
  BY <1>1, <1>4 DEF Admitted, HandleStatusChange, RestoreDpp, MayRestore, Passports, Statuses, StatusChanges
<1>5. CASE op \notin {"publish", "archive", "restore"}
  BY <1>1, <1>5 DEF HandleStatusChange
<1> QED BY <1>2, <1>3, <1>4, <1>5

\* What publish has in hand is published.
LEMMA LoadForStatusStep ==
    ASSUME Inv, NEW r \in Requests, NEW op \in StatusOrDelete, LoadForStatus(r, op)
    PROVE  Inv'
<1> DEFINE p == HandleStatusChange(op, db[PassportDoc])
           q == [NewRequest EXCEPT !.op = op, !.at = "ready", !.passport = p]
<1>1. /\ p \in Passports /\ (op # "publish" /\ Public(p) => released)
      /\ op = "publish" => IsPublished(p)
  BY Known, StatusChangeOK DEF LoadForStatus, StoreOK, Truthful
<1>2. q \in RequestTypes
  BY <1>1, NewRequestOK, NoTransactionOK DEF Consistent, RequestTypes, Labels, AllOperations
<1>3. /\ q.op = op /\ q.at = "ready" /\ q.passport = p
      /\ q.sought = {} /\ q.pending = {}
      /\ \A k \in Keys : q.links[k] = Absent
  BY DEF NewRequest
<1>4. op \notin Shown /\ op \notin {"visit", "patch", "list"}
  BY DEF StatusOrDelete, StatusOperations, Shown
<1>5. requests[r].at = "idle"
  BY DEF LoadForStatus, At
<1>6. ~txn[r].open
  BY <1>5, Known DEF InCallback
<1> HIDE DEF q
<1>7. HandlerInv(q, txn[r], released)
  BY <1>1, <1>3, <1>4, <1>6 DEF HandlerInv, InCallback, Saving, HasPin
<1>8. Stage(q) /\ Held(q, txn[r].view)
  BY <1>3, <1>4 DEF Stage, Held, InCallback, Saving
<1> QED BY <1>2, <1>7, <1>8, Local, Known DEF LoadForStatus, Consistent, q

LEMMA BeginStep ==
    ASSUME Inv, NEW r \in Requests, Begin(r)
    PROVE  Inv'
<1> DEFINE req == requests[r]
           label == CASE req.op = "list"           -> "ensure"
                      [] req.op = "deletePassport" -> "drop"
                      [] OTHER                     -> "save"
           q == [req EXCEPT !.at = label, !.attempts = @ + 1]
           t == [open |-> TRUE, view |-> db, written |-> {}, missed |-> {}]
<1>1. /\ label \in {"ensure", "drop", "save"}
      /\ label \in {"drop", "save"} => req.op # "list"
  OBVIOUS
<1> HIDE DEF label
<1>0. req \in RequestTypes
  BY Known
<1>1a. req.attempts + 1 \in Nat /\ label \in Labels
  BY <1>0, <1>1 DEF RequestTypes, Labels, InCallback
<1>2. q \in RequestTypes
  BY <1>0, <1>1a DEF RequestTypes
<1>3. /\ q.op = req.op /\ q.at = label /\ q.passport = req.passport
      /\ q.links = req.links /\ q.member = req.member
      /\ q.sought = req.sought /\ q.pending = req.pending
  BY <1>0 DEF RequestTypes
<1>4. req.at = "ready"
  BY DEF Begin, At
<1>5. Releasing(t, released) <=> released
  BY DEF Releasing
<1>6. Releasing(txn[r], released) => released
  BY <1>4, Known DEF Releasing, InCallback
<1>7. TransactionInv(t, released)
  BY <1>5, Known DEF TransactionInv, Truthful
<1> HIDE DEF q
<1>8. HandlerInv(q, t, released)
  BY <1>1, <1>3, <1>4, <1>5, <1>6, Known DEF HandlerInv, InCallback, Saving
<1>9. Stage(q) /\ q.op \notin {"visit", "patch"}
  BY <1>1, <1>3, <1>4, Known DEF Stage, InCallback, Saving, StatusOrDelete, StatusOperations
<1>10. req.sought = {}
  BY <1>4, Known DEF Held, Saving
<1>11. Held(q, t.view)
  BY <1>1, <1>3, <1>9, <1>10 DEF Held, Saving
<1>12. RequestInv(q, t, released)
  BY <1>2, <1>7, <1>8, <1>9, <1>11 DEF RequestInv, Consistent
<1>13. requests' = [requests EXCEPT ![r] = q] /\ txn' = [txn EXCEPT ![r] = t]
  BY DEF Begin, Update, StartTransaction, q, label
<1> QED BY <1>12, <1>13, OneHandler, Known DEF Begin, StartTransaction

\* A publication that saves the passport is sure to release it when it commits.
LEMMA SavePassportStep ==
    ASSUME Inv, NEW r \in Requests, SavePassport(r)
    PROVE  Inv'
<1> DEFINE req == requests[r]
           label == IF req.op = "publish" THEN "find" ELSE "commit"
           q == [req EXCEPT !.at = label]
           update == One(PassportDoc, req.passport)
           t == txn[r]
           u == Written(r, update)
<1>1. req.at = "save" /\ req.at \in InCallback
  BY DEF SavePassport, At, InCallback
<1>2. t.open
  BY <1>1, Known
<1>3. q \in RequestTypes
  BY Known DEF RequestTypes, Labels, InCallback
<1>4. /\ q.op = req.op /\ q.at = label /\ q.passport = req.passport
      /\ q.links = req.links /\ q.member = req.member
      /\ q.sought = req.sought /\ q.pending = req.pending
  BY Known DEF RequestTypes
<1>5. DOMAIN update = {PassportDoc} /\ update[PassportDoc] = req.passport
  BY OneOK
<1>6. UpdateOK(update)
  BY <1>5, Names, Known DEF UpdateOK, RequestTypes
<1>7. /\ u.open /\ u.view[PassportDoc] = req.passport
      /\ t.view[PassportDoc] # req.passport => PassportDoc \in u.written
  BY <1>5 DEF Written, Overwrite, Documents, Differing
<1>8. Releasing(t, released) => released
  BY <1>1, Known DEF HandlerInv
<1>9. released => Releasing(u, released)
  BY DEF Releasing
<1>10. Public(t.view[PassportDoc]) => released
  BY <1>2, <1>8, Known DEF TransactionInv, Truthful
<1>11. req.op = "publish" => Releasing(u, released)
  <2>1. CASE t.view[PassportDoc] # req.passport
    BY <1>7, <2>1, Known DEF Releasing, HandlerInv
  <2>2. CASE t.view[PassportDoc] = req.passport
    BY <1>9, <1>10, <2>2, Known DEF Public, IsPublished, HandlerInv
  <2> QED BY <2>1, <2>2
<1>12. Public(req.passport) => Releasing(u, released)
  BY <1>9, <1>11, Known DEF HandlerInv
<1>13. UpdateTruthful(update, Releasing(u, released))
  BY <1>5, <1>12, Names DEF UpdateTruthful
<1> HIDE DEF q, u, t, update
<1>14. HandlerInv(q, u, released)
  BY <1>1, <1>4, <1>7, <1>8, <1>9, <1>11, Known
     DEF HandlerInv, InCallback, Saving, Shown, t
<1>15. Stage(q) /\ q.op \notin {"visit", "patch", "list"}
  BY <1>1, <1>4, Known DEF Stage, InCallback, Saving, StatusOrDelete, StatusOperations
<1>16. Held(q, u.view)
  BY <1>1, <1>4, <1>15, Known DEF Held, Saving
<1> QED BY <1>2, <1>3, <1>6, <1>8, <1>9, <1>13, <1>14, <1>15, <1>16, Saved
        DEF SavePassport, Consistent, q, u, t, update

\* The permalinks it will pin exist in its view.
LEMMA FindPermalinksStep ==
    ASSUME Inv, NEW r \in Requests, FindPermalinks(r)
    PROVE  Inv'
<1> DEFINE req == requests[r]
           found == Reachable(txn[r].view)
           label == IF found = {} THEN "commit" ELSE "base"
           q == [req EXCEPT !.at = label, !.pending = found]
<1>1. req.at = "find" /\ req.at \in InCallback
  BY DEF FindPermalinks, At, InCallback
<1>2. /\ found \subseteq Keys /\ \A k \in found : txn[r].view[LinkDoc(k)] # Absent
      /\ label \in {"commit", "base"}
  BY DEF Reachable, Configured
<1> HIDE DEF found, label
<1>0. req \in RequestTypes
  BY Known
<1>3. q \in RequestTypes
  BY <1>0, <1>2 DEF RequestTypes, Labels, InCallback
<1>4. /\ q.op = req.op /\ q.at = label /\ q.passport = req.passport
      /\ q.links = req.links /\ q.member = req.member
      /\ q.sought = req.sought /\ q.pending = found
  BY Known DEF RequestTypes
<1> HIDE DEF q
<1>5. HandlerInv(q, txn[r], released)
  BY <1>1, <1>2, <1>4, Known DEF HandlerInv, InCallback
<1>6. Stage(q) /\ q.op \notin {"visit", "patch", "list"}
  BY <1>1, <1>2, <1>4, Known DEF Stage, InCallback, Saving, StatusOrDelete, StatusOperations
<1>7. Held(q, txn[r].view)
  BY <1>1, <1>2, <1>4, <1>6, Known DEF Held, Saving
<1> QED BY <1>3, <1>5, <1>6, <1>7, Local, Known
        DEF FindPermalinks, Consistent, q, found, label

LEMMA LoadBaseStep ==
    ASSUME Inv, NEW r \in Requests, LoadBase(r)
    PROVE  Inv'
<1> DEFINE req == requests[r]
           q == [req EXCEPT !.base = fallback, !.at = "pin"]
<1>1. req.at = "base"
  BY DEF LoadBase, At
<1>0. req \in RequestTypes /\ fallback \in Bases
  BY Known
<1>2. q \in RequestTypes
  BY <1>0 DEF RequestTypes, Labels, InCallback
<1>3. /\ q.op = req.op /\ q.at = "pin" /\ q.passport = req.passport
      /\ q.links = req.links /\ q.member = req.member /\ q.base = fallback
      /\ q.sought = req.sought /\ q.pending = req.pending /\ q.key = req.key
  BY Known DEF RequestTypes
<1> HIDE DEF q
<1>4. HandlerInv(q, txn[r], released)
  BY <1>1, <1>3, Known DEF HandlerInv, InCallback
<1>5. Stage(q)
  BY <1>1, <1>3, Known DEF Stage, InCallback, Saving, StatusOrDelete, StatusOperations
<1>8. q.op \notin {"visit", "patch"}
  BY <1>3, <1>5 DEF Stage, InCallback, StatusOrDelete, StatusOperations
<1>9. Held(q, txn[r].view)
  BY <1>0, <1>1, <1>3, <1>8, Known DEF Held, Saving
<1>6. CASE Update(r, q) /\ UNCHANGED <<txn, db, faults>>
  BY <1>2, <1>4, <1>5, <1>6, <1>9, Local, Known DEF LoadBase, Consistent
<1>7. CASE faults' = faults + 1 /\ AbortTransaction(r) /\ Finish(r)
  BY <1>7, EndedInCallback, Known DEF LoadBase
<1> QED BY <1>6, <1>7 DEF LoadBase, q

LEMMA PinOK ==
    ASSUME NEW k \in Keys, NEW link \in Links, NEW base \in Bases
    PROVE  Pin(k, link, base) \in Links /\ Pin(k, link, base) # Absent
<1>1. /\ link.slug \in Slugs \cup {Null} /\ link.base \in Bases \cup {Null}
      /\ link = [slug |-> link.slug, base |-> link.base, url |-> link.url]
  BY DEF Links
<1>2. PublicUrl(k, link, base) \in Urls
  BY <1>1 DEF PublicUrl, Urls
<1>3. Pin(k, link, base) \in Links
  BY <1>1, <1>2 DEF Pin, Links
<1> QED BY <1>3, ValuesAssumption

\* A pin is written only where the publication is certain.
LEMMA PinInTransactionStep ==
    ASSUME Inv, NEW r \in Requests, NEW k \in Keys, PinInTransaction(r, k)
    PROVE  Inv'
<1> DEFINE req == requests[r]
           t == txn[r]
           pinned == Pin(k, t.view[LinkDoc(k)], req.base)
           label == IF req.pending = {k} THEN "commit" ELSE "pin"
           q == [req EXCEPT !.pending = @ \ {k}, !.links[k] = pinned, !.at = label]
           update == One(LinkDoc(k), pinned)
           u == Written(r, update)
<1>1. /\ req.at = "pin" /\ req.at \in InCallback /\ k \in req.pending
      /\ label \in {"commit", "pin"}
  BY DEF PinInTransaction, At, InCallback
<1>2. req \in RequestTypes /\ t.open
  BY <1>1, Known
<1>3. pinned \in Links /\ pinned # Absent
  <2>1. t.view[LinkDoc(k)] \in Links
    BY <1>1, Known DEF TransactionInv, StoreOK, Held
  <2> QED BY <1>1, <2>1, PinOK, Known DEF Held
<1> HIDE DEF label, pinned
<1>4. q \in RequestTypes
  BY <1>1, <1>2, <1>3 DEF RequestTypes, Labels, InCallback
<1>5. /\ q.op = req.op /\ q.at = label /\ q.passport = req.passport
      /\ q.member = req.member /\ q.base = req.base /\ q.key = req.key
      /\ q.sought = req.sought /\ q.pending = req.pending \ {k}
      /\ q.links = [req.links EXCEPT ![k] = pinned]
      /\ req.links \in [Keys -> Links \cup {Absent}]
  BY <1>2 DEF RequestTypes
<1>6. DOMAIN update = {LinkDoc(k)} /\ update[LinkDoc(k)] = pinned
  BY OneOK
<1>7. UpdateOK(update)
  BY <1>3, <1>6, Names DEF UpdateOK
<1>8. /\ u.open
      /\ \A j \in Keys : u.view[LinkDoc(j)] = IF j = k THEN pinned ELSE t.view[LinkDoc(j)]
  BY <1>6, Names DEF Written, Overwrite
<1>9. Releasing(t, released) /\ Releasing(u, released)
  BY <1>1, <1>6, Known, Names, StillReleasing DEF HandlerInv
<1>10. UpdateTruthful(update, Releasing(u, released))
  BY <1>6, <1>9, Names DEF UpdateTruthful
<1> HIDE DEF q, u, t, update
<1>11. HandlerInv(q, u, released)
  BY <1>1, <1>5, <1>8, <1>9, Known DEF HandlerInv, InCallback
<1>12. Stage(q) /\ q.op \notin {"visit", "patch"}
  BY <1>1, <1>5, Known DEF Stage, InCallback, Saving, StatusOrDelete, StatusOperations
<1>13. q.sought = {}
  BY <1>1, <1>5, Known DEF Held, Saving
<1>14. q.op = "list" => q.key \in Keys /\ q.links[q.key] # Absent
  <2>1. req.op = "list" => req.key \in Keys /\ req.links[req.key] # Absent
    BY <1>1, Known DEF Held
  <2> QED BY <1>3, <1>5, <2>1
<1>15. /\ q.at = "pin" => q.base \in Bases
       /\ \A j \in q.pending : u.view[LinkDoc(j)] # Absent
  BY <1>1, <1>2, <1>3, <1>5, <1>8, Known DEF Held, RequestTypes, t
<1>16. Held(q, u.view)
  BY <1>1, <1>5, <1>12, <1>13, <1>14, <1>15 DEF Held, Saving
<1> QED BY <1>2, <1>4, <1>7, <1>9, <1>10, <1>11, <1>12, <1>16, Saved
        DEF PinInTransaction, Consistent, q, u, t, update, label, pinned

LEMMA DropAllStep ==
    ASSUME Inv, NEW r \in Requests, DropAll(r)
    PROVE  Inv'
<1> DEFINE req == requests[r]
           t == txn[r]
           doomed == {PassportDoc} \cup {ConfigDoc(k) : k \in Configured(t.view)}
                       \cup {LinkDoc(k) : k \in Reachable(t.view)}
           update == [d \in doomed |-> Absent]
           q == [req EXCEPT !.at = "commit"]
           u == Written(r, update)
<1>1. req.at = "drop" /\ req.at \in InCallback
  BY DEF DropAll, At, InCallback
<1>2. req \in RequestTypes /\ t.open
  BY <1>1, Known
<1>3. q \in RequestTypes
  BY <1>2 DEF RequestTypes, Labels, InCallback
<1>4. /\ q.op = req.op /\ q.at = "commit" /\ q.passport = req.passport
      /\ q.links = req.links /\ q.member = req.member
      /\ q.sought = req.sought /\ q.pending = req.pending
  BY <1>2 DEF RequestTypes
<1>5. \A d \in DOMAIN update : update[d] = Absent
  OBVIOUS
<1> HIDE DEF update
<1>6. UpdateOK(update) /\ \A certain : UpdateTruthful(update, certain)
  BY <1>5 DEF UpdateOK, UpdateTruthful, Public, HasPin
<1>7. u.open /\ (released => Releasing(u, released))
  BY DEF Written, Releasing
<1>8. Releasing(t, released) => released
  BY <1>1, Known DEF HandlerInv
<1> HIDE DEF q, u, t
<1>9. HandlerInv(q, u, released)
  BY <1>1, <1>4, <1>7, <1>8, Known DEF HandlerInv, InCallback, t
<1>10. Stage(q) /\ q.op \notin {"visit", "patch", "list"}
  BY <1>1, <1>4, Known DEF Stage, InCallback, Saving, StatusOrDelete, StatusOperations
<1>11. Held(q, u.view)
  BY <1>1, <1>4, <1>10, Known DEF Held, Saving
<1> QED BY <1>2, <1>3, <1>6, <1>7, <1>8, <1>9, <1>10, <1>11, Saved
        DEF DropAll, Consistent, q, u, t, update

\* What was certain becomes true.
LEMMA CommitStep ==
    ASSUME Inv, NEW r \in Requests, Commit(r)
    PROVE  Inv'
<1> DEFINE req == requests[r]
           t == txn[r]
           rel == released'
           q == IF req.op = "list"
                THEN [req EXCEPT !.at = "branding", !.pending = {req.key}]
                ELSE NewRequest
<1>1. /\ req.at = "commit" /\ req.at \in InCallback /\ t.open
      /\ rel = (released \/ IsPublished(db'[PassportDoc]))
      /\ db' = [d \in Documents |-> IF d \in t.written THEN t.view[d] ELSE db[d]]
      /\ txn' = Notify(r, t.written, NoTransaction)
      /\ UNCHANGED <<fallback, faults>>
  BY DEF Commit, At, InCallback, CommitTransaction
<1>2. requests' = [requests EXCEPT ![r] = q]
  BY DEF Commit, Update, Finish
<1>3. /\ req \in RequestTypes /\ StoreOK(t.view) /\ StoreOK(db)
      /\ Truthful(t.view, Releasing(t, released)) /\ Truthful(db, released)
      /\ released \in BOOLEAN
  BY <1>1, Known DEF TransactionInv
<1>4. rel \in BOOLEAN /\ (released => rel)
  BY <1>1, <1>3 DEF IsPublished
<1>5. Releasing(t, released) => rel
  BY <1>1, Names DEF Releasing, Documents
<1>6. StoreOK(db')
  BY <1>1, <1>3, Names DEF StoreOK, Documents
<1>7. Truthful(db', rel)
  BY <1>1, <1>3, <1>4, <1>5, Names DEF Truthful, Documents
<1>8. Consistent(q, NoTransaction, rel)
  <2>1. CASE req.op = "list"
    <3> DEFINE p == [req EXCEPT !.at = "branding", !.pending = {req.key}]
    <3>1. req.key \in Keys /\ req.links[req.key] # Absent /\ req.sought = {}
      BY <1>1, <2>1, Known DEF Held, Saving
    <3>2. p \in RequestTypes
      BY <1>3, <3>1 DEF RequestTypes, Labels
    <3>3. /\ p.op = "list" /\ p.at = "branding" /\ p.passport = req.passport
          /\ p.links = req.links /\ p.member = req.member
          /\ p.sought = {} /\ p.pending = {req.key}
      BY <1>3, <2>1, <3>1 DEF RequestTypes
    <3> HIDE DEF p
    <3>6. rel => Releasing(NoTransaction, rel)
      BY DEF Releasing
    <3>4. HandlerInv(p, NoTransaction, rel)
      <4>1. req.member \/ released
        BY <1>1, <2>1, Known DEF HandlerInv, Shown
      <4>2. \A k \in Keys : HasPin(p.links[k]) => Releasing(NoTransaction, rel)
        BY <1>5, <3>3, <3>6, Known DEF HandlerInv
      <4>3. Public(p.passport) => rel
        BY <1>4, <2>1, <3>3, Known DEF HandlerInv
      <4> QED BY <1>4, <3>3, <4>1, <4>2, <4>3, NoTransactionOK DEF HandlerInv, InCallback
    <3>5. Stage(p) /\ Held(p, NoTransaction.view)
      BY <3>1, <3>3 DEF Stage, Held, InCallback, Saving, Shown
    <3> QED BY <2>1, <3>2, <3>4, <3>5 DEF Consistent, p
  <2>2. CASE req.op # "list"
    BY <2>2, NewRequestOK, NoTransactionOK
  <2> QED BY <2>1, <2>2
<1>9. RequestInv(q, NoTransaction, rel)
  BY <1>8, NoTransactionOK DEF RequestInv
<1>10. /\ txn' = [p \in Requests |-> txn'[p]]
       /\ requests' = [p \in Requests |-> requests'[p]]
       /\ \A p \in Requests : RequestInv(requests'[p], txn'[p], released')
  <2> HIDE DEF q
  <2> QED BY <1>1, <1>2, <1>4, <1>9, Notified
<1> QED BY <1>1, <1>4, <1>6, <1>7, <1>10, Known DEF Inv

-----------------------------------------------------------------------------
(* The list of the passport's permalinks                                   *)

LEMMA LoadForListStep ==
    ASSUME Inv, NEW r \in Requests, NEW member \in BOOLEAN, LoadForList(r, member)
    PROVE  Inv'
<1> DEFINE passport == db[PassportDoc]
           q == [NewRequest EXCEPT !.op = "list", !.at = "list",
                   !.member = member, !.passport = passport]
<1>1. requests[r].at = "idle"
  BY DEF LoadForList, At
<1>2. ~txn[r].open
  BY <1>1, Known DEF InCallback
<1>3. /\ passport \in Passports \cup {Absent}
      /\ Public(passport) => released
      /\ member \/ released
  BY Known DEF LoadForList, Visible, IsPublished, Public, StoreOK, Truthful
<1> HIDE DEF passport
<1>4. q \in RequestTypes
  <2>1. NewRequest \in RequestTypes
    BY NewRequestOK, NoTransactionOK DEF Consistent
  <2>2. "list" \in Labels /\ "list" \in AllOperations
    BY DEF Labels, AllOperations
  <2> QED BY <1>3, <2>1, <2>2 DEF RequestTypes
<1>5. /\ q.op = "list" /\ q.at = "list" /\ q.passport = passport /\ q.member = member
      /\ q.sought = {} /\ q.pending = {}
      /\ \A k \in Keys : q.links[k] = Absent
  BY DEF NewRequest
<1> HIDE DEF q
<1>6. HandlerInv(q, txn[r], released)
  BY <1>2, <1>3, <1>5 DEF HandlerInv, InCallback, HasPin
<1>7. Stage(q) /\ Held(q, txn[r].view)
  BY <1>5 DEF Stage, Held, InCallback, Saving
<1> QED BY <1>4, <1>6, <1>7, Local, Known DEF LoadForList, Consistent, q, passport

LEMMA ListPermalinksStep ==
    ASSUME Inv, NEW r \in Requests, ListPermalinks(r)
    PROVE  Inv'
<1> DEFINE req == requests[r]
           found == Reachable(db)
           p == [req EXCEPT
                   !.at = "branding", !.pending = found,
                   !.links = [k \in Keys |-> IF k \in found THEN db[LinkDoc(k)]
                                                            ELSE Absent]]
           q == [req EXCEPT !.at = "ready"]
<1>1. req.at = "list" /\ req.op = "list" /\ ~txn[r].open /\ req \in RequestTypes
  BY Known DEF ListPermalinks, At, InCallback, Stage
<1>2. found \subseteq Keys /\ \A k \in found : db[LinkDoc(k)] # Absent
  BY DEF Reachable, Configured
<1>3. \A k \in Keys : /\ db[LinkDoc(k)] \in Links \cup {Absent}
                      /\ HasPin(db[LinkDoc(k)]) => released
  BY Known DEF StoreOK, Truthful
<1>4. req.sought = {} /\ (req.member \/ released)
  BY <1>1, Known DEF Held, Saving, HandlerInv, Shown
<1>5. CASE Update(r, p)
  <2> HIDE DEF found
  <2>1. p \in RequestTypes
    BY <1>1, <1>2, <1>3 DEF RequestTypes, Labels
  <2>2. /\ p.op = "list" /\ p.at = "branding" /\ p.passport = req.passport
        /\ p.member = req.member /\ p.sought = {} /\ p.pending = found
        /\ \A k \in Keys : p.links[k] = IF k \in found THEN db[LinkDoc(k)] ELSE Absent
    BY <1>1, <1>4 DEF RequestTypes
  <2> HIDE DEF p
  <2>3. released => Releasing(txn[r], released)
    BY DEF Releasing
  <2>4. HandlerInv(p, txn[r], released)
    BY <1>1, <1>3, <1>4, <2>2, <2>3, Known DEF HandlerInv, InCallback, HasPin
  <2>5. Stage(p) /\ Held(p, txn[r].view)
    BY <1>2, <2>2 DEF Stage, Held, InCallback, Saving, Shown
  <2> QED BY <1>5, <2>1, <2>4, <2>5, Local, Known DEF ListPermalinks, Consistent
<1>6. CASE Update(r, q)
  <2>1. q \in RequestTypes
    BY <1>1 DEF RequestTypes, Labels
  <2>2. /\ q.op = "list" /\ q.at = "ready" /\ q.passport = req.passport
        /\ q.member = req.member /\ q.sought = {} /\ q.links = req.links
    BY <1>1, <1>4 DEF RequestTypes
  <2> HIDE DEF q
  <2>3. HandlerInv(q, txn[r], released)
    BY <1>1, <1>4, <2>2, Known DEF HandlerInv, InCallback
  <2>4. Stage(q) /\ Held(q, txn[r].view)
    BY <2>2 DEF Stage, Held, InCallback, Saving, Shown
  <2> QED BY <1>6, <2>1, <2>3, <2>4, Local, Known DEF ListPermalinks, Consistent
<1>7. CASE Finish(r)
  BY <1>1, <1>7, Ended, Known DEF ListPermalinks
<1> QED BY <1>5, <1>6, <1>7 DEF ListPermalinks, GoTo

\* The request goes on to make a permalink for configuration k.
LEMMA EnsureDefaultStep ==
    ASSUME Inv, NEW r \in Requests, EnsureDefault(r)
    PROVE  Inv'
<1> DEFINE req == requests[r]
           t == txn[r]
           next(k) == [req EXCEPT !.key = k, !.at = "create"]
<1>1. req.at = "ensure" /\ req.at \in InCallback /\ t.open /\ req \in RequestTypes
  BY Known DEF EnsureDefault, At, InCallback
<1>2. req.sought = {} /\ req.op \notin {"visit", "patch"}
  BY <1>1, Known DEF Held, Stage, Saving, StatusOrDelete, StatusOperations
<1>3. ASSUME NEW k \in Keys, NEW u, u.open,
             Releasing(t, released) => Releasing(u, released)
      PROVE  Consistent(next(k), u, released)
  <2> DEFINE q == next(k)
  <2>1. q \in RequestTypes
    BY <1>1 DEF RequestTypes, Labels, InCallback
  <2>2. /\ q.op = req.op /\ q.at = "create" /\ q.passport = req.passport
        /\ q.links = req.links /\ q.member = req.member /\ q.key = k
        /\ q.sought = {}
    BY <1>1, <1>2 DEF RequestTypes
  <2> HIDE DEF q
  <2>3. HandlerInv(q, u, released)
    BY <1>1, <1>3, <2>2, Known DEF HandlerInv, InCallback
  <2>4. Stage(q)
    BY <1>1, <2>2, Known DEF Stage, Saving
  <2>5. Held(q, u.view)
    BY <1>2, <2>2 DEF Held, Saving
  <2> QED BY <2>1, <2>3, <2>4, <2>5 DEF Consistent, q
<1>4. ASSUME NEW k \in Keys, Update(r, next(k)), UNCHANGED <<db, txn>>
      PROVE  Inv'
  <2>1. Consistent(next(k), t, released)
    BY <1>1, <1>3
  <2> HIDE DEF next
  <2> QED BY <1>4, <2>1, Local, Known DEF EnsureDefault
<1>5. ASSUME NEW k \in Keys, Update(r, next(k)),
             WriteInTransaction(r, One(ConfigDoc(k), "present"))
      PROVE  Inv'
  <2> DEFINE update == One(ConfigDoc(k), "present")
             u == Written(r, update)
  <2>1. DOMAIN update = {ConfigDoc(k)} /\ update[ConfigDoc(k)] = "present"
    BY OneOK
  <2>2. UpdateOK(update) /\ \A certain : UpdateTruthful(update, certain)
    BY <2>1, Names DEF UpdateOK, UpdateTruthful
  <2>3. u.open
    BY DEF Written
  <2>4. Releasing(t, released) => Releasing(u, released)
    BY <2>1, Names, StillReleasing
  <2> HIDE DEF update, u
  <2>5. Consistent(next(k), u, released)
    BY <1>3, <2>3, <2>4
  <2> HIDE DEF next
  <2> QED BY <1>5, <2>2, <2>4, <2>5, Wrote, Known DEF EnsureDefault, update, u
<1>6. CASE AbortTransaction(r) /\ Finish(r)
  BY <1>6, EndedInCallback, Known DEF EnsureDefault
<1>7. Configured(t.view) \subseteq Keys /\ Fresh \subseteq Keys
  BY DEF Configured, Fresh
<1> QED BY <1>4, <1>5, <1>6, <1>7 DEF EnsureDefault

LEMMA CreatePermalinkStep ==
    ASSUME Inv, NEW r \in Requests, CreatePermalink(r)
    PROVE  Inv'
<1> DEFINE req == requests[r]
           t == txn[r]
           k == req.key
           existing == t.view[LinkDoc(k)]
           update == One(LinkDoc(k), NewLink)
           u == Written(r, update)
           p == [req EXCEPT !.links[k] = existing, !.at = "commit"]
           q == [req EXCEPT !.links[k] = NewLink, !.at = "recheck"]
<1>1. req.at = "create" /\ req.at \in InCallback /\ t.open /\ req \in RequestTypes
  BY Known DEF CreatePermalink, At, InCallback
<1>2. req.sought = {} /\ req.op \notin {"visit", "patch"} /\ k \in Keys
  BY <1>1, Known DEF Held, Stage, Saving, StatusOrDelete, StatusOperations
<1>3. /\ existing \in Links \cup {Absent}
      /\ HasPin(existing) => Releasing(t, released)
  BY <1>1, <1>2, Known DEF TransactionInv, StoreOK, Truthful
<1>4. NewLink \in Links /\ NewLink # Absent /\ ~HasPin(NewLink)
  BY ValuesAssumption DEF NewLink, Links, HasPin
<1> HIDE DEF k, existing
<1>5. ASSUME existing # Absent, Update(r, p), UNCHANGED <<db, txn>>
      PROVE  Inv'
  <2>1. p \in RequestTypes
    BY <1>1, <1>2, <1>3 DEF RequestTypes, Labels, InCallback
  <2>2. /\ p.op = req.op /\ p.at = "commit" /\ p.passport = req.passport
        /\ p.member = req.member /\ p.key = k /\ p.sought = {}
        /\ \A j \in Keys : p.links[j] = IF j = k THEN existing ELSE req.links[j]
    BY <1>1, <1>2 DEF RequestTypes, k
  <2> HIDE DEF p
  <2>3. HandlerInv(p, t, released)
    BY <1>1, <1>3, <2>2, Known DEF HandlerInv, InCallback
  <2>4. Stage(p)
    BY <1>1, <2>2, Known DEF Stage, Saving
  <2>5. Held(p, t.view)
    BY <1>2, <1>5, <2>2 DEF Held, Saving
  <2> QED BY <1>5, <2>1, <2>3, <2>4, <2>5, Local, Known DEF CreatePermalink, Consistent
<1>6. ASSUME Save(r, update, q) PROVE Inv'
  <2>1. q \in RequestTypes
    BY <1>1, <1>2, <1>4 DEF RequestTypes, Labels, InCallback
  <2>2. /\ q.op = req.op /\ q.at = "recheck" /\ q.passport = req.passport
        /\ q.member = req.member /\ q.key = k /\ q.sought = {}
        /\ \A j \in Keys : q.links[j] = IF j = k THEN NewLink ELSE req.links[j]
    BY <1>1, <1>2 DEF RequestTypes, k
  <2>3. DOMAIN update = {LinkDoc(k)} /\ update[LinkDoc(k)] = NewLink
    BY OneOK
  <2>4. UpdateOK(update) /\ \A certain : UpdateTruthful(update, certain)
    BY <1>2, <1>4, <2>3, Names DEF UpdateOK, UpdateTruthful
  <2>5. u.open /\ u.view[LinkDoc(k)] = NewLink
    BY <1>2, <2>3, Names DEF Written, Overwrite
  <2>6. Releasing(t, released) => Releasing(u, released)
    BY <1>2, <2>3, Names, StillReleasing
  <2> HIDE DEF q, update, u
  <2>7. HandlerInv(q, u, released)
    BY <1>1, <1>4, <2>2, <2>5, <2>6, Known DEF HandlerInv, InCallback
  <2>8. Stage(q)
    BY <1>1, <2>2, Known DEF Stage, Saving
  <2>9. Held(q, u.view)
    BY <1>2, <1>4, <2>2, <2>5 DEF Held, Saving
  <2> QED BY <1>1, <1>6, <2>1, <2>4, <2>6, <2>7, <2>8, <2>9, Saved
          DEF CreatePermalink, Consistent, u
<1> QED BY <1>5, <1>6 DEF CreatePermalink, existing, k

LEMMA RecheckPassportStep ==
    ASSUME Inv, NEW r \in Requests, RecheckPassport(r)
    PROVE  Inv'
<1> DEFINE req == requests[r]
           p == [req EXCEPT !.at = "base", !.pending = {req.key}]
           q == [req EXCEPT !.at = "commit"]
<1>1. req.at = "recheck" /\ req.at \in InCallback /\ req \in RequestTypes
  BY Known DEF RecheckPassport, At, InCallback
<1>2. /\ req.sought = {} /\ req.op \notin {"visit", "patch"} /\ req.key \in Keys
      /\ txn[r].view[LinkDoc(req.key)] # Absent /\ req.links[req.key] # Absent
  BY <1>1, Known DEF Held, Stage, Saving, StatusOrDelete, StatusOperations
<1>3. CASE IsPublished(db[PassportDoc]) /\ Update(r, p)
  <2>1. Releasing(txn[r], released)
    BY <1>3, Known DEF Truthful, Public, IsPublished, Releasing
  <2>2. p \in RequestTypes
    BY <1>1, <1>2 DEF RequestTypes, Labels, InCallback
  <2>3. /\ p.op = req.op /\ p.at = "base" /\ p.passport = req.passport
        /\ p.member = req.member /\ p.key = req.key /\ p.sought = {}
        /\ p.links = req.links /\ p.pending = {req.key}
    BY <1>1, <1>2 DEF RequestTypes
  <2> HIDE DEF p
  <2>4. HandlerInv(p, txn[r], released)
    BY <1>1, <2>1, <2>3, Known DEF HandlerInv, InCallback
  <2>5. Stage(p)
    BY <1>1, <2>3, Known DEF Stage, Saving
  <2>6. Held(p, txn[r].view)
    BY <1>2, <2>3 DEF Held, Saving
  <2> QED BY <1>3, <2>2, <2>4, <2>5, <2>6, Local, Known DEF RecheckPassport, Consistent
<1>4. CASE Update(r, q)
  <2>1. q \in RequestTypes
    BY <1>1 DEF RequestTypes, Labels, InCallback
  <2>2. /\ q.op = req.op /\ q.at = "commit" /\ q.passport = req.passport
        /\ q.member = req.member /\ q.key = req.key /\ q.sought = {}
        /\ q.links = req.links
    BY <1>1, <1>2 DEF RequestTypes
  <2> HIDE DEF q
  <2>3. HandlerInv(q, txn[r], released)
    BY <1>1, <2>2, Known DEF HandlerInv, InCallback
  <2>4. Stage(q)
    BY <1>1, <2>2, Known DEF Stage, Saving
  <2>5. Held(q, txn[r].view)
    BY <1>2, <2>2 DEF Held, Saving
  <2> QED BY <1>4, <2>1, <2>3, <2>4, <2>5, Local, Known DEF RecheckPassport, Consistent
<1> QED BY <1>3, <1>4 DEF RecheckPassport, GoTo

-----------------------------------------------------------------------------
(* One permalink                                                           *)

LEMMA ResolvePermalinkStep ==
    ASSUME Inv, NEW r \in Requests, NEW op \in {"visit", "patch"}, NEW k \in Keys,
           NEW member \in BOOLEAN, NEW change \in Changes \cup {Null},
           op = "patch" => change \in Changes,
           ResolvePermalink(r, op, k, member, change)
    PROVE  Inv'
<1> DEFINE link == db[LinkDoc(k)]
           q == [NewRequest EXCEPT !.op = op, !.at = "config", !.key = k,
                   !.member = member, !.change = change, !.links[k] = link]
<1>1. requests[r].at = "idle" /\ link # Absent
  BY DEF ResolvePermalink, At
<1>2. ~txn[r].open
  BY <1>1, Known DEF InCallback
<1>3. link \in Links /\ (HasPin(link) => released)
  BY <1>1, Known DEF StoreOK, Truthful
<1> HIDE DEF link
<1>4. NewRequest \in RequestTypes
  BY NewRequestOK, NoTransactionOK DEF Consistent
<1>5. q \in RequestTypes
  <2>1. op \in AllOperations /\ "config" \in Labels
    BY DEF AllOperations, Labels
  <2> QED BY <1>3, <1>4, <2>1 DEF RequestTypes
<1>6. /\ q.op = op /\ q.at = "config" /\ q.passport = Absent /\ q.member = member
      /\ q.sought = {} /\ q.pending = {} /\ q.key = k /\ q.change = change
      /\ \A j \in Keys : q.links[j] = IF j = k THEN link ELSE Absent
  BY DEF NewRequest
<1> HIDE DEF q
<1>7. released => Releasing(txn[r], released)
  BY DEF Releasing
<1>8. HandlerInv(q, txn[r], released)
  BY <1>2, <1>3, <1>6, <1>7 DEF HandlerInv, InCallback, HasPin, Public
<1>9. Stage(q)
  BY <1>6 DEF Stage, InCallback, Saving
<1>10. Held(q, txn[r].view)
  BY <1>1, <1>6 DEF Held, Saving
<1> QED BY <1>5, <1>8, <1>9, <1>10, Local, Known
        DEF ResolvePermalink, Consistent, q, link

\* A handler outside its callback that only moves to another label.
LEMMA MovedOn ==
    ASSUME Inv, NEW r \in Requests, NEW label \in Labels, GoTo(r, label),
           requests[r].at \notin InCallback \cup Saving,
           requests[r].op \in Shown => requests[r].member \/ released,
           label \in {"seed", "branding"},
           label = "seed" => requests[r].op \in {"visit", "listConfigs", "createConfig"},
           label = "branding" => requests[r].op = "visit",
           UNCHANGED <<db, txn, fallback, released, faults>>
    PROVE  Inv'
<1> DEFINE req == requests[r]
           q == [req EXCEPT !.at = label]
<1>1. req \in RequestTypes /\ ~txn[r].open /\ req.sought = {}
  BY Known DEF Held
<1>2. q \in RequestTypes
  BY <1>1 DEF RequestTypes
<1>3. /\ q.op = req.op /\ q.at = label /\ q.passport = req.passport
      /\ q.links = req.links /\ q.member = req.member /\ q.key = req.key
      /\ q.sought = {} /\ q.pending = req.pending /\ q.change = req.change
  BY <1>1 DEF RequestTypes
<1> HIDE DEF q
<1>4. HandlerInv(q, txn[r], released)
  BY <1>1, <1>3, Known DEF HandlerInv, InCallback
<1>5. Stage(q)
  BY <1>3 DEF Stage, InCallback, Saving, Shown
<1>6. Held(q, txn[r].view)
  BY <1>1, <1>3, Known DEF Held, Saving
<1> QED BY <1>2, <1>4, <1>5, <1>6, Local, Known DEF GoTo, Consistent, q

LEMMA ResolvePassportStep ==
    ASSUME Inv, NEW r \in Requests, ResolvePassport(r)
    PROVE  Inv'
<1> DEFINE req == requests[r]
           passport == db[PassportDoc]
           label == IF req.op = "patch" THEN "update" ELSE "effective"
           q == [req EXCEPT !.passport = passport, !.pending = {req.key}, !.at = label]
<1>1. req.at = "passport" /\ req \in RequestTypes /\ ~txn[r].open
  BY Known DEF ResolvePassport, At, InCallback
<1>2. req.op \in {"visit", "patch"} /\ req.key \in Keys /\ req.sought = {}
  BY <1>1, Known DEF Stage, Held, Saving
<1>3. CASE Visible(passport, req.member) /\ Update(r, q)
  <2>1. /\ passport \in Passports \cup {Absent}
        /\ Public(passport) => released
        /\ req.member \/ released
    BY <1>3, Known DEF Visible, IsPublished, Public, StoreOK, Truthful
  <2>2. label \in {"update", "effective"} /\ (label = "update" => req.op = "patch")
        /\ (label = "effective" => req.op = "visit")
    BY <1>2
  <2> HIDE DEF passport, label
  <2>3. q \in RequestTypes
    BY <1>1, <1>2, <2>1, <2>2 DEF RequestTypes, Labels
  <2>4. /\ q.op = req.op /\ q.at = label /\ q.passport = passport
        /\ q.links = req.links /\ q.member = req.member /\ q.key = req.key
        /\ q.sought = {} /\ q.pending = {req.key} /\ q.change = req.change
    BY <1>1, <1>2 DEF RequestTypes
  <2> HIDE DEF q
  <2>5. HandlerInv(q, txn[r], released)
    BY <1>1, <1>2, <2>1, <2>2, <2>4, Known DEF HandlerInv, InCallback
  <2>6. Stage(q)
    BY <1>2, <2>2, <2>4 DEF Stage, InCallback, Saving
  <2>7. Held(q, txn[r].view)
    BY <1>2, <2>2, <2>4, Known DEF Held, Saving
  <2> QED BY <1>3, <2>3, <2>5, <2>6, <2>7, Local, Known DEF ResolvePassport, Consistent
<1>4. CASE Finish(r)
  BY <1>1, <1>4, Ended, Known DEF ResolvePassport
<1> QED BY <1>3, <1>4 DEF ResolvePassport

LEMMA ResolveConfigStep ==
    ASSUME Inv, NEW r \in Requests, ResolveConfig(r)
    PROVE  Inv'
<1>1. requests[r].at = "config" /\ ~txn[r].open
  BY Known DEF ResolveConfig, At, InCallback
<1>2. CASE Finish(r)
  BY <1>1, <1>2, Ended, Known DEF ResolveConfig
<1>3. CASE GoTo(r, "passport")
  <2> DEFINE req == requests[r]
             q == [req EXCEPT !.at = "passport"]
  <2>1. req \in RequestTypes /\ req.op \in {"visit", "patch"} /\ req.sought = {}
    BY <1>1, Known DEF Stage, Held, Saving
  <2>2. q \in RequestTypes
    BY <2>1 DEF RequestTypes, Labels
  <2>3. /\ q.op = req.op /\ q.at = "passport" /\ q.passport = req.passport
        /\ q.links = req.links /\ q.member = req.member /\ q.key = req.key
        /\ q.sought = {} /\ q.pending = req.pending /\ q.change = req.change
    BY <2>1 DEF RequestTypes
  <2> HIDE DEF q
  <2>4. HandlerInv(q, txn[r], released)
    BY <1>1, <2>1, <2>3, Known DEF HandlerInv, InCallback
  <2>5. Stage(q)
    BY <2>1, <2>3 DEF Stage, InCallback, Saving
  <2>6. Held(q, txn[r].view)
    BY <2>1, <2>3, Known DEF Held, Saving
  <2> QED BY <1>3, <2>2, <2>4, <2>5, <2>6, Local, Known DEF ResolveConfig, GoTo, Consistent, q
<1> QED BY <1>2, <1>3 DEF ResolveConfig

LEMMA ChangedOK ==
    ASSUME NEW link \in Links, NEW change \in Changes
    PROVE  /\ Changed(link, change) \in Links
           /\ Changed(link, change) # Absent
           /\ Changed(link, change).url = link.url
<1>1. /\ link.slug \in Slugs \cup {Null} /\ link.base \in Bases \cup {Null}
      /\ link.url \in Urls \cup {Null}
      /\ link = [slug |-> link.slug, base |-> link.base, url |-> link.url]
  BY DEF Links
<1>2. \/ change[1] = "slug" /\ change[2] \in Slugs \cup {Null}
      \/ change[1] # "slug" /\ change[2] \in Bases \cup {Null}
  BY DEF Changes
<1>3. Changed(link, change) \in Links /\ Changed(link, change).url = link.url
  BY <1>1, <1>2 DEF Changed, Links
<1> QED BY <1>3, ValuesAssumption

LEMMA LoadForUpdateStep ==
    ASSUME Inv, NEW r \in Requests, LoadForUpdate(r)
    PROVE  Inv'
<1> DEFINE req == requests[r]
           k == req.key
           link == db[LinkDoc(k)]
           changed == Changed(link, req.change)
           q == [req EXCEPT !.links[k] = changed, !.at = "patching"]
<1>1. req.at = "update" /\ req \in RequestTypes /\ ~txn[r].open
  BY Known DEF LoadForUpdate, At, InCallback
<1>2. /\ req.op = "patch" /\ k \in Keys /\ req.sought = {}
      /\ req.change \in Changes /\ req.pending \subseteq {k}
      /\ req.member \/ released
  BY <1>1, Known DEF Stage, Held, Saving, HandlerInv, Shown
<1>3. CASE link # Absent /\ link.url = Null /\ Update(r, q)
  <2>1. link \in Links
    BY <1>2, <1>3, Known DEF StoreOK
  <2>2. changed \in Links /\ changed # Absent /\ ~HasPin(changed)
    BY <1>2, <1>3, <2>1, ChangedOK DEF HasPin
  <2> HIDE DEF changed, link, k
  <2>3. q \in RequestTypes
    BY <1>1, <1>2, <2>2 DEF RequestTypes, Labels, Saving
  <2>4. /\ q.op = req.op /\ q.at = "patching" /\ q.passport = req.passport
        /\ q.member = req.member /\ q.key = k
        /\ q.sought = {} /\ q.pending = req.pending /\ q.change = req.change
        /\ \A j \in Keys : q.links[j] = IF j = k THEN changed ELSE req.links[j]
    BY <1>1, <1>2 DEF RequestTypes, k
  <2> HIDE DEF q
  <2>5. HandlerInv(q, txn[r], released)
    BY <1>1, <1>2, <2>2, <2>4, Known DEF HandlerInv, InCallback
  <2>6. Stage(q)
    BY <1>2, <2>4 DEF Stage, InCallback, Shown
  <2>7. Held(q, txn[r].view)
    BY <1>2, <2>2, <2>4 DEF Held, Saving
  <2> QED BY <1>3, <2>3, <2>5, <2>6, <2>7, Local, Known DEF LoadForUpdate, Consistent
<1>4. CASE Finish(r)
  BY <1>1, <1>4, Ended, Known DEF LoadForUpdate
<1> QED BY <1>3, <1>4 DEF LoadForUpdate

-----------------------------------------------------------------------------
(* Pinning on the way to an answer                                         *)

\* Only a published passport has its permalinks pinned.
LEMMA LoadBrandingStep ==
    ASSUME Inv, NEW r \in Requests, LoadBranding(r)
    PROVE  Inv'
<1> DEFINE req == requests[r]
           due == IF IsPublished(req.passport)
                  THEN {k \in req.pending : req.links[k].url = Null} ELSE {}
           label == IF due = {} THEN "answer" ELSE "pinning"
           links == [k \in Keys |-> IF k \in due THEN Pin(k, req.links[k], fallback)
                                                 ELSE req.links[k]]
           p == [req EXCEPT !.base = fallback, !.pending = due, !.at = label,
                            !.links = links]
           q == [req EXCEPT !.base = Null, !.pending = {}, !.at = "answer"]
<1>1. req.at = "branding" /\ req \in RequestTypes /\ ~txn[r].open
  BY Known DEF LoadBranding, At, InCallback
<1>2. /\ req.op \in Shown /\ (req.member \/ released) /\ req.sought = {}
      /\ \A k \in req.pending : req.links[k] # Absent
      /\ fallback \in Bases
  BY <1>1, Known DEF Stage, Held, Saving, HandlerInv
<1>3. released <=> Releasing(txn[r], released)
  BY <1>1 DEF Releasing
<1>4. CASE Update(r, p)
  <2>1. due \subseteq req.pending /\ due \subseteq Keys
    BY <1>1 DEF RequestTypes
  <2>2. due # {} => released
    BY <1>2, Known DEF HandlerInv, Public, IsPublished, Shown
  <2>3. \A k \in due : req.links[k] \in Links
    BY <1>1, <1>2, <2>1 DEF RequestTypes
  <2>4. label \in {"answer", "pinning"}
    OBVIOUS
  <2> HIDE DEF due, label
  <2>5. ASSUME NEW k \in Keys
        PROVE  /\ links[k] \in Links \cup {Absent}
               /\ k \in due => links[k] # Absent
               /\ HasPin(links[k]) => released
    <3>1. CASE k \in due
      BY <1>2, <2>2, <2>3, <3>1, PinOK
    <3>2. CASE k \notin due
      BY <1>1, <1>3, <3>2, Known DEF RequestTypes, HandlerInv
    <3> QED BY <3>1, <3>2
  <2>6. links \in [Keys -> Links \cup {Absent}]
    BY <2>5
  <2> HIDE DEF links
  <2>7. p \in RequestTypes
    BY <1>1, <1>2, <2>1, <2>4, <2>6 DEF RequestTypes, Labels, Saving
  <2>8. /\ p.op = req.op /\ p.at = label /\ p.passport = req.passport
        /\ p.member = req.member /\ p.key = req.key /\ p.change = req.change
        /\ p.sought = {} /\ p.pending = due /\ p.links = links
    BY <1>1, <1>2 DEF RequestTypes
  <2> HIDE DEF p
  <2>9. HandlerInv(p, txn[r], released)
    BY <1>1, <1>2, <1>3, <2>4, <2>5, <2>8, Known DEF HandlerInv, InCallback
  <2>10. Stage(p)
    BY <1>2, <2>4, <2>8 DEF Stage, InCallback
  <2>11. p.op \in {"visit", "patch"} => p.key \in Keys /\ p.links[p.key] # Absent
    <3>1. req.op \in {"visit", "patch"} => req.key \in Keys /\ req.links[req.key] # Absent
      BY Known DEF Held
    <3>2. \A k \in Keys : req.links[k] # Absent => links[k] # Absent
      BY <2>5 DEF links
    <3> QED BY <2>8, <3>1, <3>2
  <2>12. Held(p, txn[r].view)
    <3>1. req.op = "patch" => req.change \in Changes
      BY Known DEF Held
    <3>2. req.op \in {"visit", "patch"} => req.pending \subseteq {req.key}
      BY Known DEF Held
    <3> QED BY <2>1, <2>4, <2>5, <2>8, <2>11, <3>1, <3>2 DEF Held, Saving
  <2> QED BY <1>4, <2>7, <2>9, <2>10, <2>12, Local, Known DEF LoadBranding, Consistent
<1>5. CASE faults' = faults + 1 /\ Update(r, q)
  <2>1. q \in RequestTypes
    BY <1>1 DEF RequestTypes, Labels
  <2>2. /\ q.op = req.op /\ q.at = "answer" /\ q.passport = req.passport
        /\ q.member = req.member /\ q.key = req.key /\ q.change = req.change
        /\ q.sought = {} /\ q.pending = {} /\ q.links = req.links
    BY <1>1, <1>2 DEF RequestTypes
  <2> HIDE DEF q
  <2>3. HandlerInv(q, txn[r], released)
    BY <1>1, <1>2, <2>2, Known DEF HandlerInv, InCallback
  <2>4. Stage(q)
    BY <1>2, <2>2 DEF Stage, InCallback, Saving
  <2>5. Held(q, txn[r].view)
    BY <2>2, Known DEF Held, Saving
  <2> QED BY <1>5, <2>1, <2>3, <2>4, <2>5, Local, Known DEF LoadBranding, Consistent
<1> QED BY <1>4, <1>5 DEF LoadBranding

LEMMA FindForSaveStep ==
    ASSUME Inv, NEW r \in Requests, NEW k \in Keys, FindForSave(r, k)
    PROVE  Inv'
<1> DEFINE req == requests[r]
           q == [req EXCEPT !.found[k] = db[LinkDoc(k)], !.sought = @ \cup {k}]
<1>1. req.at \in Saving /\ k \in req.pending /\ req \in RequestTypes
  BY Known DEF FindForSave
<1>2. q \in RequestTypes
  BY <1>1, Known DEF RequestTypes, StoreOK
<1>3. /\ q.op = req.op /\ q.at = req.at /\ q.passport = req.passport
      /\ q.member = req.member /\ q.key = req.key /\ q.change = req.change
      /\ q.sought = req.sought \cup {k} /\ q.pending = req.pending
      /\ q.links = req.links /\ q.base = req.base
  BY <1>1 DEF RequestTypes
<1> HIDE DEF q
<1>4. HandlerInv(q, txn[r], released)
  BY <1>3, Known DEF HandlerInv
<1>5. Stage(q)
  BY <1>3, Known DEF Stage
<1>6. Held(q, txn[r].view)
  BY <1>1, <1>3, Known DEF Held
<1> QED BY <1>2, <1>4, <1>5, <1>6, Local, Known DEF FindForSave, Consistent, q

\* A save that merges its copy into the stored permalink pins nothing of its own.
LEMMA MergedOK ==
    ASSUME NEW found \in Links \cup {Absent}, NEW target \in Links,
           NEW current \in Links \cup {Absent}, (found = Absent) = (current = Absent)
    PROVE  /\ Merged(found, target, current) \in Links
           /\ Merged(found, target, current).url # Null
                => HasPin(target) \/ HasPin(current)
<1> DEFINE m == Merged(found, target, current)
<1>1. m = [slug |-> m.slug, base |-> m.base, url |-> m.url]
  BY DEF Merged
<1>2. /\ m.slug = IF found = Absent \/ found.slug # target.slug
                  THEN target.slug ELSE current.slug
      /\ m.base = IF found = Absent \/ found.base # target.base
                  THEN target.base ELSE current.base
      /\ m.url = IF found = Absent \/ found.url # target.url
                 THEN target.url ELSE current.url
  BY DEF Merged
<1>3. /\ target.slug \in Slugs \cup {Null} /\ target.base \in Bases \cup {Null}
      /\ target.url \in Urls \cup {Null}
  BY DEF Links
<1>4. found # Absent => /\ current.slug \in Slugs \cup {Null}
                        /\ current.base \in Bases \cup {Null}
                        /\ current.url \in Urls \cup {Null}
  BY DEF Links
<1>5. m.slug \in Slugs \cup {Null} /\ m.base \in Bases \cup {Null}
      /\ m.url \in Urls \cup {Null}
  BY <1>2, <1>3, <1>4
<1>6. m \in Links
  <2> HIDE DEF m
  <2> QED BY <1>1, <1>5 DEF Links
<1>7. m.url # Null => HasPin(target) \/ HasPin(current)
  BY <1>2, ValuesAssumption DEF HasPin
<1> QED BY <1>6, <1>7

\* A request that has saved permalink k, or failed to.
LEMMA WithoutOK ==
    ASSUME Inv, NEW r \in Requests, NEW k \in Keys, requests[r].at \in Saving,
           NEW otherwise \in Saving, NEW ending,
           Consistent(ending, txn[r], released)
    PROVE  Consistent(Without(r, k, ending, otherwise), txn[r], released)
<1> DEFINE req == requests[r]
           q == [req EXCEPT !.found[k] = Absent, !.sought = @ \ {k},
                            !.pending = @ \ {k}, !.at = otherwise]
<1>1. req \in RequestTypes /\ ~txn[r].open /\ req.op \in Shown
  BY Known DEF Saving, InCallback, Stage
<1>2. q \in RequestTypes
  BY <1>1 DEF RequestTypes, Labels
<1>3. /\ q.op = req.op /\ q.at = otherwise /\ q.passport = req.passport
      /\ q.member = req.member /\ q.key = req.key /\ q.change = req.change
      /\ q.sought = req.sought \ {k} /\ q.pending = req.pending \ {k}
      /\ q.links = req.links
  BY <1>1 DEF RequestTypes
<1> HIDE DEF q
<1>4. HandlerInv(q, txn[r], released)
  BY <1>1, <1>3, Known DEF HandlerInv, InCallback, Saving
<1>5. Stage(q)
  BY <1>1, <1>3 DEF Stage, InCallback, Saving
<1>6. Held(q, txn[r].view)
  BY <1>3, Known DEF Held, Saving
<1> QED BY <1>2, <1>4, <1>5, <1>6 DEF Without, Consistent, q

LEMMA AfterSaveOK ==
    ASSUME Inv, NEW r \in Requests, NEW k \in Keys, requests[r].at \in Saving
    PROVE  Consistent(AfterSave(r, k), txn[r], released)
<1> DEFINE req == requests[r]
           p == [req EXCEPT !.found[k] = Absent, !.sought = {}, !.at = "branding"]
           q == [req EXCEPT !.found[k] = Absent, !.sought = {}, !.at = "answer",
                            !.pending = {}]
           ending == CASE req.at = "patching" -> p
                       [] req.at = "pinning"  -> q
                       [] OTHER               -> NewRequest
<1>1. req \in RequestTypes /\ ~txn[r].open /\ req.op \in Shown
  BY Known DEF Saving, InCallback, Stage
<1>2. Consistent(p, txn[r], released)
  <2>1. p \in RequestTypes
    BY <1>1 DEF RequestTypes, Labels
  <2>2. /\ p.op = req.op /\ p.at = "branding" /\ p.passport = req.passport
        /\ p.member = req.member /\ p.key = req.key /\ p.change = req.change
        /\ p.sought = {} /\ p.pending = req.pending /\ p.links = req.links
    BY <1>1 DEF RequestTypes
  <2> HIDE DEF p
  <2>3. HandlerInv(p, txn[r], released)
    BY <1>1, <2>2, Known DEF HandlerInv, InCallback, Saving
  <2>4. Stage(p)
    BY <1>1, <2>2 DEF Stage, InCallback, Saving
  <2>5. Held(p, txn[r].view)
    BY <2>2, Known DEF Held, Saving
  <2> QED BY <2>1, <2>3, <2>4, <2>5 DEF Consistent
<1>3. Consistent(q, txn[r], released)
  <2>1. q \in RequestTypes
    BY <1>1 DEF RequestTypes, Labels
  <2>2. /\ q.op = req.op /\ q.at = "answer" /\ q.passport = req.passport
        /\ q.member = req.member /\ q.key = req.key /\ q.change = req.change
        /\ q.sought = {} /\ q.pending = {} /\ q.links = req.links
    BY <1>1 DEF RequestTypes
  <2> HIDE DEF q
  <2>3. HandlerInv(q, txn[r], released)
    BY <1>1, <2>2, Known DEF HandlerInv, InCallback, Saving
  <2>4. Stage(q)
    BY <1>1, <2>2 DEF Stage, InCallback, Saving
  <2>5. Held(q, txn[r].view)
    BY <2>2, Known DEF Held, Saving
  <2> QED BY <2>1, <2>3, <2>4, <2>5 DEF Consistent
<1>4. Consistent(NewRequest, txn[r], released)
  BY <1>1, Known, NewRequestOK
<1>5. Consistent(ending, txn[r], released)
  <2> HIDE DEF p, q
  <2> QED BY <1>2, <1>3, <1>4
<1>6. AfterSave(r, k) = Without(r, k, ending, req.at)
  <2>1. /\ p = [[req EXCEPT !.found[k] = Absent, !.sought = {}] EXCEPT !.at = "branding"]
        /\ q = [[req EXCEPT !.found[k] = Absent, !.sought = {}]
                   EXCEPT !.at = "answer", !.pending = {}]
    BY <1>1 DEF RequestTypes
  <2> HIDE DEF p, q
  <2> QED BY <2>1 DEF AfterSave
<1> HIDE DEF ending
<1> QED BY <1>5, <1>6, WithoutOK

LEMMA WriteLinkStep ==
    ASSUME Inv, NEW r \in Requests, NEW k \in Keys, WriteLink(r, k)
    PROVE  Inv'
<1> DEFINE req == requests[r]
           current == db[LinkDoc(k)]
           merged == Merged(req.found[k], req.links[k], current)
           update == One(LinkDoc(k), merged)
<1>1. /\ req.at \in Saving /\ k \in req.sought /\ req \in RequestTypes
      /\ ~txn[r].open
  BY Known DEF WriteLink, Saving, InCallback
<1>2. req.links[k] \in Links /\ req.found[k] \in Links \cup {Absent}
  BY <1>1, Known DEF Held, RequestTypes
<1>3. /\ current \in Links \cup {Absent}
      /\ HasPin(current) => released
      /\ HasPin(req.links[k]) => released
  BY <1>1, Known DEF StoreOK, Truthful, HandlerInv, Releasing
<1>4. ASSUME SaveFails(r, k), Update(r, Without(r, k, NewRequest, "failing")),
             UNCHANGED <<db, txn>>
      PROVE  Inv'
  <2>1. Consistent(NewRequest, txn[r], released)
    BY <1>1, Known, NewRequestOK
  <2>2. "failing" \in Saving
    BY DEF Saving
  <2>3. Consistent(Without(r, k, NewRequest, "failing"), txn[r], released)
    BY <1>1, <2>1, <2>2, WithoutOK
  <2> QED BY <1>4, <2>3, Local, Known DEF WriteLink
<1>5. ASSUME ~SaveFails(r, k), WriteDirectly(r, update), Update(r, AfterSave(r, k))
      PROVE  Inv'
  <2>1. (req.found[k] = Absent) = (current = Absent)
    BY <1>5 DEF SaveFails
  <2> HIDE DEF current
  <2>2. merged \in Links /\ (HasPin(merged) => released)
    BY <1>2, <1>3, <2>1, MergedOK DEF HasPin
  <2>3. DOMAIN update = {LinkDoc(k)} /\ update[LinkDoc(k)] = merged
    BY OneOK
  <2> HIDE DEF merged, update
  <2>4. UpdateOK(update) /\ UpdateTruthful(update, released)
    BY <2>2, <2>3, Names DEF UpdateOK, UpdateTruthful
  <2>5. Consistent(AfterSave(r, k), txn[r], released)
    BY <1>1, AfterSaveOK
  <2> QED BY <1>5, <2>4, <2>5, WroteDirectly DEF WriteLink
<1> QED BY <1>4, <1>5 DEF WriteLink

LEMMA AnswerStep ==
    ASSUME Inv, NEW r \in Requests, Answer(r)
    PROVE  Inv'
<1>1. ~txn[r].open
  BY Known DEF Answer, At, InCallback
<1> QED BY <1>1, Ended, Known DEF Answer

-----------------------------------------------------------------------------
(* Presentation configurations                                             *)

LEMMA LoadForConfigsStep ==
    ASSUME Inv, NEW r \in Requests, NEW op \in {"createConfig", "listConfigs"},
           LoadForConfigs(r, op)
    PROVE  Inv'
<1> DEFINE label == IF op = "createConfig" THEN "seed" ELSE "effective"
           q == [NewRequest EXCEPT !.op = op, !.at = label]
<1>1. ~txn[r].open
  BY Known DEF LoadForConfigs, At, InCallback
<1>2. label \in {"seed", "effective"}
  OBVIOUS
<1> HIDE DEF label
<1>3. NewRequest \in RequestTypes
  BY NewRequestOK, NoTransactionOK DEF Consistent
<1>4. q \in RequestTypes
  <2>1. op \in AllOperations /\ label \in Labels
    BY <1>2 DEF AllOperations, Labels
  <2> QED BY <1>3, <2>1 DEF RequestTypes
<1>5. /\ q.op = op /\ q.at = label /\ q.passport = Absent
      /\ q.sought = {} /\ q.pending = {}
      /\ \A k \in Keys : q.links[k] = Absent
  BY DEF NewRequest
<1> HIDE DEF q
<1>6. HandlerInv(q, txn[r], released)
  BY <1>1, <1>2, <1>5 DEF HandlerInv, InCallback, HasPin, Public, Shown
<1>7. Stage(q) /\ Held(q, txn[r].view)
  BY <1>2, <1>5 DEF Stage, Held, InCallback, Saving
<1> QED BY <1>4, <1>6, <1>7, Local, Known DEF LoadForConfigs, Consistent, q, label

LEMMA ListConfigsStep ==
    ASSUME Inv, NEW r \in Requests, ListConfigs(r)
    PROVE  Inv'
<1>1. /\ requests[r].at = "effective" /\ ~txn[r].open
      /\ requests[r].at \notin InCallback \cup Saving
      /\ requests[r].op \in {"visit", "listConfigs", "createConfig"}
      /\ requests[r].op \in Shown => requests[r].member \/ released
  BY Known DEF ListConfigs, At, InCallback, Saving, Stage, HandlerInv
<1>2. "seed" \in Labels /\ "branding" \in Labels
  BY DEF Labels
<1>3. CASE GoTo(r, "seed")
  BY <1>1, <1>2, <1>3, MovedOn, Known DEF ListConfigs
<1>4. CASE requests[r].op = "visit" /\ GoTo(r, "branding")
  BY <1>1, <1>2, <1>4, MovedOn, Known DEF ListConfigs
<1>5. CASE Finish(r)
  BY <1>1, <1>5, Ended, Known DEF ListConfigs
<1> QED BY <1>3, <1>4, <1>5 DEF ListConfigs, AfterConfigs

LEMMA SaveConfigStep ==
    ASSUME Inv, NEW r \in Requests, SaveConfig(r)
    PROVE  Inv'
<1> DEFINE req == requests[r]
           q == IF req.op = "visit" THEN [req EXCEPT !.at = "branding"] ELSE NewRequest
<1>1. req.at = "seed" /\ ~txn[r].open /\ req \in RequestTypes
  BY Known DEF SaveConfig, At, InCallback
<1>2. Consistent(q, txn[r], released)
  <2>1. CASE req.op = "visit"
    <3> DEFINE p == [req EXCEPT !.at = "branding"]
    <3>1. p \in RequestTypes
      BY <1>1 DEF RequestTypes, Labels
    <3>2. /\ p.op = "visit" /\ p.at = "branding" /\ p.passport = req.passport
          /\ p.member = req.member /\ p.key = req.key /\ p.sought = req.sought
          /\ p.pending = req.pending /\ p.links = req.links
      BY <1>1, <2>1 DEF RequestTypes
    <3> HIDE DEF p
    <3>3. HandlerInv(p, txn[r], released)
      BY <1>1, <2>1, <3>2, Known DEF HandlerInv, InCallback, Shown
    <3>4. Stage(p) /\ Held(p, txn[r].view)
      BY <1>1, <2>1, <3>2, Known DEF Stage, Held, InCallback, Saving, Shown
    <3> QED BY <2>1, <3>1, <3>3, <3>4 DEF Consistent, p
  <2>2. CASE req.op # "visit"
    BY <1>1, <2>2, NewRequestOK, Known
  <2> QED BY <2>1, <2>2
<1>3. ASSUME NEW k \in Keys, WriteDirectly(r, One(ConfigDoc(k), "present")), Update(r, q)
      PROVE  Inv'
  <2> DEFINE update == One(ConfigDoc(k), "present")
  <2>1. DOMAIN update = {ConfigDoc(k)} /\ update[ConfigDoc(k)] = "present"
    BY OneOK
  <2> HIDE DEF update
  <2>2. UpdateOK(update) /\ UpdateTruthful(update, released)
    BY <2>1, Names DEF UpdateOK, UpdateTruthful
  <2> HIDE DEF q
  <2> QED BY <1>2, <1>3, <2>2, WroteDirectly DEF SaveConfig, update
<1>4. CASE Finish(r) /\ UNCHANGED <<db, txn>>
  BY <1>1, <1>4, Ended, Known DEF SaveConfig
<1>5. AfterConfigs(r) => Update(r, q)
  BY DEF AfterConfigs, GoTo, Finish
<1>6. Fresh \subseteq Keys
  BY DEF Fresh
<1> QED BY <1>3, <1>4, <1>5, <1>6 DEF SaveConfig

LEMMA LoadForDeleteConfigStep ==
    ASSUME Inv, NEW r \in Requests, NEW k \in Keys, LoadForDeleteConfig(r, k)
    PROVE  Inv'
<1> DEFINE q == [NewRequest EXCEPT !.op = "deleteConfig", !.at = "remove", !.key = k]
<1>1. ~txn[r].open
  BY Known DEF LoadForDeleteConfig, At, InCallback
<1>2. NewRequest \in RequestTypes
  BY NewRequestOK, NoTransactionOK DEF Consistent
<1>3. q \in RequestTypes
  <2>1. "deleteConfig" \in AllOperations /\ "remove" \in Labels
    BY DEF AllOperations, Labels
  <2> QED BY <1>2, <2>1 DEF RequestTypes
<1>4. /\ q.op = "deleteConfig" /\ q.at = "remove" /\ q.passport = Absent
      /\ q.sought = {} /\ q.pending = {}
      /\ \A j \in Keys : q.links[j] = Absent
  BY DEF NewRequest
<1> HIDE DEF q
<1>5. HandlerInv(q, txn[r], released)
  BY <1>1, <1>4 DEF HandlerInv, InCallback, HasPin, Public, Shown
<1>6. Stage(q) /\ Held(q, txn[r].view)
  BY <1>4 DEF Stage, Held, InCallback, Saving
<1> QED BY <1>3, <1>5, <1>6, Local, Known DEF LoadForDeleteConfig, Consistent, q

LEMMA RemoveConfigStep ==
    ASSUME Inv, NEW r \in Requests, RemoveConfig(r)
    PROVE  Inv'
<1> DEFINE d == ConfigDoc(requests[r].key)
           update == One(d, Absent)
<1>1. txn[r].open = FALSE
  BY Known DEF RemoveConfig, At, InCallback
<1>2. Consistent(NewRequest, txn[r], released)
  BY <1>1, NewRequestOK
<1>3. DOMAIN update = {d} /\ update[d] = Absent
  BY OneOK
<1> HIDE DEF update
<1>4. UpdateOK(update) /\ UpdateTruthful(update, released)
  BY <1>3 DEF UpdateOK, UpdateTruthful, Public, HasPin
<1> QED BY <1>2, <1>4, WroteDirectly DEF RemoveConfig, Finish, update

-----------------------------------------------------------------------------
(* The surroundings                                                        *)

LEMMA ChangeFallbackStep ==
    ASSUME Inv, NEW base \in Bases, ChangeFallback(base)
    PROVE  Inv'
BY DEF Inv, ChangeFallback

LEMMA FailoverStep ==
    ASSUME Inv, NEW r \in Requests, Failover(r)
    PROVE  Inv'
BY Retried, Known DEF Failover

\* No transaction and no request outlives the process.
LEMMA CrashStep ==
    ASSUME Inv, Crash
    PROVE  Inv'
<1>1. RequestInv(NewRequest, NoTransaction, released)
  BY NewRequestOK, NoTransactionOK DEF RequestInv
<1> QED BY <1>1 DEF Inv, Crash, AbortAllTransactions

LEMMA WaitingStep ==
    ASSUME Inv, UNCHANGED vars
    PROVE  Inv'
BY DEF Inv, vars

LEMMA ArriveStep ==
    ASSUME Inv, NEW r \in Requests, Arrive(r)
    PROVE  Inv'
<1>1. ASSUME NEW op \in StatusOrDelete, LoadForStatus(r, op) PROVE Inv'
  BY <1>1, LoadForStatusStep
<1>2. ASSUME NEW member \in BOOLEAN, LoadForList(r, member) PROVE Inv'
  BY <1>2, LoadForListStep
<1>3. ASSUME NEW k \in Keys, NEW member \in BOOLEAN,
             ResolvePermalink(r, "visit", k, member, Null)
      PROVE  Inv'
  BY <1>3, ResolvePermalinkStep
<1>4. ASSUME NEW k \in Keys, NEW change \in Changes,
             ResolvePermalink(r, "patch", k, TRUE, change)
      PROVE  Inv'
  BY <1>4, ResolvePermalinkStep
<1>5. ASSUME NEW op \in {"createConfig", "listConfigs"}, LoadForConfigs(r, op)
      PROVE  Inv'
  BY <1>5, LoadForConfigsStep
<1>6. ASSUME NEW k \in Keys, LoadForDeleteConfig(r, k) PROVE Inv'
  BY <1>6, LoadForDeleteConfigStep
<1> QED BY <1>1, <1>2, <1>3, <1>4, <1>5, <1>6 DEF Arrive

LEMMA HandleStep ==
    ASSUME Inv, NEW r \in Requests, Handle(r)
    PROVE  Inv'
<1>1. CASE Begin(r)            BY <1>1, BeginStep
<1>2. CASE SavePassport(r)     BY <1>2, SavePassportStep
<1>3. CASE FindPermalinks(r)   BY <1>3, FindPermalinksStep
<1>4. CASE LoadBase(r)         BY <1>4, LoadBaseStep
<1>5. CASE DropAll(r)          BY <1>5, DropAllStep
<1>6. CASE Commit(r)           BY <1>6, CommitStep
<1>7. CASE ListPermalinks(r)   BY <1>7, ListPermalinksStep
<1>8. CASE EnsureDefault(r)    BY <1>8, EnsureDefaultStep
<1>9. CASE CreatePermalink(r)  BY <1>9, CreatePermalinkStep
<1>10. CASE RecheckPassport(r) BY <1>10, RecheckPassportStep
<1>11. CASE ResolveConfig(r)   BY <1>11, ResolveConfigStep
<1>12. CASE ResolvePassport(r) BY <1>12, ResolvePassportStep
<1>13. CASE LoadForUpdate(r)   BY <1>13, LoadForUpdateStep
<1>14. CASE LoadBranding(r)    BY <1>14, LoadBrandingStep
<1>15. CASE Answer(r)          BY <1>15, AnswerStep
<1>16. CASE ListConfigs(r)     BY <1>16, ListConfigsStep
<1>17. CASE SaveConfig(r)      BY <1>17, SaveConfigStep
<1>18. CASE RemoveConfig(r)    BY <1>18, RemoveConfigStep
<1>19. ASSUME NEW k \in Keys, PinInTransaction(r, k) PROVE Inv'
  BY <1>19, PinInTransactionStep
<1>20. ASSUME NEW k \in Keys, FindForSave(r, k) PROVE Inv'
  BY <1>20, FindForSaveStep
<1>21. ASSUME NEW k \in Keys, WriteLink(r, k) PROVE Inv'
  BY <1>21, WriteLinkStep
<1> QED BY <1>1, <1>2, <1>3, <1>4, <1>5, <1>6, <1>7, <1>8, <1>9, <1>10, <1>11,
           <1>12, <1>13, <1>14, <1>15, <1>16, <1>17, <1>18, <1>19, <1>20, <1>21
        DEF Handle

\* Every step of the specification keeps Inv.
LEMMA NextStep ==
    ASSUME Inv, [Next]_vars
    PROVE  Inv'
<1>1. ASSUME NEW r \in Requests, Arrive(r) PROVE Inv'
  BY <1>1, ArriveStep
<1>2. ASSUME NEW r \in Requests, Handle(r) PROVE Inv'
  BY <1>2, HandleStep
<1>3. ASSUME NEW r \in Requests, Failover(r) PROVE Inv'
  BY <1>3, FailoverStep
<1>4. ASSUME NEW base \in Bases, ChangeFallback(base) PROVE Inv'
  BY <1>4, ChangeFallbackStep
<1>5. CASE Crash
  BY <1>5, CrashStep
<1>6. CASE UNCHANGED vars
  BY <1>6, WaitingStep
<1> QED BY <1>1, <1>2, <1>3, <1>4, <1>5, <1>6 DEF Next, Waiting

LEMMA InitOK == Init => Inv
<1> SUFFICES ASSUME Init PROVE Inv
  OBVIOUS
<1>1. PICK made \in SUBSET Keys :
         db = [d \in Documents |->
                 CASE d = PassportDoc -> [status |-> "Draft", previous |-> "none"]
                   [] d \in {ConfigDoc(k) : k \in made} -> "present"
                   [] d \in {LinkDoc(k) : k \in made}   -> NewLink
                   [] OTHER                             -> Absent]
  BY DEF Init
<1>2. /\ db = [d \in Documents |-> db[d]]
      /\ db[PassportDoc] = [status |-> "Draft", previous |-> "none"]
  <2> DEFINE value(d) ==
                 CASE d = PassportDoc -> [status |-> "Draft", previous |-> "none"]
                   [] d \in {ConfigDoc(k) : k \in made} -> "present"
                   [] d \in {LinkDoc(k) : k \in made}   -> NewLink
                   [] OTHER                             -> Absent
  <2>1. db = [d \in Documents |-> value(d)]
    BY <1>1
  <2>2. value(PassportDoc) = [status |-> "Draft", previous |-> "none"]
    BY Names DEF PassportDoc, ConfigDoc, LinkDoc
  <2> HIDE DEF value
  <2> QED BY <2>1, <2>2 DEF Documents
<1>3. db[PassportDoc] \in Passports /\ ~Public(db[PassportDoc])
  BY <1>2 DEF Passports, Statuses, StatusChanges, Public
<1>4. NewLink \in Links /\ ~HasPin(NewLink)
  BY DEF NewLink, Links, HasPin
<1>5. ASSUME NEW k \in Keys
      PROVE  /\ db[ConfigDoc(k)] \in {"present", Absent}
             /\ db[LinkDoc(k)] \in {NewLink, Absent}
  <2>1. /\ ConfigDoc(k) \in Documents /\ LinkDoc(k) \in Documents
        /\ ConfigDoc(k) # PassportDoc /\ LinkDoc(k) # PassportDoc
        /\ ConfigDoc(k) \notin {LinkDoc(j) : j \in made}
        /\ LinkDoc(k) \notin {ConfigDoc(j) : j \in made}
    BY Names
  <2> QED BY <1>1, <2>1
<1>6. StoreOK(db) /\ Truthful(db, released)
  BY <1>2, <1>3, <1>4, <1>5 DEF StoreOK, Truthful, HasPin
<1>7. RequestInv(NewRequest, NoTransaction, released)
  BY NewRequestOK, NoTransactionOK DEF RequestInv
<1> QED BY <1>6, <1>7 DEF Init, InitTransactions, Inv

\* What the store, the transactions and the handlers may know is never exceeded.
THEOREM AlwaysInv == Spec => []Inv
BY InitOK, NextStep, PTL DEF Spec

-----------------------------------------------------------------------------
(* What follows                                                            *)

\* Documents and what handlers hold keep their types, and a transaction is open
\* exactly while its handler is in the callback, for any number of handlers,
\* permalinks, slugs, base URLs and failures.
THEOREM TypeCorrect == Spec => []TypeOK
<1>1. Inv => TypeOK
  BY DEF Inv, TypeOK, RequestInv, TransactionInv, Consistent, HandlerInv
<1> QED BY <1>1, AlwaysInv, PTL

\* A permalink is pinned only once the passport has been published, however
\* publications, creations, changes and visits overlap and fail.
THEOREM PinnedAfterPublication == Spec => []PinnedOnlyAfterPublication
<1>1. Inv => PinnedOnlyAfterPublication
  BY DEF Inv, Truthful, PinnedOnlyAfterPublication, Pinned, Link, HasPin
<1> QED BY <1>1, AlwaysInv, PTL

\* A visitor who is no member is answered only about a passport that has been
\* published.
THEOREM VisitorsSeeOnlyPublished == Spec => []VisitorsSeePublished
<1>1. Inv => VisitorsSeePublished
  <2> SUFFICES ASSUME Inv, NEW r \in Requests, At(r, "answer"), ~requests[r].member
               PROVE  released
    BY DEF VisitorsSeePublished
  <2>1. requests[r].at = "answer" /\ requests[r].op \in Shown
    BY Known DEF At, Stage
  <2> QED BY <2>1, Known DEF HandlerInv
<1> QED BY <1>1, AlwaysInv, PTL

-----------------------------------------------------------------------------
(***************************************************************************)
(* What a publication commits.  Its transaction sees the store but for its *)
(* own writes and for what it missed, and by the time it commits every     *)
(* permalink that it reaches is pinned in its view; what it did not miss   *)
(* is stored as it sees it.                                                *)
(***************************************************************************)

\* The view of transaction t is the store where t neither wrote nor missed.
Sees(t, store) ==
    t.open => \A d \in Documents :
                d \notin t.written \cup t.missed => t.view[d] = store[d]

\* How far handler q, whose transaction sees view, has come with the pins.
Publishing(q, view) ==
    /\ q.at \in {"ensure", "create", "recheck"} => q.op = "list"
    /\ q.at = "drop" => q.op = "deletePassport"
    /\ q.op = "publish" /\ q.at \in {"base", "pin"} =>
         \A k \in Reachable(view) : k \in q.pending \/ HasPin(view[LinkDoc(k)])
    /\ q.op = "publish" /\ q.at = "commit" =>
         \A k \in Reachable(view) : HasPin(view[LinkDoc(k)])

PublicationInv ==
    \A r \in Requests :
      Sees(txn[r], db) /\ Publishing(requests[r], txn[r].view)

\* What a step of handler r may do to the store.
StoreStep(r) ==
    \/ UNCHANGED <<db, txn>>
    \/ StartTransaction(r)
    \/ CommitTransaction(r)
    \/ AbortTransaction(r)
    \/ \E update : WriteInTransaction(r, update)
    \/ \E update : WriteDirectly(r, update)

HandlerStep(r) == Arrive(r) \/ Handle(r) \/ Failover(r)

LEMMA StepsOfStore ==
    ASSUME NEW r \in Requests, HandlerStep(r)
    PROVE  StoreStep(r)
<1>1. CASE Arrive(r)
  BY <1>1 DEF Arrive, LoadForStatus, LoadForList, ResolvePermalink, LoadForConfigs,
              LoadForDeleteConfig, StoreStep
<1>2. CASE Failover(r)
  BY <1>2 DEF Failover, Retry, StoreStep
<1>3. CASE Begin(r)
  BY <1>3 DEF Begin, StoreStep
<1>4. CASE Commit(r)
  BY <1>4 DEF Commit, StoreStep
<1>5. CASE \/ SavePassport(r) \/ DropAll(r) \/ CreatePermalink(r)
           \/ \E k \in Keys : PinInTransaction(r, k)
  BY <1>5 DEF SavePassport, DropAll, CreatePermalink, PinInTransaction, Save, Retry,
              StoreStep
<1>6. CASE EnsureDefault(r) \/ LoadBase(r)
  BY <1>6 DEF EnsureDefault, LoadBase, StoreStep
<1>7. CASE \/ SaveConfig(r) \/ RemoveConfig(r) \/ \E k \in Keys : WriteLink(r, k)
  BY <1>7 DEF SaveConfig, RemoveConfig, WriteLink, StoreStep
<1>8. CASE \/ FindPermalinks(r) \/ ListPermalinks(r) \/ RecheckPassport(r)
           \/ ResolveConfig(r) \/ ResolvePassport(r) \/ LoadForUpdate(r)
           \/ LoadBranding(r) \/ Answer(r) \/ ListConfigs(r)
           \/ \E k \in Keys : FindForSave(r, k)
  BY <1>8 DEF FindPermalinks, ListPermalinks, RecheckPassport, ResolveConfig,
              ResolvePassport, LoadForUpdate, LoadBranding, Answer, ListConfigs,
              FindForSave, StoreStep
<1> QED BY <1>1, <1>2, <1>3, <1>4, <1>5, <1>6, <1>7, <1>8 DEF HandlerStep, Handle

\* What handler r commits or writes is missed by the others' transactions.
LEMMA NotifiedSee ==
    ASSUME Inv, PublicationInv, NEW r \in Requests, NEW changed, NEW own,
           txn' = Notify(r, changed, own),
           \A d \in Documents \ changed : db'[d] = db[d],
           NEW u \in Requests \ {r}
    PROVE  Sees(txn'[u], db') /\ txn'[u].view = txn[u].view /\ txn'[u].open = txn[u].open
<1>1. TransactionInv(txn[u], released) /\ Sees(txn[u], db)
  BY DEF Inv, RequestInv, PublicationInv
<1>2. CASE txn[u].open
  <2>1. txn'[u] = [txn[u] EXCEPT !.missed = @ \cup changed]
    BY <1>2 DEF Notify
  <2>2. /\ txn'[u].open = txn[u].open /\ txn'[u].view = txn[u].view
        /\ txn'[u].written = txn[u].written
        /\ txn'[u].missed = txn[u].missed \cup changed
    BY <1>1, <2>1 DEF TransactionInv
  <2> QED BY <1>1, <2>2 DEF Sees
<1>3. CASE ~txn[u].open
  BY <1>3 DEF Notify, Sees
<1> QED BY <1>2, <1>3

LEMMA SeesStep ==
    ASSUME Inv, PublicationInv, NEW r \in Requests, StoreStep(r), NEW u \in Requests
    PROVE  /\ Sees(txn'[u], db')
           /\ u # r => txn'[u].view = txn[u].view /\ txn'[u].open = txn[u].open
<1>0. /\ txn = [p \in Requests |-> txn[p]]
      /\ Sees(txn[u], db) /\ StoreOK(txn[u].view) /\ StoreOK(db)
  BY DEF Inv, RequestInv, TransactionInv, PublicationInv
<1>1. CASE UNCHANGED <<db, txn>>
  BY <1>0, <1>1
<1>2. CASE StartTransaction(r)
  <2>1. CASE u = r
    BY <1>0, <1>2, <2>1 DEF StartTransaction, Sees
  <2>2. CASE u # r
    BY <1>0, <1>2, <2>2 DEF StartTransaction
  <2> QED BY <2>1, <2>2
<1>3. CASE AbortTransaction(r)
  <2>1. CASE u = r
    BY <1>0, <1>3, <2>1 DEF AbortTransaction, NoTransaction, Sees
  <2>2. CASE u # r
    BY <1>0, <1>3, <2>2 DEF AbortTransaction
  <2> QED BY <2>1, <2>2
<1>4. CASE CommitTransaction(r)
  <2>1. CASE u = r
    BY <1>4, <2>1 DEF CommitTransaction, Notify, NoTransaction, Sees
  <2>2. CASE u # r
    <3>1. \A d \in Documents \ txn[r].written : db'[d] = db[d]
      BY <1>4 DEF CommitTransaction
    <3>2. txn' = Notify(r, txn[r].written, NoTransaction)
      BY <1>4 DEF CommitTransaction
    <3> QED BY <2>2, <3>1, <3>2, NotifiedSee
  <2> QED BY <2>1, <2>2
<1>5. ASSUME NEW update, WriteInTransaction(r, update)
      PROVE  /\ Sees(txn'[u], db')
             /\ u # r => txn'[u].view = txn[u].view /\ txn'[u].open = txn[u].open
  <2>1. CASE u = r
    <3>1. txn'[u] = Written(r, update) /\ db' = db /\ txn[r].open
      BY <1>0, <1>5, <2>1 DEF WriteInTransaction, Written
    <3>2. ASSUME NEW d \in Documents,
                 d \notin txn[r].written \cup Differing(txn[r].view, update) \cup txn[r].missed
          PROVE  Overwrite(txn[r].view, update)[d] = db[d]
      BY <1>0, <2>1, <3>1, <3>2 DEF Overwrite, Differing, Sees
    <3> QED BY <2>1, <3>1, <3>2 DEF Written, Sees
  <2>2. CASE u # r
    BY <1>0, <1>5, <2>2 DEF WriteInTransaction
  <2> QED BY <2>1, <2>2
<1>6. ASSUME NEW update, WriteDirectly(r, update)
      PROVE  /\ Sees(txn'[u], db')
             /\ u # r => txn'[u].view = txn[u].view /\ txn'[u].open = txn[u].open
  <2>1. txn' = Notify(r, Differing(db, update), txn[r]) /\ ~txn[r].open
    BY <1>6 DEF WriteDirectly
  <2>2. \A d \in Documents \ Differing(db, update) : db'[d] = db[d]
    BY <1>0, <1>6 DEF WriteDirectly, Overwrite, Differing
  <2>3. CASE u = r
    BY <2>1, <2>3 DEF Notify, Sees
  <2>4. CASE u # r
    BY <2>1, <2>2, <2>4, NotifiedSee
  <2> QED BY <2>3, <2>4
<1> QED BY <1>1, <1>2, <1>3, <1>4, <1>5, <1>6 DEF StoreStep

\* A handler outside the callback, or one that starts it.
LEMMA NotPublishing ==
    ASSUME NEW q, NEW view,
           q.at \notin {"ensure", "create", "recheck", "drop", "base", "pin", "commit"}
    PROVE  Publishing(q, view)
BY DEF Publishing

LEMMA Updated ==
    ASSUME Inv, NEW r \in Requests, NEW q, Update(r, q)
    PROVE  requests'[r] = q
BY DEF Update, Inv

LEMMA RetriedIsEarly ==
    ASSUME Inv, NEW r \in Requests, Retry(r)
    PROVE  requests'[r].at \in {"ready", "idle"}
<1>1. requests[r] \in RequestTypes
  BY Known
<1>2. CASE requests[r].attempts < MaxAttempts
  <2> DEFINE q == [requests[r] EXCEPT
              !.at = "ready", !.key = Null, !.base = Null, !.pending = {},
              !.links = NewRequest.links]
  <2>1. requests'[r] = q
    BY <1>2, Updated DEF Retry
  <2>2. q.at = "ready"
    BY <1>1 DEF RequestTypes
  <2> QED BY <2>1, <2>2
<1>3. CASE ~(requests[r].attempts < MaxAttempts)
  BY <1>3, Updated DEF Retry, Finish, NewRequest
<1> QED BY <1>2, <1>3

\* After a save in the callback the handler starts over or is as it wants.
LEMMA SavedPublishing ==
    ASSUME Inv, NEW r \in Requests, NEW update, NEW q, Save(r, update, q),
           Publishing(q, Overwrite(txn[r].view, update))
    PROVE  Publishing(requests'[r], txn'[r].view)
<1>1. CASE Retry(r)
  BY <1>1, RetriedIsEarly, NotPublishing
<1>2. CASE WriteInTransaction(r, update) /\ Update(r, q)
  <2>1. requests'[r] = q
    BY <1>2 DEF Update, Inv
  <2>2. txn'[r].view = Overwrite(txn[r].view, update)
    BY <1>2 DEF WriteInTransaction, Inv
  <2> QED BY <2>1, <2>2
<1> QED BY <1>1, <1>2 DEF Save

LEMMA PinPublishing ==
    ASSUME Inv, PublicationInv, NEW r \in Requests, NEW k \in Keys, PinInTransaction(r, k)
    PROVE  Publishing(requests'[r], txn'[r].view)
<1> DEFINE req == requests[r]
           view == txn[r].view
           pinned == Pin(k, view[LinkDoc(k)], req.base)
           q == [req EXCEPT !.pending = @ \ {k}, !.links[k] = pinned,
                            !.at = IF req.pending = {k} THEN "commit" ELSE "pin"]
           new == Overwrite(view, One(LinkDoc(k), pinned))
<1>1. /\ req.at = "pin" /\ k \in req.pending /\ req \in RequestTypes
      /\ Publishing(req, view) /\ StoreOK(view) /\ Held(req, view)
  BY Known DEF PinInTransaction, At, PublicationInv, TransactionInv
<1>2. view[LinkDoc(k)] \in Links /\ req.base \in Bases
  BY <1>1 DEF StoreOK, Held
<1>3. HasPin(pinned)
  <2>1. pinned \in Links /\ pinned # Absent
    BY <1>2, PinOK
  <2>2. PublicUrl(k, view[LinkDoc(k)], req.base) \in Urls
    BY <1>2 DEF PublicUrl, Urls, Links
  <2>3. pinned.url # Null
    BY <1>2, <2>2, ValuesAssumption DEF Pin, Links
  <2> QED BY <2>1, <2>3 DEF HasPin
<1> HIDE DEF pinned
<1>4. /\ new[LinkDoc(k)] = pinned
      /\ \A j \in Keys : new[ConfigDoc(j)] = view[ConfigDoc(j)]
      /\ \A j \in Keys \ {k} : new[LinkDoc(j)] = view[LinkDoc(j)]
  <2> DEFINE update == One(LinkDoc(k), pinned)
  <2>0. DOMAIN update = {LinkDoc(k)} /\ update[LinkDoc(k)] = pinned
    BY OneOK
  <2> HIDE DEF update
  <2>1. \A d \in Documents : new[d] = IF d = LinkDoc(k) THEN pinned ELSE view[d]
    BY <2>0 DEF Overwrite, update
  <2> HIDE DEF new
  <2> QED BY <2>1, Names
<1>5. /\ q.op = req.op /\ q.pending = req.pending \ {k}
      /\ q.at = IF req.pending = {k} THEN "commit" ELSE "pin"
  BY <1>1 DEF RequestTypes
<1> HIDE DEF q, new
<1>6. Publishing(q, new)
  <2>1. ASSUME req.op = "publish", NEW j \in Reachable(new)
        PROVE  HasPin(new[LinkDoc(j)]) \/ j \in q.pending
    <3>1. CASE j = k
      BY <1>3, <1>4, <3>1
    <3>2. CASE j # k
      <4>1. j \in Reachable(view)
        BY <1>4, <2>1, <3>2 DEF Reachable, Configured
      <4>2. HasPin(view[LinkDoc(j)]) \/ j \in req.pending
        BY <1>1, <2>1, <4>1 DEF Publishing
      <4> QED BY <1>4, <1>5, <2>1, <3>2, <4>2 DEF Reachable, Configured
    <3> QED BY <3>1, <3>2
  <2>2. q.at = "commit" => q.pending = {}
    BY <1>5
  <2> QED BY <1>5, <2>1, <2>2 DEF Publishing
<1>7. Save(r, One(LinkDoc(k), pinned), q)
  BY DEF PinInTransaction, q, pinned
<1> QED BY <1>6, <1>7, SavedPublishing DEF new

LEMMA PublishingStep ==
    ASSUME Inv, PublicationInv, NEW r \in Requests, HandlerStep(r)
    PROVE  Publishing(requests'[r], txn'[r].view)
<1> DEFINE req == requests[r]
<1>0. /\ requests = [p \in Requests |-> requests[p]]
      /\ txn = [p \in Requests |-> txn[p]]
      /\ req \in RequestTypes /\ Publishing(req, txn[r].view)
  BY Known DEF Inv, PublicationInv
<1>1. CASE Arrive(r)
  <2> DEFINE Early == requests'[r].at \in {"ready", "list", "config", "seed", "effective", "remove"}
  <2>1. ASSUME NEW op, LoadForStatus(r, op) PROVE Early
    BY <2>1, Updated DEF LoadForStatus, NewRequest
  <2>2. ASSUME NEW member, LoadForList(r, member) PROVE Early
    <3> DEFINE q == [NewRequest EXCEPT !.op = "list", !.at = "list",
                       !.member = member, !.passport = db[PassportDoc]]
    <3>1. q.at = "list"
      BY DEF NewRequest
    <3>2. requests'[r] = q
      BY <2>2, Updated DEF LoadForList
    <3> QED BY <3>1, <3>2
  <2>3. ASSUME NEW op, NEW k, NEW member, NEW change, ResolvePermalink(r, op, k, member, change)
        PROVE  Early
    <3> DEFINE q == [NewRequest EXCEPT
                       !.op = op, !.at = "config", !.key = k, !.member = member,
                       !.change = change, !.links[k] = db[LinkDoc(k)]]
    <3>1. q.at = "config"
      BY DEF NewRequest
    <3>2. requests'[r] = q
      BY <2>3, Updated DEF ResolvePermalink
    <3> QED BY <3>1, <3>2
  <2>4. ASSUME NEW op, LoadForConfigs(r, op) PROVE Early
    <3> DEFINE q == [NewRequest EXCEPT
                       !.op = op, !.at = IF op = "createConfig" THEN "seed" ELSE "effective"]
    <3>1. q.at \in {"seed", "effective"}
      BY DEF NewRequest
    <3>2. requests'[r] = q
      BY <2>4, Updated DEF LoadForConfigs
    <3> QED BY <3>1, <3>2
  <2>5. ASSUME NEW k, LoadForDeleteConfig(r, k) PROVE Early
    <3> DEFINE q == [NewRequest EXCEPT !.op = "deleteConfig", !.at = "remove", !.key = k]
    <3>1. q.at = "remove"
      BY DEF NewRequest
    <3>2. requests'[r] = q
      BY <2>5, Updated DEF LoadForDeleteConfig
    <3> QED BY <3>1, <3>2
  <2>6. Early
    BY <1>1, <2>1, <2>2, <2>3, <2>4, <2>5 DEF Arrive
  <2> QED BY <2>6, NotPublishing
<1>2. CASE Failover(r)
  BY <1>2, RetriedIsEarly, NotPublishing DEF Failover
<1>3. CASE Begin(r)
  <2> DEFINE at == CASE req.op = "list" -> "ensure" [] req.op = "deletePassport" -> "drop"
                     [] OTHER -> "save"
  <2>1. requests'[r].at = at /\ requests'[r].op = req.op
    BY <1>0, <1>3 DEF Begin, Update, RequestTypes
  <2> QED BY <2>1 DEF Publishing
<1>4. CASE SavePassport(r)
  <2> DEFINE q == [req EXCEPT !.at = IF req.op = "publish" THEN "find" ELSE "commit"]
  <2>1. q.op = req.op /\ q.at = IF req.op = "publish" THEN "find" ELSE "commit"
    BY <1>0 DEF RequestTypes
  <2>2. \A view : Publishing(q, view)
    BY <2>1 DEF Publishing
  <2> QED BY <1>4, <2>2, SavedPublishing DEF SavePassport
<1>5. CASE FindPermalinks(r)
  <2> DEFINE found == Reachable(txn[r].view)
  <2>1. /\ requests'[r].op = req.op /\ requests'[r].pending = found
        /\ requests'[r].at = IF found = {} THEN "commit" ELSE "base"
        /\ txn' = txn
    BY <1>0, <1>5 DEF FindPermalinks, Update, RequestTypes
  <2> QED BY <2>1 DEF Publishing
<1>6. CASE LoadBase(r)
  <2>1. CASE Finish(r)
    BY <1>0, <2>1, NotPublishing DEF Finish, Update, NewRequest
  <2>2. CASE Update(r, [req EXCEPT !.base = fallback, !.at = "pin"]) /\ UNCHANGED txn
    <3>1. /\ requests'[r].op = req.op /\ requests'[r].pending = req.pending
          /\ requests'[r].at = "pin" /\ req.at = "base"
      BY <1>0, <1>6, <2>2 DEF LoadBase, At, Update, RequestTypes
    <3> QED BY <1>0, <2>2, <3>1 DEF Publishing
  <2> QED BY <1>6, <2>1, <2>2 DEF LoadBase
<1>7. ASSUME NEW k \in Keys, PinInTransaction(r, k)
      PROVE  Publishing(requests'[r], txn'[r].view)
  BY <1>7, PinPublishing
<1>8. CASE DropAll(r)
  <2> DEFINE q == [req EXCEPT !.at = "commit"]
  <2>1. req.op = "deletePassport"
    BY <1>0, <1>8 DEF DropAll, At, Publishing
  <2>2. q.op = req.op /\ q.at = "commit"
    BY <1>0 DEF RequestTypes
  <2>3. \A view : Publishing(q, view)
    BY <2>1, <2>2 DEF Publishing
  <2> QED BY <1>8, <2>3, SavedPublishing DEF DropAll
<1>9. CASE Commit(r)
  <2>1. requests'[r].at \in {"branding", "idle"}
    <3> DEFINE q == [req EXCEPT !.at = "branding", !.pending = {req.key}]
    <3>1. q.at = "branding" /\ NewRequest.at = "idle"
      BY <1>0 DEF NewRequest, RequestTypes
    <3>2. requests'[r] \in {q, NewRequest}
      BY <1>9, Updated DEF Commit, Finish
    <3> QED BY <3>1, <3>2
  <2> QED BY <2>1, NotPublishing
<1>10. CASE EnsureDefault(r)
  <2>1. \/ requests'[r].at = "idle"
        \/ requests'[r].at = "create" /\ requests'[r].op = req.op /\ req.at = "ensure"
    <3> DEFINE next(k) == [req EXCEPT !.key = k, !.at = "create"]
    <3>1. NewRequest.at = "idle" /\ \A k : next(k).at = "create" /\ next(k).op = req.op
      BY <1>0 DEF NewRequest, RequestTypes
    <3>2. requests'[r] = NewRequest \/ \E k : requests'[r] = next(k)
      BY <1>10, Updated DEF EnsureDefault, Finish
    <3>3. req.at = "ensure"
      BY <1>10 DEF EnsureDefault, At
    <3> HIDE DEF next
    <3> QED BY <3>1, <3>2, <3>3
  <2> QED BY <1>0, <2>1 DEF Publishing
<1>11. CASE CreatePermalink(r)
  <2> DEFINE k == req.key
             done == [req EXCEPT !.links[k] = txn[r].view[LinkDoc(k)], !.at = "commit"]
             made == [req EXCEPT !.links[k] = NewLink, !.at = "recheck"]
  <2>1. req.op = "list"
    BY <1>0, <1>11 DEF CreatePermalink, At, Publishing
  <2>2. done.op = "list" /\ done.at = "commit" /\ made.op = "list" /\ made.at = "recheck"
    BY <1>0, <2>1 DEF RequestTypes
  <2>3. \A view : Publishing(done, view) /\ Publishing(made, view)
    BY <2>2 DEF Publishing
  <2>4. CASE Update(r, done)
    BY <1>0, <2>3, <2>4 DEF Update
  <2>5. CASE Save(r, One(LinkDoc(k), NewLink), made)
    BY <2>3, <2>5, SavedPublishing
  <2> QED BY <1>11, <2>4, <2>5 DEF CreatePermalink
<1>12. CASE RecheckPassport(r)
  <2>1. /\ requests'[r].op = req.op /\ requests'[r].at \in {"base", "commit"}
        /\ req.at = "recheck"
    <3> DEFINE q == [req EXCEPT !.at = "base", !.pending = {req.key}]
               u == [req EXCEPT !.at = "commit"]
    <3>1. q.op = req.op /\ q.at = "base" /\ u.op = req.op /\ u.at = "commit"
      BY <1>0 DEF RequestTypes
    <3>2. requests'[r] \in {q, u} /\ req.at = "recheck"
      BY <1>12, Updated DEF RecheckPassport, GoTo, At
    <3> QED BY <3>1, <3>2
  <2> QED BY <1>0, <2>1 DEF Publishing
<1>13. CASE \/ ListPermalinks(r) \/ ResolveConfig(r) \/ ResolvePassport(r) \/ LoadForUpdate(r)
            \/ LoadBranding(r) \/ Answer(r) \/ ListConfigs(r) \/ SaveConfig(r) \/ RemoveConfig(r)
  <2> DEFINE Outside ==
        {"branding", "ready", "idle", "passport", "update", "effective", "patching",
         "pinning", "answer", "seed"}
             Went(at) == requests'[r] = [req EXCEPT !.at = at]
  <2>0. /\ NewRequest.at = "idle"
        /\ \A at \in Outside : Went(at) => requests'[r].at \in Outside
    BY <1>0 DEF NewRequest, RequestTypes
  <2>1. CASE ResolveConfig(r)
    BY <2>0, <2>1, Updated, NotPublishing DEF ResolveConfig, GoTo, Finish
  <2>2. CASE Answer(r) \/ RemoveConfig(r)
    BY <2>0, <2>2, Updated, NotPublishing DEF Answer, RemoveConfig, Finish
  <2>3. CASE ListConfigs(r) \/ SaveConfig(r)
    BY <2>0, <2>3, Updated, NotPublishing DEF ListConfigs, SaveConfig, AfterConfigs, GoTo, Finish
  <2>4. CASE ListPermalinks(r)
    <3> DEFINE found == Reachable(db)
               q == [req EXCEPT !.at = "branding", !.pending = found,
                       !.links = [k \in Keys |-> IF k \in found THEN db[LinkDoc(k)] ELSE Absent]]
    <3>1. q.at = "branding"
      BY <1>0 DEF RequestTypes
    <3>2. requests'[r] \in {q, NewRequest} \/ Went("ready")
      BY <2>4, Updated DEF ListPermalinks, GoTo, Finish
    <3> QED BY <2>0, <3>1, <3>2, NotPublishing
  <2>5. CASE ResolvePassport(r)
    <3> DEFINE q == [req EXCEPT
              !.passport = db[PassportDoc], !.pending = {req.key},
              !.at = IF req.op = "patch" THEN "update" ELSE "effective"]
    <3>1. q.at \in Outside
      BY <1>0 DEF RequestTypes
    <3>2. requests'[r] \in {q, NewRequest}
      BY <2>5, Updated DEF ResolvePassport, Finish
    <3> QED BY <2>0, <3>1, <3>2, NotPublishing
  <2>6. CASE LoadForUpdate(r)
    <3> DEFINE k == req.key
               q == [req EXCEPT !.links[k] = Changed(db[LinkDoc(k)], req.change), !.at = "patching"]
    <3>1. q.at \in Outside
      BY <1>0 DEF RequestTypes
    <3>2. requests'[r] \in {q, NewRequest}
      BY <2>6, Updated DEF LoadForUpdate, Finish
    <3> QED BY <2>0, <3>1, <3>2, NotPublishing
  <2>7. CASE LoadBranding(r)
    <3> DEFINE due == IF IsPublished(req.passport)
                      THEN {k \in req.pending : req.links[k].url = Null} ELSE {}
               q == [req EXCEPT
                  !.base = fallback, !.pending = due,
                  !.at = IF due = {} THEN "answer" ELSE "pinning",
                  !.links = [k \in Keys |-> IF k \in due
                                            THEN Pin(k, req.links[k], fallback)
                                            ELSE req.links[k]]]
               u == [req EXCEPT !.base = Null, !.pending = {}, !.at = "answer"]
    <3>1. requests'[r] \in {q, u}
      BY <2>7, Updated DEF LoadBranding
    <3> HIDE DEF due
    <3>2. q.at \in Outside /\ u.at \in Outside
      BY <1>0 DEF RequestTypes
    <3> QED BY <3>1, <3>2, NotPublishing
  <2> QED BY <1>13, <2>1, <2>2, <2>3, <2>4, <2>5, <2>6, <2>7
<1>14. ASSUME NEW k \in Keys, FindForSave(r, k)
       PROVE  Publishing(requests'[r], txn'[r].view)
  <2>1. requests'[r].at = req.at /\ req.at \in Saving
    BY <1>0, <1>14 DEF FindForSave, Update, RequestTypes
  <2> QED BY <2>1, NotPublishing DEF Saving
<1>15. ASSUME NEW k \in Keys, WriteLink(r, k)
       PROVE  Publishing(requests'[r], txn'[r].view)
  <2> DEFINE Later(at) == [req EXCEPT !.found[k] = Absent, !.sought = @ \ {k},
                                      !.pending = @ \ {k}, !.at = at]
             one == [req EXCEPT !.found[k] = Absent, !.sought = {}]
             done == [one EXCEPT !.at = "branding"]
             told == [one EXCEPT !.at = "answer", !.pending = {}]
  <2>1. /\ req.at \in Saving
        /\ requests'[r] \in {Later("failing"), Later(req.at), done, told, NewRequest}
    <3>1. req.at \in Saving
      BY <1>15 DEF WriteLink
    <3>2. \/ requests'[r] = Without(r, k, NewRequest, "failing")
          \/ requests'[r] = AfterSave(r, k)
      BY <1>15, Updated DEF WriteLink
    <3>3. CASE requests'[r] = Without(r, k, NewRequest, "failing")
      BY <3>1, <3>3 DEF Without
    <3>4. CASE requests'[r] = AfterSave(r, k)
      BY <3>1, <3>4 DEF Without, AfterSave, Saving
    <3> QED BY <3>1, <3>2, <3>3, <3>4
  <2>2. /\ \A at : Later(at).at = at
        /\ done.at = "branding" /\ told.at = "answer" /\ NewRequest.at = "idle"
    BY <1>0 DEF NewRequest, RequestTypes
  <2> HIDE DEF Later, done, told
  <2>3. requests'[r].at \in {"idle", "branding", "answer"} \cup Saving
    BY <2>1, <2>2 DEF Saving
  <2> QED BY <2>3, NotPublishing DEF Saving
<1> QED BY <1>1, <1>2, <1>3, <1>4, <1>5, <1>6, <1>7, <1>8, <1>9, <1>10, <1>11, <1>12,
           <1>13, <1>14, <1>15 DEF HandlerStep, Handle

LEMMA OneHandlerMoves ==
    ASSUME Inv, NEW r \in Requests, HandlerStep(r), NEW u \in Requests \ {r}
    PROVE  requests'[u] = requests[u]
<1>1. requests = [p \in Requests |-> requests[p]]
  BY DEF Inv
<1>2. CASE Arrive(r)
  BY <1>1, <1>2 DEF Arrive, LoadForStatus, LoadForList, ResolvePermalink, LoadForConfigs,
                    LoadForDeleteConfig, Update
<1>3. CASE Failover(r)
  BY <1>1, <1>3 DEF Failover, Retry, Update, Finish
<1>4. CASE Handle(r)
  BY <1>1, <1>4 DEF Handle, Begin, SavePassport, FindPermalinks, LoadBase, DropAll, Commit,
       ListPermalinks, EnsureDefault, CreatePermalink, RecheckPassport, ResolveConfig,
       ResolvePassport, LoadForUpdate, LoadBranding, Answer, ListConfigs, SaveConfig,
       RemoveConfig, PinInTransaction, FindForSave, WriteLink, AfterConfigs, Save, Retry,
       Update, GoTo, Finish
<1> QED BY <1>2, <1>3, <1>4 DEF HandlerStep

LEMMA PublicationStep ==
    ASSUME Inv, PublicationInv, [Next]_vars
    PROVE  PublicationInv'
<1>1. ASSUME NEW r \in Requests, HandlerStep(r) PROVE PublicationInv'
  <2>1. ASSUME NEW u \in Requests
        PROVE  Sees(txn'[u], db') /\ Publishing(requests'[u], txn'[u].view)
    <3>1. Sees(txn'[u], db') /\ (u # r => txn'[u].view = txn[u].view)
      BY <1>1, StepsOfStore, SeesStep
    <3>2. CASE u = r
      BY <1>1, <3>1, <3>2, PublishingStep
    <3>3. CASE u # r
      <4>1. requests'[u] = requests[u] /\ Publishing(requests[u], txn[u].view)
        BY <1>1, <3>3, OneHandlerMoves DEF PublicationInv
      <4> QED BY <3>1, <3>3, <4>1
    <3> QED BY <3>2, <3>3
  <2> QED BY <2>1 DEF PublicationInv
<1>2. CASE Crash
  <2>1. \A u \in Requests : requests'[u] = NewRequest /\ txn'[u] = NoTransaction
    BY <1>2 DEF Crash, AbortAllTransactions
  <2>2. \A view : Publishing(NewRequest, view)
    BY NotPublishing DEF NewRequest
  <2> QED BY <2>1, <2>2 DEF PublicationInv, Sees, NoTransaction
<1>3. CASE UNCHANGED <<db, txn, requests>>
  BY <1>3 DEF PublicationInv
<1> QED BY <1>1, <1>2, <1>3 DEF Next, Waiting, ChangeFallback, vars, HandlerStep

\* A handler in its transaction changes the store by its commit only.
LEMMA OnlyCommits ==
    ASSUME NEW r \in Requests, HandlerStep(r), txn[r].open, db' # db
    PROVE  Commit(r)
<1>1. ~Arrive(r)
  BY DEF Arrive, LoadForStatus, LoadForList, ResolvePermalink, LoadForConfigs,
         LoadForDeleteConfig
<1>2. ~Failover(r)
  BY DEF Failover, Retry, AbortTransaction
<1>3. Handle(r)
  BY <1>1, <1>2 DEF HandlerStep
<1>4. /\ ~SaveConfig(r) /\ ~RemoveConfig(r)
      /\ \A k \in Keys : ~WriteLink(r, k)
  BY DEF SaveConfig, RemoveConfig, WriteLink, WriteDirectly
<1>5. /\ ~SavePassport(r) /\ ~DropAll(r) /\ ~CreatePermalink(r)
      /\ \A k \in Keys : ~PinInTransaction(r, k)
  BY DEF SavePassport, DropAll, CreatePermalink, PinInTransaction, Save, Retry,
         AbortTransaction, WriteInTransaction
<1>6. ~Begin(r) /\ ~EnsureDefault(r) /\ ~LoadBase(r)
  BY DEF Begin, EnsureDefault, LoadBase, StartTransaction, AbortTransaction, WriteInTransaction
<1>7. /\ ~FindPermalinks(r) /\ ~ListPermalinks(r) /\ ~RecheckPassport(r)
      /\ ~ResolveConfig(r) /\ ~ResolvePassport(r) /\ ~LoadForUpdate(r)
      /\ ~LoadBranding(r) /\ ~Answer(r) /\ ~ListConfigs(r)
      /\ \A k \in Keys : ~FindForSave(r, k)
  BY DEF FindPermalinks, ListPermalinks, RecheckPassport, ResolveConfig, ResolvePassport,
         LoadForUpdate, LoadBranding, Answer, ListConfigs, FindForSave
<1> QED BY <1>3, <1>4, <1>5, <1>6, <1>7 DEF Handle

\* A publication commits the pins of all permalinks that it reaches and that
\* nobody changed meanwhile, however many permalinks there are and however many
\* requests, conflicts, second runs and failures overlap.
THEOREM PublicationAlwaysPins == Spec => PublicationPins
<1>1. Init => PublicationInv
  <2> SUFFICES ASSUME Init PROVE PublicationInv
    OBVIOUS
  <2>1. \A view : Publishing(NewRequest, view)
    BY NotPublishing DEF NewRequest
  <2> QED BY <2>1 DEF Init, InitTransactions, NoTransaction, PublicationInv, Sees
<1>2. ASSUME Inv, PublicationInv, [Next]_vars, NEW r \in Requests,
             requests[r].op = "publish", txn[r].open, ~txn[r].open', db' # db,
             NEW k \in Reachable(txn[r].view), LinkDoc(k) \notin txn[r].missed
      PROVE  Pinned(k)'
  <2>1. CommitTransaction(r) /\ requests[r].at = "commit"
    <3>1. PICK u \in Requests : HandlerStep(u)
      BY <1>2 DEF Next, Waiting, ChangeFallback, Crash, AbortAllTransactions, vars, HandlerStep
    <3>2. u = r
      BY <1>2, <3>1, StepsOfStore, SeesStep
    <3> QED BY <1>2, <3>1, <3>2, OnlyCommits DEF Commit, At
  <2>2. HasPin(txn[r].view[LinkDoc(k)])
    BY <1>2, <2>1 DEF PublicationInv, Publishing
  <2>3. k \in Keys /\ LinkDoc(k) \in Documents
    BY Names DEF Reachable, Configured
  <2>4. db'[LinkDoc(k)] = txn[r].view[LinkDoc(k)]
    BY <1>2, <2>1, <2>3 DEF CommitTransaction, PublicationInv, Sees
  <2> QED BY <2>2, <2>4 DEF Pinned, Link, HasPin
<1>3. Inv /\ PublicationInv /\ [Next]_vars =>
        [ \A r \in Requests :
            requests[r].op = "publish" /\ txn[r].open /\ ~txn[r].open' /\ db' # db
              => \A k \in Reachable(txn[r].view) :
                   LinkDoc(k) \notin txn[r].missed => Pinned(k)' ]_vars
  BY <1>2
<1>4. Inv /\ PublicationInv /\ [Next]_vars => Inv' /\ PublicationInv'
  BY NextStep, PublicationStep
<1> QED BY <1>1, <1>3, <1>4, InitOK, PTL DEF Spec, PublicationPins

-----------------------------------------------------------------------------
(* Requests that do not overlap.  With one handler slot, the store is what *)
(* the handler has read of it, but for its own transaction's writes; the   *)
(* copies that it saves are then not stale, and the four properties that   *)
(* overlapping requests break hold.                                        *)

\* Published from a draft.
FromDraft(passport) == IsPublished(passport) /\ passport.previous = "Draft"

\* Permalink k is reached and can still change.
Loose(store, k) ==
    store[ConfigDoc(k)] # Absent /\ store[LinkDoc(k)] # Absent /\ ~HasPin(store[LinkDoc(k)])

\* The slug in a pin of k leads to the permalink.
Leads(k, link) == link.url[2] \in {k, link.slug}

Leading(store) == \A k \in Keys : HasPin(store[LinkDoc(k)]) => Leads(k, store[LinkDoc(k)])

\* Handler q is on its way to pin k in its transaction.
Due(q, k) ==
    \/ q.at \in {"base", "pin"} /\ k \in q.pending
    \/ q.at = "recheck" /\ k = q.key

\* What view, that of the only transaction, shows of the store it was begun in.
ShowsPins(view, store) ==
    \A k \in Keys : HasPin(store[LinkDoc(k)]) /\ view[LinkDoc(k)] # Absent
                      => view[LinkDoc(k)].url = store[LinkDoc(k)].url

LoneTransaction(q, t, store) ==
    /\ \A d \in Documents : d \notin t.written => t.view[d] = store[d]
    /\ Leading(t.view)
    /\ ShowsPins(t.view, store)
    /\ \A k \in Keys : t.view[LinkDoc(k)] = Absent /\ q.at # "commit"
                         => store[LinkDoc(k)] = Absent
    /\ q.at # "find" /\ FromDraft(t.view[PassportDoc])
         => \A k \in Keys : Loose(t.view, k) => Due(q, k)
    /\ q.at \in {"ensure", "create", "recheck"} => q.op = "list"
    /\ q.at = "save" => q.op # "deletePassport"
    /\ q.op = "list" =>
         /\ t.view[PassportDoc] = store[PassportDoc]
         /\ \A k \in Keys : q.links[k] # Absent => k = q.key /\ q.links[k] = t.view[LinkDoc(k)]
         /\ q.at \in {"base", "pin"} => q.pending \subseteq {q.key}
         /\ q.at \in {"ensure", "create"} => \A k \in Keys : q.links[k] = Absent

\* What the only handler q holds of store when no transaction is open: copies
\* as they are stored, or as they are about to be saved.
LoneCopies(q, store) ==
    /\ q.at \in {"idle", "ready", "list"} => \A k \in Keys : q.links[k] = Absent
    /\ q.at \notin Saving =>
         \A k \in Keys : q.links[k] # Absent => q.links[k] = store[LinkDoc(k)]
    /\ q.op \in {"visit", "patch"} => \A k \in Keys : q.links[k] # Absent => k = q.key
    /\ q.op \in {"visit", "patch"} /\ q.at \in {"update", "effective", "seed", "patching", "branding"}
         => q.pending = {q.key}
    /\ q.at = "branding" => \A k \in Keys : q.links[k] # Absent => k \in q.pending
    /\ q.at = "answer" /\ IsPublished(q.passport) /\ q.base # Null
         => \A k \in Keys : q.links[k] # Absent => HasPin(q.links[k])

LoneSaves(q, store) ==
    /\ \A k \in q.pending :
         /\ store[LinkDoc(k)] # Absent /\ ~HasPin(store[LinkDoc(k)])
         /\ k \in q.sought => q.found[k] = store[LinkDoc(k)]
         /\ HasPin(q.links[k]) => Leads(k, q.links[k])
         /\ q.at = "patching" => q.op = "patch" /\ k = q.key /\ ~HasPin(q.links[k])
         /\ q.at # "patching" => HasPin(q.links[k])
    /\ q.at = "pinning" =>
         \A k \in Keys : k \notin q.pending /\ q.links[k] # Absent
           => HasPin(q.links[k]) /\ q.links[k] = store[LinkDoc(k)]

LoneStore(store) ==
    /\ Leading(store)
    /\ FromDraft(store[PassportDoc]) => \A k \in Keys : ~Loose(store, k)

LoneRequest(q, t, store) ==
    /\ q.op \in StatusOperations /\ FromDraft(q.passport) => q.op = "publish"
    /\ t.open => LoneTransaction(q, t, store)
    /\ ~t.open => LoneCopies(q, store)
    /\ q.at \in Saving => LoneSaves(q, store)

LoneInv ==
    /\ LoneStore(db)
    /\ \A r \in Requests : LoneRequest(requests[r], txn[r], db)

\* A step keeps LoneInv and what is pinned.
LoneNext == LoneInv' /\ ShowsPins(db', db)

LEMMA LoneKnown ==
    ASSUME NEW r, Requests = {r}, Inv, LoneInv
    PROVE  /\ r \in Requests
           /\ LoneStore(db) /\ LoneRequest(requests[r], txn[r], db)
BY DEF LoneInv

\* The handler goes on as q; the store is left alone, or keeps its pins.
LEMMA LoneMoved ==
    ASSUME NEW r, Requests = {r}, Inv, LoneInv, NEW q, Update(r, q),
           LoneStore(db'), ShowsPins(db', db), LoneRequest(q, txn'[r], db')
    PROVE  LoneNext
<1>1. requests'[r] = q
  BY DEF Update, Inv
<1> QED BY <1>1 DEF LoneInv, LoneNext

LEMMA LoneKept ==
    ASSUME NEW r, Requests = {r}, Inv, LoneInv, NEW q, Update(r, q), UNCHANGED db,
           LoneRequest(q, txn'[r], db)
    PROVE  LoneNext
<1>1. ShowsPins(db', db) /\ LoneStore(db')
  BY LoneKnown DEF ShowsPins
<1> QED BY <1>1, LoneMoved

LEMMA NewIsLone ==
    ASSUME NEW t, ~t.open, NEW store
    PROVE  LoneRequest(NewRequest, t, store)
BY DEF NewRequest, LoneRequest, LoneCopies, StatusOperations, Saving

LEMMA LoneAborted ==
    ASSUME NEW r, Requests = {r}, Inv, LoneInv, NEW q, Update(r, q), AbortTransaction(r),
           LoneRequest(q, NoTransaction, db)
    PROVE  LoneNext
<1>1. txn'[r] = NoTransaction /\ UNCHANGED db
  BY DEF AbortTransaction, Inv
<1> QED BY <1>1, LoneKept

\* The handler ends.
LEMMA LoneEnded ==
    ASSUME NEW r, Requests = {r}, Inv, LoneInv, Finish(r), UNCHANGED db,
           \/ UNCHANGED txn /\ ~txn[r].open
           \/ AbortTransaction(r)
    PROVE  LoneNext
<1>1. txn'[r] = NoTransaction \/ (txn'[r] = txn[r] /\ ~txn[r].open)
  BY DEF AbortTransaction, Inv
<1>2. ~txn'[r].open
  BY <1>1, NoTransactionOK
<1>3. LoneRequest(NewRequest, txn'[r], db)
  BY <1>2, NewIsLone
<1> QED BY <1>3, LoneKept DEF Finish

LEMMA LoneRetried ==
    ASSUME NEW r, Requests = {r}, Inv, LoneInv, Retry(r), txn[r].open
    PROVE  LoneNext
<1> DEFINE req == requests[r]
           q == [req EXCEPT !.at = "ready", !.key = Null, !.base = Null,
                            !.pending = {}, !.links = NewRequest.links]
<1>0. AbortTransaction(r) /\ r \in Requests /\ UNCHANGED db
  BY DEF Retry, AbortTransaction
<1>1. CASE Finish(r)
  BY <1>0, <1>1, LoneEnded
<1>2. CASE Update(r, q)
  <2>1. req \in RequestTypes /\ req.at \in InCallback
    BY <1>0, Known
  <2>2. /\ q.at = "ready" /\ q.op = req.op /\ q.passport = req.passport
        /\ \A k \in Keys : q.links[k] = Absent
    BY <2>1 DEF RequestTypes, NewRequest
  <2>3. q.op \notin {"visit", "patch"}
    BY <1>0, <2>1, <2>2, Known DEF Stage, StatusOrDelete, StatusOperations
  <2> HIDE DEF q
  <2>4. LoneRequest(q, NoTransaction, db)
    BY <2>2, <2>3, LoneKnown, NoTransactionOK DEF LoneRequest, LoneCopies, Saving
  <2> QED BY <1>0, <1>2, <2>4, LoneAborted
<1> QED BY <1>1, <1>2 DEF Retry

-----------------------------------------------------------------------------
(* Lone: arriving *)

LEMMA LoneArrived ==
    ASSUME NEW r, Requests = {r}, Inv, LoneInv, NEW q, Update(r, q), UNCHANGED <<db, txn>>,
           At(r, "idle"), q.at \notin Saving,
           q.op \in StatusOperations /\ FromDraft(q.passport) => q.op = "publish",
           LoneCopies(q, db)
    PROVE  LoneNext
<1>1. ~txn[r].open
  BY LoneKnown, Known DEF At, InCallback
<1>2. LoneRequest(q, txn'[r], db)
  BY <1>1 DEF LoneRequest
<1> QED BY <1>2, LoneKept

LEMMA LoneLoadForStatus ==
    ASSUME NEW r, Requests = {r}, Inv, LoneInv, NEW op \in StatusOrDelete,
           LoadForStatus(r, op)
    PROVE  LoneNext
<1> DEFINE p == HandleStatusChange(op, db[PassportDoc])
           q == [NewRequest EXCEPT !.op = op, !.at = "ready", !.passport = p]
<1>1. db[PassportDoc] \in Passports \cup {Absent} /\ Admitted(op, db[PassportDoc])
  BY LoneKnown, Known DEF LoadForStatus, StoreOK
<1>2. op \in StatusOperations /\ FromDraft(p) => op = "publish"
  <2>1. db[PassportDoc] \in Passports
    BY <1>1 DEF Admitted
  <2>2. CASE op = "archive"
    BY <1>1, <2>1, <2>2 DEF HandleStatusChange, ArchiveDpp, FromDraft, IsPublished, Passports, Statuses, StatusChanges
  <2>3. CASE op = "restore"
    BY <1>1, <2>1, <2>3
       DEF HandleStatusChange, RestoreDpp, FromDraft, IsPublished, Admitted, MayRestore, Passports, Statuses, StatusChanges
  <2> QED BY <2>2, <2>3 DEF StatusOperations
<1>3. /\ q.op = op /\ q.at = "ready" /\ q.passport = p
      /\ \A k \in Keys : q.links[k] = Absent
  BY DEF NewRequest
<1>4. op \notin {"visit", "patch"}
  BY DEF StatusOrDelete, StatusOperations
<1> HIDE DEF q, p
<1>5. LoneCopies(q, db)
  BY <1>3, <1>4 DEF LoneCopies
<1>6. q.op \in StatusOperations /\ FromDraft(q.passport) => q.op = "publish"
  BY <1>2, <1>3
<1>7. Update(r, q) /\ UNCHANGED <<db, txn>> /\ At(r, "idle")
  BY DEF LoadForStatus, q, p
<1>8. q.at \notin Saving
  BY <1>3 DEF Saving
<1> QED BY <1>5, <1>6, <1>7, <1>8, LoneArrived

LEMMA LoneLoadForList ==
    ASSUME NEW r, Requests = {r}, Inv, LoneInv, NEW member, LoadForList(r, member)
    PROVE  LoneNext
<1> DEFINE q == [NewRequest EXCEPT !.op = "list", !.at = "list",
                    !.member = member, !.passport = db[PassportDoc]]
<1>1. q.op = "list" /\ q.at = "list" /\ \A k \in Keys : q.links[k] = Absent
  BY DEF NewRequest
<1>2. Update(r, q) /\ UNCHANGED <<db, txn>> /\ At(r, "idle")
  BY DEF LoadForList
<1> HIDE DEF q
<1>3. LoneCopies(q, db) /\ q.at \notin Saving /\ q.op \notin StatusOperations
  BY <1>1 DEF LoneCopies, Saving, StatusOperations
<1> QED BY <1>2, <1>3, LoneArrived

LEMMA LoneResolvePermalink ==
    ASSUME NEW r, Requests = {r}, Inv, LoneInv, NEW op \in {"visit", "patch"},
           NEW k \in Keys, NEW member, NEW change, ResolvePermalink(r, op, k, member, change)
    PROVE  LoneNext
<1> DEFINE q == [NewRequest EXCEPT
                   !.op = op, !.at = "config", !.key = k, !.member = member,
                   !.change = change, !.links[k] = db[LinkDoc(k)]]
<1>1. /\ q.op = op /\ q.at = "config" /\ q.key = k
      /\ \A j \in Keys : q.links[j] = IF j = k THEN db[LinkDoc(k)] ELSE Absent
  BY DEF NewRequest
<1>2. Update(r, q) /\ UNCHANGED <<db, txn>> /\ At(r, "idle")
  BY DEF ResolvePermalink
<1> HIDE DEF q
<1>3. LoneCopies(q, db) /\ q.at \notin Saving /\ q.op \notin StatusOperations
  BY <1>1 DEF LoneCopies, Saving, StatusOperations
<1> QED BY <1>2, <1>3, LoneArrived

LEMMA LoneLoadForConfigs ==
    ASSUME NEW r, Requests = {r}, Inv, LoneInv, NEW op \in {"createConfig", "listConfigs"},
           LoadForConfigs(r, op)
    PROVE  LoneNext
<1> DEFINE label == IF op = "createConfig" THEN "seed" ELSE "effective"
           q == [NewRequest EXCEPT !.op = op, !.at = label]
<1>0. label \in {"seed", "effective"}
  OBVIOUS
<1>2. Update(r, q) /\ UNCHANGED <<db, txn>> /\ At(r, "idle")
  BY DEF LoadForConfigs
<1> HIDE DEF label
<1>1. q.op = op /\ q.at = label /\ \A k \in Keys : q.links[k] = Absent
  BY DEF NewRequest
<1> HIDE DEF q
<1>3. LoneCopies(q, db) /\ q.at \notin Saving /\ q.op \notin StatusOperations
  BY <1>0, <1>1 DEF LoneCopies, Saving, StatusOperations
<1> QED BY <1>2, <1>3, LoneArrived

LEMMA LoneLoadForDeleteConfig ==
    ASSUME NEW r, Requests = {r}, Inv, LoneInv, NEW k \in Keys, LoadForDeleteConfig(r, k)
    PROVE  LoneNext
<1> DEFINE q == [NewRequest EXCEPT !.op = "deleteConfig", !.at = "remove", !.key = k]
<1>1. q.op = "deleteConfig" /\ q.at = "remove" /\ \A j \in Keys : q.links[j] = Absent
  BY DEF NewRequest
<1>2. Update(r, q) /\ UNCHANGED <<db, txn>> /\ At(r, "idle")
  BY DEF LoadForDeleteConfig
<1> HIDE DEF q
<1>3. LoneCopies(q, db) /\ q.at \notin Saving /\ q.op \notin StatusOperations
  BY <1>1 DEF LoneCopies, Saving, StatusOperations
<1> QED BY <1>2, <1>3, LoneArrived

-----------------------------------------------------------------------------
(* Lone: in the transaction *)

LEMMA LoneInside ==
    ASSUME NEW r, Requests = {r}, Inv, LoneInv, NEW q, Update(r, q), UNCHANGED <<db, txn>>,
           txn[r].open, q.at \notin Saving,
           q.op = requests[r].op, q.passport = requests[r].passport,
           LoneTransaction(q, txn[r], db)
    PROVE  LoneNext
<1>1. LoneRequest(q, txn'[r], db)
  BY LoneKnown DEF LoneRequest
<1> QED BY <1>1, LoneKept

\* What the handler knows of its open transaction.
LEMMA LoneOpen ==
    ASSUME NEW r, Requests = {r}, Inv, LoneInv, requests[r].at \in InCallback
    PROVE  /\ txn[r].open /\ requests[r] \in RequestTypes
           /\ LoneTransaction(requests[r], txn[r], db)
           /\ requests[r].op \in StatusOrDelete \cup {"list"}
           /\ StoreOK(txn[r].view) /\ StoreOK(db)
BY LoneKnown, Known DEF LoneRequest, Stage, TransactionInv

LEMMA LoneWrote ==
    ASSUME NEW r, Requests = {r}, Inv, LoneInv, NEW update, NEW q,
           requests[r].at \in InCallback, q.at \notin Saving,
           q.op = requests[r].op, q.passport = requests[r].passport,
           LoneTransaction(q, Written(r, update), db),
           WriteInTransaction(r, update), Update(r, q)
    PROVE  LoneNext
<1>1. txn'[r] = Written(r, update) /\ UNCHANGED db
  BY LoneKnown DEF WriteInTransaction, Written, Inv
<1>2. Written(r, update).open
  BY DEF Written
<1> HIDE DEF Written
<1>3. LoneRequest(q, Written(r, update), db)
  BY <1>2, LoneKnown DEF LoneRequest
<1> QED BY <1>1, <1>3, LoneKept

LEMMA LoneSaved ==
    ASSUME NEW r, Requests = {r}, Inv, LoneInv, NEW update, NEW q,
           requests[r].at \in InCallback, q.at \notin Saving,
           q.op = requests[r].op, q.passport = requests[r].passport,
           LoneTransaction(q, Written(r, update), db),
           Save(r, update, q)
    PROVE  LoneNext
<1>1. CASE Retry(r)
  BY <1>1, LoneOpen, LoneRetried
<1>2. CASE WriteInTransaction(r, update) /\ Update(r, q)
  BY <1>2, LoneWrote
<1> QED BY <1>1, <1>2 DEF Save

\* A transaction goes on seeing what the store has, but for what it wrote.
LEMMA LoneWrittenSees ==
    ASSUME NEW r, NEW update, NEW store,
           \A d \in Documents : d \notin txn[r].written => txn[r].view[d] = store[d]
    PROVE  /\ \A d \in Documents : d \notin Written(r, update).written
                => Written(r, update).view[d] = store[d]
           /\ \A d \in Documents : Written(r, update).view[d]
                = IF d \in DOMAIN update THEN update[d] ELSE txn[r].view[d]
BY DEF Written, Overwrite, Differing

LEMMA LoneBegin ==
    ASSUME NEW r, Requests = {r}, Inv, LoneInv, Begin(r)
    PROVE  LoneNext
<1> DEFINE req == requests[r]
           label == CASE req.op = "list"           -> "ensure"
                      [] req.op = "deletePassport" -> "drop"
                      [] OTHER                     -> "save"
           q == [req EXCEPT !.at = label, !.attempts = @ + 1]
           t == [open |-> TRUE, view |-> db, written |-> {}, missed |-> {}]
<1>1. /\ label \in {"ensure", "drop", "save"}
      /\ label = "ensure" => req.op = "list"
      /\ label = "save" => req.op # "deletePassport"
  OBVIOUS
<1> HIDE DEF label
<1>2. req.at = "ready" /\ req \in RequestTypes /\ ~txn[r].open
  BY LoneKnown, Known DEF Begin, At, InCallback
<1>3. /\ q.op = req.op /\ q.at = label /\ q.passport = req.passport /\ q.links = req.links
      /\ \A k \in Keys : q.links[k] = Absent
  BY <1>2, LoneKnown DEF RequestTypes, LoneRequest, LoneCopies
<1> HIDE DEF q
<1>4. LoneTransaction(q, t, db)
  <2>1. LoneStore(db)
    BY LoneKnown
  <2> QED BY <1>1, <1>3, <2>1 DEF LoneTransaction, LoneStore, ShowsPins
<1>5. q.at \notin Saving
  BY <1>1, <1>3 DEF Saving
<1>6. LoneRequest(q, t, db)
  BY <1>3, <1>4, <1>5, LoneKnown DEF LoneRequest
<1>7. Update(r, q) /\ UNCHANGED db
  BY DEF Begin, q, label, StartTransaction
<1>8. txn'[r] = t
  BY LoneKnown DEF Begin, StartTransaction, Inv
<1> QED BY <1>6, <1>7, <1>8, LoneKept

LEMMA LoneSavePassport ==
    ASSUME NEW r, Requests = {r}, Inv, LoneInv, SavePassport(r)
    PROVE  LoneNext
<1> DEFINE req == requests[r]
           label == IF req.op = "publish" THEN "find" ELSE "commit"
           q == [req EXCEPT !.at = label]
           update == One(PassportDoc, req.passport)
           t == txn[r]
           u == Written(r, update)
<1>1. req.at = "save" /\ req.at \in InCallback
  BY DEF SavePassport, At, InCallback
<1>2. req \in RequestTypes /\ LoneTransaction(req, t, db)
  BY <1>1, LoneOpen
<1>3. req.op \in StatusOperations
  BY <1>1, <1>2, LoneOpen, LoneKnown, Known DEF Stage, LoneTransaction, StatusOrDelete
<1>4. q.op = req.op /\ q.at = label /\ q.passport = req.passport
  BY <1>2 DEF RequestTypes
<1>5. DOMAIN update = {PassportDoc} /\ update[PassportDoc] = req.passport
  BY OneOK
<1> HIDE DEF update, q
<1>6. /\ \A d \in Documents : d \notin u.written => u.view[d] = db[d]
      /\ u.view[PassportDoc] = req.passport
      /\ \A k \in Keys : u.view[LinkDoc(k)] = t.view[LinkDoc(k)]
  <2>1. \A d \in Documents : d \notin t.written => t.view[d] = db[d]
    BY <1>2 DEF LoneTransaction
  <2>2. /\ \A d \in Documents : d \notin u.written => u.view[d] = db[d]
        /\ \A d \in Documents : u.view[d] = IF d \in DOMAIN update THEN update[d]
                                                               ELSE t.view[d]
    BY <2>1, LoneWrittenSees
  <2> HIDE DEF u, t
  <2>3. u.view[PassportDoc] = req.passport
    BY <1>5, <2>2 DEF Documents
  <2>4. ASSUME NEW k \in Keys
        PROVE  u.view[LinkDoc(k)] = t.view[LinkDoc(k)]
    BY <1>5, <2>2, Names
  <2> QED BY <2>2, <2>3, <2>4
<1>7. q.at # "find" => ~FromDraft(req.passport)
  BY <1>3, <1>4, LoneKnown DEF LoneRequest
<1>8. label \in {"find", "commit"}
  OBVIOUS
<1>9. q.op # "list"
  BY <1>3, <1>4 DEF StatusOperations
<1> HIDE DEF u, t, label
<1>10. LoneTransaction(q, u, db)
  BY <1>1, <1>2, <1>4, <1>6, <1>7, <1>8, <1>9 DEF LoneTransaction, Leading, ShowsPins
<1>11. q.at \notin Saving
  BY <1>4, <1>8 DEF Saving
<1>12. Save(r, update, q)
  BY DEF SavePassport, update, q, label
<1> QED BY <1>1, <1>4, <1>10, <1>11, <1>12, LoneSaved DEF u

LEMMA LoneFindPermalinks ==
    ASSUME NEW r, Requests = {r}, Inv, LoneInv, FindPermalinks(r)
    PROVE  LoneNext
<1> DEFINE req == requests[r]
           found == Reachable(txn[r].view)
           label == IF found = {} THEN "commit" ELSE "base"
           q == [req EXCEPT !.at = label, !.pending = found]
<1>1. req.at = "find" /\ req.at \in InCallback
  BY DEF FindPermalinks, At, InCallback
<1>2. /\ req \in RequestTypes /\ LoneTransaction(req, txn[r], db) /\ txn[r].open
      /\ req.op # "list"
  BY <1>1, LoneOpen, LoneKnown, Known DEF Stage
<1>3. /\ \A k \in Keys : Loose(txn[r].view, k) => k \in found
      /\ found = {} => label = "commit"
      /\ found # {} => label = "base"
  BY DEF Loose, Reachable, Configured
<1>4. /\ label \in {"commit", "base"}
      /\ q.op = req.op /\ q.at = label /\ q.passport = req.passport
      /\ q.links = req.links /\ q.pending = found
  BY <1>2 DEF RequestTypes
<1>5. Update(r, q) /\ UNCHANGED <<db, txn>>
  BY DEF FindPermalinks
<1> HIDE DEF q, found, label
<1>6. \A k \in Keys : Loose(txn[r].view, k) => Due(q, k)
  BY <1>3, <1>4 DEF Due
<1>7. LoneTransaction(q, txn[r], db)
  BY <1>1, <1>2, <1>4, <1>6 DEF LoneTransaction
<1>8. q.at \notin Saving
  BY <1>4 DEF Saving
<1> QED BY <1>2, <1>4, <1>5, <1>7, <1>8, LoneInside

LEMMA LoneLoadBase ==
    ASSUME NEW r, Requests = {r}, Inv, LoneInv, LoadBase(r)
    PROVE  LoneNext
<1> DEFINE req == requests[r]
           q == [req EXCEPT !.base = fallback, !.at = "pin"]
<1>1. req.at = "base" /\ req.at \in InCallback
  BY DEF LoadBase, At, InCallback
<1>2. req \in RequestTypes /\ LoneTransaction(req, txn[r], db) /\ txn[r].open
  BY <1>1, LoneOpen
<1>3. /\ q.op = req.op /\ q.at = "pin" /\ q.passport = req.passport
      /\ q.links = req.links /\ q.pending = req.pending /\ q.key = req.key
  BY <1>2 DEF RequestTypes
<1> HIDE DEF q
<1>4. CASE Update(r, q) /\ UNCHANGED <<txn, db, faults>>
  <2>1. \A k \in Keys : Due(req, k) => Due(q, k)
    BY <1>1, <1>3 DEF Due
  <2>2. LoneTransaction(q, txn[r], db)
    BY <1>1, <1>2, <1>3, <2>1 DEF LoneTransaction
  <2>3. q.at \notin Saving
    BY <1>3 DEF Saving
  <2> QED BY <1>2, <1>3, <1>4, <2>2, <2>3, LoneInside
<1>5. CASE AbortTransaction(r) /\ Finish(r)
  BY <1>5, LoneEnded DEF AbortTransaction
<1> QED BY <1>4, <1>5 DEF LoadBase, q

LEMMA LonePin ==
    ASSUME NEW r, Requests = {r}, Inv, LoneInv, NEW k \in Keys, PinInTransaction(r, k)
    PROVE  LoneNext
<1> DEFINE req == requests[r]
           t == txn[r]
           link == t.view[LinkDoc(k)]
           pinned == Pin(k, link, req.base)
           label == IF req.pending = {k} THEN "commit" ELSE "pin"
           q == [req EXCEPT !.pending = @ \ {k}, !.links[k] = pinned, !.at = label]
           update == One(LinkDoc(k), pinned)
           u == Written(r, update)
<1>1. /\ req.at = "pin" /\ req.at \in InCallback /\ k \in req.pending
  BY DEF PinInTransaction, At, InCallback
<1>2. /\ req \in RequestTypes /\ LoneTransaction(req, t, db) /\ t.open
      /\ StoreOK(t.view)
  BY <1>1, LoneOpen
<1>3. link \in Links /\ req.base \in Bases /\ link # Absent
  BY <1>1, <1>2, LoneKnown, Known, ValuesAssumption DEF StoreOK, Held
<1>4. /\ pinned # Absent /\ pinned.url # Null /\ (HasPin(link) => pinned = link)
      /\ HasPin(pinned) /\ (~HasPin(link) => Leads(k, pinned))
  <2>1. link = [slug |-> link.slug, base |-> link.base, url |-> link.url]
    BY <1>3 DEF Links
  <2> HIDE DEF link
  <2>2. pinned # Absent /\ (HasPin(link) => pinned = link)
    BY <1>3, PinOK DEF Pin, HasPin
  <2>3. link.url = Null => /\ pinned.url = PublicUrl(k, link, req.base)
                           /\ pinned.slug = link.slug
    BY <1>3, <2>1 DEF Pin, Links
  <2>4. /\ PublicUrl(k, link, req.base)[2] \in {k, link.slug}
        /\ PublicUrl(k, link, req.base) \in Urls
    BY <1>3 DEF PublicUrl, Urls, Links
  <2> HIDE DEF pinned
  <2> QED BY <1>3, <2>2, <2>3, <2>4, ValuesAssumption DEF HasPin, Leads
<1>5. DOMAIN update = {LinkDoc(k)} /\ update[LinkDoc(k)] = pinned
  BY OneOK
<1>6. /\ label \in {"commit", "pin"} /\ (label = "commit" => req.pending = {k})
  OBVIOUS
<1>7. /\ q.op = req.op /\ q.at = label /\ q.passport = req.passport /\ q.key = req.key
      /\ q.pending = req.pending \ {k}
      /\ \A j \in Keys : q.links[j] = IF j = k THEN pinned ELSE req.links[j]
  BY <1>2 DEF RequestTypes
<1>8. Save(r, update, q)
  BY DEF PinInTransaction
<1> HIDE DEF update, q, pinned, label, link
<1>9. /\ \A d \in Documents : d \notin u.written => u.view[d] = db[d]
      /\ u.view[PassportDoc] = t.view[PassportDoc]
      /\ \A j \in Keys : /\ u.view[LinkDoc(j)] = IF j = k THEN pinned ELSE t.view[LinkDoc(j)]
                         /\ u.view[ConfigDoc(j)] = t.view[ConfigDoc(j)]
  BY <1>2, <1>5, LoneWrittenSees, Names DEF LoneTransaction
<1> HIDE DEF u, t
<1>10. Leading(u.view)
  BY <1>2, <1>4, <1>9 DEF Leading, LoneTransaction, link
<1>11. ShowsPins(u.view, db)
  <2>1. HasPin(db[LinkDoc(k)]) => pinned.url = db[LinkDoc(k)].url
    BY <1>2, <1>3, <1>4 DEF LoneTransaction, ShowsPins, HasPin, link
  <2> QED BY <1>2, <1>9, <2>1 DEF LoneTransaction, ShowsPins
<1>12. ASSUME FromDraft(u.view[PassportDoc]), NEW j \in Keys, Loose(u.view, j)
       PROVE  Due(q, j)
  <2>1. j # k /\ Loose(t.view, j)
    BY <1>4, <1>9, <1>12 DEF Loose
  <2>2. Due(req, j)
    BY <1>1, <1>2, <1>9, <1>12, <2>1 DEF LoneTransaction
  <2> QED BY <1>1, <1>6, <1>7, <2>1, <2>2 DEF Due
<1>13. \A j \in Keys : u.view[LinkDoc(j)] = Absent => db[LinkDoc(j)] = Absent
  BY <1>1, <1>2, <1>4, <1>9 DEF LoneTransaction
<1>14. req.op = "list" => k = req.key
  BY <1>1, <1>2 DEF LoneTransaction
<1>15. LoneTransaction(q, u, db)
  <2>1. req.op = "list" =>
          /\ u.view[PassportDoc] = db[PassportDoc]
          /\ \A j \in Keys : q.links[j] # Absent => j = q.key /\ q.links[j] = u.view[LinkDoc(j)]
          /\ q.pending \subseteq {q.key}
    BY <1>1, <1>2, <1>7, <1>9, <1>14 DEF LoneTransaction
  <2> QED BY <1>6, <1>7, <1>9, <1>10, <1>11, <1>12, <1>13, <2>1 DEF LoneTransaction
<1>16. q.at \notin Saving
  BY <1>6, <1>7 DEF Saving
<1> QED BY <1>1, <1>7, <1>8, <1>15, <1>16, LoneSaved DEF u

\* What an update of the passport's documents does to a view.
LEMMA LoneView ==
    ASSUME NEW store, NEW view, NEW update,
           \A d \in Documents : store[d] = IF d \in DOMAIN update THEN update[d] ELSE view[d]
    PROVE  /\ store[PassportDoc]
                = IF PassportDoc \in DOMAIN update THEN update[PassportDoc] ELSE view[PassportDoc]
           /\ \A k \in Keys : store[LinkDoc(k)]
                = IF LinkDoc(k) \in DOMAIN update THEN update[LinkDoc(k)] ELSE view[LinkDoc(k)]
           /\ \A k \in Keys : store[ConfigDoc(k)]
                = IF ConfigDoc(k) \in DOMAIN update THEN update[ConfigDoc(k)]
                                                    ELSE view[ConfigDoc(k)]
<1>1. PassportDoc \in Documents /\ \A k \in Keys : {LinkDoc(k), ConfigDoc(k)} \subseteq Documents
  BY Names DEF Documents
<1> QED BY <1>1

LEMMA LoneDropAll ==
    ASSUME NEW r, Requests = {r}, Inv, LoneInv, DropAll(r)
    PROVE  LoneNext
<1> DEFINE req == requests[r]
           t == txn[r]
           doomed == {PassportDoc} \cup {ConfigDoc(k) : k \in Configured(t.view)}
                       \cup {LinkDoc(k) : k \in Reachable(t.view)}
           update == [d \in doomed |-> Absent]
           q == [req EXCEPT !.at = "commit"]
           u == Written(r, update)
<1>1. req.at = "drop" /\ req.at \in InCallback
  BY DEF DropAll, At, InCallback
<1>2. req \in RequestTypes /\ LoneTransaction(req, t, db) /\ req.op # "list"
  BY <1>1, LoneOpen, LoneKnown, Known DEF Stage
<1>3. q.op = req.op /\ q.at = "commit" /\ q.passport = req.passport
  BY <1>2 DEF RequestTypes
<1>4. PassportDoc \in DOMAIN update /\ \A d \in DOMAIN update : update[d] = Absent
  OBVIOUS
<1>5. Save(r, update, q)
  BY DEF DropAll
<1> HIDE DEF update, q
<1>6. /\ \A d \in Documents : d \notin u.written => u.view[d] = db[d]
      /\ \A d \in Documents : u.view[d] = IF d \in DOMAIN update THEN update[d] ELSE t.view[d]
  BY <1>2, LoneWrittenSees DEF LoneTransaction
<1> HIDE DEF u
<1>7. /\ u.view[PassportDoc] = Absent
      /\ \A k \in Keys : u.view[LinkDoc(k)] \in {Absent, t.view[LinkDoc(k)]}
  <2>1. /\ u.view[PassportDoc] = IF PassportDoc \in DOMAIN update THEN update[PassportDoc]
                                                                 ELSE t.view[PassportDoc]
        /\ \A k \in Keys : u.view[LinkDoc(k)]
             = IF LinkDoc(k) \in DOMAIN update THEN update[LinkDoc(k)] ELSE t.view[LinkDoc(k)]
    BY <1>6, LoneView
  <2> QED BY <1>4, <2>1
<1>8. Leading(u.view) /\ ShowsPins(u.view, db)
  BY <1>2, <1>7 DEF LoneTransaction, Leading, ShowsPins, HasPin
<1>9. LoneTransaction(q, u, db)
  BY <1>2, <1>3, <1>6, <1>7, <1>8 DEF LoneTransaction, FromDraft, IsPublished
<1>10. q.at \notin Saving
  BY <1>3 DEF Saving
<1> QED BY <1>1, <1>3, <1>5, <1>9, <1>10, LoneSaved DEF u

LEMMA LoneEnsureDefault ==
    ASSUME NEW r, Requests = {r}, Inv, LoneInv, EnsureDefault(r)
    PROVE  LoneNext
<1> DEFINE req == requests[r]
           t == txn[r]
           next(k) == [req EXCEPT !.key = k, !.at = "create"]
<1>1. req.at = "ensure" /\ req.at \in InCallback
  BY DEF EnsureDefault, At, InCallback
<1>2. req \in RequestTypes /\ LoneTransaction(req, t, db) /\ t.open /\ req.op = "list"
  BY <1>1, LoneOpen DEF LoneTransaction
<1>3. ASSUME NEW k
      PROVE  /\ next(k).op = req.op /\ next(k).at = "create" /\ next(k).at \notin Saving
             /\ next(k).passport = req.passport /\ next(k).links = req.links
             /\ next(k).key = k
  BY <1>2 DEF RequestTypes, Saving
<1> HIDE DEF next
<1>4. ASSUME NEW k, Update(r, next(k)), UNCHANGED <<db, txn>>
      PROVE  LoneNext
  <2>1. LoneTransaction(next(k), t, db)
    BY <1>1, <1>2, <1>3 DEF LoneTransaction, Due
  <2> QED BY <1>2, <1>3, <1>4, <2>1, LoneInside
<1>5. ASSUME NEW k \in Fresh, Update(r, next(k)),
             WriteInTransaction(r, One(ConfigDoc(k), "present"))
      PROVE  LoneNext
  <2> DEFINE update == One(ConfigDoc(k), "present")
             u == Written(r, update)
  <2>1. k \in Keys /\ t.view[LinkDoc(k)] = Absent
    BY <1>2, LoneKnown DEF Fresh
  <2>2. DOMAIN update = {ConfigDoc(k)}
    BY OneOK
  <2> HIDE DEF update
  <2>3. /\ \A d \in Documents : d \notin u.written => u.view[d] = db[d]
        /\ \A d \in Documents : u.view[d] = IF d \in DOMAIN update THEN update[d] ELSE t.view[d]
    BY <1>2, LoneWrittenSees DEF LoneTransaction
  <2> HIDE DEF u, t
  <2>4. /\ u.view[PassportDoc] = t.view[PassportDoc]
        /\ \A j \in Keys : /\ u.view[LinkDoc(j)] = t.view[LinkDoc(j)]
                           /\ j # k => u.view[ConfigDoc(j)] = t.view[ConfigDoc(j)]
    BY <2>1, <2>2, <2>3, LoneView, Names
  <2>5. \A j \in Keys : Loose(u.view, j) => Loose(t.view, j)
    BY <2>1, <2>4 DEF Loose
  <2>6. Leading(u.view) /\ ShowsPins(u.view, db)
    BY <1>2, <2>4 DEF LoneTransaction, Leading, ShowsPins
  <2>7. LoneTransaction(next(k), u, db)
    BY <1>1, <1>2, <1>3, <2>3, <2>4, <2>5, <2>6 DEF LoneTransaction, Due
  <2> QED BY <1>1, <1>3, <1>5, <2>7, LoneWrote DEF update, u
<1>6. CASE AbortTransaction(r) /\ Finish(r)
  BY <1>6, LoneEnded DEF AbortTransaction
<1> QED BY <1>4, <1>5, <1>6 DEF EnsureDefault, next

LEMMA LoneCreatePermalink ==
    ASSUME NEW r, Requests = {r}, Inv, LoneInv, CreatePermalink(r)
    PROVE  LoneNext
<1> DEFINE req == requests[r]
           t == txn[r]
           k == req.key
           existing == t.view[LinkDoc(k)]
           update == One(LinkDoc(k), NewLink)
           u == Written(r, update)
           p == [req EXCEPT !.links[k] = existing, !.at = "commit"]
           q == [req EXCEPT !.links[k] = NewLink, !.at = "recheck"]
<1>1. req.at = "create" /\ req.at \in InCallback
  BY DEF CreatePermalink, At, InCallback
<1>2. /\ req \in RequestTypes /\ LoneTransaction(req, t, db) /\ t.open /\ req.op = "list"
      /\ k \in Keys /\ \A j \in Keys : req.links[j] = Absent
  BY <1>1, LoneOpen, LoneKnown, Known DEF LoneTransaction, Held
<1>3. \/ existing # Absent /\ Update(r, p) /\ UNCHANGED <<db, txn>>
      \/ existing = Absent /\ Save(r, update, q)
  BY DEF CreatePermalink
<1>4. /\ p.op = req.op /\ p.at = "commit" /\ p.passport = req.passport /\ p.key = k
      /\ \A j \in Keys : p.links[j] = IF j = k THEN existing ELSE req.links[j]
  BY <1>2 DEF RequestTypes
<1>5. /\ q.op = req.op /\ q.at = "recheck" /\ q.passport = req.passport /\ q.key = k
      /\ \A j \in Keys : q.links[j] = IF j = k THEN NewLink ELSE req.links[j]
  BY <1>2 DEF RequestTypes
<1>6. p.at \notin Saving /\ q.at \notin Saving
  BY <1>4, <1>5 DEF Saving
<1> HIDE DEF p, q
<1>7. ASSUME existing # Absent, Update(r, p), UNCHANGED <<db, txn>>
      PROVE  LoneNext
  <2>1. \A j \in Keys : p.links[j] # Absent => j = p.key /\ p.links[j] = t.view[LinkDoc(j)]
    BY <1>2, <1>4
  <2>2. LoneTransaction(p, t, db)
    BY <1>1, <1>2, <1>4, <2>1 DEF LoneTransaction, Due
  <2> QED BY <1>2, <1>4, <1>6, <1>7, <2>2, LoneInside
<1>8. ASSUME existing = Absent, Save(r, update, q)
      PROVE  LoneNext
  <2>1. DOMAIN update = {LinkDoc(k)} /\ update[LinkDoc(k)] = NewLink
    BY OneOK
  <2>2. ~HasPin(NewLink) /\ NewLink # Absent
    BY ValuesAssumption DEF HasPin, NewLink, Links
  <2> HIDE DEF update
  <2>3. /\ \A d \in Documents : d \notin u.written => u.view[d] = db[d]
        /\ \A d \in Documents : u.view[d] = IF d \in DOMAIN update THEN update[d] ELSE t.view[d]
    BY <1>2, LoneWrittenSees DEF LoneTransaction
  <2> HIDE DEF u, t, k
  <2>4. /\ u.view[PassportDoc] = t.view[PassportDoc]
        /\ \A j \in Keys : /\ u.view[LinkDoc(j)] = IF j = k THEN NewLink ELSE t.view[LinkDoc(j)]
                           /\ u.view[ConfigDoc(j)] = t.view[ConfigDoc(j)]
    BY <1>2, <2>1, <2>3, LoneView, Names
  <2>5. db[LinkDoc(k)] = Absent
    BY <1>1, <1>2, <1>8 DEF LoneTransaction
  <2>6. Leading(u.view) /\ ShowsPins(u.view, db)
    BY <1>2, <2>2, <2>4, <2>5 DEF LoneTransaction, Leading, ShowsPins, HasPin
  <2>7. ASSUME FromDraft(u.view[PassportDoc]), NEW j \in Keys, Loose(u.view, j)
        PROVE  Due(q, j)
    <3>1. CASE j = k
      BY <1>5, <3>1 DEF Due
    <3>2. CASE j # k
      <4>1. Loose(t.view, j)
        BY <2>4, <2>7, <3>2 DEF Loose
      <4> QED BY <1>1, <1>2, <2>4, <2>7, <4>1 DEF LoneTransaction, Due
    <3> QED BY <3>1, <3>2
  <2>8. \A j \in Keys : u.view[LinkDoc(j)] = Absent => db[LinkDoc(j)] = Absent
    BY <1>1, <1>2, <2>2, <2>4 DEF LoneTransaction
  <2>9. /\ u.view[PassportDoc] = db[PassportDoc]
        /\ \A j \in Keys : q.links[j] # Absent => j = q.key /\ q.links[j] = u.view[LinkDoc(j)]
    BY <1>2, <1>5, <2>4 DEF LoneTransaction
  <2>10. LoneTransaction(q, u, db)
    BY <1>2, <1>5, <2>3, <2>6, <2>7, <2>8, <2>9 DEF LoneTransaction
  <2> QED BY <1>1, <1>5, <1>6, <1>8, <2>10, LoneSaved DEF u
<1> QED BY <1>3, <1>7, <1>8

LEMMA LoneRecheckPassport ==
    ASSUME NEW r, Requests = {r}, Inv, LoneInv, RecheckPassport(r)
    PROVE  LoneNext
<1> DEFINE req == requests[r]
           t == txn[r]
           p == [req EXCEPT !.at = "base", !.pending = {req.key}]
           q == [req EXCEPT !.at = "commit"]
<1>1. req.at = "recheck" /\ req.at \in InCallback
  BY DEF RecheckPassport, At, InCallback
<1>2. /\ req \in RequestTypes /\ LoneTransaction(req, t, db) /\ t.open /\ req.op = "list"
      /\ t.view[PassportDoc] = db[PassportDoc]
  BY <1>1, LoneOpen DEF LoneTransaction
<1>3. /\ p.op = req.op /\ p.at = "base" /\ p.passport = req.passport /\ p.key = req.key
      /\ p.links = req.links /\ p.pending = {req.key}
  BY <1>2 DEF RequestTypes
<1>4. /\ q.op = req.op /\ q.at = "commit" /\ q.passport = req.passport /\ q.key = req.key
      /\ q.links = req.links
  BY <1>2 DEF RequestTypes
<1>5. p.at \notin Saving /\ q.at \notin Saving
  BY <1>3, <1>4 DEF Saving
<1>6. \/ IsPublished(db[PassportDoc]) /\ Update(r, p)
      \/ ~IsPublished(db[PassportDoc]) /\ Update(r, q)
  BY DEF RecheckPassport, GoTo
<1>7. UNCHANGED <<db, txn>>
  BY DEF RecheckPassport
<1> HIDE DEF p, q
<1>8. CASE IsPublished(db[PassportDoc]) /\ Update(r, p)
  <2>1. \A k \in Keys : Due(req, k) => Due(p, k)
    BY <1>1, <1>3 DEF Due
  <2>2. LoneTransaction(p, t, db)
    BY <1>1, <1>2, <1>3, <2>1 DEF LoneTransaction
  <2> QED BY <1>2, <1>3, <1>5, <1>7, <1>8, <2>2, LoneInside
<1>9. CASE ~IsPublished(db[PassportDoc]) /\ Update(r, q)
  <2>1. LoneTransaction(q, t, db)
    BY <1>1, <1>2, <1>4, <1>9 DEF LoneTransaction, FromDraft
  <2> QED BY <1>2, <1>4, <1>5, <1>7, <1>9, <2>1, LoneInside
<1> QED BY <1>6, <1>8, <1>9

\* What the transaction showed is stored.
LEMMA LoneCommit ==
    ASSUME NEW r, Requests = {r}, Inv, LoneInv, Commit(r)
    PROVE  LoneNext
<1> DEFINE req == requests[r]
           t == txn[r]
           p == [req EXCEPT !.at = "branding", !.pending = {req.key}]
           q == IF req.op = "list" THEN p ELSE NewRequest
<1>1. req.at = "commit" /\ req.at \in InCallback
  BY DEF Commit, At, InCallback
<1>2. /\ req \in RequestTypes /\ LoneTransaction(req, t, db)
      /\ req.op \in StatusOrDelete \cup {"list"}
  BY <1>1, LoneOpen
<1>3. \A d \in Documents : db'[d] = t.view[d]
  BY <1>2 DEF Commit, CommitTransaction, LoneTransaction
<1>4. txn'[r] = NoTransaction
  BY LoneKnown DEF Commit, CommitTransaction, Notify
<1>5. Update(r, q)
  BY DEF Commit, Finish
<1>6. /\ db'[PassportDoc] = t.view[PassportDoc]
      /\ \A k \in Keys : /\ db'[LinkDoc(k)] = t.view[LinkDoc(k)]
                         /\ db'[ConfigDoc(k)] = t.view[ConfigDoc(k)]
  BY <1>3, LoneView, Names DEF Documents
<1>7. LoneStore(db')
  <2>1. \A k \in Keys : Loose(db', k) => Loose(t.view, k)
    BY <1>6 DEF Loose
  <2> QED BY <1>1, <1>2, <1>6, <2>1 DEF LoneStore, LoneTransaction, Leading, Due
<1>8. ShowsPins(db', db)
  BY <1>2, <1>6 DEF LoneTransaction, ShowsPins
<1>9. LoneRequest(q, NoTransaction, db')
  <2>1. CASE req.op = "list"
    <3>1. /\ p.op = "list" /\ p.at = "branding" /\ p.links = req.links
          /\ p.pending = {req.key} /\ p.key = req.key
      BY <1>2, <2>1 DEF RequestTypes
    <3> HIDE DEF p
    <3>2. \A k \in Keys : req.links[k] # Absent => k = req.key /\ req.links[k] = db'[LinkDoc(k)]
      BY <1>2, <1>6, <2>1 DEF LoneTransaction
    <3>3. LoneCopies(p, db') /\ p.op \notin StatusOperations /\ p.at \notin Saving
      BY <3>1, <3>2 DEF LoneCopies, StatusOperations, Saving
    <3> QED BY <2>1, <3>3, NoTransactionOK DEF LoneRequest
  <2>2. CASE req.op # "list"
    BY <2>2, NewIsLone, NoTransactionOK
  <2> QED BY <2>1, <2>2
<1> HIDE DEF q
<1> QED BY <1>4, <1>5, <1>7, <1>8, <1>9, LoneMoved

-----------------------------------------------------------------------------
(* Lone: without a transaction *)

\* What the handler knows while it has no transaction open.
LEMMA LoneClosed ==
    ASSUME NEW r, Requests = {r}, Inv, LoneInv, requests[r].at \notin InCallback
    PROVE  /\ ~txn[r].open /\ requests[r] \in RequestTypes
           /\ LoneCopies(requests[r], db)
           /\ requests[r].at \in Saving => LoneSaves(requests[r], db)
           /\ StoreOK(db) /\ LoneStore(db)
BY LoneKnown, Known DEF LoneRequest

LEMMA LoneOutside ==
    ASSUME NEW r, Requests = {r}, Inv, LoneInv, NEW q, Update(r, q),
           UNCHANGED <<db, txn>>, requests[r].at \notin InCallback,
           q.op \notin StatusOperations, LoneCopies(q, db),
           q.at \in Saving => LoneSaves(q, db)
    PROVE  LoneNext
<1>1. LoneRequest(q, txn'[r], db)
  BY LoneClosed DEF LoneRequest
<1> QED BY <1>1, LoneKept

LEMMA LoneWroteDirectly ==
    ASSUME NEW r, Requests = {r}, Inv, LoneInv, NEW q, NEW update,
           WriteDirectly(r, update), Update(r, q),
           q.op \notin StatusOperations, LoneStore(db'), ShowsPins(db', db),
           LoneCopies(q, db'), q.at \in Saving => LoneSaves(q, db')
    PROVE  LoneNext
<1>1. txn'[r] = txn[r] /\ ~txn[r].open
  BY LoneKnown DEF WriteDirectly, Notify
<1>2. LoneRequest(q, txn'[r], db')
  BY <1>1 DEF LoneRequest
<1> QED BY <1>2, LoneMoved

LEMMA LoneListPermalinks ==
    ASSUME NEW r, Requests = {r}, Inv, LoneInv, ListPermalinks(r)
    PROVE  LoneNext
<1> DEFINE req == requests[r]
           found == Reachable(db)
           p == [req EXCEPT
                   !.at = "branding", !.pending = found,
                   !.links = [k \in Keys |-> IF k \in found THEN db[LinkDoc(k)]
                                                            ELSE Absent]]
           q == [req EXCEPT !.at = "ready"]
<1>1. req.at = "list" /\ req.at \notin InCallback
  BY DEF ListPermalinks, At, InCallback
<1>2. req \in RequestTypes /\ LoneCopies(req, db) /\ req.op = "list" /\ ~txn[r].open
  BY <1>1, LoneClosed, LoneKnown, Known DEF Stage
<1>3. UNCHANGED <<db, txn>> /\ (Update(r, p) \/ Update(r, q) \/ Finish(r))
  BY DEF ListPermalinks, GoTo
<1> HIDE DEF found
<1>4. /\ p.op = "list" /\ p.at = "branding" /\ p.pending = found
      /\ \A k \in Keys : p.links[k] = IF k \in found THEN db[LinkDoc(k)] ELSE Absent
  BY <1>2 DEF RequestTypes
<1>5. q.op = "list" /\ q.at = "ready" /\ q.links = req.links
  BY <1>2 DEF RequestTypes
<1> HIDE DEF p, q
<1>6. CASE Update(r, p)
  <2>1. LoneCopies(p, db) /\ p.op \notin StatusOperations /\ p.at \notin Saving
    BY <1>4 DEF LoneCopies, StatusOperations, Saving
  <2> QED BY <1>1, <1>3, <1>6, <2>1, LoneOutside
<1>7. CASE Update(r, q)
  <2>1. LoneCopies(q, db) /\ q.op \notin StatusOperations /\ q.at \notin Saving
    BY <1>1, <1>2, <1>5 DEF LoneCopies, StatusOperations, Saving
  <2> QED BY <1>1, <1>3, <1>7, <2>1, LoneOutside
<1>8. CASE Finish(r)
  BY <1>2, <1>3, <1>8, LoneEnded
<1> QED BY <1>3, <1>6, <1>7, <1>8

LEMMA LoneResolveConfig ==
    ASSUME NEW r, Requests = {r}, Inv, LoneInv, ResolveConfig(r)
    PROVE  LoneNext
<1> DEFINE req == requests[r]
           q == [req EXCEPT !.at = "passport"]
<1>1. req.at = "config" /\ req.at \notin InCallback
  BY DEF ResolveConfig, At, InCallback
<1>2. /\ req \in RequestTypes /\ LoneCopies(req, db) /\ ~txn[r].open
      /\ req.op \in {"visit", "patch"}
  BY <1>1, LoneClosed, LoneKnown, Known DEF Stage
<1>3. UNCHANGED <<db, txn>> /\ (Update(r, q) \/ Finish(r))
  BY DEF ResolveConfig, GoTo
<1>4. q.op = req.op /\ q.at = "passport" /\ q.links = req.links /\ q.key = req.key
  BY <1>2 DEF RequestTypes
<1> HIDE DEF q
<1>5. CASE Update(r, q)
  <2>1. LoneCopies(q, db) /\ q.op \notin StatusOperations /\ q.at \notin Saving
    BY <1>1, <1>2, <1>4 DEF LoneCopies, StatusOperations, Saving
  <2> QED BY <1>1, <1>3, <1>5, <2>1, LoneOutside
<1>6. CASE Finish(r)
  BY <1>2, <1>3, <1>6, LoneEnded
<1> QED BY <1>3, <1>5, <1>6

LEMMA LoneResolvePassport ==
    ASSUME NEW r, Requests = {r}, Inv, LoneInv, ResolvePassport(r)
    PROVE  LoneNext
<1> DEFINE req == requests[r]
           label == IF req.op = "patch" THEN "update" ELSE "effective"
           q == [req EXCEPT !.passport = db[PassportDoc], !.pending = {req.key},
                            !.at = label]
<1>1. req.at = "passport" /\ req.at \notin InCallback
  BY DEF ResolvePassport, At, InCallback
<1>2. /\ req \in RequestTypes /\ LoneCopies(req, db) /\ ~txn[r].open
      /\ req.op \in {"visit", "patch"}
  BY <1>1, LoneClosed, LoneKnown, Known DEF Stage
<1>3. UNCHANGED <<db, txn>> /\ (Update(r, q) \/ Finish(r))
  BY DEF ResolvePassport
<1>0. label \in {"update", "effective"}
  OBVIOUS
<1> HIDE DEF label
<1>4. /\ q.op = req.op /\ q.at = label /\ q.links = req.links /\ q.key = req.key
      /\ q.pending = {req.key}
  BY <1>2 DEF RequestTypes
<1> HIDE DEF q
<1>5. CASE Update(r, q)
  <2>1. LoneCopies(q, db) /\ q.op \notin StatusOperations /\ q.at \notin Saving
    BY <1>0, <1>1, <1>2, <1>4 DEF LoneCopies, StatusOperations, Saving
  <2> QED BY <1>1, <1>3, <1>5, <2>1, LoneOutside
<1>6. CASE Finish(r)
  BY <1>2, <1>3, <1>6, LoneEnded
<1> QED BY <1>3, <1>5, <1>6

\* The change is made to the permalink as it is stored.
LEMMA LoneLoadForUpdate ==
    ASSUME NEW r, Requests = {r}, Inv, LoneInv, LoadForUpdate(r)
    PROVE  LoneNext
<1> DEFINE req == requests[r]
           k == req.key
           link == db[LinkDoc(k)]
           changed == Changed(link, req.change)
           q == [req EXCEPT !.links[k] = changed, !.at = "patching"]
<1>1. req.at = "update" /\ req.at \notin InCallback
  BY DEF LoadForUpdate, At, InCallback
<1>2. /\ req \in RequestTypes /\ LoneCopies(req, db) /\ ~txn[r].open
      /\ req.op = "patch" /\ k \in Keys /\ req.change \in Changes /\ req.sought = {}
  BY <1>1, LoneClosed, LoneKnown, Known DEF Stage, Held, Saving
<1>3. /\ UNCHANGED <<db, txn>>
      /\ (link # Absent /\ link.url = Null /\ Update(r, q)) \/ Finish(r)
  BY DEF LoadForUpdate
<1>4. CASE link # Absent /\ link.url = Null /\ Update(r, q)
  <2>1. link \in Links
    BY <1>2, <1>4, LoneKnown, Known DEF StoreOK
  <2>2. ~HasPin(changed) /\ ~HasPin(link)
    BY <1>2, <1>4, <2>1, ChangedOK DEF HasPin
  <2> HIDE DEF changed
  <2>3. /\ q.op = "patch" /\ q.at = "patching" /\ q.key = k /\ q.sought = {}
        /\ q.pending = req.pending
        /\ \A j \in Keys : q.links[j] = IF j = k THEN changed ELSE req.links[j]
    BY <1>2 DEF RequestTypes
  <2> HIDE DEF q, k, link
  <2>4. req.pending = {k} /\ \A j \in Keys : req.links[j] # Absent => j = k
    BY <1>1, <1>2 DEF LoneCopies, k
  <2>5. LoneCopies(q, db) /\ q.op \notin StatusOperations
    BY <2>3, <2>4 DEF LoneCopies, Saving, StatusOperations
  <2>6. LoneSaves(q, db)
    BY <1>2, <1>4, <2>2, <2>3, <2>4 DEF LoneSaves, link
  <2> QED BY <1>1, <1>3, <1>4, <2>5, <2>6, LoneOutside
<1>5. CASE Finish(r)
  BY <1>2, <1>3, <1>5, LoneEnded
<1> QED BY <1>3, <1>4, <1>5

\* A pin is made in what is stored, and its slug leads to the permalink.
LEMMA PinLeads ==
    ASSUME NEW k \in Keys, NEW link \in Links, NEW base \in Bases, ~HasPin(link)
    PROVE  HasPin(Pin(k, link, base)) /\ Leads(k, Pin(k, link, base))
<1>1. /\ link.url = Null /\ link.slug \in Slugs \cup {Null} /\ link.base \in Bases \cup {Null}
      /\ link = [slug |-> link.slug, base |-> link.base, url |-> link.url]
  BY ValuesAssumption DEF HasPin, Links
<1>2. Pin(k, link, base) = [slug |-> link.slug, base |-> link.base,
                            url |-> PublicUrl(k, link, base)]
  BY <1>1 DEF Pin
<1>3. /\ PublicUrl(k, link, base)[2] \in {k, link.slug}
      /\ PublicUrl(k, link, base) \in Urls
  BY <1>1 DEF PublicUrl, Urls
<1>4. Pin(k, link, base) # Absent
  BY PinOK
<1> QED BY <1>2, <1>3, <1>4, ValuesAssumption DEF HasPin, Leads

LEMMA LoneLoadBranding ==
    ASSUME NEW r, Requests = {r}, Inv, LoneInv, LoadBranding(r)
    PROVE  LoneNext
<1> DEFINE req == requests[r]
           due == IF IsPublished(req.passport)
                  THEN {k \in req.pending : req.links[k].url = Null} ELSE {}
           label == IF due = {} THEN "answer" ELSE "pinning"
           links == [k \in Keys |-> IF k \in due THEN Pin(k, req.links[k], fallback)
                                                 ELSE req.links[k]]
           p == [req EXCEPT !.base = fallback, !.pending = due, !.at = label,
                            !.links = links]
           q == [req EXCEPT !.base = Null, !.pending = {}, !.at = "answer"]
<1>1. req.at = "branding" /\ req.at \notin InCallback
  BY DEF LoadBranding, At, InCallback
<1>2. /\ req \in RequestTypes /\ LoneCopies(req, db) /\ StoreOK(db)
      /\ req.op \in Shown /\ req.sought = {} /\ fallback \in Bases
      /\ \A k \in req.pending : req.links[k] # Absent
  BY <1>1, LoneClosed, LoneKnown, Known DEF Stage, Held, Saving
<1>3. \A k \in Keys : req.links[k] # Absent => k \in req.pending /\ req.links[k] = db[LinkDoc(k)]
  BY <1>1, <1>2 DEF LoneCopies, Saving
<1>4. UNCHANGED <<db, txn>> /\ (Update(r, p) \/ Update(r, q))
  BY DEF LoadBranding
<1>5. CASE Update(r, p)
  <2>1. /\ due \subseteq req.pending /\ due \subseteq Keys
        /\ due # {} => IsPublished(req.passport)
        /\ \A k \in req.pending : IsPublished(req.passport) /\ k \notin due
             => req.links[k].url # Null
    BY <1>2 DEF RequestTypes
  <2>2. label \in {"answer", "pinning"} /\ (label = "answer" <=> due = {})
    OBVIOUS
  <2>3. \A k \in due : req.links[k] \in Links /\ ~HasPin(req.links[k])
    BY <1>2, <2>1 DEF RequestTypes, HasPin
  <2> HIDE DEF label, due
  <2>4. \A k \in Keys : /\ k \in due => HasPin(links[k]) /\ Leads(k, links[k])
                        /\ k \notin due => links[k] = req.links[k]
    BY <1>2, <2>3, PinLeads
  <2> HIDE DEF links
  <2>5. /\ p.op = req.op /\ p.at = label /\ p.passport = req.passport /\ p.key = req.key
        /\ p.base = fallback /\ p.sought = {} /\ p.pending = due /\ p.links = links
    BY <1>2 DEF RequestTypes
  <2> HIDE DEF p
  <2>6. \A k \in Keys : p.links[k] # Absent /\ k \notin due
          => /\ p.links[k] = db[LinkDoc(k)]
             /\ IsPublished(p.passport) => HasPin(p.links[k])
    BY <1>3, <2>1, <2>4, <2>5 DEF HasPin
  <2>7. \A k \in due : req.links[k] # Absent
    BY <1>2, <2>1
  <2>8. p.op \in {"visit", "patch"} => \A k \in Keys : p.links[k] # Absent => k = p.key
    BY <1>2, <2>4, <2>5, <2>7 DEF LoneCopies
  <2>9. LoneCopies(p, db)
    BY <2>2, <2>5, <2>6, <2>8 DEF LoneCopies, Saving
  <2>10. p.at \in Saving => LoneSaves(p, db)
    <3> SUFFICES ASSUME p.at \in Saving PROVE LoneSaves(p, db)
      OBVIOUS
    <3>1. p.at = "pinning" /\ IsPublished(p.passport)
      BY <2>1, <2>2, <2>5 DEF Saving
    <3>2. \A k \in due : db[LinkDoc(k)] # Absent /\ ~HasPin(db[LinkDoc(k)])
      BY <1>3, <2>1, <2>3, <2>7
    <3>3. \A k \in due : HasPin(p.links[k]) /\ Leads(k, p.links[k])
      BY <2>1, <2>4, <2>5
    <3> QED BY <2>5, <2>6, <3>1, <3>2, <3>3 DEF LoneSaves
  <2>11. p.op \notin StatusOperations
    BY <1>2, <2>5 DEF Shown, StatusOperations
  <2> QED BY <1>1, <1>4, <1>5, <2>9, <2>10, <2>11, LoneOutside
<1>6. CASE Update(r, q)
  <2>1. /\ q.op = req.op /\ q.at = "answer" /\ q.passport = req.passport /\ q.key = req.key
        /\ q.base = Null /\ q.links = req.links
    BY <1>2 DEF RequestTypes
  <2> HIDE DEF q
  <2>2. LoneCopies(q, db) /\ q.op \notin StatusOperations /\ q.at \notin Saving
    BY <1>1, <1>2, <2>1 DEF LoneCopies, Shown, StatusOperations, Saving
  <2> QED BY <1>1, <1>4, <1>6, <2>2, LoneOutside
<1> QED BY <1>4, <1>5, <1>6

LEMMA LoneFindForSave ==
    ASSUME NEW r, Requests = {r}, Inv, LoneInv, NEW k \in Keys, FindForSave(r, k)
    PROVE  LoneNext
<1> DEFINE req == requests[r]
           q == [req EXCEPT !.found[k] = db[LinkDoc(k)], !.sought = @ \cup {k}]
<1>1. req.at \in Saving /\ req.at \notin InCallback /\ k \in req.pending
  BY DEF FindForSave, InCallback, Saving
<1>2. /\ req \in RequestTypes /\ LoneCopies(req, db) /\ LoneSaves(req, db)
      /\ req.op \in Shown
  BY <1>1, LoneClosed, LoneKnown, Known DEF Stage
<1>3. /\ q.op = req.op /\ q.at = req.at /\ q.passport = req.passport /\ q.key = req.key
      /\ q.pending = req.pending /\ q.links = req.links /\ q.base = req.base
      /\ q.sought = req.sought \cup {k}
      /\ \A j \in Keys : q.found[j] = IF j = k THEN db[LinkDoc(k)] ELSE req.found[j]
      /\ q.pending \subseteq Keys
  BY <1>2 DEF RequestTypes
<1>4. UNCHANGED <<db, txn>> /\ Update(r, q)
  BY DEF FindForSave
<1> HIDE DEF q
<1>5. LoneCopies(q, db)
  BY <1>2, <1>3 DEF LoneCopies
<1>6. LoneSaves(q, db)
  BY <1>2, <1>3 DEF LoneSaves
<1>7. q.op \notin StatusOperations
  BY <1>2, <1>3 DEF Shown, StatusOperations
<1> QED BY <1>1, <1>4, <1>5, <1>6, <1>7, LoneOutside

\* A save that found the permalink as it still is stores its copy.
LEMMA MergedFresh ==
    ASSUME NEW current \in Links, NEW target \in Links
    PROVE  Merged(current, target, current) = target
<1> DEFINE m == Merged(current, target, current)
<1>1. \A f \in {"slug", "base", "url"} : m[f] = target[f]
  BY DEF Merged
<1>2. m = [f \in {"slug", "base", "url"} |-> m[f]]
  BY DEF Merged
<1>3. m = [slug |-> m.slug, base |-> m.base, url |-> m.url]
  BY <1>2
<1> HIDE DEF m
<1>4. target = [slug |-> target.slug, base |-> target.base, url |-> target.url]
  BY DEF Links
<1>5. m = target
  BY <1>1, <1>3, <1>4
<1> QED BY <1>5 DEF m

\* What the handler is about to save, and that it is still as it was found.
LEMMA LoneSaving ==
    ASSUME NEW r, Requests = {r}, Inv, LoneInv, NEW k \in Keys,
           requests[r].at \in Saving, k \in requests[r].sought
    PROVE  LET req == requests[r] IN
           /\ req.at \notin InCallback /\ req \in RequestTypes /\ req.op \in Shown
           /\ LoneCopies(req, db) /\ LoneSaves(req, db) /\ LoneStore(db)
           /\ k \in req.pending /\ req.pending \subseteq Keys
           /\ db[LinkDoc(k)] \in Links /\ ~HasPin(db[LinkDoc(k)]) /\ db[LinkDoc(k)] # Absent
           /\ req.found[k] = db[LinkDoc(k)]
           /\ req.links[k] \in Links /\ req.links[k] # Absent
           /\ req.at = "patching" => req.pending = {k} /\ k = req.key /\ req.op = "patch"
           /\ req.at # "patching" => HasPin(req.links[k])
<1> DEFINE req == requests[r]
<1>1. req.at \notin InCallback
  BY DEF InCallback, Saving
<1>2. /\ req \in RequestTypes /\ LoneCopies(req, db) /\ LoneSaves(req, db) /\ LoneStore(db)
      /\ req.op \in Shown /\ req.sought \subseteq req.pending /\ StoreOK(db)
      /\ \A j \in req.pending : req.links[j] # Absent
  BY <1>1, LoneClosed, LoneKnown, Known DEF Stage, Held
<1>3. k \in req.pending /\ req.pending \subseteq Keys
  BY <1>2 DEF RequestTypes
<1>4. /\ db[LinkDoc(k)] # Absent /\ ~HasPin(db[LinkDoc(k)])
      /\ req.found[k] = db[LinkDoc(k)] /\ db[LinkDoc(k)] \in Links
  BY <1>2, <1>3 DEF LoneSaves, StoreOK
<1>5. req.links[k] \in Links /\ req.links[k] # Absent
  BY <1>2, <1>3 DEF RequestTypes
<1>6. /\ req.at = "patching" => req.pending = {k} /\ k = req.key /\ req.op = "patch"
      /\ req.at # "patching" => HasPin(req.links[k])
  BY <1>2, <1>3 DEF LoneSaves
<1> QED BY <1>1, <1>2, <1>3, <1>4, <1>5, <1>6

\* The handler goes on with its other saves.
LEMMA LoneOthers ==
    ASSUME NEW r, Requests = {r}, Inv, LoneInv, NEW k \in Keys,
           requests[r].at \in Saving, k \in requests[r].sought,
           requests[r].pending # {k},
           NEW label \in Saving, label \in {requests[r].at, "failing"},
           NEW store, \A j \in Keys \ {k} : store[LinkDoc(j)] = db[LinkDoc(j)],
           label = "pinning" => store[LinkDoc(k)] = requests[r].links[k]
    PROVE  LET q == [requests[r] EXCEPT !.found[k] = Absent, !.sought = @ \ {k},
                                        !.pending = @ \ {k}, !.at = label]
           IN q.op \notin StatusOperations /\ LoneCopies(q, store) /\ LoneSaves(q, store)
<1> DEFINE req == requests[r]
           q == [req EXCEPT !.found[k] = Absent, !.sought = @ \ {k},
                            !.pending = @ \ {k}, !.at = label]
<1>1. /\ req \in RequestTypes /\ req.op \in Shown /\ req.at # "patching"
      /\ LoneCopies(req, db) /\ LoneSaves(req, db)
      /\ HasPin(req.links[k]) /\ req.pending \subseteq Keys
  BY LoneSaving
<1>2. /\ q.op = req.op /\ q.at = label /\ q.passport = req.passport /\ q.key = req.key
      /\ q.pending = req.pending \ {k} /\ q.sought = req.sought \ {k}
      /\ q.links = req.links
      /\ \A j \in Keys \ {k} : q.found[j] = req.found[j]
  BY <1>1 DEF RequestTypes
<1> HIDE DEF q
<1>3. label # "patching"
  BY <1>1
<1>4. LoneCopies(q, store)
  BY <1>1, <1>2, <1>3 DEF LoneCopies, Saving
<1>5. LoneSaves(q, store)
  BY <1>1, <1>2, <1>3 DEF LoneSaves
<1>6. q.op \notin StatusOperations
  BY <1>1, <1>2 DEF Shown, StatusOperations
<1> QED BY <1>4, <1>5, <1>6 DEF q

\* What is saved is what the handler holds, in place of what it found.
LEMMA LoneLinkWritten ==
    ASSUME NEW r, Requests = {r}, Inv, LoneInv, NEW k \in Keys,
           requests[r].at \in Saving, k \in requests[r].sought,
           WriteDirectly(r, One(LinkDoc(k),
             Merged(requests[r].found[k], requests[r].links[k], db[LinkDoc(k)])))
    PROVE  /\ db'[LinkDoc(k)] = requests[r].links[k]
           /\ \A j \in Keys \ {k} : db'[LinkDoc(j)] = db[LinkDoc(j)]
           /\ LoneStore(db') /\ ShowsPins(db', db)
<1> DEFINE target == requests[r].links[k]
           update == One(LinkDoc(k), Merged(requests[r].found[k], target, db[LinkDoc(k)]))
<1>1. /\ LoneSaves(requests[r], db) /\ LoneStore(db) /\ k \in requests[r].pending
      /\ db[LinkDoc(k)] # Absent /\ ~HasPin(db[LinkDoc(k)])
  BY LoneSaving
<1>2. Merged(requests[r].found[k], target, db[LinkDoc(k)]) = target
  BY LoneSaving, MergedFresh
<1>3. DOMAIN update = {LinkDoc(k)} /\ update[LinkDoc(k)] = target
  BY <1>2, OneOK
<1>4. \A d \in Documents : db'[d] = IF d \in DOMAIN update THEN update[d] ELSE db[d]
  BY DEF WriteDirectly, Overwrite
<1> HIDE DEF update, target
<1>5. /\ db'[PassportDoc] = db[PassportDoc]
      /\ \A j \in Keys : /\ db'[LinkDoc(j)] = IF j = k THEN target ELSE db[LinkDoc(j)]
                         /\ db'[ConfigDoc(j)] = db[ConfigDoc(j)]
  BY <1>3, <1>4, LoneView, Names
<1>6. Leading(db')
  <2>1. HasPin(target) => Leads(k, target)
    BY <1>1 DEF LoneSaves, target
  <2> QED BY <1>1, <1>5, <2>1 DEF LoneStore, Leading
<1>7. ShowsPins(db', db)
  BY <1>1, <1>5 DEF ShowsPins
<1>8. \A j \in Keys : Loose(db', j) => Loose(db, j)
  BY <1>1, <1>5 DEF Loose
<1> QED BY <1>1, <1>5, <1>6, <1>7, <1>8 DEF LoneStore, target

LEMMA LoneWriteLink ==
    ASSUME NEW r, Requests = {r}, Inv, LoneInv, NEW k \in Keys, WriteLink(r, k)
    PROVE  LoneNext
<1> DEFINE req == requests[r]
           go(label) == [req EXCEPT !.found[k] = Absent, !.sought = @ \ {k},
                                    !.pending = @ \ {k}, !.at = label]
           update == One(LinkDoc(k), Merged(req.found[k], req.links[k], db[LinkDoc(k)]))
<1>1. req.at \in Saving /\ k \in req.sought
  BY DEF WriteLink
<1>2. /\ req.at \notin InCallback /\ req \in RequestTypes /\ req.op \in Shown
      /\ LoneCopies(req, db) /\ LoneSaves(req, db)
      /\ k \in req.pending /\ req.links[k] # Absent
      /\ req.at = "patching" => req.pending = {k} /\ k = req.key /\ req.op = "patch"
      /\ req.at # "patching" => HasPin(req.links[k])
  BY <1>1, LoneSaving
<1>3. CASE SaveFails(r, k)
  <2>1. UNCHANGED <<db, txn>> /\ Update(r, Without(r, k, NewRequest, "failing"))
    BY <1>3 DEF WriteLink
  <2>2. CASE req.pending = {k}
    BY <1>2, <2>1, <2>2, LoneClosed, LoneEnded DEF Without, Finish
  <2>3. CASE req.pending # {k}
    <3>1. "failing" \in Saving
      BY DEF Saving
    <3>2. /\ go("failing").op \notin StatusOperations
          /\ LoneCopies(go("failing"), db) /\ LoneSaves(go("failing"), db)
      BY <1>1, <2>3, <3>1, LoneOthers
    <3>3. Update(r, go("failing"))
      BY <2>1, <2>3 DEF Without
    <3> HIDE DEF go
    <3> QED BY <1>2, <2>1, <3>2, <3>3, LoneOutside
  <2> QED BY <2>2, <2>3
<1>4. CASE ~SaveFails(r, k)
  <2>1. WriteDirectly(r, update) /\ Update(r, AfterSave(r, k))
    BY <1>4 DEF WriteLink
  <2>2. /\ db'[LinkDoc(k)] = req.links[k]
        /\ \A j \in Keys \ {k} : db'[LinkDoc(j)] = db[LinkDoc(j)]
        /\ LoneStore(db') /\ ShowsPins(db', db)
    BY <1>1, <2>1, LoneLinkWritten
  <2> HIDE DEF update
  <2>3. CASE req.pending # {k}
    <3> DEFINE label == req.at
    <3>1. /\ go(label).op \notin StatusOperations
          /\ LoneCopies(go(label), db') /\ LoneSaves(go(label), db')
      BY <1>1, <2>2, <2>3, LoneOthers
    <3>2. Update(r, go(label))
      BY <2>1, <2>3 DEF AfterSave, Without
    <3> HIDE DEF go
    <3> QED BY <2>1, <2>2, <3>1, <3>2, LoneWroteDirectly
  <2>4. CASE req.pending = {k}
    <3> DEFINE p == [req EXCEPT !.found[k] = Absent, !.sought = {}]
               b == [p EXCEPT !.at = "branding"]
               a == [p EXCEPT !.at = "answer", !.pending = {}]
    <3>1. /\ p \in RequestTypes /\ p.op = req.op /\ p.passport = req.passport /\ p.key = req.key
          /\ p.links = req.links /\ p.pending = req.pending
      BY <1>2 DEF RequestTypes
    <3> HIDE DEF p
    <3>2. CASE req.at = "patching"
      <4>1. Update(r, b)
        BY <2>1, <2>4, <3>2 DEF AfterSave, Without, p
      <4>2. /\ b.op = "patch" /\ b.at = "branding" /\ b.key = k /\ b.links = req.links
            /\ b.pending = {k}
        BY <1>2, <2>4, <3>1, <3>2 DEF RequestTypes
      <4> HIDE DEF b
      <4>3. \A j \in Keys : b.links[j] # Absent => j = k /\ b.links[j] = db'[LinkDoc(j)]
        BY <1>2, <2>2, <3>2, <4>2 DEF LoneCopies
      <4>4. LoneCopies(b, db') /\ b.op \notin StatusOperations /\ b.at \notin Saving
        BY <4>2, <4>3 DEF LoneCopies, StatusOperations, Saving
      <4> QED BY <2>1, <2>2, <4>1, <4>4, LoneWroteDirectly
    <3>3. CASE req.at = "pinning"
      <4>1. Update(r, a)
        BY <2>1, <2>4, <3>3 DEF AfterSave, Without, p
      <4>2. a.op = req.op /\ a.at = "answer" /\ a.key = req.key /\ a.links = req.links
        BY <3>1 DEF RequestTypes
      <4> HIDE DEF a
      <4>3. \A j \in Keys : a.links[j] # Absent => HasPin(a.links[j]) /\ a.links[j] = db'[LinkDoc(j)]
        BY <1>2, <2>2, <2>4, <3>3, <4>2 DEF LoneSaves
      <4>4. LoneCopies(a, db') /\ a.op \notin StatusOperations /\ a.at \notin Saving
        BY <1>2, <4>2, <4>3 DEF LoneCopies, Shown, StatusOperations, Saving
      <4> QED BY <2>1, <2>2, <4>1, <4>4, LoneWroteDirectly
    <3>4. CASE req.at = "failing"
      <4>1. Update(r, NewRequest)
        BY <2>1, <2>4, <3>4 DEF AfterSave, Without
      <4>2. LoneCopies(NewRequest, db') /\ NewRequest.op \notin StatusOperations
            /\ NewRequest.at \notin Saving
        BY DEF NewRequest, LoneCopies, StatusOperations, Saving
      <4> QED BY <2>1, <2>2, <4>1, <4>2, LoneWroteDirectly
    <3> QED BY <1>1, <3>2, <3>3, <3>4 DEF Saving
  <2> QED BY <2>3, <2>4
<1> QED BY <1>3, <1>4

LEMMA LoneAnswer ==
    ASSUME NEW r, Requests = {r}, Inv, LoneInv, Answer(r)
    PROVE  LoneNext
<1>1. requests[r].at \notin InCallback
  BY DEF Answer, At, InCallback
<1> QED BY <1>1, LoneClosed, LoneEnded DEF Answer

-----------------------------------------------------------------------------
(* Lone: presentation configurations *)

\* A handler on its way to the effective configuration goes on.
LEMMA LoneConfigured ==
    ASSUME NEW r, Requests = {r}, Inv, LoneInv,
           requests[r].at \in {"effective", "seed"}, NEW label \in {"seed", "branding"},
           label = "branding" => requests[r].op = "visit",
           NEW store, \A k \in Keys : store[LinkDoc(k)] = db[LinkDoc(k)]
    PROVE  LET q == [requests[r] EXCEPT !.at = label] IN
           q.op \notin StatusOperations /\ LoneCopies(q, store) /\ q.at \notin Saving
<1> DEFINE req == requests[r]
           q == [req EXCEPT !.at = label]
<1>1. req.at \notin InCallback
  BY DEF InCallback
<1>2. /\ req \in RequestTypes /\ LoneCopies(req, db)
      /\ req.op \in {"visit", "listConfigs", "createConfig"}
  BY <1>1, LoneClosed, LoneKnown, Known DEF Stage
<1>3. /\ q.op = req.op /\ q.at = label /\ q.key = req.key /\ q.links = req.links
      /\ q.pending = req.pending
  BY <1>2 DEF RequestTypes
<1> HIDE DEF q
<1>4. LoneCopies(q, store)
  BY <1>2, <1>3 DEF LoneCopies, Saving
<1>5. q.op \notin StatusOperations /\ q.at \notin Saving
  BY <1>2, <1>3 DEF StatusOperations, Saving
<1> QED BY <1>4, <1>5 DEF q

LEMMA LoneListConfigs ==
    ASSUME NEW r, Requests = {r}, Inv, LoneInv, ListConfigs(r)
    PROVE  LoneNext
<1> DEFINE go(label) == [requests[r] EXCEPT !.at = label]
<1>1. requests[r].at = "effective" /\ requests[r].at \notin InCallback /\ UNCHANGED <<db, txn>>
  BY DEF ListConfigs, At, InCallback
<1>2. \/ \E label \in {"seed", "branding"} :
           Update(r, go(label)) /\ (label = "branding" => requests[r].op = "visit")
      \/ Finish(r)
  BY DEF ListConfigs, AfterConfigs, GoTo
<1>3. ASSUME NEW label \in {"seed", "branding"}, Update(r, go(label)),
             label = "branding" => requests[r].op = "visit"
      PROVE  LoneNext
  <2>1. /\ go(label).op \notin StatusOperations /\ LoneCopies(go(label), db)
        /\ go(label).at \notin Saving
    BY <1>1, <1>3, LoneConfigured
  <2> HIDE DEF go
  <2> QED BY <1>1, <1>3, <2>1, LoneOutside
<1>4. CASE Finish(r)
  BY <1>1, <1>4, LoneClosed, LoneEnded
<1> QED BY <1>2, <1>3, <1>4

\* A configuration comes, whose key is new, or goes.
LEMMA LoneConfigWritten ==
    ASSUME NEW r, Requests = {r}, Inv, LoneInv, NEW k, NEW value,
           WriteDirectly(r, One(ConfigDoc(k), value)),
           value = Absent \/ k \in Fresh
    PROVE  /\ \A j \in Keys : db'[LinkDoc(j)] = db[LinkDoc(j)]
           /\ LoneStore(db') /\ ShowsPins(db', db)
<1> DEFINE update == One(ConfigDoc(k), value)
<1>1. LoneStore(db)
  BY LoneKnown
<1>2. DOMAIN update = {ConfigDoc(k)} /\ update[ConfigDoc(k)] = value
  BY OneOK
<1>3. \A d \in Documents : db'[d] = IF d \in DOMAIN update THEN update[d] ELSE db[d]
  BY DEF WriteDirectly, Overwrite
<1> HIDE DEF update
<1>4. ConfigDoc(k) # PassportDoc /\ \A j \in Keys : ConfigDoc(k) # LinkDoc(j)
  BY DEF ConfigDoc, PassportDoc, LinkDoc
<1>5. /\ db'[PassportDoc] = db[PassportDoc]
      /\ \A j \in Keys : db'[LinkDoc(j)] = db[LinkDoc(j)]
  BY <1>2, <1>3, <1>4, LoneView
<1>6. ASSUME NEW j \in Keys, Loose(db', j) PROVE Loose(db, j)
  <2>1. db'[ConfigDoc(j)] = IF ConfigDoc(j) = ConfigDoc(k) THEN value ELSE db[ConfigDoc(j)]
    BY <1>2, <1>3, LoneView
  <2>2. ConfigDoc(j) = ConfigDoc(k) => j = k
    BY DEF ConfigDoc
  <2>3. k \in Fresh => db[LinkDoc(k)] = Absent
    BY DEF Fresh
  <2> QED BY <1>5, <1>6, <2>1, <2>2, <2>3 DEF Loose
<1>7. Leading(db') /\ ShowsPins(db', db)
  BY <1>1, <1>5 DEF LoneStore, Leading, ShowsPins
<1> QED BY <1>1, <1>5, <1>6, <1>7 DEF LoneStore

LEMMA LoneSaveConfig ==
    ASSUME NEW r, Requests = {r}, Inv, LoneInv, SaveConfig(r)
    PROVE  LoneNext
<1> DEFINE q == [requests[r] EXCEPT !.at = "branding"]
<1>1. requests[r].at = "seed" /\ requests[r].at \notin InCallback
  BY DEF SaveConfig, At, InCallback
<1>2. ASSUME NEW k \in Fresh, WriteDirectly(r, One(ConfigDoc(k), "present")),
             AfterConfigs(r)
      PROVE  LoneNext
  <2>1. /\ \A j \in Keys : db'[LinkDoc(j)] = db[LinkDoc(j)]
        /\ LoneStore(db') /\ ShowsPins(db', db)
    BY <1>2, LoneConfigWritten
  <2>2. CASE requests[r].op = "visit"
    <3>1. q.op \notin StatusOperations /\ LoneCopies(q, db') /\ q.at \notin Saving
      BY <1>1, <2>1, <2>2, LoneConfigured
    <3>2. Update(r, q)
      BY <1>2, <2>2 DEF AfterConfigs, GoTo
    <3> HIDE DEF q
    <3> QED BY <1>2, <2>1, <3>1, <3>2, LoneWroteDirectly
  <2>3. CASE requests[r].op # "visit"
    <3>1. Update(r, NewRequest)
      BY <1>2, <2>3 DEF AfterConfigs, Finish
    <3>2. LoneCopies(NewRequest, db') /\ NewRequest.op \notin StatusOperations
          /\ NewRequest.at \notin Saving
      BY DEF NewRequest, LoneCopies, StatusOperations, Saving
    <3> QED BY <1>2, <2>1, <3>1, <3>2, LoneWroteDirectly
  <2> QED BY <2>2, <2>3
<1>3. CASE Finish(r) /\ UNCHANGED <<db, txn>>
  BY <1>1, <1>3, LoneClosed, LoneEnded
<1> QED BY <1>2, <1>3 DEF SaveConfig

LEMMA LoneRemoveConfig ==
    ASSUME NEW r, Requests = {r}, Inv, LoneInv, RemoveConfig(r)
    PROVE  LoneNext
<1> DEFINE k == requests[r].key
           update == One(ConfigDoc(k), Absent)
<1>1. WriteDirectly(r, update) /\ Update(r, NewRequest)
  BY DEF RemoveConfig, Finish
<1>2. LoneStore(db') /\ ShowsPins(db', db)
  BY <1>1, LoneConfigWritten
<1>3. LoneCopies(NewRequest, db') /\ NewRequest.op \notin StatusOperations
      /\ NewRequest.at \notin Saving
  BY DEF NewRequest, LoneCopies, StatusOperations, Saving
<1> QED BY <1>1, <1>2, <1>3, LoneWroteDirectly

-----------------------------------------------------------------------------
(* Lone: the surroundings *)

LEMMA LoneUnchanged ==
    ASSUME NEW r, Requests = {r}, Inv, LoneInv, UNCHANGED <<db, txn, requests>>
    PROVE  LoneNext
BY DEF LoneInv, LoneNext, ShowsPins

LEMMA LoneCrash ==
    ASSUME NEW r, Requests = {r}, Inv, LoneInv, Crash
    PROVE  LoneNext
<1>1. /\ txn' = [p \in Requests |-> NoTransaction] /\ UNCHANGED db
      /\ requests' = [p \in Requests |-> NewRequest]
  BY DEF Crash, AbortAllTransactions
<1>2. LoneRequest(NewRequest, NoTransaction, db)
  BY NewIsLone, NoTransactionOK
<1>3. txn'[r] = NoTransaction /\ Update(r, NewRequest)
  BY <1>1 DEF Update, Inv
<1> QED BY <1>1, <1>2, <1>3, LoneKept

LEMMA LoneArrive ==
    ASSUME NEW r, Requests = {r}, Inv, LoneInv, Arrive(r)
    PROVE  LoneNext
<1>1. ASSUME NEW op \in StatusOrDelete, LoadForStatus(r, op) PROVE LoneNext
  BY <1>1, LoneLoadForStatus
<1>2. ASSUME NEW member, LoadForList(r, member) PROVE LoneNext
  BY <1>2, LoneLoadForList
<1>3. ASSUME NEW op \in {"visit", "patch"}, NEW k \in Keys, NEW member, NEW change,
             ResolvePermalink(r, op, k, member, change)
      PROVE  LoneNext
  BY <1>3, LoneResolvePermalink
<1>4. ASSUME NEW op \in {"createConfig", "listConfigs"}, LoadForConfigs(r, op)
      PROVE  LoneNext
  BY <1>4, LoneLoadForConfigs
<1>5. ASSUME NEW k \in Keys, LoadForDeleteConfig(r, k) PROVE LoneNext
  BY <1>5, LoneLoadForDeleteConfig
<1> QED BY <1>1, <1>2, <1>3, <1>4, <1>5 DEF Arrive

LEMMA LoneHandle ==
    ASSUME NEW r, Requests = {r}, Inv, LoneInv, Handle(r)
    PROVE  LoneNext
<1>1. CASE Begin(r)            BY <1>1, LoneBegin
<1>2. CASE SavePassport(r)     BY <1>2, LoneSavePassport
<1>3. CASE FindPermalinks(r)   BY <1>3, LoneFindPermalinks
<1>4. CASE LoadBase(r)         BY <1>4, LoneLoadBase
<1>5. CASE DropAll(r)          BY <1>5, LoneDropAll
<1>6. CASE Commit(r)           BY <1>6, LoneCommit
<1>7. CASE ListPermalinks(r)   BY <1>7, LoneListPermalinks
<1>8. CASE EnsureDefault(r)    BY <1>8, LoneEnsureDefault
<1>9. CASE CreatePermalink(r)  BY <1>9, LoneCreatePermalink
<1>10. CASE RecheckPassport(r) BY <1>10, LoneRecheckPassport
<1>11. CASE ResolveConfig(r)   BY <1>11, LoneResolveConfig
<1>12. CASE ResolvePassport(r) BY <1>12, LoneResolvePassport
<1>13. CASE LoadForUpdate(r)   BY <1>13, LoneLoadForUpdate
<1>14. CASE LoadBranding(r)    BY <1>14, LoneLoadBranding
<1>15. CASE Answer(r)          BY <1>15, LoneAnswer
<1>16. CASE ListConfigs(r)     BY <1>16, LoneListConfigs
<1>17. CASE SaveConfig(r)      BY <1>17, LoneSaveConfig
<1>18. CASE RemoveConfig(r)    BY <1>18, LoneRemoveConfig
<1>19. ASSUME NEW k \in Keys, PinInTransaction(r, k) PROVE LoneNext
  BY <1>19, LonePin
<1>20. ASSUME NEW k \in Keys, FindForSave(r, k) PROVE LoneNext
  BY <1>20, LoneFindForSave
<1>21. ASSUME NEW k \in Keys, WriteLink(r, k) PROVE LoneNext
  BY <1>21, LoneWriteLink
<1> QED BY <1>1, <1>2, <1>3, <1>4, <1>5, <1>6, <1>7, <1>8, <1>9, <1>10, <1>11,
           <1>12, <1>13, <1>14, <1>15, <1>16, <1>17, <1>18, <1>19, <1>20, <1>21
        DEF Handle

\* With one handler slot, every step keeps LoneInv and the pins.
LEMMA LoneNextStep ==
    ASSUME NEW r, Requests = {r}, Inv, LoneInv, [Next]_vars
    PROVE  LoneNext
<1>1. ASSUME Arrive(r) PROVE LoneNext
  BY <1>1, LoneArrive
<1>2. ASSUME Handle(r) PROVE LoneNext
  BY <1>2, LoneHandle
<1>3. ASSUME Failover(r) PROVE LoneNext
  BY <1>3, LoneRetried DEF Failover
<1>4. ASSUME NEW base \in Bases, ChangeFallback(base) PROVE LoneNext
  BY <1>4, LoneUnchanged DEF ChangeFallback
<1>5. CASE Crash
  BY <1>5, LoneCrash
<1>6. CASE UNCHANGED vars
  BY <1>6, LoneUnchanged DEF vars
<1> QED BY <1>1, <1>2, <1>3, <1>4, <1>5, <1>6 DEF Next, Waiting

\* At first the passport is a draft and no permalink is pinned.
LEMMA LoneInit == Init => LoneInv
<1> SUFFICES ASSUME Init PROVE LoneInv
  OBVIOUS
<1>1. db[PassportDoc].status = "Draft" /\ \A k \in Keys : ~HasPin(db[LinkDoc(k)])
  <2>1. Truthful(db, released) /\ released = FALSE
    BY InitOK DEF Inv, Init
  <2>2. db[PassportDoc] = [status |-> "Draft", previous |-> "none"]
    BY Names DEF Init, Documents
  <2> QED BY <2>1, <2>2 DEF Truthful
<1>2. LoneStore(db)
  BY <1>1 DEF LoneStore, Leading, FromDraft, IsPublished
<1>3. LoneRequest(NewRequest, NoTransaction, db)
  BY NewIsLone, NoTransactionOK
<1> QED BY <1>2, <1>3 DEF Init, InitTransactions, LoneInv

\* The steps of the handlers, whether or not they are taken in the end.
Steps == Init /\ [][Next]_vars

\* With one handler slot, copies and the transaction's view are the store but for
\* what the handler itself is about to save, in every state.
THEOREM LoneAlways ==
    ASSUME NEW r, Requests = {r}
    PROVE  Steps => [](Inv /\ LoneInv)
<1>1. Inv /\ LoneInv /\ [Next]_vars => (Inv /\ LoneInv)'
  BY NextStep, LoneNextStep DEF LoneNext
<1>2. Init => Inv /\ LoneInv
  BY InitOK, LoneInit
<1> QED BY <1>1, <1>2, PTL DEF Steps

\* With one handler slot, too, every variable keeps its type.
LEMMA LoneTypeCorrect ==
    ASSUME NEW r, Requests = {r}
    PROVE  Steps => []TypeOK
<1>1. Inv => TypeOK
  BY DEF Inv, TypeOK, RequestInv, TransactionInv, Consistent, HandlerInv
<1> QED BY <1>1, LoneAlways, PTL

\* When requests do not overlap, a passport published from a draft has no
\* permalink that can still change, after any number of creations, deletions,
\* failures and crashes.
THEOREM LonePublishedIsPinned ==
    ASSUME NEW r, Requests = {r}
    PROVE  Steps => []PublishedIsPinned
<1>1. Inv /\ LoneInv => PublishedIsPinned
  BY DEF LoneInv, LoneStore, PublishedIsPinned, FromDraft, Loose, Reachable,
         Configured, Pinned, Link, HasPin
<1> QED BY <1>1, LoneAlways, PTL

\* When requests do not overlap, what an answer about a published passport says
\* is the pinned public URL.
THEOREM LoneToldIsPinned ==
    ASSUME NEW r, Requests = {r}
    PROVE  Steps => []ToldIsPinned
<1>1. Inv /\ LoneInv => ToldIsPinned
  <2> SUFFICES ASSUME Inv, LoneInv, NEW k \in Keys, At(r, "answer"),
                      IsPublished(requests[r].passport), requests[r].links[k] # Absent
               PROVE  /\ Pinned(k) => Told(r, k) = Link(k).url
                      /\ requests[r].base # Null => Pinned(k)
    BY DEF ToldIsPinned
  <2>1. requests[r].at = "answer" /\ requests[r].at \notin InCallback \cup Saving
    BY DEF At, InCallback, Saving
  <2>2. LoneCopies(requests[r], db)
    BY <2>1, LoneClosed
  <2>3. requests[r].links[k] = Link(k)
    BY <2>1, <2>2 DEF LoneCopies, Link
  <2>4. requests[r].base # Null => HasPin(Link(k))
    BY <2>1, <2>2, <2>3 DEF LoneCopies
  <2> QED BY <2>3, <2>4 DEF Pinned, HasPin, Told
<1> QED BY <1>1, LoneAlways, PTL

\* When requests do not overlap, the slug in a pinned public URL goes on
\* leading to its permalink.
THEOREM LonePinnedUrlResolves ==
    ASSUME NEW r, Requests = {r}
    PROVE  Steps => []PinnedUrlResolves
<1>1. Inv /\ LoneInv => PinnedUrlResolves
  BY DEF LoneInv, LoneStore, Leading, Leads, PinnedUrlResolves, Pinned, Link, HasPin
<1> QED BY <1>1, LoneAlways, PTL

\* When requests do not overlap, no step of the code changes a pinned URL: only
\* overlapping requests do (the run published_url_lost).
THEOREM LonePinsStay ==
    ASSUME NEW r, Requests = {r}
    PROVE  Steps => PublishedUrlIsImmutable
<1>1. Inv /\ LoneInv /\ [Next]_vars => ShowsPins(db', db)
  BY LoneNextStep DEF LoneNext
<1>2. ShowsPins(db', db) =>
        \A k \in Keys : Pinned(k) /\ Link(k)' # Absent => Link(k)'.url = Link(k).url
  BY DEF ShowsPins, HasPin, Pinned, Link
<1> QED BY <1>1, <1>2, LoneAlways, PTL DEF Steps, PublishedUrlIsImmutable

=============================================================================
