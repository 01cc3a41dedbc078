-------------------------- MODULE MongoTransactions --------------------------
(***************************************************************************)
(* The MongoDB replica set as the program uses it: a store of documents    *)
(* with snapshot transactions.  The program opens a session, hands a       *)
(* callback to session.withTransaction, and saves or deletes documents in  *)
(* it.  This module is external to the repository; it keeps the three      *)
(* rules the program's handlers depend on:                                 *)
(*   - a transaction reads the store as it was when the transaction began; *)
(*   - the first writer of a document wins: writing a document that        *)
(*     changed since the snapshot, or that another open transaction has    *)
(*     written, is a write conflict;                                       *)
(*   - a write outside a transaction waits for the transactions that have  *)
(*     written the document, and is seen as a change by the open ones.     *)
(***************************************************************************)
CONSTANTS
    Documents,      \* identities of the documents
    Sessions,       \* identities of the client sessions
    Absent          \* the value of a document that does not exist

VARIABLES
    db,             \* the committed documents: [Documents -> value or Absent]
    txn             \* the transaction each session has open, if any

mongo == <<db, txn>>

NoTransaction ==
    [open    |-> FALSE,
     view    |-> [d \in Documents |-> Absent],
     written |-> {},
     missed  |-> {}]

InitTransactions == txn = [t \in Sessions |-> NoTransaction]

(***************************************************************************)
(* A transaction record: view is the snapshot with the transaction's own   *)
(* writes applied, written the documents it changed, missed those that     *)
(* others committed after the snapshot was taken.                          *)
(***************************************************************************)
StartTransaction(t) ==
    /\ ~txn[t].open
    /\ txn' = [txn EXCEPT ![t] =
                 [open |-> TRUE, view |-> db, written |-> {}, missed |-> {}]]
    /\ UNCHANGED db

\* The documents an update (a function on some of the documents) would change.
Differing(store, update) == {d \in DOMAIN update : update[d] # store[d]}

Overwrite(store, update) ==
    [d \in Documents |-> IF d \in DOMAIN update THEN update[d] ELSE store[d]]

WriteConflict(t, update) ==
    \E d \in Differing(txn[t].view, update) :
        \/ d \in txn[t].missed
        \/ \E u \in Sessions \ {t} : d \in txn[u].written

WriteInTransaction(t, update) ==
    /\ txn[t].open
    /\ ~WriteConflict(t, update)
    /\ txn' = [txn EXCEPT ![t] =
                 [open    |-> TRUE,
                  view    |-> Overwrite(txn[t].view, update),
                  written |-> txn[t].written
                                 \cup Differing(txn[t].view, update),
                  missed  |-> txn[t].missed]]
    /\ UNCHANGED db

\* Every open transaction other than t misses the documents in changed.
Notify(t, changed, own) ==
    [u \in Sessions |->
       IF u = t THEN own
       ELSE IF txn[u].open
            THEN [txn[u] EXCEPT !.missed = @ \cup changed]
            ELSE txn[u]]

CommitTransaction(t) ==
    /\ txn[t].open
    /\ db' = [d \in Documents |->
                IF d \in txn[t].written THEN txn[t].view[d] ELSE db[d]]
    /\ txn' = Notify(t, txn[t].written, NoTransaction)

AbortTransaction(t) ==
    /\ txn' = [txn EXCEPT ![t] = NoTransaction]
    /\ UNCHANGED db

AbortAllTransactions ==
    /\ txn' = [t \in Sessions |-> NoTransaction]
    /\ UNCHANGED db

\* A save outside a transaction by a session that has none open.
WriteDirectly(t, update) ==
    /\ ~txn[t].open
    /\ \A u \in Sessions :
           Differing(db, update) \cap txn[u].written = {}
    /\ db' = Overwrite(db, update)
    /\ txn' = Notify(t, Differing(db, update), txn[t])

=============================================================================
