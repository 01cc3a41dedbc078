---------------------------- MODULE StatusMachine ----------------------------
(***************************************************************************)
(* The status machine of passports and templates.  An item is a record     *)
(* with its status and the status before it, among other fields.           *)
(***************************************************************************)
Statuses == {"Draft", "Published", "Archived"}

StatusOperations == {"publish", "archive", "restore"}

\* previous and current status; a new document is a draft without a previous.
StatusChanges ==
    {<<"none", "Draft">>, <<"Archived", "Draft">>, <<"Draft", "Published">>,
     <<"Archived", "Published">>, <<"Draft", "Archived">>,
     <<"Published", "Archived">>}

PublishDpp(item) == [item EXCEPT !.status = "Published", !.previous = item.status]
ArchiveDpp(item) == [item EXCEPT !.status = "Archived", !.previous = item.status]
\* Mutants: restore forgets the previous status, or returns to a draft.
RestoreKeepingPrevious(item) == [item EXCEPT !.status = item.previous]
RestoreAsDraft(item) == [item EXCEPT !.status = "Draft", !.previous = item.status]
RestoreDpp(item) == [item EXCEPT !.status = item.previous, !.previous = item.status]

MayPublish(item) == item.status = "Draft"
MayArchive(item) == item.status # "Archived"
MayRestore(item) ==
    /\ item.status = "Archived"
    /\ item.previous \notin {"none", "Archived"}

HandleStatusChange(op, item) ==
    CASE op = "publish" -> PublishDpp(item)
      [] op = "archive" -> ArchiveDpp(item)
      [] op = "restore" -> RestoreDpp(item)
      [] OTHER          -> item

=============================================================================
