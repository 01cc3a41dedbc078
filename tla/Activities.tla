------------------------------ MODULE Activities ------------------------------
(***************************************************************************)
(* The changes that the aggregates of a document report of themselves, one *)
(* operator per class of change, and the tracker that collects them.  A    *)
(* change is reported as a sequence: empty when it is a no-op, which the   *)
(* tracker drops.  Positions, value types and roles are left out.          *)
(***************************************************************************)
EXTENDS Sequences

CONSTANT None           \* no value

\* A change of what is at a path, from an old value to a new one.
Change(type, path, old, new) == [type |-> type, path |-> path, old |-> old, new |-> new]
Always(type, path) == <<Change(type, path, None, None)>>
UnlessNoop(type, path, old, new) == IF old = new THEN <<>> ELSE <<Change(type, path, old, new)>>

-----------------------------------------------------------------------------
(* Changes of the elements of a submodel *)

PropertyValueChanged(path, old, new) == UnlessNoop("PropertyValueChanged", path, old, new)
FileValueChanged(path, old, new) == UnlessNoop("FileValueChanged", path, old, new)
ReferenceElementValueChanged(path, old, new) ==
    UnlessNoop("ReferenceElementValueChanged", path, old, new)
DisplayNameChanged(path, old, new) == UnlessNoop("DisplayNameChanged", path, old, new)
SubmodelElementAdded(path) == Always("SubmodelElementAdded", path)
SubmodelElementDeleted(path) == Always("SubmodelElementDeleted", path)

-----------------------------------------------------------------------------
(* Changes of a table: the path is that of the cell in the header row *)

ColumnAdded(path) == Always("ColumnAdded", path)
ColumnDeleted(path) == Always("ColumnDeleted", path)
ColumnAddedToGroup(path) == Always("ColumnAddedToGroup", path)
ColumnDeletedFromGroup(path) == Always("ColumnDeletedFromGroup", path)
RowAdded(path) == Always("RowAdded", path)
RowDeleted(path) == Always("RowDeleted", path)

-----------------------------------------------------------------------------
(* Changes of the shell, of the environment and of the document *)

PolicyAdded(path) == Always("PolicyAdded", path)
PolicyDeleted(path) == Always("PolicyDeleted", path)
PolicyModified(path, old, new) == UnlessNoop("PolicyModified", path, old, new)
DefaultThumbnailsModified(old, new) == UnlessNoop("DefaultThumbnailsModified", None, old, new)
SubmodelReferenceAdded(id) == Always("SubmodelReferenceAdded", id)
SubmodelReferenceDeleted(id) == Always("SubmodelReferenceDeleted", id)
AddedSubmodelToEnv(path) == Always("AddedSubmodelToEnv", path)
DeletedSubmodelFromEnv(path) == Always("DeletedSubmodelFromEnv", path)
SubmodelAdded(path) == Always("SubmodelAdded", path)
SubmodelDeleted(path) == Always("SubmodelDeleted", path)
DigitalProductDocumentStatusChanged(old, new) ==
    UnlessNoop("DigitalProductDocumentStatusChanged", None, old, new)

-----------------------------------------------------------------------------
(* The tracker of an aggregate *)

Tracker == [on |-> FALSE, changes |-> <<>>]
StartTracking(tracker) == [tracker EXCEPT !.on = TRUE]
\* Mutant: a change replaces the ones before it.
TrackLast(tracker, changes) ==
    IF tracker.on THEN [tracker EXCEPT !.changes = changes] ELSE tracker
Track(tracker, changes) ==
    IF tracker.on THEN [tracker EXCEPT !.changes = @ \o changes] ELSE tracker

-----------------------------------------------------------------------------
(***************************************************************************)
(* The activities that the history of a document is made of, one operator  *)
(* per class of activity.  Creating one stops the trackers of the          *)
(* aggregates that it is about and takes what they collected; "told" has   *)
(* their trackers.  What an aggregate reports afterwards is in no activity. *)
(***************************************************************************)

Activity(type, header, changes) == [type |-> type, header |-> header, changes |-> changes]

\* The header: who made the request and which request it was.
createActivityHeader(user, correlationId) == [userId |-> user, correlationId |-> correlationId]

\* An activity of no-ops only is not stored.
isNoop(activity) == activity.changes = <<>>

-----------------------------------------------------------------------------
(* What an activity takes from the trackers *)

FromSubmodel(told) == told.submodel.changes
FromShell(told) == told.aas.changes
FromBoth(told) == FromSubmodel(told) \o FromShell(told)
FromAll(told) == FromBoth(told) \o told.environment.changes

-----------------------------------------------------------------------------
(* Elements and submodels *)

SubmodelModifiedActivity(header, told) ==
    Activity("SubmodelModified", header, FromSubmodel(told))
SubmodelValueModifiedActivity(header, told) ==
    Activity("SubmodelValueModified", header, FromSubmodel(told))
SubmodelElementAddedActivity(header, told) ==
    Activity("SubmodelElementAdded", header, FromSubmodel(told))
SubmodelElementModifiedActivity(header, told) ==
    Activity("SubmodelElementModified", header, FromSubmodel(told))
SubmodelElementValueModifiedActivity(header, told) ==
    Activity("SubmodelElementValueModified", header, FromSubmodel(told))
SubmodelElementDeletedActivity(header, told) ==
    Activity("SubmodelElementDeleted", header, FromBoth(told))
SubmodelAddedActivity(header, told, path) ==
    Activity("SubmodelAdded", header, FromAll(told) \o SubmodelAdded(path))
SubmodelDeletedActivity(header, told, path) ==
    Activity("SubmodelDeleted", header, FromAll(told) \o SubmodelDeleted(path))

-----------------------------------------------------------------------------
(* Tables *)

ColumnAddedActivity(header, told) == Activity("ColumnAdded", header, FromSubmodel(told))
ColumnModifiedActivity(header, told) == Activity("ColumnModified", header, FromSubmodel(told))
ColumnDeletedActivity(header, told) == Activity("ColumnDeleted", header, FromBoth(told))
ColumnAddedToGroupActivity(header, told) ==
    Activity("ColumnAddedToGroup", header, FromSubmodel(told))
ColumnModifiedInGroupActivity(header, told) ==
    Activity("ColumnModifiedInGroup", header, FromSubmodel(told))
ColumnDeletedFromGroupActivity(header, told) ==
    Activity("ColumnDeletedFromGroup", header, FromBoth(told))
ColumnMovedToGroupActivity(header, told) ==
    Activity("ColumnMovedToGroup", header, FromSubmodel(told))
ColumnGroupCreatedActivity(header, told) ==
    Activity("ColumnGroupCreated", header, FromSubmodel(told))
RowAddedActivity(header, told) == Activity("RowAdded", header, FromSubmodel(told))
RowDeletedActivity(header, told) == Activity("RowDeleted", header, FromBoth(told))

-----------------------------------------------------------------------------
(* Shell, policies and status *)

AssetAdministrationShellModifiedActivity(header, told) ==
    Activity("AssetAdministrationShellModified", header, FromShell(told))
PolicyDeletedActivity(header, told) == Activity("PolicyDeleted", header, FromShell(told))
DigitalProductDocumentStatusChangedActivity(header, changes) ==
    Activity("DigitalProductDocumentStatusChanged", header, changes)

=============================================================================

