---------------------------- MODULE MediaStorage ----------------------------
(***************************************************************************)
(* The media of one organization: a record in the database and an object   *)
(* in the object store, written one after the other, under a cap on the    *)
(* storage used.  A file of a passport's data field is stored under a name *)
(* made of the field and replaces the file there; any other file gets a    *)
(* name of its own.  Sizes are in half hundredths of a megabyte, the cap   *)
(* in hundredths: what is used is rounded to hundredths.                   *)
(***************************************************************************)
EXTENDS Naturals, FiniteSetsExt

CONSTANTS
    Handlers,           \* requests in flight at the same time
    Fields,             \* data fields that carry a file
    Sizes,              \* sizes of uploaded files
    Limit,              \* OPEN_DPP_DEFAULT_MEDIA_STORAGE_CAP; 0 is no cap
    MaxUploads,         \* bound: uploads in all
    MaxCrashes,         \* bound: restarts of the server
    None

\* A file cannot be larger than the largest an upload may carry; the names made
\* of fields are no upload's own.
MediaAssumption ==
    /\ Sizes \subseteq Nat \ {0} /\ Limit \in Nat
    /\ \E largest \in Sizes : \A size \in Sizes : size <= largest
    /\ Fields \cap (1..MaxUploads) = {} /\ None \notin Fields \cup (1..MaxUploads)
    /\ MaxUploads \in Nat /\ MaxCrashes \in Nat

VARIABLES
    records,            \* the media collection
    objects,            \* the content under each name in the object store
    handlers,           \* the handlers' local state
    stray,              \* history: media whose request ended between object and record
    uploads, crashes    \* counters for the bounds

vars == <<records, objects, handlers, stray, uploads, crashes>>

\* An upload is identified by its number, which stands for its content too.
Uploads == 1..MaxUploads
Names == Fields \cup Uploads
ObjectName(media) == IF media.field = None THEN media.id ELSE media.field

Media == [id : Uploads, field : Fields \cup {None}, size : Sizes]

Idle == [at |-> "idle"]
HandlerStates ==
    {Idle} \cup [at : {"replace", "process", "put", "save", "remove", "forget"},
                 media : Media]

TypeOK ==
    /\ records \subseteq Media
    /\ objects \in [Names -> Uploads \cup {None}]
    /\ handlers \in [Handlers -> HandlerStates]
    /\ stray \subseteq Uploads
    /\ uploads \in 0..MaxUploads /\ crashes \in 0..MaxCrashes

Init ==
    /\ records = {} /\ objects = [n \in Names |-> None]
    /\ handlers = [h \in Handlers |-> Idle] /\ stray = {}
    /\ uploads = 0 /\ crashes = 0

Goto(h, at) == handlers' = [handlers EXCEPT ![h].at = at]
Answer(h) == handlers' = [handlers EXCEPT ![h] = Idle]
At(h, at) == handlers[h].at = at

-----------------------------------------------------------------------------
StorageUsage == FoldSet(LAMBDA m, sum : sum + m.size, 0, records)

\* getCurrent, in hundredths.
Used == (StorageUsage + 1) \div 2

Enforce == Limit = 0 \/ Used < Limit

\* The guard compares what is used now; the file is scanned after it.
Upload(h, field, size) ==
    LET media == [id |-> uploads + 1, field |-> field, size |-> size]
    IN  /\ At(h, "idle") /\ uploads < MaxUploads
        /\ Enforce
        /\ uploads' = uploads + 1
        /\ handlers' = [handlers EXCEPT ![h] =
             [at |-> IF field = None THEN "process" ELSE "replace",
              media |-> media]]
        /\ UNCHANGED <<records, objects, stray, crashes>>

ScanFails(h) ==
    /\ At(h, "process") /\ handlers[h].media.field = None
    /\ Answer(h)
    /\ UNCHANGED <<records, objects, stray, uploads, crashes>>

DeleteReplaced(h) ==
    /\ At(h, "replace")
    /\ records' = {m \in records : m.field # handlers[h].media.field}
    /\ Goto(h, "process")
    /\ UNCHANGED <<objects, stray, uploads, crashes>>

\* The type is not recognized, or the image cannot be read.
ProcessFile(h) ==
    /\ At(h, "process")
    /\ Goto(h, "put") \/ Answer(h)
    /\ UNCHANGED <<records, objects, stray, uploads, crashes>>

PutObject(h) ==
    LET media == handlers[h].media
    IN  /\ At(h, "put")
        /\ objects' = [objects EXCEPT ![ObjectName(media)] = media.id]
        /\ Goto(h, "save")
        /\ UNCHANGED <<records, stray, uploads, crashes>>

SaveMedia(h) ==
    /\ At(h, "save")
    /\ records' = records \cup {handlers[h].media}
    /\ Answer(h)
    /\ UNCHANGED <<objects, stray, uploads, crashes>>

\* Between the object of a file with a name of its own and its record.
Between(h) == handlers[h].at \in {"save", "forget"} /\ handlers[h].media.field = None
Astray(hs) == {handlers[h].media.id : h \in {g \in hs : Between(g)}}

\* A write of the database or the object store that is refused ends the request,
\* and what was written before stays.  (One that is applied and then reported as
\* refused looks like one that succeeds with the next one refused.)
CallFails(h) ==
    /\ handlers[h].at \in {"replace", "put", "save", "forget"}
    /\ Answer(h)
    /\ stray' = stray \cup Astray({h})
    /\ UNCHANGED <<records, objects, uploads, crashes>>

Store(h) == ProcessFile(h) \/ PutObject(h) \/ SaveMedia(h)
InField(h) == ~At(h, "idle") /\ handlers[h].media.field # None

UploadFileOfProductPassport(h) ==
    \/ \E f \in Fields, s \in Sizes : Upload(h, f, s)
    \/ DeleteReplaced(h)
    \/ InField(h) /\ Store(h)

UploadMedia(h) ==
    \/ \E s \in Sizes : Upload(h, None, s)
    \/ ~InField(h) /\ Store(h)

-----------------------------------------------------------------------------
DeleteFile(h, media) ==
    /\ At(h, "idle") /\ media \in records
    /\ handlers' = [handlers EXCEPT ![h] = [at |-> "remove", media |-> media]]
    /\ UNCHANGED <<records, objects, stray, uploads, crashes>>

\* An object that is not there counts as removed; a failure is the answer.
RemoveObject(h) ==
    /\ At(h, "remove")
    /\ \/ /\ objects' = [objects EXCEPT ![ObjectName(handlers[h].media)] = None]
          /\ Goto(h, "forget")
       \/ Answer(h) /\ UNCHANGED objects
    /\ UNCHANGED <<records, stray, uploads, crashes>>

RemoveById(h) ==
    /\ At(h, "forget")
    /\ records' = records \ {handlers[h].media}
    /\ Answer(h)
    /\ UNCHANGED <<objects, stray, uploads, crashes>>

Crash ==
    /\ crashes < MaxCrashes /\ crashes' = crashes + 1
    /\ handlers' = [h \in Handlers |-> Idle]
    /\ stray' = stray \cup Astray(Handlers)
    /\ UNCHANGED <<records, objects, uploads>>

Next ==
    \/ \E h \in Handlers :
         \/ UploadFileOfProductPassport(h) \/ UploadMedia(h) \/ ScanFails(h)
         \/ \E m \in records : DeleteFile(h, m)
         \/ RemoveObject(h) \/ RemoveById(h) \/ CallFails(h)
    \/ Crash

Spec == Init /\ [][Next]_vars

-----------------------------------------------------------------------------
\* A record never describes content that was overwritten since: size and tag
\* are those of the object, or the object is being deleted.
RecordMatchesObject ==
    \A m \in records : objects[ObjectName(m)] \in {m.id, None}

\* A data field has at most one file (findOneDppFileOrFail takes the first).
OneFilePerField ==
    \A m, n \in records : m.field = n.field /\ m.field # None => m = n

\* What is stored exceeds the cap by less than the file that was let in last.
StorageBounded ==
    Limit # 0 => StorageUsage < 2 * Limit + Max(Sizes)

\* A file with a name of its own can be downloaded as long as its record is
\* there, and counts as used as long as it is stored: record and object are told
\* apart only by a deletion or an upload in progress, or by one that failed or
\* died between the two.
FreeFilesAgree ==
    \A n \in Uploads \ stray :
        (\E m \in records : m.field = None /\ m.id = n) # (objects[n] # None) =>
          \E h \in Handlers : Between(h) /\ handlers[h].media.id = n

=============================================================================

