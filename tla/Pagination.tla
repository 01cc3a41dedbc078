----------------------------- MODULE Pagination ------------------------------
(***************************************************************************)
(* How long lists are read in pages while others change them: passports    *)
(* and templates from the newest, activities from the oldest (their        *)
(* download), both by a cursor with the creation time of the last item,    *)
(* and the submodels of an environment by the id of the last one.  At the   *)
(* end, the client's table of such a list: which pages it remembers, how    *)
(* it moves between them, and what it shows when its requests are answered, *)
(* in any order, while others create and delete items.  There an item is    *)
(* the number of its creation.                                              *)
(***************************************************************************)
EXTENDS Naturals, Sequences, SequencesExt, FiniteSets, FiniteSetsExt

CONSTANTS
    Ids,            \* ids of documents, and of submodels, positive numbers
    MaxTime,        \* bound of the clock
    Limit,          \* length of a page
    MaxItems,       \* bound: items of the table, created in all
    InFlight,       \* requests of the table that wait for their answer
    MaxClicks       \* bound: requests of the table in all

PaginationAssumption ==
    /\ Ids \subseteq Nat \ {0} /\ Limit \in Nat \ {0}
    /\ {MaxTime, MaxItems, InFlight, MaxClicks} \subseteq Nat

VARIABLES
    clock,
    created,    \* when each document was created, 0 if not
    stored,     \* those that are committed and match the filter
    walk,       \* a client's way through the pages
    submodels,  \* the ids of the environment's submodels
    tour,       \* a client's way through these
    items,      \* of the table: those the server has
    newest,     \* the last item created
    pages,      \* [cursor, from, itemCount] of each page the table knows
    index,      \* the page it goes to
    current,    \* the page it shows
    shown,      \* its rows
    waiting,    \* requests without an answer yet
    seen,       \* rows shown since the table started over
    since,      \* the newest item at that time
    clicks      \* counter for the bound

reading == <<clock, created, stored, walk, submodels, tour>>
table == <<items, newest, pages, index, current, shown, waiting, seen, since, clicks>>
vars == <<reading, table>>

Directions == {"ascending", "descending"}
Start == 0

TypeOK ==
    /\ clock \in 1..MaxTime /\ created \in [Ids -> 0..MaxTime] /\ stored \subseteq Ids
    /\ walk.direction \in Directions /\ walk.cursor \in 0..MaxTime
    /\ walk.seen \subseteq Ids /\ walk.again \in BOOLEAN /\ walk.done \in BOOLEAN
    /\ submodels \in Seq(Ids) /\ IsInjective(submodels)

-----------------------------------------------------------------------------
(* By creation time *)

Before(d, e, direction) ==
    IF direction = "ascending" THEN created[d] < created[e] ELSE created[d] > created[e]

\* Mutant: the comparison does not turn with the direction.
BeforeCursor(direction, cursor) == {d \in stored : cursor = Start \/ created[d] < cursor}
AfterCursor(direction, cursor) ==
    {d \in stored : \/ cursor = Start
                    \/ direction = "ascending" /\ created[d] > cursor
                    \/ direction = "descending" /\ created[d] < cursor}

\* The pages that a query may return; equal times come in any order.
FindPages(direction, cursor) ==
    LET found == AfterCursor(direction, cursor)
    IN  {page \in SUBSET found :
            /\ Cardinality(page) <= Limit
            /\ Cardinality(page) < Limit => page = found
            /\ \A d \in page, e \in found \ page : ~Before(e, d, direction)}

SetCursor(page, direction, cursor) ==
    IF page = {} THEN cursor
    ELSE created[CHOOSE d \in page : \A e \in page : ~Before(d, e, direction)]

NewWalk(direction) ==
    [direction |-> direction, cursor |-> Start, seen |-> {}, again |-> FALSE, done |-> FALSE,
     before |-> stored, changed |-> FALSE, left |-> FALSE, total |-> Cardinality(stored)]

\* A list starts over at any time; a download is not started twice.
Begin ==
    /\ walk.done /\ walk.before = {}
    /\ \E direction \in Directions : walk' = NewWalk(direction)
    /\ UNCHANGED <<clock, created, stored, submodels, tour>>

\* The download goes on until a page is empty, as does a reader of the list.
ReadOn ==
    /\ ~walk.done
    /\ \E page \in FindPages(walk.direction, walk.cursor) :
        walk' = [walk EXCEPT
            !.cursor = SetCursor(page, walk.direction, @),
            !.seen = @ \cup page,
            !.again = @ \/ page \cap walk.seen # {},
            !.done = page = {}]
    /\ UNCHANGED <<clock, created, stored, submodels, tour>>

Changed == [walk EXCEPT !.changed = TRUE]

Tick ==
    /\ clock < MaxTime /\ clock' = clock + 1
    /\ UNCHANGED <<created, stored, walk, submodels, tour>>

\* A request takes the time first and commits later; two may take the same
\* millisecond.
Create(d) ==
    /\ created[d] = 0
    /\ created' = [created EXCEPT ![d] = clock]
    /\ UNCHANGED <<clock, stored, walk, submodels, tour>>

Commit(d) ==
    /\ created[d] # 0 /\ d \notin stored
    /\ stored' = stored \cup {d} /\ walk' = Changed
    /\ UNCHANGED <<clock, created, submodels, tour>>

\* Deleted, or another status than the filter's: it may come back.
Leave(d) ==
    /\ d \in stored
    /\ stored' = stored \ {d}
    /\ walk' = [Changed EXCEPT !.before = @ \ {d}, !.left = TRUE]
    /\ UNCHANGED <<clock, created, submodels, tour>>

-----------------------------------------------------------------------------
(* By id *)

NoId == 0   \* no id

PositionOf(list, id) == IF id \in ToSet(list) THEN CHOOSE i \in DOMAIN list : list[i] = id ELSE 0

NextPages(list, cursor) ==
    LET start == IF cursor = NoId THEN 0 ELSE PositionOf(list, cursor)
    IN  SubSeq(list, start + 1, IF start + Limit < Len(list) THEN start + Limit ELSE Len(list))

NewTour == [cursor |-> NoId, seen |-> {}, again |-> FALSE, done |-> FALSE,
            before |-> ToSet(submodels), deleted |-> FALSE]

BeginTour ==
    /\ tour.done /\ tour.before = {} /\ tour' = NewTour
    /\ UNCHANGED <<clock, created, stored, walk, submodels>>

\* A client asks for another page as long as the last one was full.
GetSubmodels ==
    /\ ~tour.done
    /\ LET page == NextPages(submodels, tour.cursor) IN
        tour' = [tour EXCEPT
            !.cursor = IF page = <<>> THEN NoId ELSE Last(page),
            !.seen = @ \cup ToSet(page),
            !.again = @ \/ ToSet(page) \cap tour.seen # {},
            !.done = Len(page) < Limit]
    /\ UNCHANGED <<clock, created, stored, walk, submodels>>

AddSubmodel(id) ==
    /\ id \notin ToSet(submodels) /\ id \notin tour.seen
    /\ submodels' = Append(submodels, id)
    /\ UNCHANGED <<clock, created, stored, walk, tour>>

DeleteSubmodel(id) ==
    /\ id \in ToSet(submodels)
    /\ submodels' = SelectSeq(submodels, LAMBDA s : s # id)
    /\ tour' = [tour EXCEPT !.before = @ \ {id}, !.deleted = TRUE]
    /\ UNCHANGED <<clock, created, stored, walk>>

-----------------------------------------------------------------------------
(* The client's table. *)

NoCursor == MaxItems + 1   \* no cursor

Page(cursor, from) == [cursor |-> cursor, from |-> from, itemCount |-> 0]

TableOK ==
    /\ items \subseteq 1..newest /\ newest \in 0..MaxItems
    /\ \A i \in DOMAIN pages : pages[i].cursor \in 1..NoCursor /\ pages[i].itemCount \in 0..Limit
    /\ index \in DOMAIN pages /\ current \in DOMAIN pages
    /\ shown \subseteq 1..newest /\ Cardinality(shown) <= Limit
    /\ Cardinality(waiting) <= InFlight

\* What the server answers to a cursor: the rows and the next cursor.
Rows(cursor) ==
    LET after == {i \in items : i < cursor}
    IN  {i \in after : Cardinality({j \in after : j > i}) < Limit}

Cursor(cursor) == IF Rows(cursor) = {} THEN cursor ELSE Min(Rows(cursor))

\* A request goes out: its kind, its page (0 once the table started over),
\* and the answer that it will get.
Ask(kind, page, cursor) ==
    /\ clicks < MaxClicks /\ clicks' = clicks + 1
    /\ Cardinality(waiting) < InFlight
    /\ waiting' = waiting \cup
        {[kind |-> kind, page |-> page, rows |-> Rows(cursor), cursor |-> Cursor(cursor), nr |-> clicks]}

HasNext == pages[current].itemCount = Limit
HasPrevious == pages[current].cursor # NoCursor

NextPage ==
    LET page == IF index < Len(pages) THEN index + 1 ELSE index IN
    /\ HasNext
    /\ index' = page /\ Ask("next", page, pages[page].cursor)
    /\ UNCHANGED <<items, newest, pages, current, shown, seen, since>>

PreviousPage ==
    LET page == IF index > 1 THEN index - 1 ELSE current IN
    /\ HasPrevious
    /\ index' = IF index > 1 THEN page ELSE index
    /\ Ask("previous", page, pages[page].cursor)
    /\ UNCHANGED <<items, newest, pages, current, shown, seen, since>>

ReloadCurrentPage ==
    /\ Ask("reload", current, pages[current].cursor)
    /\ UNCHANGED <<items, newest, pages, index, current, shown, seen, since>>

\* The requests that wait refer to pages the table has forgotten.
ResetCursor ==
    /\ clicks < MaxClicks /\ clicks' = clicks + 1
    /\ Cardinality(waiting) < InFlight
    /\ waiting' = {[w EXCEPT !.page = 0] : w \in waiting} \cup
        {[kind |-> "next", page |-> 1, rows |-> Rows(NoCursor), cursor |-> Cursor(NoCursor), nr |-> clicks]}
    /\ pages' = <<Page(NoCursor, 0)>> /\ index' = 1 /\ current' = 1 /\ seen' = {} /\ since' = newest
    /\ UNCHANGED <<items, newest, shown>>

AddPage(known, cursor) ==
    IF \E i \in DOMAIN known : known[i].cursor = cursor THEN known
    ELSE Append(known, Page(cursor, Last(known).from + Limit))

Counted(known, w) ==
    IF w.page = 0 THEN known ELSE [known EXCEPT ![w.page].itemCount = Cardinality(w.rows)]

\* Of a forgotten page, the first one counts as the next.
Reloaded(known, w) ==
    IF w.page < Len(known) THEN [Counted(known, w) EXCEPT ![w.page + 1].cursor = w.cursor]
    ELSE Counted(known, w)

ShowRows(w) ==
    /\ shown' = w.rows /\ seen' = seen \cup w.rows
    /\ waiting' = waiting \ {w}
    /\ UNCHANGED <<items, newest, index, since, clicks>>

NextAnswered(w) ==
    /\ w.kind = "next" /\ ShowRows(w)
    /\ pages' = AddPage(Counted(pages, w), w.cursor)
    /\ current' = index

\* The number of its rows is left as it was.
PreviousAnswered(w) ==
    /\ w.kind = "previous" /\ ShowRows(w)
    /\ current' = index /\ UNCHANGED pages

ReloadAnswered(w) ==
    /\ w.kind = "reload" /\ ShowRows(w)
    /\ pages' = Reloaded(pages, w) /\ UNCHANGED current

CreateItem ==
    /\ newest < MaxItems
    /\ newest' = newest + 1 /\ items' = items \cup {newest + 1}
    /\ UNCHANGED <<pages, index, current, shown, waiting, seen, since, clicks>>

DeleteItem(i) ==
    /\ items' = items \ {i}
    /\ UNCHANGED <<newest, pages, index, current, shown, waiting, seen, since, clicks>>

-----------------------------------------------------------------------------
InitReading ==
    /\ clock = 1 /\ created = [d \in Ids |-> 0] /\ stored = {}
    /\ walk = [NewWalk("descending") EXCEPT !.done = TRUE]
    /\ submodels = <<>> /\ tour = [NewTour EXCEPT !.done = TRUE]

NextDocuments ==
    \/ Begin \/ ReadOn \/ Tick
    \/ \E d \in Ids : Create(d) \/ Commit(d) \/ Leave(d)

NextSubmodels ==
    BeginTour \/ GetSubmodels \/ \E id \in Ids : AddSubmodel(id) \/ DeleteSubmodel(id)

\* The table is mounted: its first page is asked for.
InitTable ==
    /\ newest \in 0..MaxItems /\ items = 1..newest
    /\ pages = <<Page(NoCursor, 0)>> /\ index = 1 /\ current = 1 /\ shown = {}
    /\ waiting = {[kind |-> "next", page |-> 1, rows |-> Rows(NoCursor), cursor |-> Cursor(NoCursor), nr |-> 0]}
    /\ seen = {} /\ since = newest /\ clicks = 1

NextTable ==
    \/ NextPage \/ PreviousPage \/ ReloadCurrentPage \/ ResetCursor
    \/ \E w \in waiting : NextAnswered(w) \/ PreviousAnswered(w) \/ ReloadAnswered(w)
    \/ CreateItem \/ \E i \in items : DeleteItem(i)

Init == InitReading /\ InitTable
Documents == Init /\ [][NextDocuments /\ UNCHANGED table]_vars /\ WF_vars(ReadOn /\ UNCHANGED table)
Submodels == Init /\ [][NextSubmodels /\ UNCHANGED table]_vars
Table == Init /\ [][NextTable /\ UNCHANGED reading]_vars

-----------------------------------------------------------------------------
(* Properties *)

\* What the reading passes over: of two documents of one millisecond the
\* second, when a page ends between them.
PassedOver == {d \in Ids \ walk.seen : \E e \in walk.seen : created[e] = created[d]}

\* What was there when the reading began, and still is, has been read at its
\* end, whatever was created, committed late or deleted in between, unless it
\* was passed over.
ReadsEverything == walk.done => walk.before \subseteq walk.seen \cup PassedOver

\* Every document comes once, unless it left the result and came back.
ReadsOnce == ~walk.left => ~walk.again

\* The total counts what was read and what was passed over.
TotalIsRead ==
    walk.done /\ ~walk.changed =>
        Cardinality(walk.seen \cup (PassedOver \cap stored)) = walk.total

\* What a comment says: the total counts what the cursor pages through.
TotalIsPaged == walk.done /\ ~walk.changed => Cardinality(walk.seen) = walk.total

\* Submodels that stay are all read, even when the cursor's own is deleted, and
\* once when none is deleted.
ReadsEverySubmodel == tour.done => tour.before \subseteq tour.seen
ReadsSubmodelsOnce == ~tour.deleted => ~tour.again

Answered == waiting = {}

\* A table that offers no next page has shown every item that is still there
\* and was there when it started over, whatever way it went.
EverythingWasShown ==
    Answered /\ ~HasNext => \A i \in items : i <= since => i \in seen

\* The rows shown begin behind the cursor of the page they are shown for.
RowsAreOfThePage ==
    Answered => \A i \in shown : i < pages[current].cursor

\* What a test says: the table starts over at the first item.
StartsAtTheFirst == pages[1].cursor = NoCursor

\* What a comment says: every empty page shows that it is empty.
EmptyPagesShowZero ==
    Answered /\ shown = {} => pages[current].itemCount = 0

=============================================================================

