------------------------ MODULE MCPermalinkLifecycle ------------------------
(***************************************************************************)
(* The permalinks of a passport, once with two requests at a time and once *)
(* with one request at a time, which may do more.  A behaviour is of one   *)
(* part; the variables of the other one stay as they are at the start.     *)
(***************************************************************************)
EXTENDS PermalinkLifecycle, TLC

CONSTANTS
    Request,                \* the one request of the second part
    Configurations,         \* its configurations
    ChosenSlugs, ChosenBases

VARIABLES
    part,
    loneDb, loneTxn, loneRequests, loneFallback, loneReleased, loneFaults

loneVars == <<loneDb, loneTxn, loneRequests, loneFallback, loneReleased, loneFaults>>

Lone == INSTANCE PermalinkLifecycle WITH
    db <- loneDb, txn <- loneTxn, requests <- loneRequests, fallback <- loneFallback,
    released <- loneReleased, faults <- loneFaults,
    Requests <- Request, Keys <- Configurations, Slugs <- ChosenSlugs, Bases <- ChosenBases,
    Operations <- AllOperations

\* A part that is not the behaviour's starts without configurations.
PartInit ==
    /\ part \in {"shared", "lone"}
    /\ Init /\ Lone!Init
    /\ part # "shared" => fallback = InstanceBase /\ \A d \in ConfigDocs : db[d] = Absent
    /\ part # "lone" =>
        loneFallback = InstanceBase /\ \A d \in Lone!ConfigDocs : loneDb[d] = Absent

PartNext ==
    \/ part = "shared" /\ Next /\ UNCHANGED <<part, loneVars>>
    \/ part = "lone" /\ Lone!Next /\ UNCHANGED <<part, vars>>

PartSpec == PartInit /\ [][PartNext]_<<part, vars, loneVars>>

\* Neither handler slots nor the ids of configurations are told apart.
Symmetry == Permutations(Requests) \cup Permutations(Configurations)

\* When requests come one at a time, a passport published from a draft has no
\* permalink that can still change, the public URL it is answered with is the
\* pinned one, and a pinned URL leads to its permalink (freezeAllForPassport,
\* resolvePublicUrlWithFreeze; "slug and baseUrl are locked").
LoneIsPinned ==
    part = "lone" =>
        /\ Lone!TypeOK /\ Lone!PublishedIsPinned
        /\ Lone!ToldIsPinned /\ Lone!PinnedUrlResolves

\* When requests come one at a time, a pinned URL is never changed
\* (permalink.ts: "immutable once set and cannot be changed").
LonePinnedUrlsStay == Lone!PublishedUrlIsImmutable

=============================================================================
