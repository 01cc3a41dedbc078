--------------------------- MODULE ClientSession ---------------------------
(***************************************************************************)
(* The browser application around a session: its start, the guard before   *)
(* every navigation, the organization a tab has selected, and what follows *)
(* a selection without being waited for: the active organization of the    *)
(* session, the member's role, the colours.  Tabs share the session and    *)
(* the local storage.  A page, a role, a colour or a form is represented   *)
(* by the organization it belongs to.                                      *)
(***************************************************************************)
EXTENDS Integers, SequencesExt

CONSTANTS Orgs, Tabs, None,
          Ordered,      \* requests of a tab are served, and answered, in their order
          Disturbed,    \* the user may be removed, other tabs may switch
          MaxFlight,    \* bound: requests a tab has under way when its user acts
          MaxSteps      \* bound: acts of users

VARIABLES
    session,    \* of the browser: [signedIn, active]
    members,    \* the organizations the user is a member of
    names,      \* organization -> the organization whose name it bears
    storage,    \* local storage: the last selected organization
    tab,        \* tab -> its state
    steps

vars == <<session, members, names, storage, tab, steps>>

ClientSessionAssumption == None \notin Orgs /\ {Ordered, Disturbed} \subseteq BOOLEAN
                      /\ MaxFlight \in Nat /\ MaxSteps \in Nat

OrNone == Orgs \union {None}
Page(v) == [view |-> v, org |-> None]
PageOf(v, o) == [view |-> v, org |-> o]
NoPage == Page("none")
Public == {"signin", "signout"}
OnlyAnonymous == {"signin"}
OfOrganization == {"passports", "settings"}
Pages == [view : Public \union {"none", "create", "invitation"}, org : {None}]
             \union [view : OfOrganization, org : OrNone]

Request(k, o) == [kind |-> k, org |-> o, answer |-> None]
NewTab(page) == [page |-> NoPage, to |-> page, boot |-> "session", selected |-> None,
                 list |-> {}, role |-> None, colour |-> None, started |-> None, form |-> None, flight |-> <<>>]

TypeOK ==
    /\ session \in [signedIn : BOOLEAN, active : OrNone]
    /\ members \subseteq Orgs
    /\ names \in [Orgs -> Orgs]
    /\ storage \in OrNone
    /\ \A t \in Tabs :
        /\ tab[t].page \in Pages /\ tab[t].to \in Pages
        /\ tab[t].list \subseteq Orgs
        /\ {tab[t].selected, tab[t].role, tab[t].colour, tab[t].form, tab[t].started} \subseteq OrNone
        /\ \A i \in DOMAIN tab[t].flight :
            tab[t].flight[i].kind \in {"setActive", "members", "branding", "session", "current"}

(* A navigation asks for the session first and drops one under way. *)
Home(c) == IF c.selected = None THEN Page("create") ELSE PageOf("passports", c.selected)
Push(c, page) ==
    [c EXCEPT !.to = page,
              !.flight = SelectSeq(@, LAMBDA r : r.kind # "session") \o <<Request("session", None)>>]

(* The watchers of the selection: the session is told, after which the     *)
(* role is asked for, and the branding is asked for.                       *)
Branding(o) == IF o = None THEN <<>> ELSE <<Request("branding", o)>>
WatchSelection(o) == IF o = None THEN <<>> ELSE <<Request("setActive", o)>>
selectOrganization(c, o) ==
    IF o = c.selected THEN c
    ELSE [c EXCEPT !.selected = o, !.flight = @ \o WatchSelection(o) \o Branding(o)]

(* The application starts: the session, the organizations, the selection. *)
StartSession(t) ==
    /\ tab[t].boot = "session"
    /\ tab' = [tab EXCEPT ![t] =
                  IF session.signedIn
                  THEN [@ EXCEPT !.boot = "organizations", !.started = session.active]
                  ELSE Push([@ EXCEPT !.boot = "done", !.selected = storage],
                            IF @.to = NoPage THEN Page("create") ELSE @.to)]
    /\ UNCHANGED <<session, members, names, storage, steps>>
InitialOrganization(c, list) ==
    IF list = {} THEN None ELSE IF c.started # None THEN c.started
    ELSE CHOOSE o \in list : TRUE
StartOrganizations(t) ==
    /\ tab[t].boot = "organizations"
    /\ \E list \in {members, {}} :  \* none, too, when the request fails
        LET o == InitialOrganization(tab[t], list)
            c == [tab[t] EXCEPT !.boot = "done", !.list = list, !.selected = storage,
                                !.flight = WatchSelection(storage)]
            d == IF o = storage THEN [c EXCEPT !.flight = @ \o Branding(o)]
                 ELSE selectOrganization(c, o)
        IN  /\ tab' = [tab EXCEPT ![t] = Push(d, IF d.to = NoPage THEN Home(d) ELSE d.to)]
            /\ storage' = o
    /\ UNCHANGED <<session, members, names, steps>>

(* The guard of the router, once it knows whether there is a session: it  *)
(* redirects, or selects the organization of the page and lets it in.     *)
Land(c) ==
    [c EXCEPT !.page = c.to, !.to = NoPage, !.form = None,
              !.flight = IF c.to.view = "settings"
                         THEN Append(@, Request("current", None)) ELSE @]
\* Mutant: only pages without an organization ask for a session.
beforeEachUnguarded(c, signedIn) ==
    LET to == c.to IN
    CASE signedIn /\ to.view \in OnlyAnonymous -> Push(c, Home(c))
      [] ~signedIn /\ to.org = None /\ to.view \notin Public -> Push(c, Page("signin"))
      [] OTHER ->
            IF to.org \in {None, c.selected} THEN Land(c)
            ELSE IF to.org \in c.list THEN Land(selectOrganization(c, to.org))
            ELSE Push(selectOrganization(c, None), Page("create"))
\* Mutant: an unknown organization stays selected, and its page the goal.
beforeEachAgain(c, signedIn) ==
    LET to == c.to IN
    CASE signedIn /\ to.view \in OnlyAnonymous -> Push(c, Home(c))
      [] ~signedIn /\ to.view \notin Public -> Push(c, Page("signin"))
      [] OTHER ->
            IF to.org \in {None, c.selected} THEN Land(c)
            ELSE IF to.org \in c.list THEN Land(selectOrganization(c, to.org))
            ELSE Push(c, to)
beforeEach(c, signedIn) ==
    LET to == c.to IN
    CASE signedIn /\ to.view \in OnlyAnonymous -> Push(c, Home(c))
      [] ~signedIn /\ to.view \notin Public -> Push(c, Page("signin"))
      [] OTHER ->
            IF to.org \in {None, c.selected} THEN Land(c)
            ELSE IF to.org \in c.list THEN Land(selectOrganization(c, to.org))
            ELSE Push(selectOrganization(c, None), Page("create"))

(* The server takes up a request, the tab takes up its answer. *)
InTurn(t, i, Earlier(_)) == Ordered => \A j \in 1..(i - 1) : Earlier(tab[t].flight[j])
Answer(r) ==
    CASE r.kind = "session" -> IF session.signedIn THEN "in" ELSE "out"
      [] r.kind = "current" ->
            IF session.signedIn /\ session.active \in members THEN session.active ELSE "refused"
      [] OTHER -> IF session.signedIn /\ r.org \in members THEN r.org ELSE "refused"
Serve(t, i) ==
    LET r == tab[t].flight[i] IN
    /\ r.answer = None
    /\ InTurn(t, i, LAMBDA q : q.answer # None)
    /\ session' = IF r.kind = "setActive" /\ Answer(r) # "refused"
                  THEN [session EXCEPT !.active = r.org] ELSE session
    /\ tab' = [tab EXCEPT ![t].flight[i].answer = Answer(r)]
    /\ UNCHANGED <<members, names, storage, steps>>

(* After setActive, refused or not, the members are asked for. *)
Received(c, r) ==
    LET given == IF r.answer = "refused" THEN None ELSE r.answer IN
    CASE r.kind = "session" -> beforeEach(c, r.answer = "in")
      [] r.kind = "setActive" -> [c EXCEPT !.flight = Append(@, Request("members", r.org))]
      [] r.kind = "members" -> [c EXCEPT !.role = given]
      [] r.kind = "branding" -> [c EXCEPT !.colour = IF given = None THEN @ ELSE given]
      [] OTHER ->           \* "current"
            [c EXCEPT !.form = IF c.page.view = "settings" THEN given ELSE @]
Receive(t, i) ==
    /\ tab[t].flight[i].answer # None
    /\ InTurn(t, i, LAMBDA q : FALSE)
    /\ tab' = [tab EXCEPT ![t] =
                  Received([@ EXCEPT !.flight = RemoveAt(@, i)], tab[t].flight[i])]
    /\ storage' = IF tab'[t].selected # tab[t].selected THEN tab'[t].selected ELSE storage
    /\ UNCHANGED <<session, members, names, steps>>

(* What users do. *)
Act(t) ==
    /\ steps < MaxSteps /\ steps' = steps + 1
    /\ tab[t].boot = "done" /\ Len(tab[t].flight) <= MaxFlight
Settled(t) == Act(t) /\ tab[t].to = NoPage
Reload(t) ==
    /\ Act(t)
    /\ tab' = [tab EXCEPT ![t] = NewTab(IF @.to = NoPage THEN @.page ELSE @.to)]
    /\ UNCHANGED <<session, members, names, storage>>
Visit(t, page) ==
    /\ Act(t)
    /\ tab' = [tab EXCEPT ![t] = Push(@, page)]
    /\ UNCHANGED <<session, members, names, storage>>
setOrganization(t, o) ==
    /\ Act(t)
    /\ tab[t].page.view # "none" /\ tab[t].page.view \notin Public
    /\ o \in tab[t].list
    /\ LET c == selectOrganization(tab[t], o) IN tab' = [tab EXCEPT ![t] = Push(c, Home(c))]
    /\ storage' = o
    /\ UNCHANGED <<session, members, names>>

(* A new organization, or one joined by invitation: the list is loaded    *)
(* anew, and stays the former one when that fails.                         *)
CreateOrganization(t, o) ==
    /\ Settled(t) /\ tab[t].page.view = "create" /\ session.signedIn
    /\ o \notin members
    /\ \A u \in Tabs : o \notin tab[u].list \union {tab[u].selected}  \* a new identifier
    /\ \E list \in {members \union {o}, tab[t].list \union {o}} :
        LET c == selectOrganization([tab[t] EXCEPT !.list = list], o) IN
        tab' = [tab EXCEPT ![t] = Push(c, Home(c))]
    /\ members' = members \union {o}
    /\ storage' = o
    /\ UNCHANGED <<session, names>>
acceptInvite(t, o) ==
    /\ Settled(t) /\ tab[t].page.view = "invitation" /\ session.signedIn
    /\ o \notin members
    /\ members' = members \union {o}
    /\ \E list \in {members', tab[t].list}, known \in {o, None} :
        LET c == selectOrganization([tab[t] EXCEPT !.list = list], known) IN
        /\ tab' = [tab EXCEPT ![t] = Push(c, Home(c))]
        /\ storage' = known
    /\ UNCHANGED <<session, names>>

(* Signing in loads the page anew, signing out does not. *)
findActiveOrganizationIdForUser ==
    IF members = {} THEN None ELSE CHOOSE o \in members : TRUE  \* the earliest membership
Signin(t) ==
    /\ Settled(t) /\ tab[t].page.view = "signin"
    /\ session' = [signedIn |-> TRUE, active |-> findActiveOrganizationIdForUser]
    /\ storage' \in {storage, IF tab[t].selected \in members THEN storage ELSE None}
    /\ tab' = [tab EXCEPT ![t] = NewTab(NoPage)]
    /\ UNCHANGED <<members, names>>
Logout(t) ==
    /\ tab[t].boot = "done" /\ tab[t].to = NoPage /\ tab[t].page.view = "signout"
    /\ session' = [signedIn |-> FALSE, active |-> None]
    /\ tab' = [tab EXCEPT ![t] =
                  Push([selectOrganization(@, None) EXCEPT !.role = None], Page("signin"))]
    /\ storage' = None
    /\ UNCHANGED <<members, names, steps>>

(* The settings of an organization are saved under the selected one. *)
SaveSettings(t) ==
    /\ Settled(t) /\ tab[t].page.view = "settings"
    /\ tab[t].form # None /\ tab[t].selected # None
    /\ session.signedIn /\ tab[t].selected \in members
    /\ names' = [names EXCEPT ![tab[t].selected] = tab[t].form]
    /\ \E list \in {members, tab[t].list} : tab' = [tab EXCEPT ![t].list = list]
    /\ UNCHANGED <<session, members, storage>>

(* External: an owner removes the user, a tab not among Tabs selects, the session expires. *)
Removed(o) ==
    /\ steps < MaxSteps /\ steps' = steps + 1
    /\ Disturbed /\ o \in members
    /\ members' = members \ {o}
    /\ UNCHANGED <<session, names, storage, tab>>
OtherTab(o) ==
    /\ steps < MaxSteps /\ steps' = steps + 1
    /\ Disturbed /\ session.signedIn /\ o \in members
    /\ session' = [session EXCEPT !.active = o]
    /\ storage' = o
    /\ UNCHANGED <<members, names, tab>>
Expire ==
    /\ steps < MaxSteps /\ steps' = steps + 1
    /\ session.signedIn
    /\ session' = [signedIn |-> FALSE, active |-> None]
    /\ UNCHANGED <<members, names, storage, tab>>

Init ==
    /\ members \in SUBSET Orgs
    /\ \/ session = [signedIn |-> FALSE, active |-> None]
       \/ \E o \in members \union {None} : session = [signedIn |-> TRUE, active |-> o]
    /\ names = [o \in Orgs |-> o]
    /\ storage \in OrNone
    /\ tab = [t \in Tabs |-> NewTab(NoPage)]
    /\ steps = 0

Answering(t) == \E i \in DOMAIN tab[t].flight : Serve(t, i) \/ Receive(t, i)
Starting(t) == StartSession(t) \/ StartOrganizations(t)
Next ==
    \/ Expire \/ \E o \in Orgs : Removed(o) \/ OtherTab(o)
    \/ \E t \in Tabs :
        \/ Starting(t) \/ Answering(t)
        \/ Reload(t) \/ Signin(t) \/ Logout(t) \/ SaveSettings(t)
        \/ \E page \in {Page("signout"), Page("signin"), Page("create"), Page("invitation")}
                        \union [view : OfOrganization, org : Orgs] : Visit(t, page)
        \/ \E o \in Orgs : setOrganization(t, o) \/ CreateOrganization(t, o) \/ acceptInvite(t, o)

Fairness == \A t \in Tabs : WF_vars(Starting(t)) /\ WF_vars(Logout(t)) /\ WF_vars(Answering(t))
Spec == Init /\ [][Next]_vars
FairSpec == Spec /\ Fairness
-----------------------------------------------------------------------------
Quiet(t) == tab[t].boot = "done" /\ tab[t].to = NoPage /\ tab[t].flight = <<>>

(* The page shown by a tab that is not navigating is one of the selected   *)
(* organization, so that what it sends is sent for the organization it     *)
(* shows (router/index.ts beforeEach, setOrganization).                    *)
PageIsOfSelected ==
    \A t \in Tabs : tab[t].to = NoPage /\ tab[t].page.org # None
                        => tab[t].page.org = tab[t].selected

(* When requests are answered in their order, the role a settled tab       *)
(* decides with was read for the organization it has selected              *)
(* (stores/index.ts, stores/user.ts fetchMemberRole).                      *)
RoleIsOfSelected ==
    \A t \in Tabs : Quiet(t) /\ tab[t].selected # None
                        => tab[t].role \in {None, tab[t].selected}

(* Saving the settings page of one tab never gives an organization the     *)
(* name of another, though the form is filled from the session's active    *)
(* organization and saved under the selected one, as long as answers come  *)
(* in order and nobody else changes the session.                           *)
SavedNameIsOwn == \A o \in Orgs : names[o] = o

(* Nobody enters a private page without a session the guard has seen       *)
(* (router/index.ts beforeEach): the answer was given before an expiry.    *)
EntersWithSession ==
    \A t \in Tabs :
     tab'[t].page # tab[t].page /\ tab'[t].page.view \notin Public \union {"none"}
         => \E i \in DOMAIN tab[t].flight :
             tab[t].flight[i].kind = "session" /\ tab[t].flight[i].answer = "in"

(* Redirects do not chase each other: every navigation ends on a page.     *)
Arrived(t) == tab[t].to = NoPage /\ tab[t].boot = "done"

(* docs/guides/branding.md: the primary colour "is applied across open-dpp *)
(* for the selected organization".                                         *)
ColourIsOfSelected ==
    \A t \in Tabs : Quiet(t) /\ tab[t].selected \in members /\ session.signedIn
                        => tab[t].colour = tab[t].selected
=============================================================================

