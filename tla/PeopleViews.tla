----------------------------- MODULE PeopleViews -----------------------------
(***************************************************************************)
(* The pages on which people are managed: the users of the instance, the   *)
(* members of an organization and who is invited to it, the invitations a  *)
(* user has; and the dialogs opened from them.  On the page of the         *)
(* invitations (grid) the parties are organizations, on the others users.  *)
(* The user waits for what he asked for, but may close a dialog that does  *)
(* not refuse to; answers come in the order of the requests.               *)
(***************************************************************************)
EXTENDS Naturals, SequencesExt

CONSTANTS Parties, Me, None,
          MaxActs,      \* bound: acts of the user
          MaxOthers     \* bound: acts of other users

VARIABLES
    page,
    roles, invited,     \* of the server: party -> role, invitations not yet answered
    list, pending,      \* what the page shows of them
    dialog, notice, flight,
    stale,              \* history: what changed since the server was asked for it
    granted,            \* history: what the server did since a dialog was opened
    acts, others

vars == <<page, roles, invited, list, pending, dialog, notice, flight, stale, granted,
          acts, others>>
server == <<roles, invited, granted>>

Pages == {"users", "members", "grid"}
Roles == {"high", "low"}    \* administrator and user, owner and member
Lists == {"list", "pending"}

PeopleViewsAssumption == None \notin Roles
Tables == UNION {[S -> Roles] : S \in SUBSET Parties}

Request(k, p, role) == [kind |-> k, of |-> p, role |-> role, answer |-> None, got |-> None]
Load(k) == Request(k, None, None)
ShowsRoles == {"listUsers", "getMembers", "fetchOrganizations"}
ShowsInvited == {"listInvitations", "listUserInvitations"}

Form(k, p, role) ==
    [kind |-> k, of |-> p, current |-> role, role |-> role, state |-> "form", error |-> FALSE]

TypeOK ==
    /\ page \in Pages /\ roles \in Tables /\ list \in Tables
    /\ invited \subseteq Parties /\ pending \subseteq Parties
    /\ dialog = None \/ dialog.state \in {"organizations", "form", "confirming", "loading", "success"}
    /\ stale \subseteq Lists /\ Len(flight) <= 2

-----------------------------------------------------------------------------
(* The server: a request is done, refused, or fails, done or not. *)

Allowed(r) ==
    CASE r.kind = "create" -> r.of \notin DOMAIN roles
      [] r.kind \in {"setRole", "changeMemberRole"} -> r.of \in DOMAIN roles
      [] r.kind = "invite" -> r.of \notin invited
      [] r.kind \in {"cancel", "accept"} -> r.of \in invited
      [] OTHER -> TRUE
Done(r) ==
    /\ Allowed(r)
    /\ roles' = CASE r.kind \in {"create", "accept"} ->
                        [p \in DOMAIN roles \cup {r.of} |-> IF p = r.of THEN "low" ELSE roles[p]]
                  [] r.kind \in {"setRole", "changeMemberRole"} -> [roles EXCEPT ![r.of] = r.role]
                  [] OTHER -> roles
    /\ invited' = CASE r.kind = "invite" -> invited \cup {r.of}
                    [] r.kind \in {"cancel", "accept"} -> invited \ {r.of}
                    [] OTHER -> invited
    /\ granted' = granted \cup {<<r.kind, r.of, r.role>>}
Answered(a, got) == flight' = [flight EXCEPT ![1].answer = a, ![1].got = got]

Serve ==
    /\ flight # <<>> /\ flight[1].answer = None
    /\ LET r == flight[1] IN
        \/ /\ Done(r)
           /\ CASE r.kind \in ShowsRoles -> Answered("done", roles) /\ stale' = stale \ {"list"}
                [] r.kind \in ShowsInvited -> Answered("done", invited) /\ stale' = stale \ {"pending"}
                [] OTHER -> Answered("done", None) /\ UNCHANGED stale
        \/ /\ Answered("refused", None)
           /\ stale' = stale \cup (IF r.kind \in ShowsRoles THEN {"list"}
                                   ELSE IF r.kind \in ShowsInvited THEN {"pending"} ELSE {})
           /\ UNCHANGED server
        \/ /\ Answered("failed", None)
           /\ Done(r) \/ UNCHANGED server
           /\ stale' = Lists
    /\ UNCHANGED <<page, list, pending, dialog, notice, acts, others>>

OtherUser ==
    /\ others < MaxOthers /\ others' = others + 1
    /\ \E p \in Parties \ {Me} :
        \/ /\ \E role \in Roles :
                roles' = [q \in DOMAIN roles \cup {p} |-> IF q = p THEN role ELSE roles[q]]
           /\ UNCHANGED invited
        \/ roles' = [q \in DOMAIN roles \ {p} |-> roles[q]] /\ UNCHANGED invited
        \/ invited' = invited \cup {p} /\ UNCHANGED roles
        \/ invited' = invited \ {p} /\ UNCHANGED roles
    /\ stale' = Lists
    /\ UNCHANGED <<page, list, pending, dialog, notice, flight, granted, acts>>

-----------------------------------------------------------------------------
(* What the answers show. *)

Head1(kinds) == flight # <<>> /\ flight[1].answer # None /\ flight[1].kind \in kinds
Ok == flight[1].answer = "done"
Rest == Tail(flight)
Page == <<page, roles, invited, granted, acts, others>>

\* The dialogs of the page close when the users are there again.
fetchUsers == <<Load("listUsers")>>
fetchUsersEnds ==
    /\ Head1({"listUsers"})
    /\ list' = CASE Ok -> flight[1].got
                 [] flight[1].answer = "refused" -> list
                 [] OTHER -> <<>>
    /\ dialog' = IF dialog # None /\ dialog.state = "success" THEN None ELSE dialog
    /\ flight' = Rest
    /\ UNCHANGED <<Page, pending, notice, stale>>
fetchMembers == <<Load("getMembers")>>
fetchMembersEnds ==
    /\ Head1({"getMembers"})
    /\ list' = IF Ok THEN flight[1].got ELSE <<>>
    /\ flight' = Rest
    /\ UNCHANGED <<Page, pending, dialog, notice, stale>>
loadInvitations == <<Load("listInvitations")>>
loadInvitationsEnds ==
    /\ Head1({"listInvitations"})
    /\ pending' = IF Ok THEN flight[1].got ELSE pending
    /\ flight' = Rest
    /\ UNCHANGED <<Page, list, dialog, notice, stale>>
\* A failure ends what an acceptance still has to load.
loadUserInvitations == <<Load("listUserInvitations")>>
loadUserInvitationsEnds ==
    /\ Head1({"listUserInvitations"})
    /\ pending' = IF Ok THEN flight[1].got ELSE pending
    /\ flight' = IF flight[1].answer = "failed" THEN <<>> ELSE Rest
    /\ notice' = IF flight[1].answer = "failed" /\ Rest # <<>> THEN "acceptError" ELSE notice
    /\ stale' = IF flight[1].answer = "failed" THEN Lists ELSE stale
    /\ UNCHANGED <<Page, list, dialog>>
fetchOrganizationsEnds ==
    /\ Head1({"fetchOrganizations"})
    /\ list' = IF Ok THEN flight[1].got ELSE <<>>
    /\ notice' = "acceptSuccess"
    /\ flight' = Rest
    /\ UNCHANGED <<Page, pending, dialog, stale>>

-----------------------------------------------------------------------------
(* The user opens, fills in and closes a dialog. *)

MayAct == flight = <<>> /\ acts < MaxActs
Act == MayAct /\ acts' = acts + 1
Acts == Act /\ UNCHANGED <<page, roles, invited, list, pending, others>>
Open(d) ==
    /\ Acts /\ dialog = None
    /\ dialog' = d /\ granted' = {} /\ notice' = None
    /\ UNCHANGED stale
InForm(kinds) == Acts /\ dialog # None /\ dialog.kind \in kinds /\ dialog.state = "form"
Send(d, r) ==
    /\ dialog' = [d EXCEPT !.state = "loading", !.error = FALSE]
    /\ flight' = <<r>>
    /\ UNCHANGED <<notice, stale, granted>>
Only(d) == dialog' = d /\ UNCHANGED <<notice, flight, stale, granted>>
\* An answer to a dialog that was closed meanwhile is dropped, with what
\* the page would have loaded.
AnswerTo(kinds, success, loads) ==
    /\ Head1(kinds)
    /\ dialog' = CASE dialog = None -> None
                   [] success -> [dialog EXCEPT !.state = "success"]
                   [] OTHER -> [dialog EXCEPT !.state = "form", !.error = TRUE]
    /\ flight' = Rest \o (IF success /\ dialog # None THEN loads ELSE <<>>)
    /\ stale' = IF success /\ dialog = None THEN Lists ELSE stale
    /\ UNCHANGED <<Page, list, pending, notice>>

\* InviteUserDialog.vue: an account for somebody, typed in.
onAdd == page = "users" /\ Open(Form("inviteUser", None, None)) /\ UNCHANGED flight
inviteUser(p) == InForm({"inviteUser"}) /\ Send(dialog, Request("create", p, None))
inviteUserEnds == AnswerTo({"create"}, Ok, fetchUsers)

\* InviteMemberDialog.vue: an invitation to the organization of the page.
openInviteMember ==
    page = "members" /\ Open(Form("inviteMember", None, None)) /\ UNCHANGED flight
inviteMember(p) == InForm({"inviteMember"}) /\ Send(dialog, Request("invite", p, None))
inviteMemberEnds ==
    Head1({"invite"}) /\ page = "members" /\ AnswerTo({"invite"}, Ok, loadInvitations)

\* InviteToOrganizationDialog.vue: of a user to one of the organizations of
\* the administrator, which are loaded first; it closes when he is invited.
onInviteToOrg(p) ==
    /\ page = "users" /\ p \in DOMAIN list
    /\ Open([Form("inviteToOrganization", p, None) EXCEPT !.state = "organizations"])
    /\ flight' = <<Load("getMemberOrganizations")>>
organizationsLoaded ==
    /\ Head1({"getMemberOrganizations"})
    /\ dialog' = IF dialog = None THEN None
                 ELSE [dialog EXCEPT !.state = "form", !.error = ~Ok,
                                     !.role = IF Ok THEN "low" ELSE None]
    /\ flight' = Rest
    /\ UNCHANGED <<Page, list, pending, notice, stale>>
inviteToOrganization ==
    /\ InForm({"inviteToOrganization"}) /\ dialog.role # None
    /\ Send(dialog, Request("invite", dialog.of, None))
inviteToOrganizationEnds ==
    /\ Head1({"invite"}) /\ page = "users"
    /\ dialog' = IF dialog = None \/ Ok THEN None
                 ELSE [dialog EXCEPT !.state = "form", !.error = TRUE]
    /\ flight' = Rest
    /\ UNCHANGED <<Page, list, pending, notice, stale>>

\* The dialogs of invitations close at any time.
CloseInvitation ==
    /\ dialog # None
    /\ dialog.kind \in {"inviteUser", "inviteMember", "inviteToOrganization"}
    /\ dialog' = None
    /\ UNCHANGED <<Page, list, pending, notice, flight, stale>>

-----------------------------------------------------------------------------
(* ChangeRoleDialog.vue, of users and of members; it stays while a request *)
(* is under way.                                                           *)

toggleRowMenu(p) == page = "users" /\ p \in DOMAIN list /\ p # Me
canChangeRole(p) == page = "members" /\ p \in DOMAIN list /\ p # Me
onChangeRole(p) ==
    /\ toggleRowMenu(p) /\ Open(Form("changeUserRole", p, list[p])) /\ UNCHANGED flight
openChangeMemberRole(p) ==
    /\ canChangeRole(p) /\ Open(Form("changeMemberRole", p, list[p])) /\ UNCHANGED flight

RoleDialogs == {"changeUserRole", "changeMemberRole"}
selectRole(role) ==
    InForm(RoleDialogs) /\ role # dialog.role /\ Only([dialog EXCEPT !.role = role])
onSave(d) ==
    Request(IF d.kind = "changeUserRole" THEN "setRole" ELSE "changeMemberRole", d.of, d.role)
changeRole(d) == Send(d, onSave(d))
requestChangeRole ==
    /\ InForm(RoleDialogs) /\ dialog.role # dialog.current
    /\ IF dialog.role = "high"
       THEN Only([dialog EXCEPT !.state = "confirming"])
       ELSE changeRole(dialog)
Confirming == Acts /\ dialog # None /\ dialog.state = "confirming"
confirmChange == Confirming /\ changeRole(dialog)
cancelConfirmation == Confirming /\ Only([dialog EXCEPT !.state = "form"])
\* The answer about a member is told to the user by a notification, and not
\* to the dialog.
changeUserRoleEnds == Head1({"setRole"}) /\ AnswerTo({"setRole"}, Ok, <<>>)
changeMemberRoleEnds == Head1({"changeMemberRole"}) /\ AnswerTo({"changeMemberRole"}, TRUE, <<>>)
closeChangeRole ==
    /\ Acts /\ dialog # None /\ dialog.kind \in RoleDialogs
    /\ dialog' = None
    /\ flight' = IF dialog.state # "success" THEN <<>>
                 ELSE IF dialog.kind = "changeUserRole" THEN fetchUsers ELSE fetchMembers
    /\ UNCHANGED <<notice, stale, granted>>

-----------------------------------------------------------------------------
(* Rows of invitations. *)

cancelInvite(p) ==
    /\ Acts /\ page = "members" /\ dialog = None /\ p \in pending
    /\ flight' = <<Request("cancel", p, None)>>
    /\ UNCHANGED <<dialog, notice, stale, granted>>
cancelInviteEnds ==
    /\ Head1({"cancel"})
    /\ flight' = IF flight[1].answer = "failed" THEN <<>> ELSE loadInvitations
    /\ UNCHANGED <<Page, list, pending, dialog, notice, stale>>
acceptInvite(p) ==
    /\ Act /\ page = "grid" /\ p \in pending
    /\ flight' = <<Request("accept", p, None)>>
    /\ notice' = None /\ granted' = {}
    /\ UNCHANGED <<page, roles, invited, list, pending, dialog, stale, others>>
acceptInviteEnds ==
    /\ Head1({"accept"})
    /\ IF flight[1].answer = "failed"
       THEN flight' = <<>> /\ notice' = "acceptError" /\ UNCHANGED pending
       ELSE /\ flight' = loadUserInvitations \o <<Load("fetchOrganizations")>>
            /\ pending' = {} /\ UNCHANGED notice
    /\ UNCHANGED <<Page, list, dialog, stale>>

-----------------------------------------------------------------------------
Mounted ==
    CASE page = "users" -> fetchUsers
      [] page = "members" -> fetchMembers \o loadInvitations
      [] OTHER -> loadUserInvitations
Init ==
    /\ page \in Pages
    /\ \E p \in Parties \ {Me} : roles = [q \in {Me, p} |-> IF q = Me THEN "high" ELSE "low"]
    /\ invited \in {{p} : p \in Parties \ DOMAIN roles}
    /\ list = (IF page = "grid" THEN roles ELSE <<>>) /\ pending = {}
    /\ dialog = None /\ notice = None /\ flight = Mounted
    /\ stale = Lists /\ granted = {}
    /\ acts = 0 /\ others = 0

Ends ==
    \/ fetchUsersEnds \/ fetchMembersEnds \/ loadInvitationsEnds
    \/ loadUserInvitationsEnds \/ fetchOrganizationsEnds
    \/ inviteUserEnds \/ inviteMemberEnds \/ organizationsLoaded
    \/ inviteToOrganizationEnds \/ changeUserRoleEnds \/ changeMemberRoleEnds
    \/ cancelInviteEnds \/ acceptInviteEnds
User ==
    \/ onAdd \/ openInviteMember \/ CloseInvitation \/ inviteToOrganization
    \/ requestChangeRole \/ confirmChange \/ cancelConfirmation \/ closeChangeRole
    \/ \E role \in Roles : selectRole(role)
    \/ \E p \in Parties :
        \/ inviteUser(p) \/ inviteMember(p) \/ onInviteToOrg(p)
        \/ onChangeRole(p) \/ openChangeMemberRole(p) \/ cancelInvite(p) \/ acceptInvite(p)
Next == Serve \/ Ends \/ User \/ OtherUser

\* Requests are answered, one way or another, and answers are taken up.
Fairness == WF_vars(Serve) /\ WF_vars(Ends)
Spec == Init /\ [][Next]_vars /\ Fairness

-----------------------------------------------------------------------------
(* Properties *)

\* Once a dialog has been dealt with, the page shows what the server has, but
\* for what others changed, what failed, and answers to dialogs that were
\* closed before them.
ShownIsStored ==
    flight = <<>> /\ dialog = None =>
        /\ "list" \notin stale /\ page # "grid" => list = roles
        /\ "list" \notin stale /\ page = "grid" => DOMAIN list = DOMAIN roles
        /\ "pending" \notin stale /\ page # "users" => pending = invited

\* A dialog that reports success was granted what it asked for; the dialog
\* about members hides a refusal.
SuccessIsGranted ==
    dialog # None /\ dialog.state = "success" =>
        \/ dialog.kind = "changeMemberRole"
        \/ dialog.kind = "inviteUser" /\ \E g \in granted : g[1] = "create"
        \/ dialog.kind = "inviteMember" /\ \E g \in granted : g[1] = "invite"
        \/ dialog.kind = "changeUserRole" /\ <<"setRole", dialog.of, dialog.role>> \in granted

\* Violated: ChangeMemberRoleDialog.vue ignores the answer of useOrganizations.
MemberRoleIsGranted ==
    dialog # None /\ dialog.state = "success" /\ dialog.kind = "changeMemberRole" =>
        <<"changeMemberRole", dialog.of, dialog.role>> \in granted
\* Violated: better-auth returns a refusal, and acceptInvite waits for a throw.
AcceptedIsGranted == notice = "acceptSuccess" => \E g \in granted : g[1] = "accept"

\* Nobody is made an administrator or an owner by a dialog that did not ask
\* whether this party should be.
Raises ==
    \A i \in DOMAIN flight' :
        LET r == flight'[i] IN
        r.role = "high" /\ (i \notin DOMAIN flight \/ flight[i].kind # r.kind)
            => dialog # None /\ dialog.state = "confirming" /\ dialog.of = r.of /\ dialog.role = "high"

\* Every dialog leaves its loading state.
Loading == dialog # None /\ dialog.state \in {"loading", "organizations"}
LoadingEnds == []<>~Loading

=============================================================================

