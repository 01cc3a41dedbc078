---------------------------- MODULE Organizations ----------------------------
(***************************************************************************)
(* Users, the organizations they found, and the members the owners invite. *)
(* A request passes the guard, which reads the user and, when the request  *)
(* names an organization, the membership; the handler then acts on what    *)
(* was read.  Accepting an invitation, leaving and the other end points of *)
(* better-auth are served without a handler of this code.                  *)
(*                                                                         *)
(* A handler serves one request at a time; at names the await it resumes   *)
(* from.  A request that is refused before it wrote anything is no step.   *)
(* The properties are proved at the end of the module.                     *)
(***************************************************************************)
EXTENDS Naturals, FiniteSets, TLAPS

CONSTANTS
    Users, Emails,      \* accounts and mail addresses
    AdminEmail,         \* the address configured for the first administrator
    Slugs,              \* names of organizations in their addresses
    Handlers,           \* requests in flight at the same time
    Operations,         \* what clients ask for
    MaxOrganizations, MaxMembers, MaxInvitations, MaxRestarts,  \* bounds
    None

OrganizationsAssumption ==
    /\ AdminEmail \in Emails
    /\ {MaxOrganizations, MaxMembers, MaxInvitations, MaxRestarts} \subseteq Nat

VARIABLES
    users,              \* the user documents that exist
    settings,           \* the instance settings
    organizations,      \* the organization documents
    members,            \* the member documents
    invitations,        \* the invitation documents
    handlers,           \* the handlers' local state
    ownersEver,         \* users and the organizations they ever owned
    issued,             \* identifiers given out
    seeds, restarts     \* administrators seeded, starts of the server

vars == <<users, settings, organizations, members, invitations, handlers,
          ownersEver, issued, seeds, restarts>>

UserRoles == {"user", "admin"}
MemberRoles == {"owner", "member"}

UserDocs == [email : Emails, role : UserRoles]
Settings == [signupEnabled : BOOLEAN, organizationCreationEnabled : BOOLEAN]
OrganizationIds == 1..MaxOrganizations
OrganizationDocs == [id : OrganizationIds, slug : Slugs, named : 0..1]
MemberDocs ==
    [id : 1..MaxMembers, user : Users, org : OrganizationIds, role : MemberRoles]
Invitations ==
    [id : 1..MaxInvitations, email : Emails, org : OrganizationIds,
     role : MemberRoles, status : {"pending", "accepted", "declined"},
     expired : BOOLEAN]

Idle == [at |-> "idle"]

HandlerStates ==
    {Idle}
      \cup [at : {"findSlug", "insert"}, user : Users, slug : Slugs]
      \cup [at : {"owner"}, user : Users, org : OrganizationIds]
      \cup [at : {"invite"}, user : Users, org : OrganizationIds, email : Emails]
      \cup [at : {"update"}, next : OrganizationDocs]
      \cup [at : {"findMember"}, user : Users, org : OrganizationIds,
            id : 1..MaxMembers, role : MemberRoles]
      \cup [at : {"saveMember"}, user : Users, org : OrganizationIds, next : MemberDocs]

TypeOK ==
    /\ users \in [Users -> UserDocs \cup {None}]
    /\ settings \in Settings
    /\ organizations \subseteq OrganizationDocs
    /\ members \subseteq MemberDocs
    /\ invitations \subseteq Invitations
    /\ handlers \in [Handlers -> HandlerStates]
    /\ ownersEver \subseteq Users \X OrganizationIds
    /\ issued \in [org : 0..MaxOrganizations, member : 0..MaxMembers,
                   invitation : 0..MaxInvitations]
    /\ seeds \in 0..(MaxRestarts + 1) /\ restarts \in 0..MaxRestarts

Goto(h, state) == handlers' = [handlers EXCEPT ![h] = state]
Answer(h) == Goto(h, Idle)
Serves(h, operation) == operation \in Operations /\ handlers[h] = Idle

Exists(u) == users[u] # None
EmailTaken(e) == \E u \in Users : Exists(u) /\ users[u].email = e
AdminExists == \E u \in Users : Exists(u) /\ users[u].role = "admin"

-----------------------------------------------------------------------------
(* The collections.                                                         *)

FindMembers(u, o) == {m \in members : m.user = u /\ m.org = o}
IsOwner(u, o) == \E m \in FindMembers(u, o) : m.role = "owner"
IsAdmin(u) == Exists(u) /\ users[u].role = "admin"

FindBySlug(slug) == {o \in organizations : o.slug = slug}
FindOrganization(o) == {d \in organizations : d.id = o}

\* The unique index on the slug refuses the second document.
\* Mutant: there is no index.
InsertAnyOrganization(doc) == organizations' = organizations \cup {doc}

InsertOrganization(doc) ==
    /\ FindBySlug(doc.slug) = {}
    /\ organizations' = organizations \cup {doc}

Admit(doc) ==
    ownersEver' = IF doc.role = "owner" THEN ownersEver \cup {<<doc.user, doc.org>>}
                  ELSE ownersEver

\* findByIdAndUpdate with upsert: a document that is gone comes back.
SaveMember(doc) ==
    /\ members' = {m \in members : m.id # doc.id} \cup {doc}
    /\ Admit(doc)

NewMember(u, o, role) ==
    LET doc == [id |-> issued.member + 1, user |-> u, org |-> o, role |-> role]
    IN  /\ issued.member < MaxMembers
        /\ issued' = [issued EXCEPT !.member = @ + 1]
        /\ members' = members \cup {doc}
        /\ Admit(doc)

-----------------------------------------------------------------------------
(* Accounts.                                                                *)

NewUser(e, role) ==
    /\ ~EmailTaken(e)
    /\ \E u \in Users :
         /\ ~Exists(u)
         /\ users' = [users EXCEPT ![u] = [email |-> e, role |-> role]]

\* On every start: the configured administrator, if there is none.
EnsureAdminSeeded ==
    IF AdminExists \/ EmailTaken(AdminEmail) \/ \A u \in Users : Exists(u)
    THEN UNCHANGED <<users, seeds>>
    ELSE NewUser(AdminEmail, "admin") /\ seeds' = seeds + 1

Restart ==
    /\ restarts < MaxRestarts
    /\ restarts' = restarts + 1
    /\ handlers' = [h \in Handlers |-> Idle]
    /\ EnsureAdminSeeded
    /\ UNCHANGED <<settings, organizations, members, invitations, ownersEver, issued>>

SignUp(e) ==
    /\ "signUp" \in Operations
    /\ settings.signupEnabled
    /\ NewUser(e, "user")
    /\ UNCHANGED <<settings, organizations, members, invitations, handlers,
                   ownersEver, issued, seeds, restarts>>

CreateUser(u, e) ==
    /\ "createUser" \in Operations
    /\ IsAdmin(u)
    /\ NewUser(e, "user")
    /\ UNCHANGED <<settings, organizations, members, invitations, handlers,
                   ownersEver, issued, seeds, restarts>>

SetUserRole(u, v, role) ==
    /\ "setUserRole" \in Operations
    /\ IsAdmin(u) /\ Exists(v)
    /\ users' = [users EXCEPT ![v].role = role]
    /\ UNCHANGED <<settings, organizations, members, invitations, handlers,
                   ownersEver, issued, seeds, restarts>>

\* A change of the address that was confirmed; UserAccounts has its steps.
ChangeEmail(u, e) ==
    /\ "changeEmail" \in Operations
    /\ Exists(u) /\ ~EmailTaken(e)
    /\ users' = [users EXCEPT ![u].email = e]
    /\ UNCHANGED <<settings, organizations, members, invitations, handlers,
                   ownersEver, issued, seeds, restarts>>

UpdateSettings(u, next) ==
    /\ "updateSettings" \in Operations
    /\ IsAdmin(u) /\ next # settings
    /\ settings' = next
    /\ UNCHANGED <<users, organizations, members, invitations, handlers,
                   ownersEver, issued, seeds, restarts>>

-----------------------------------------------------------------------------
(* An organization: checked, its slug looked up, the document inserted, and *)
(* its founder added as its owner.                                          *)

CreateOrganization(h, u, slug) ==
    /\ Serves(h, "createOrganization")
    /\ Exists(u)
    /\ settings.organizationCreationEnabled = FALSE => users[u].role = "admin"
    /\ Goto(h, [at |-> "findSlug", user |-> u, slug |-> slug])
    /\ UNCHANGED <<users, settings, organizations, members, invitations,
                   ownersEver, issued, seeds, restarts>>

FindSlug(h) ==
    /\ handlers[h].at = "findSlug"
    /\ IF FindBySlug(handlers[h].slug) = {}
       THEN Goto(h, [handlers[h] EXCEPT !.at = "insert"])
       ELSE Answer(h)
    /\ UNCHANGED <<users, settings, organizations, members, invitations,
                   ownersEver, issued, seeds, restarts>>

Insert(h) ==
    LET o == issued.org + 1
    IN  /\ handlers[h].at = "insert"
        /\ issued.org < MaxOrganizations
        /\ InsertOrganization([id |-> o, slug |-> handlers[h].slug, named |-> 0])
        /\ issued' = [issued EXCEPT !.org = o]
        /\ Goto(h, [at |-> "owner", user |-> handlers[h].user, org |-> o])
        /\ UNCHANGED <<users, settings, members, invitations, ownersEver, seeds,
                       restarts>>

InsertFails(h) ==
    /\ handlers[h].at = "insert"
    /\ Answer(h)
    /\ UNCHANGED <<users, settings, organizations, members, invitations,
                   ownersEver, issued, seeds, restarts>>

AddOwner(h) ==
    /\ handlers[h].at = "owner"
    /\ NewMember(handlers[h].user, handlers[h].org, "owner")
    /\ Answer(h)
    /\ UNCHANGED <<users, settings, organizations, invitations, seeds, restarts>>

-----------------------------------------------------------------------------
(* Renaming and inviting: an owner, or an administrator of the instance.    *)

MayManage(u, o) == IsOwner(u, o) \/ IsAdmin(u)

UpdateOrganization(h, u, o) ==
    /\ Serves(h, "updateOrganization")
    /\ MayManage(u, o) /\ FindOrganization(o) # {}
    /\ \E d \in FindOrganization(o) :
         Goto(h, [at |-> "update", next |-> [d EXCEPT !.named = 1 - @]])
    /\ UNCHANGED <<users, settings, organizations, members, invitations,
                   ownersEver, issued, seeds, restarts>>

\* better-auth may refuse; it writes the whole document that was read.
SaveOrganization(h) ==
    /\ handlers[h].at = "update"
    /\ \/ UNCHANGED organizations
       \/ organizations' = {d \in organizations : d.id # handlers[h].next.id}
                             \cup {handlers[h].next}
    /\ Answer(h)
    /\ UNCHANGED <<users, settings, members, invitations, ownersEver, issued,
                   seeds, restarts>>

InviteMember(h, u, o, e) ==
    /\ Serves(h, "inviteMember")
    /\ MayManage(u, o) /\ FindOrganization(o) # {}
    /\ Goto(h, [at |-> "invite", user |-> u, org |-> o, email |-> e])
    /\ UNCHANGED <<users, settings, organizations, members, invitations,
                   ownersEver, issued, seeds, restarts>>

\* The end point invites members only; better-auth may refuse.
SaveInvitation(h) ==
    LET n == issued.invitation + 1
    IN  /\ handlers[h].at = "invite"
        /\ issued.invitation < MaxInvitations
        /\ \/ UNCHANGED <<invitations, issued>>
           \/ /\ invitations' = invitations \cup
                   {[id |-> n, email |-> handlers[h].email, org |-> handlers[h].org,
                     role |-> "member", status |-> "pending", expired |-> FALSE]}
              /\ issued' = [issued EXCEPT !.invitation = n]
        /\ Answer(h)
        /\ UNCHANGED <<users, settings, organizations, members, ownersEver, seeds,
                       restarts>>

Expire(i) ==
    /\ ~i.expired
    /\ invitations' = (invitations \ {i}) \cup {[i EXCEPT !.expired = TRUE]}
    /\ UNCHANGED <<users, settings, organizations, members, handlers, ownersEver,
                   issued, seeds, restarts>>

\* Mutant: an invitation can be used again.
FindUnexpiredOrUsed(e, o) ==
    {i \in invitations : i.email = e /\ i.org = o /\ ~i.expired}

\* What the invited user is shown: the name, while the invitation stands.
FindUnexpired(e, o) ==
    {i \in invitations : i.email = e /\ i.org = o /\ ~i.expired /\ i.status = "pending"}

AcceptInvitation(u, i) ==
    /\ "acceptInvitation" \in Operations
    /\ Exists(u) /\ i \in FindUnexpired(users[u].email, i.org)
    /\ invitations' = (invitations \ {i}) \cup {[i EXCEPT !.status = "accepted"]}
    /\ NewMember(u, i.org, i.role)
    /\ UNCHANGED <<users, settings, organizations, handlers, seeds, restarts>>

DeclineInvitation(u, i) ==
    /\ "acceptInvitation" \in Operations
    /\ Exists(u) /\ i \in FindUnexpired(users[u].email, i.org)
    /\ invitations' = (invitations \ {i}) \cup {[i EXCEPT !.status = "declined"]}
    /\ UNCHANGED <<users, settings, organizations, members, handlers, ownersEver,
                   issued, seeds, restarts>>

\* A member leaves, or is removed by an owner.
RemoveMember(m) ==
    /\ "removeMember" \in Operations
    /\ members' = members \ {m}
    /\ UNCHANGED <<users, settings, organizations, invitations, handlers,
                   ownersEver, issued, seeds, restarts>>

-----------------------------------------------------------------------------
(* The role of a member: the guard wants an owner of the organization the   *)
(* request names; the member is read, compared, and saved.                  *)

\* The guard: the user of the session, member of the organization the request
\* names, with the role the end point asks for.
CanActivate(u, o, role) ==
    /\ Exists(u)
    /\ \E m \in FindMembers(u, o) : m.role = role

UpdateMemberRole(h, u, o, id, role) ==
    /\ Serves(h, "updateMemberRole")
    /\ CanActivate(u, o, "owner")
    /\ Goto(h, [at |-> "findMember", user |-> u, org |-> o, id |-> id, role |-> role])
    /\ UNCHANGED <<users, settings, organizations, members, invitations,
                   ownersEver, issued, seeds, restarts>>

FindOneOfOrganization(id, o) == {m \in members : m.id = id /\ m.org = o}

FindMember(h) ==
    LET found == FindOneOfOrganization(handlers[h].id, handlers[h].org)
    IN  /\ handlers[h].at = "findMember"
        /\ \/ /\ found = {}
              /\ Answer(h)
           \/ \E m \in found :
                Goto(h, [at |-> "saveMember", user |-> handlers[h].user,
                         org |-> handlers[h].org,
                         next |-> [m EXCEPT !.role = handlers[h].role]])
        /\ UNCHANGED <<users, settings, organizations, members, invitations,
                       ownersEver, issued, seeds, restarts>>

SaveRole(h) ==
    /\ handlers[h].at = "saveMember"
    /\ SaveMember(handlers[h].next)
    /\ Answer(h)
    /\ UNCHANGED <<users, settings, organizations, invitations, issued, seeds,
                   restarts>>

-----------------------------------------------------------------------------
\* The first start has seeded the administrator.
Init ==
    /\ \E a \in Users :
         users = [u \in Users |->
                    IF u = a THEN [email |-> AdminEmail, role |-> "admin"] ELSE None]
    /\ settings = [signupEnabled |-> TRUE, organizationCreationEnabled |-> TRUE]
    /\ organizations = {} /\ members = {} /\ invitations = {}
    /\ handlers = [h \in Handlers |-> Idle]
    /\ ownersEver = {}
    /\ issued = [org |-> 0, member |-> 0, invitation |-> 0]
    /\ seeds = 1 /\ restarts = 0

NewRequest(h) ==
    \E u \in Users :
      \/ \E slug \in Slugs : CreateOrganization(h, u, slug)
      \/ \E o \in OrganizationIds :
           \/ UpdateOrganization(h, u, o)
           \/ \E e \in Emails : InviteMember(h, u, o, e)
           \/ \E id \in 1..issued.member, role \in MemberRoles :
                UpdateMemberRole(h, u, o, id, role)

Resume(h) ==
    \/ FindSlug(h) \/ Insert(h) \/ InsertFails(h) \/ AddOwner(h)
    \/ SaveOrganization(h) \/ SaveInvitation(h)
    \/ FindMember(h) \/ SaveRole(h)

AccountRequest ==
    \/ \E e \in Emails : SignUp(e)
    \/ \E u \in Users :
         \/ \E e \in Emails : CreateUser(u, e) \/ ChangeEmail(u, e)
         \/ \E v \in Users, role \in UserRoles : SetUserRole(u, v, role)
         \/ \E next \in Settings : UpdateSettings(u, next)

MembershipRequest ==
    \/ \E u \in Users, i \in invitations :
         AcceptInvitation(u, i) \/ DeclineInvitation(u, i)
    \/ \E m \in members : RemoveMember(m)

\* Requests that are served by one write wait, as the others do, for a handler.
SomeHandlerIdle == \E h \in Handlers : handlers[h] = Idle

Next ==
    \/ \E h \in Handlers : NewRequest(h) \/ Resume(h)
    \/ SomeHandlerIdle /\ (AccountRequest \/ MembershipRequest)
    \/ \E i \in invitations : Expire(i)
    \/ Restart

Spec == Init /\ [][Next]_vars

-----------------------------------------------------------------------------
\* No two organizations answer to the same slug, however their creations are
\* interleaved between the look-up and the insertion.
SlugsAreUnique ==
    \A c, d \in organizations : c.slug = d.slug => c = d

\* Nobody becomes a member but the founder of an organization and the holder of
\* an address that was invited and whose invitation still stood: a member that
\* left or was removed does not come back by itself.
FoundedOrInvited ==
    \A m \in members' :
      (\A old \in members : old.id # m.id) =>
        \/ \E h \in Handlers : handlers[h] = [at |-> "owner", user |-> m.user,
                                              org |-> m.org]
        \/ \E i \in invitations :
             /\ i.email = users[m.user].email /\ i.org = m.org /\ i.role = m.role
             /\ i.status = "pending" /\ ~i.expired
             /\ [i EXCEPT !.status = "accepted"] \in invitations'

\* A member's role is changed only at the request of somebody who has been an
\* owner of that very organization, and nothing else about the member changes.
ChangesByOwners ==
    \A m \in members, n \in members' :
      m.id = n.id /\ m # n =>
        /\ n = [m EXCEPT !.role = n.role]
        /\ \E h \in Handlers :
             /\ handlers[h].at = "saveMember"
             /\ <<handlers[h].user, m.org>> \in ownersEver

\* Invitations are sent by those who may manage the organization.
SentByManagers ==
    \A i \in invitations' :
      (\A old \in invitations : old.id # i.id) =>
        \E h \in Handlers :
          /\ handlers[h].at = "invite" /\ handlers[h].org = i.org
          /\ IsOwner(handlers[h].user, i.org) \/ IsAdmin(handlers[h].user)

\* The configured administrator is created on the first start and never again
\* ("a one-time bootstrap seed instead of a value re-created on every startup").
SeededOnce == seeds <= 1

\* While somebody administers the instance, no start creates an administrator,
\* whatever became of the address of the one that was seeded.
SeedsWithoutAdmin ==
    AdminExists => seeds' = seeds

-----------------------------------------------------------------------------
(* TypeOK                                                                  *)

TypeInv == TypeOK /\ seeds <= restarts + 1

\* What a handler has in hand, by where it is.
LEMMA InHand ==
    ASSUME NEW s \in HandlerStates
    PROVE  /\ s.at \in {"idle", "findSlug", "insert", "owner", "invite", "update",
                        "findMember", "saveMember"}
           /\ s.at \in {"findSlug", "insert"} =>
                /\ s = [at |-> s.at, user |-> s.user, slug |-> s.slug]
                /\ s.user \in Users /\ s.slug \in Slugs
           /\ s.at = "owner" =>
                /\ s = [at |-> "owner", user |-> s.user, org |-> s.org]
                /\ s.user \in Users /\ s.org \in OrganizationIds
           /\ s.at = "invite" =>
                s.user \in Users /\ s.org \in OrganizationIds /\ s.email \in Emails
           /\ s.at = "update" => s.next \in OrganizationDocs
           /\ s.at = "findMember" =>
                s.user \in Users /\ s.org \in OrganizationIds /\ s.role \in MemberRoles
           /\ s.at = "saveMember" =>
                s.user \in Users /\ s.org \in OrganizationIds /\ s.next \in MemberDocs
           /\ s.at = "idle" => s = Idle
<1>1. CASE s = Idle
  BY <1>1 DEF Idle
<1>2. CASE s \in [at : {"findSlug", "insert"}, user : Users, slug : Slugs]
  BY <1>2
<1>3. CASE s \in [at : {"owner"}, user : Users, org : OrganizationIds]
  BY <1>3
<1>4. CASE s \in [at : {"invite"}, user : Users, org : OrganizationIds, email : Emails]
  BY <1>4
<1>5. CASE s \in [at : {"update"}, next : OrganizationDocs]
  BY <1>5
<1>6. CASE s \in [at : {"findMember"}, user : Users, org : OrganizationIds,
                  id : 1..MaxMembers, role : MemberRoles]
  BY <1>6
<1>7. CASE s \in [at : {"saveMember"}, user : Users, org : OrganizationIds,
                  next : MemberDocs]
  BY <1>7
<1> QED BY <1>1, <1>2, <1>3, <1>4, <1>5, <1>6, <1>7 DEF HandlerStates

\* The states a handler goes to.
LEMMA States ==
    /\ Idle \in HandlerStates
    /\ \A u \in Users :
         /\ \A at \in {"findSlug", "insert"}, slug \in Slugs :
              [at |-> at, user |-> u, slug |-> slug] \in HandlerStates
         /\ \A o \in OrganizationIds :
              /\ [at |-> "owner", user |-> u, org |-> o] \in HandlerStates
              /\ \A e \in Emails :
                   [at |-> "invite", user |-> u, org |-> o, email |-> e] \in HandlerStates
              /\ \A id \in 1..MaxMembers, role \in MemberRoles :
                   [at |-> "findMember", user |-> u, org |-> o, id |-> id, role |-> role]
                     \in HandlerStates
              /\ \A m \in MemberDocs :
                   [at |-> "saveMember", user |-> u, org |-> o, next |-> m]
                     \in HandlerStates
    /\ \A d \in OrganizationDocs : [at |-> "update", next |-> d] \in HandlerStates
BY DEF HandlerStates

\* The documents' values, and what the handlers change in them.
LEMMA Documents ==
    /\ \A e \in Emails, r \in UserRoles : [email |-> e, role |-> r] \in UserDocs
    /\ \A d \in UserDocs, e \in Emails, r \in UserRoles :
         [d EXCEPT !.role = r] \in UserDocs /\ [d EXCEPT !.email = e] \in UserDocs
    /\ \A d \in OrganizationDocs :
         /\ [d EXCEPT !.named = 1 - @] \in OrganizationDocs
         /\ [d EXCEPT !.named = 1 - @].id = d.id
         /\ [d EXCEPT !.named = 1 - @].slug = d.slug
    /\ \A m \in MemberDocs, r \in MemberRoles :
         /\ [m EXCEPT !.role = r] \in MemberDocs
         /\ [m EXCEPT !.role = r].role = r
         /\ [m EXCEPT !.role = r].id = m.id
         /\ [m EXCEPT !.role = r].user = m.user
         /\ [m EXCEPT !.role = r].org = m.org
<1>1. \A d \in OrganizationDocs :
         [d EXCEPT !.named = 1 - @] = [id |-> d.id, slug |-> d.slug, named |-> 1 - d.named]
  BY DEF OrganizationDocs
<1>2. \A d \in OrganizationDocs :
        d.id \in OrganizationIds /\ d.slug \in Slugs /\ 1 - d.named \in 0..1
  BY DEF OrganizationDocs
<1>3. \A d \in OrganizationDocs :
         /\ [d EXCEPT !.named = 1 - @] \in OrganizationDocs
         /\ [d EXCEPT !.named = 1 - @].id = d.id
         /\ [d EXCEPT !.named = 1 - @].slug = d.slug
  <2> SUFFICES ASSUME NEW d \in OrganizationDocs
               PROVE  /\ [d EXCEPT !.named = 1 - @] \in OrganizationDocs
                      /\ [d EXCEPT !.named = 1 - @].id = d.id
                      /\ [d EXCEPT !.named = 1 - @].slug = d.slug
    OBVIOUS
  <2> DEFINE n == 1 - d.named
  <2>1. d.id \in OrganizationIds /\ d.slug \in Slugs /\ n \in 0..1
    BY <1>2
  <2>2. [d EXCEPT !.named = 1 - @] = [id |-> d.id, slug |-> d.slug, named |-> n]
    BY <1>1
  <2> HIDE DEF n
  <2>3. [id |-> d.id, slug |-> d.slug, named |-> n] \in OrganizationDocs
    BY <2>1 DEF OrganizationDocs
  <2> QED BY <2>2, <2>3
<1> QED BY <1>3 DEF UserDocs, MemberDocs

\* An invitation that is sent, that expires, or that is answered.
LEMMA InvitationDocuments ==
    /\ \A n \in 1..MaxInvitations, e \in Emails, o \in OrganizationIds :
         [id |-> n, email |-> e, org |-> o, role |-> "member", status |-> "pending",
          expired |-> FALSE] \in Invitations
    /\ \A i \in Invitations :
         /\ [i EXCEPT !.expired = TRUE] \in Invitations
         /\ [i EXCEPT !.expired = TRUE].id = i.id
         /\ \A answer \in {"accepted", "declined"} :
              /\ [i EXCEPT !.status = answer] \in Invitations
              /\ [i EXCEPT !.status = answer].id = i.id
BY DEF Invitations, MemberRoles

LEMMA InitTyped ==
    ASSUME OrganizationsAssumption, Init
    PROVE  TypeInv
<1>1. users \in [Users -> UserDocs \cup {None}]
  BY Documents DEF Init, OrganizationsAssumption, UserRoles
<1>2. settings \in Settings
  BY DEF Init, Settings
<1>3. handlers \in [Handlers -> HandlerStates]
  BY States DEF Init
<1>4. issued \in [org : 0..MaxOrganizations, member : 0..MaxMembers,
                  invitation : 0..MaxInvitations]
  BY DEF Init, OrganizationsAssumption
<1> QED BY <1>1, <1>2, <1>3, <1>4 DEF Init, TypeInv, TypeOK, OrganizationsAssumption

\* Each operation writes what the collections hold, and leaves its handler in
\* one of the states.
LEMMA UsersTyped ==
    ASSUME OrganizationsAssumption, TypeInv
    PROVE  /\ \A e \in Emails, r \in UserRoles :
                NewUser(e, r) => users' \in [Users -> UserDocs \cup {None}]
           /\ \A u, v \in Users, r \in UserRoles :
                SetUserRole(u, v, r) => users' \in [Users -> UserDocs \cup {None}]
           /\ \A u \in Users, e \in Emails :
                ChangeEmail(u, e) => users' \in [Users -> UserDocs \cup {None}]
<1>0. users \in [Users -> UserDocs \cup {None}]
  BY DEF TypeInv, TypeOK
<1>1. ASSUME NEW u \in Users, NEW d \in UserDocs, users' = [users EXCEPT ![u] = d]
      PROVE  users' \in [Users -> UserDocs \cup {None}]
  BY <1>0, <1>1
<1>2. ASSUME NEW e \in Emails, NEW r \in UserRoles, NewUser(e, r)
      PROVE  users' \in [Users -> UserDocs \cup {None}]
  <2>1. PICK u \in Users : users' = [users EXCEPT ![u] = [email |-> e, role |-> r]]
    BY <1>2 DEF NewUser
  <2> QED BY <1>1, <2>1, Documents
<1>3. ASSUME NEW u \in Users, NEW v \in Users, NEW r \in UserRoles, SetUserRole(u, v, r)
      PROVE  users' \in [Users -> UserDocs \cup {None}]
  <2>1. users[v] \in UserDocs /\ users' = [users EXCEPT ![v] = [users[v] EXCEPT !.role = r]]
    BY <1>0, <1>3 DEF SetUserRole, Exists
  <2> DEFINE d == [users[v] EXCEPT !.role = r]
  <2>2. d \in UserDocs
    BY <2>1, Documents DEF UserDocs
  <2> QED BY <1>0, <2>1, <2>2
<1>4. ASSUME NEW u \in Users, NEW e \in Emails, ChangeEmail(u, e)
      PROVE  users' \in [Users -> UserDocs \cup {None}]
  <2>1. users[u] \in UserDocs /\ users' = [users EXCEPT ![u] = [users[u] EXCEPT !.email = e]]
    BY <1>0, <1>4 DEF ChangeEmail, Exists
  <2> DEFINE d == [users[u] EXCEPT !.email = e]
  <2>2. d \in UserDocs
    BY <2>1, Documents DEF UserDocs
  <2> QED BY <1>0, <2>1, <2>2
<1> QED BY <1>2, <1>3, <1>4

LEMMA AccountTyped ==
    ASSUME OrganizationsAssumption, TypeInv, AccountRequest \/ Restart
    PROVE  TypeInv'
<1>1. CASE AccountRequest
  <2>1. ASSUME NEW e \in Emails, SignUp(e) PROVE TypeInv'
    BY <2>1, UsersTyped DEF SignUp, TypeInv, TypeOK, UserRoles
  <2>2. ASSUME NEW u \in Users, NEW e \in Emails, CreateUser(u, e) PROVE TypeInv'
    BY <2>2, UsersTyped DEF CreateUser, TypeInv, TypeOK, UserRoles
  <2>3. ASSUME NEW u \in Users, NEW e \in Emails, ChangeEmail(u, e) PROVE TypeInv'
    <3>1. users' \in [Users -> UserDocs \cup {None}]
      BY <2>3, UsersTyped
    <3> QED BY <2>3, <3>1 DEF ChangeEmail, TypeInv, TypeOK
  <2>4. ASSUME NEW u \in Users, NEW v \in Users, NEW r \in UserRoles, SetUserRole(u, v, r)
        PROVE  TypeInv'
    <3>1. users' \in [Users -> UserDocs \cup {None}]
      BY <2>4, UsersTyped
    <3> QED BY <2>4, <3>1 DEF SetUserRole, TypeInv, TypeOK
  <2>5. ASSUME NEW u \in Users, NEW next \in Settings, UpdateSettings(u, next)
        PROVE  TypeInv'
    BY <2>5 DEF UpdateSettings, TypeInv, TypeOK
  <2> QED BY <1>1, <2>1, <2>2, <2>3, <2>4, <2>5 DEF AccountRequest
<1>2. CASE Restart
  <2>1. /\ restarts' = restarts + 1 /\ restarts' \in 0..MaxRestarts
        /\ UNCHANGED <<settings, organizations, members, invitations, ownersEver, issued>>
    BY <1>2 DEF Restart, TypeInv, TypeOK, OrganizationsAssumption
  <2>2. handlers' \in [Handlers -> HandlerStates]
    BY <1>2, States DEF Restart
  <2>3. /\ users' \in [Users -> UserDocs \cup {None}]
        /\ seeds' = seeds \/ seeds' = seeds + 1
    BY <1>2, UsersTyped DEF Restart, EnsureAdminSeeded, TypeInv, TypeOK, UserRoles,
       OrganizationsAssumption
  <2>4. seeds' \in 0..(MaxRestarts + 1) /\ seeds' <= restarts' + 1
    BY <2>1, <2>3 DEF TypeInv, TypeOK, OrganizationsAssumption
  <2> QED BY <2>1, <2>2, <2>3, <2>4 DEF TypeInv, TypeOK
<1> QED BY <1>1, <1>2

LEMMA MembersTyped ==
    ASSUME OrganizationsAssumption, TypeInv
    PROVE  /\ \A u \in Users, o \in OrganizationIds, r \in MemberRoles :
                NewMember(u, o, r) =>
                  /\ issued.member \in Nat /\ issued.member < MaxMembers
                  /\ issued' \in [org : 0..MaxOrganizations, member : 0..MaxMembers,
                                  invitation : 0..MaxInvitations]
                  /\ issued'.member = issued.member + 1
                  /\ issued'.org = issued.org /\ issued'.invitation = issued.invitation
                  /\ members' \subseteq MemberDocs
                  /\ ownersEver' \subseteq Users \X OrganizationIds
           /\ \A m \in MemberDocs :
                SaveMember(m) => /\ members' \subseteq MemberDocs
                                 /\ ownersEver' \subseteq Users \X OrganizationIds
<1>0. /\ members \subseteq MemberDocs /\ ownersEver \subseteq Users \X OrganizationIds
      /\ issued \in [org : 0..MaxOrganizations, member : 0..MaxMembers,
                     invitation : 0..MaxInvitations]
      /\ MaxMembers \in Nat
  BY DEF TypeInv, TypeOK, OrganizationsAssumption
<1>1. \A m \in MemberDocs : Admit(m) => ownersEver' \subseteq Users \X OrganizationIds
  BY <1>0 DEF Admit, MemberDocs
<1>2. ASSUME NEW u \in Users, NEW o \in OrganizationIds, NEW r \in MemberRoles,
             NewMember(u, o, r)
      PROVE  /\ issued.member \in Nat /\ issued.member < MaxMembers
             /\ issued' \in [org : 0..MaxOrganizations, member : 0..MaxMembers,
                             invitation : 0..MaxInvitations]
             /\ issued'.member = issued.member + 1
             /\ issued'.org = issued.org /\ issued'.invitation = issued.invitation
             /\ members' \subseteq MemberDocs
             /\ ownersEver' \subseteq Users \X OrganizationIds
  <2> DEFINE doc == [id |-> issued.member + 1, user |-> u, org |-> o, role |-> r]
  <2>1. /\ issued.member < MaxMembers /\ issued' = [issued EXCEPT !.member = @ + 1]
        /\ members' = members \cup {doc} /\ Admit(doc)
    BY <1>2 DEF NewMember
  <2>2. issued.member + 1 \in 1..MaxMembers
    BY <1>0, <2>1
  <2>3. doc \in MemberDocs
    BY <2>2 DEF MemberDocs
  <2>4. /\ issued.member \in Nat
        /\ issued' \in [org : 0..MaxOrganizations, member : 0..MaxMembers,
                        invitation : 0..MaxInvitations]
        /\ issued'.member = issued.member + 1
        /\ issued'.org = issued.org /\ issued'.invitation = issued.invitation
    BY <1>0, <2>1, <2>2
  <2> HIDE DEF doc
  <2> QED BY <1>0, <1>1, <2>1, <2>3, <2>4
<1>3. ASSUME NEW m \in MemberDocs, SaveMember(m)
      PROVE  /\ members' \subseteq MemberDocs
             /\ ownersEver' \subseteq Users \X OrganizationIds
  BY <1>0, <1>1, <1>3 DEF SaveMember
<1> QED BY <1>2, <1>3

LEMMA MembershipTyped ==
    ASSUME OrganizationsAssumption, TypeInv,
           MembershipRequest \/ \E i \in invitations : Expire(i)
    PROVE  TypeInv'
<1>0. /\ invitations \subseteq Invitations
      /\ \A i \in invitations : i.org \in OrganizationIds /\ i.role \in MemberRoles
  BY DEF TypeInv, TypeOK, Invitations
<1>1. ASSUME NEW u \in Users, NEW i \in invitations, AcceptInvitation(u, i) PROVE TypeInv'
  <2>1. invitations' \subseteq Invitations
    BY <1>0, <1>1, InvitationDocuments DEF AcceptInvitation
  <2>2. NewMember(u, i.org, i.role)
    BY <1>1 DEF AcceptInvitation
  <2>3. /\ members' \subseteq MemberDocs /\ ownersEver' \subseteq Users \X OrganizationIds
        /\ issued' \in [org : 0..MaxOrganizations, member : 0..MaxMembers,
                        invitation : 0..MaxInvitations]
    BY <1>0, <2>2, MembersTyped
  <2> QED BY <1>1, <2>1, <2>3 DEF AcceptInvitation, TypeInv, TypeOK
<1>2. ASSUME NEW u \in Users, NEW i \in invitations, DeclineInvitation(u, i) PROVE TypeInv'
  <2>1. invitations' \subseteq Invitations
    BY <1>0, <1>2, InvitationDocuments DEF DeclineInvitation
  <2> QED BY <1>2, <2>1 DEF DeclineInvitation, TypeInv, TypeOK
<1>3. ASSUME NEW m \in members, RemoveMember(m) PROVE TypeInv'
  BY <1>3 DEF RemoveMember, TypeInv, TypeOK
<1>4. ASSUME NEW i \in invitations, Expire(i) PROVE TypeInv'
  <2>1. invitations' \subseteq Invitations
    BY <1>0, <1>4, InvitationDocuments DEF Expire
  <2> QED BY <1>4, <2>1 DEF Expire, TypeInv, TypeOK
<1> QED BY <1>1, <1>2, <1>3, <1>4 DEF MembershipRequest

\* A handler that goes on without writing.
LEMMA GoesTyped ==
    ASSUME TypeInv, NEW h \in Handlers, NEW s \in HandlerStates, Goto(h, s),
           UNCHANGED <<users, settings, organizations, members, invitations,
                       ownersEver, issued, seeds, restarts>>
    PROVE  TypeInv'
BY DEF TypeInv, TypeOK, Goto

LEMMA RequestTyped ==
    ASSUME OrganizationsAssumption, TypeInv, NEW h \in Handlers, NewRequest(h)
    PROVE  TypeInv'
<1>0. organizations \subseteq OrganizationDocs
  BY DEF TypeInv, TypeOK
<1>1. ASSUME NEW u \in Users, NEW slug \in Slugs, CreateOrganization(h, u, slug)
      PROVE  TypeInv'
  BY <1>1, States, GoesTyped DEF CreateOrganization
<1>2. ASSUME NEW u \in Users, NEW o \in OrganizationIds, UpdateOrganization(h, u, o)
      PROVE  TypeInv'
  <2>1. PICK d \in organizations : Goto(h, [at |-> "update", next |-> [d EXCEPT !.named = 1 - @]])
    BY <1>2 DEF UpdateOrganization, FindOrganization
  <2>2. [d EXCEPT !.named = 1 - @] \in OrganizationDocs
    BY <1>0, Documents
  <2>3. [at |-> "update", next |-> [d EXCEPT !.named = 1 - @]] \in HandlerStates
    BY <2>2, States
  <2> QED BY <1>2, <2>1, <2>3, GoesTyped DEF UpdateOrganization
<1>3. ASSUME NEW u \in Users, NEW o \in OrganizationIds, NEW e \in Emails,
             InviteMember(h, u, o, e)
      PROVE  TypeInv'
  BY <1>3, States, GoesTyped DEF InviteMember
<1>4. ASSUME NEW u \in Users, NEW o \in OrganizationIds, NEW id \in 1..issued.member,
             NEW r \in MemberRoles, UpdateMemberRole(h, u, o, id, r)
      PROVE  TypeInv'
  <2>1. id \in 1..MaxMembers
    <3>1. issued.member \in 0..MaxMembers /\ MaxMembers \in Nat
      BY DEF TypeInv, TypeOK, OrganizationsAssumption
    <3> QED BY <3>1
  <2> QED BY <1>4, <2>1, States, GoesTyped DEF UpdateMemberRole
<1> QED BY <1>1, <1>2, <1>3, <1>4 DEF NewRequest

LEMMA ResumeTyped ==
    ASSUME OrganizationsAssumption, TypeInv, NEW h \in Handlers, Resume(h)
    PROVE  TypeInv'
<1> DEFINE s == handlers[h]
<1>0. /\ s \in HandlerStates /\ handlers \in [Handlers -> HandlerStates]
      /\ organizations \subseteq OrganizationDocs /\ members \subseteq MemberDocs
      /\ invitations \subseteq Invitations
      /\ issued \in [org : 0..MaxOrganizations, member : 0..MaxMembers,
                     invitation : 0..MaxInvitations]
      /\ {MaxOrganizations, MaxMembers, MaxInvitations} \subseteq Nat
  BY DEF TypeInv, TypeOK, OrganizationsAssumption
<1>1. CASE FindSlug(h)
  <2>1. /\ s.at = "findSlug" /\ s.user \in Users /\ s.slug \in Slugs
        /\ s = [at |-> "findSlug", user |-> s.user, slug |-> s.slug]
    BY <1>0, <1>1, InHand DEF FindSlug
  <2>2. [s EXCEPT !.at = "insert"] = [at |-> "insert", user |-> s.user, slug |-> s.slug]
    BY <2>1
  <2>3. [s EXCEPT !.at = "insert"] \in HandlerStates
    BY <2>1, <2>2, States
  <2> HIDE DEF s
  <2>4. Goto(h, [s EXCEPT !.at = "insert"]) \/ Goto(h, Idle)
    BY <1>1 DEF FindSlug, Answer, s
  <2>5. UNCHANGED <<users, settings, organizations, members, invitations,
                    ownersEver, issued, seeds, restarts>>
    BY <1>1 DEF FindSlug
  <2> QED BY <2>3, <2>4, <2>5, States, GoesTyped
<1>2. CASE Insert(h)
  <2> DEFINE o == issued.org + 1
             doc == [id |-> o, slug |-> s.slug, named |-> 0]
  <2>1. /\ s.at = "insert" /\ s.user \in Users /\ s.slug \in Slugs
    BY <1>0, <1>2, InHand DEF Insert
  <2>2. o \in OrganizationIds /\ o \in 0..MaxOrganizations
    BY <1>0, <1>2 DEF Insert, OrganizationIds
  <2>3. /\ organizations' = organizations \cup {doc}
        /\ issued' = [issued EXCEPT !.org = o]
        /\ handlers' = [handlers EXCEPT ![h] = [at |-> "owner", user |-> s.user, org |-> o]]
        /\ UNCHANGED <<users, settings, members, invitations, ownersEver, seeds, restarts>>
    BY <1>2 DEF Insert, InsertOrganization, Goto
  <2> HIDE DEF s, o
  <2>4. doc \in OrganizationDocs
    BY <2>1, <2>2 DEF OrganizationDocs
  <2>5. [at |-> "owner", user |-> s.user, org |-> o] \in HandlerStates
    BY <2>1, <2>2, States
  <2>6. issued' \in [org : 0..MaxOrganizations, member : 0..MaxMembers,
                     invitation : 0..MaxInvitations]
    BY <1>0, <2>2, <2>3
  <2>7. handlers' \in [Handlers -> HandlerStates]
    BY <1>0, <2>3, <2>5
  <2> HIDE DEF doc
  <2> QED BY <1>0, <2>3, <2>4, <2>6, <2>7 DEF TypeInv, TypeOK
<1>3. CASE InsertFails(h)
  BY <1>3, States, GoesTyped DEF InsertFails, Answer
<1>4. CASE AddOwner(h)
  <2>1. s.user \in Users /\ s.org \in OrganizationIds
    BY <1>0, <1>4, InHand DEF AddOwner
  <2>2. NewMember(s.user, s.org, "owner") /\ "owner" \in MemberRoles
    BY <1>4 DEF AddOwner, MemberRoles
  <2>3. /\ members' \subseteq MemberDocs /\ ownersEver' \subseteq Users \X OrganizationIds
        /\ issued' \in [org : 0..MaxOrganizations, member : 0..MaxMembers,
                        invitation : 0..MaxInvitations]
    BY <2>1, <2>2, MembersTyped
  <2>4. handlers' \in [Handlers -> HandlerStates]
    BY <1>0, <1>4, States DEF AddOwner, Answer, Goto
  <2> QED BY <1>4, <2>3, <2>4 DEF AddOwner, TypeInv, TypeOK
<1>5. CASE SaveOrganization(h)
  <2>1. s.next \in OrganizationDocs
    BY <1>0, <1>5, InHand DEF SaveOrganization
  <2>2. organizations' \subseteq OrganizationDocs
    BY <1>0, <1>5, <2>1 DEF SaveOrganization
  <2>3. handlers' \in [Handlers -> HandlerStates]
    BY <1>0, <1>5, States DEF SaveOrganization, Answer, Goto
  <2> QED BY <1>5, <2>2, <2>3 DEF SaveOrganization, TypeInv, TypeOK
<1>6. CASE SaveInvitation(h)
  <2> DEFINE n == issued.invitation + 1
             doc == [id |-> n, email |-> s.email, org |-> s.org, role |-> "member",
                     status |-> "pending", expired |-> FALSE]
  <2>1. s.org \in OrganizationIds /\ s.email \in Emails
    BY <1>0, <1>6, InHand DEF SaveInvitation
  <2>2. n \in 1..MaxInvitations
    BY <1>0, <1>6 DEF SaveInvitation
  <2>3. handlers' \in [Handlers -> HandlerStates]
    BY <1>0, <1>6, States DEF SaveInvitation, Answer, Goto
  <2>4. /\ \/ UNCHANGED <<invitations, issued>>
           \/ /\ invitations' = invitations \cup {doc}
              /\ issued' = [issued EXCEPT !.invitation = n]
        /\ UNCHANGED <<users, settings, organizations, members, ownersEver, seeds, restarts>>
    BY <1>6 DEF SaveInvitation
  <2> HIDE DEF s, n
  <2>5. doc \in Invitations
    BY <2>1, <2>2, InvitationDocuments
  <2> HIDE DEF doc
  <2>6. invitations' \subseteq Invitations
    BY <1>0, <2>4, <2>5
  <2>7. issued' \in [org : 0..MaxOrganizations, member : 0..MaxMembers,
                     invitation : 0..MaxInvitations]
    BY <1>0, <2>2, <2>4
  <2> QED BY <2>3, <2>4, <2>6, <2>7 DEF TypeInv, TypeOK
<1>7. CASE FindMember(h)
  <2>1. s.user \in Users /\ s.org \in OrganizationIds /\ s.role \in MemberRoles
    BY <1>0, <1>7, InHand DEF FindMember
  <2>2. ASSUME NEW m \in members,
               Goto(h, [at |-> "saveMember", user |-> s.user, org |-> s.org,
                        next |-> [m EXCEPT !.role = s.role]])
        PROVE  TypeInv'
    <3>1. [m EXCEPT !.role = s.role] \in MemberDocs
      BY <1>0, <2>1, Documents
    <3>2. [at |-> "saveMember", user |-> s.user, org |-> s.org,
           next |-> [m EXCEPT !.role = s.role]] \in HandlerStates
      BY <2>1, <3>1, States
    <3> QED BY <1>7, <2>2, <3>2, GoesTyped DEF FindMember
  <2>3. ASSUME Answer(h) PROVE TypeInv'
    BY <1>7, <2>3, States, GoesTyped DEF FindMember, Answer
  <2> QED BY <1>7, <2>2, <2>3 DEF FindMember, FindOneOfOrganization
<1>8. CASE SaveRole(h)
  <2>1. s.next \in MemberDocs
    BY <1>0, <1>8, InHand DEF SaveRole
  <2>2. SaveMember(s.next)
    BY <1>8 DEF SaveRole
  <2>3. members' \subseteq MemberDocs /\ ownersEver' \subseteq Users \X OrganizationIds
    BY <2>1, <2>2, MembersTyped
  <2>4. handlers' \in [Handlers -> HandlerStates]
    BY <1>0, <1>8, States DEF SaveRole, Answer, Goto
  <2> QED BY <1>8, <2>3, <2>4 DEF SaveRole, TypeInv, TypeOK
<1> QED BY <1>1, <1>2, <1>3, <1>4, <1>5, <1>6, <1>7, <1>8 DEF Resume

LEMMA TypeStep ==
    ASSUME OrganizationsAssumption, TypeInv, [Next]_vars
    PROVE  TypeInv'
<1>1. CASE UNCHANGED vars
  BY <1>1 DEF vars, TypeInv, TypeOK
<1>2. ASSUME NEW h \in Handlers, NewRequest(h) PROVE TypeInv'
  BY <1>2, RequestTyped
<1>3. ASSUME NEW h \in Handlers, Resume(h) PROVE TypeInv'
  BY <1>3, ResumeTyped
<1>4. CASE AccountRequest \/ Restart
  BY <1>4, AccountTyped
<1>5. CASE MembershipRequest \/ \E i \in invitations : Expire(i)
  BY <1>5, MembershipTyped
<1> QED BY <1>1, <1>2, <1>3, <1>4, <1>5 DEF Next

\* Documents and what handlers have in hand keep their forms, through every
\* interleaving and restart (organizations.service.ts, members.service.ts).
THEOREM TypeCorrect ==
    ASSUME OrganizationsAssumption
    PROVE  Spec => []TypeOK
<1>1. Init => TypeInv
  BY InitTyped
<1>2. TypeInv /\ [Next]_vars => TypeInv'
  BY TypeStep
<1>3. TypeInv => TypeOK
  BY DEF TypeInv
<1> QED BY <1>1, <1>2, <1>3, PTL DEF Spec

-----------------------------------------------------------------------------
(* SlugsAreUnique                                                          *)

\* An organization that is about to be saved has the identifier and the slug
\* of one that exists.
RenamesOne(s) ==
    s.at = "update" =>
        \E d \in organizations : d.id = s.next.id /\ d.slug = s.next.slug

SlugInv ==
    /\ \A d \in organizations : d.id <= issued.org
    /\ \A c, d \in organizations : c.id = d.id \/ c.slug = d.slug => c = d
    /\ \A h \in Handlers : RenamesOne(handlers[h])

\* Steps that leave the organizations alone.
LEMMA SlugSteps ==
    ASSUME TypeInv, SlugInv, organizations' = organizations, issued'.org = issued.org,
           \A h \in Handlers : handlers'[h] = handlers[h] \/ handlers'[h].at # "update"
    PROVE  SlugInv'
BY DEF SlugInv, RenamesOne

LEMMA SlugRequests ==
    ASSUME TypeInv, SlugInv, NEW h \in Handlers, NewRequest(h)
    PROVE  SlugInv'
<1>0. handlers \in [Handlers -> HandlerStates] /\ organizations \subseteq OrganizationDocs
  BY DEF TypeInv, TypeOK
<1>1. ASSUME NEW u \in Users, NEW slug \in Slugs, CreateOrganization(h, u, slug)
      PROVE  SlugInv'
  BY <1>0, <1>1, SlugSteps DEF CreateOrganization, Goto
<1>2. ASSUME NEW u \in Users, NEW o \in OrganizationIds, UpdateOrganization(h, u, o)
      PROVE  SlugInv'
  <2>1. PICK d \in organizations : Goto(h, [at |-> "update", next |-> [d EXCEPT !.named = 1 - @]])
    BY <1>2 DEF UpdateOrganization, FindOrganization
  <2> DEFINE n == [d EXCEPT !.named = 1 - @]
  <2>2. n.id = d.id /\ n.slug = d.slug
    BY <1>0, Documents
  <2> HIDE DEF n
  <2>3. handlers' = [handlers EXCEPT ![h] = [at |-> "update", next |-> n]]
    BY <2>1 DEF Goto, n
  <2>4. \A g \in Handlers : handlers'[g] = IF g = h THEN [at |-> "update", next |-> n]
                                          ELSE handlers[g]
    BY <1>0, <2>3
  <2>5. organizations' = organizations /\ issued' = issued
    BY <1>2 DEF UpdateOrganization
  <2> QED BY <2>2, <2>4, <2>5 DEF SlugInv, RenamesOne
<1>3. ASSUME NEW u \in Users, NEW o \in OrganizationIds, NEW e \in Emails,
             InviteMember(h, u, o, e)
      PROVE  SlugInv'
  BY <1>0, <1>3, SlugSteps DEF InviteMember, Goto
<1>4. ASSUME NEW u \in Users, NEW o \in OrganizationIds, NEW id \in 1..issued.member,
             NEW r \in MemberRoles, UpdateMemberRole(h, u, o, id, r)
      PROVE  SlugInv'
  BY <1>0, <1>4, SlugSteps DEF UpdateMemberRole, Goto
<1> QED BY <1>1, <1>2, <1>3, <1>4 DEF NewRequest

LEMMA SlugResumes ==
    ASSUME OrganizationsAssumption, TypeInv, SlugInv, NEW h \in Handlers, Resume(h)
    PROVE  SlugInv'
<1> DEFINE s == handlers[h]
<1>0. /\ s \in HandlerStates /\ handlers \in [Handlers -> HandlerStates]
      /\ organizations \subseteq OrganizationDocs
      /\ issued \in [org : 0..MaxOrganizations, member : 0..MaxMembers,
                     invitation : 0..MaxInvitations]
      /\ {MaxOrganizations, MaxMembers, MaxInvitations} \subseteq Nat
      /\ Idle.at = "idle"
  BY DEF TypeInv, TypeOK, OrganizationsAssumption, Idle
<1>1. CASE FindSlug(h)
  <2>1. s = [at |-> "findSlug", user |-> s.user, slug |-> s.slug]
    BY <1>0, <1>1, InHand DEF FindSlug
  <2>2. [s EXCEPT !.at = "insert"].at = "insert"
    BY <2>1
  <2> HIDE DEF s
  <2>3. Goto(h, [s EXCEPT !.at = "insert"]) \/ Goto(h, Idle)
    BY <1>1 DEF FindSlug, Answer, s
  <2>4. \A g \in Handlers : handlers'[g] = handlers[g] \/ handlers'[g].at # "update"
    BY <1>0, <2>2, <2>3 DEF Goto
  <2> QED BY <1>1, <2>4, SlugSteps DEF FindSlug
<1>2. CASE Insert(h)
  <2> DEFINE o == issued.org + 1
             doc == [id |-> o, slug |-> s.slug, named |-> 0]
             t == [at |-> "owner", user |-> s.user, org |-> o]
  <2>1. /\ FindBySlug(s.slug) = {} /\ organizations' = organizations \cup {doc}
        /\ issued' = [issued EXCEPT !.org = o]
        /\ handlers' = [handlers EXCEPT ![h] = t]
    BY <1>2 DEF Insert, InsertOrganization, Goto
  <2>2. \A g \in Handlers : handlers'[g] = handlers[g] \/ handlers'[g].at = "owner"
    BY <1>0, <2>1
  <2>3. issued'.org = issued.org + 1 /\ issued.org \in Nat
    BY <1>0, <2>1
  <2>4. /\ \A d \in organizations : d.id \in Nat /\ d.id <= issued.org /\ d.slug # s.slug
        /\ doc.id = issued.org + 1 /\ doc.slug = s.slug
    BY <1>0, <2>1 DEF SlugInv, FindBySlug, OrganizationDocs, OrganizationIds
  <2> HIDE DEF doc, s
  <2>5. \A d \in organizations' : d.id <= issued'.org
    BY <2>1, <2>3, <2>4
  <2>6. \A c, d \in organizations' : c.id = d.id \/ c.slug = d.slug => c = d
    BY <2>1, <2>3, <2>4 DEF SlugInv
  <2>7. \A g \in Handlers : RenamesOne(handlers[g])'
    BY <2>1, <2>2 DEF SlugInv, RenamesOne
  <2> QED BY <2>5, <2>6, <2>7 DEF SlugInv
<1>3. CASE InsertFails(h)
  BY <1>0, <1>3, SlugSteps DEF InsertFails, Answer, Goto
<1>4. CASE AddOwner(h)
  <2>1. issued'.org = issued.org
    BY <1>0, <1>4 DEF AddOwner, NewMember
  <2> QED BY <1>0, <1>4, <2>1, SlugSteps DEF AddOwner, Answer, Goto
<1>5. CASE SaveOrganization(h)
  <2>1. PICK e \in organizations : e.id = s.next.id /\ e.slug = s.next.slug
    BY <1>5 DEF SaveOrganization, SlugInv, RenamesOne
  <2>2. \A g \in Handlers : handlers'[g] = handlers[g] \/ handlers'[g].at # "update"
    BY <1>0, <1>5 DEF SaveOrganization, Answer, Goto
  <2>3. CASE organizations' = organizations
    BY <1>5, <2>2, <2>3, SlugSteps DEF SaveOrganization
  <2>4. CASE organizations' = {d \in organizations : d.id # s.next.id} \cup {s.next}
    <3> DEFINE next == s.next
    <3>1. /\ organizations' = {d \in organizations : d.id # next.id} \cup {next}
          /\ e.id = next.id /\ e.slug = next.slug /\ issued' = issued
      BY <1>5, <2>1, <2>4 DEF SaveOrganization
    <3> HIDE DEF next
    <3>2. \A d \in organizations' : d.id <= issued'.org
      BY <3>1 DEF SlugInv
    <3>3. \A d \in organizations : d.slug = next.slug => d.id = next.id
      BY <3>1 DEF SlugInv
    <3>4. \A c, d \in organizations' : c.id = d.id \/ c.slug = d.slug => c = d
      BY <3>1, <3>3 DEF SlugInv
    <3>5. \A d \in organizations : \E n \in organizations' : n.id = d.id /\ n.slug = d.slug
      BY <3>1 DEF SlugInv
    <3>6. \A g \in Handlers : RenamesOne(handlers[g])'
      BY <2>2, <3>5 DEF SlugInv, RenamesOne
    <3> QED BY <3>2, <3>4, <3>6 DEF SlugInv
  <2> QED BY <1>5, <2>3, <2>4 DEF SaveOrganization
<1>6. CASE SaveInvitation(h)
  <2>1. issued'.org = issued.org
    BY <1>0, <1>6 DEF SaveInvitation
  <2> QED BY <1>0, <1>6, <2>1, SlugSteps DEF SaveInvitation, Answer, Goto
<1>7. CASE FindMember(h)
  <2>1. \E t : handlers' = [handlers EXCEPT ![h] = t] /\ t.at \in {"idle", "saveMember"}
    <3>1. CASE Answer(h)
      BY <1>0, <3>1 DEF Answer, Goto
    <3>2. ASSUME NEW m,
                 Goto(h, [at |-> "saveMember", user |-> s.user, org |-> s.org,
                          next |-> [m EXCEPT !.role = s.role]])
          PROVE  \E t : handlers' = [handlers EXCEPT ![h] = t] /\ t.at \in {"idle", "saveMember"}
      <4> DEFINE n == [m EXCEPT !.role = s.role]
                 u == s.user
                 o == s.org
      <4>1. handlers' = [handlers EXCEPT ![h] = [at |-> "saveMember", user |-> u,
                                                  org |-> o, next |-> n]]
        BY <3>2 DEF Goto
      <4> HIDE DEF n, u, o
      <4>2. [at |-> "saveMember", user |-> u, org |-> o, next |-> n].at = "saveMember"
        OBVIOUS
      <4> QED BY <4>1, <4>2
    <3> QED BY <1>7, <3>1, <3>2 DEF FindMember
  <2> QED BY <1>0, <1>7, <2>1, SlugSteps DEF FindMember
<1>8. CASE SaveRole(h)
  BY <1>0, <1>8, SlugSteps DEF SaveRole, Answer, Goto
<1> QED BY <1>1, <1>2, <1>3, <1>4, <1>5, <1>6, <1>7, <1>8 DEF Resume

LEMMA SlugOthers ==
    ASSUME OrganizationsAssumption, TypeInv, SlugInv,
           AccountRequest \/ MembershipRequest \/ Restart \/ \E i \in invitations : Expire(i)
    PROVE  SlugInv'
<1>0. /\ issued \in [org : 0..MaxOrganizations, member : 0..MaxMembers,
                     invitation : 0..MaxInvitations]
      /\ Idle.at = "idle"
  BY DEF TypeInv, TypeOK, Idle
<1>1. CASE AccountRequest
  BY <1>1, SlugSteps DEF AccountRequest, SignUp, CreateUser, ChangeEmail, SetUserRole,
     UpdateSettings
<1>2. CASE MembershipRequest
  <2>1. ASSUME NEW u \in Users, NEW i \in invitations, AcceptInvitation(u, i)
        PROVE  SlugInv'
    <3>1. issued'.org = issued.org
      BY <1>0, <2>1 DEF AcceptInvitation, NewMember
    <3> QED BY <2>1, <3>1, SlugSteps DEF AcceptInvitation
  <2>2. ASSUME NEW u \in Users, NEW i \in invitations, DeclineInvitation(u, i)
        PROVE  SlugInv'
    BY <2>2, SlugSteps DEF DeclineInvitation
  <2>3. ASSUME NEW m \in members, RemoveMember(m) PROVE SlugInv'
    BY <2>3, SlugSteps DEF RemoveMember
  <2> QED BY <1>2, <2>1, <2>2, <2>3 DEF MembershipRequest
<1>3. CASE Restart
  BY <1>0, <1>3, SlugSteps DEF Restart
<1>4. ASSUME NEW i \in invitations, Expire(i) PROVE SlugInv'
  BY <1>4, SlugSteps DEF Expire
<1> QED BY <1>1, <1>2, <1>3, <1>4

\* However the creations of organizations are interleaved between look-up and
\* insertion, and whatever is renamed in between, no two organizations share a
\* slug (createOrganization, the unique index of organization.schema.ts).
THEOREM NoSlugTwice ==
    ASSUME OrganizationsAssumption
    PROVE  Spec => []SlugsAreUnique
<1>1. Init => TypeInv /\ SlugInv
  <2>1. Init => SlugInv
    BY DEF Init, SlugInv, RenamesOne, Idle
  <2> QED BY <2>1, InitTyped
<1>2. TypeInv /\ SlugInv /\ [Next]_vars => TypeInv' /\ SlugInv'
  <2> SUFFICES ASSUME TypeInv, SlugInv, [Next]_vars PROVE SlugInv'
    BY TypeStep
  <2>1. CASE UNCHANGED vars
    BY <2>1, SlugSteps DEF vars
  <2> QED BY <2>1, SlugRequests, SlugResumes, SlugOthers DEF Next
<1>3. SlugInv => SlugsAreUnique
  BY DEF SlugInv, SlugsAreUnique
<1> QED BY <1>1, <1>2, <1>3, PTL DEF Spec

-----------------------------------------------------------------------------
(* ChangesByOwners                                                         *)

\* Two states of the same member.
SameMember(m, n) == m.id = n.id => m.user = n.user /\ m.org = n.org

\* Whoever changes a role has been an owner, and the member in hand is of the
\* organization the request names.
ChangesAsOwner(s) ==
    /\ s.at \in {"findMember", "saveMember"} => <<s.user, s.org>> \in ownersEver
    /\ s.at = "saveMember" => s.next.org = s.org

MemberInv ==
    /\ \A m \in members : m.id <= issued.member
    /\ \A m, n \in members : m.id = n.id => m = n
    /\ \A m \in members : m.role = "owner" => <<m.user, m.org>> \in ownersEver
    /\ \A h \in Handlers : ChangesAsOwner(handlers[h])
    /\ \A h \in Handlers : handlers[h].at = "saveMember" =>
         /\ handlers[h].next.id <= issued.member
         /\ \A m \in members : SameMember(m, handlers[h].next)
         /\ \A g \in Handlers : handlers[g].at = "saveMember" =>
              SameMember(handlers[g].next, handlers[h].next)

\* Steps that add no member, change no role, and put none in a handler's hand.
LEMMA MemberSteps ==
    ASSUME MemberInv, members' \subseteq members, issued'.member = issued.member,
           ownersEver' = ownersEver,
           \A h \in Handlers : \/ handlers'[h] = handlers[h]
                               \/ handlers'[h].at \notin {"findMember", "saveMember"}
    PROVE  MemberInv' /\ ChangesByOwners
<1>1. \A h \in Handlers : ChangesAsOwner(handlers[h])'
  BY DEF MemberInv, ChangesAsOwner
<1>2. \A h \in Handlers : handlers'[h].at = "saveMember" =>
         /\ handlers[h] = handlers'[h]
         /\ handlers'[h].next.id <= issued.member
         /\ \A m \in members : SameMember(m, handlers'[h].next)
         /\ \A g \in Handlers : handlers[g].at = "saveMember" =>
              SameMember(handlers[g].next, handlers'[h].next)
  BY DEF MemberInv
<1>3. \A h \in Handlers : handlers'[h].at = "saveMember" =>
         /\ handlers'[h].next.id <= issued'.member
         /\ \A m \in members' : SameMember(m, handlers'[h].next)
         /\ \A g \in Handlers : handlers'[g].at = "saveMember" =>
              SameMember(handlers'[g].next, handlers'[h].next)
  BY <1>2
<1>4. /\ \A m \in members' : m.id <= issued'.member
      /\ \A m, n \in members' : m.id = n.id => m = n
      /\ \A m \in members' : m.role = "owner" => <<m.user, m.org>> \in ownersEver'
  BY DEF MemberInv
<1>5. ChangesByOwners
  BY DEF MemberInv, ChangesByOwners
<1> QED BY <1>1, <1>3, <1>4, <1>5 DEF MemberInv, SameMember

\* A member is added: a founder, or somebody who was invited.
LEMMA MemberAdded ==
    ASSUME OrganizationsAssumption, TypeInv, MemberInv,
           NEW u \in Users, NEW o \in OrganizationIds, NEW r \in MemberRoles,
           NewMember(u, o, r),
           \A h \in Handlers : handlers'[h] = handlers[h] \/ handlers'[h].at = "idle"
    PROVE  MemberInv' /\ ChangesByOwners
<1> DEFINE doc == [id |-> issued.member + 1, user |-> u, org |-> o, role |-> r]
<1>0. /\ members \subseteq MemberDocs
      /\ \A h \in Handlers : handlers[h].at = "saveMember" => handlers[h].next \in MemberDocs
      /\ \A m \in MemberDocs : m.id \in Nat
  BY InHand DEF TypeInv, TypeOK, MemberDocs
<1>1. issued.member \in Nat /\ issued'.member = issued.member + 1
  BY MembersTyped
<1>2. members' = members \cup {doc} /\ Admit(doc)
  BY DEF NewMember
<1>3. doc.id = issued.member + 1 /\ doc.user = u /\ doc.org = o /\ doc.role = r
  OBVIOUS
<1> HIDE DEF doc
<1>4. /\ ownersEver \subseteq ownersEver'
      /\ doc.role = "owner" => <<doc.user, doc.org>> \in ownersEver'
  BY <1>2 DEF Admit
<1>5. /\ \A m \in members : m.id \in Nat /\ m.id <= issued.member /\ m.id # doc.id
      /\ \A h \in Handlers : handlers[h].at = "saveMember" =>
           /\ handlers[h].next.id \in Nat /\ handlers[h].next.id <= issued.member
           /\ handlers[h].next.id # doc.id
  BY <1>0, <1>1, <1>3 DEF MemberInv
<1>6. /\ \A m \in members' : m.id <= issued'.member
      /\ \A m, n \in members' : m.id = n.id => m = n
  BY <1>1, <1>2, <1>3, <1>5 DEF MemberInv
<1>7. \A m \in members' : m.role = "owner" => <<m.user, m.org>> \in ownersEver'
  BY <1>2, <1>4 DEF MemberInv
<1>8. \A h \in Handlers : ChangesAsOwner(handlers[h])'
  BY <1>4 DEF MemberInv, ChangesAsOwner
<1>9. \A h \in Handlers : handlers'[h].at = "saveMember" =>
        /\ handlers'[h].next.id <= issued'.member
        /\ \A m \in members' : SameMember(m, handlers'[h].next)
        /\ \A g \in Handlers : handlers'[g].at = "saveMember" =>
             SameMember(handlers'[g].next, handlers'[h].next)
  BY <1>1, <1>2, <1>5 DEF MemberInv, SameMember
<1>10. ChangesByOwners
  BY <1>2, <1>5 DEF MemberInv, ChangesByOwners
<1> QED BY <1>6, <1>7, <1>8, <1>9, <1>10 DEF MemberInv, SameMember

\* A role is saved over the member, or brings back one that has left.
LEMMA RoleSaved ==
    ASSUME TypeInv, MemberInv, NEW h \in Handlers, SaveRole(h)
    PROVE  MemberInv' /\ ChangesByOwners
<1> DEFINE next == handlers[h].next
<1>0. /\ handlers[h].at = "saveMember" /\ next \in MemberDocs
      /\ members' = {m \in members : m.id # next.id} \cup {next}
      /\ Admit(next) /\ issued' = issued
      /\ \A g \in Handlers : handlers'[g] = handlers[g] \/ handlers'[g].at = "idle"
      /\ members \subseteq MemberDocs
  BY InHand DEF SaveRole, SaveMember, Answer, Goto, Idle, TypeInv, TypeOK
<1>1. /\ next.id <= issued.member
      /\ \A m \in members : SameMember(m, next)
      /\ \A g \in Handlers : handlers[g].at = "saveMember" =>
           SameMember(handlers[g].next, next) /\ SameMember(next, handlers[g].next)
      /\ <<handlers[h].user, next.org>> \in ownersEver
  BY <1>0 DEF MemberInv, ChangesAsOwner
<1> HIDE DEF next
<1>2. /\ ownersEver \subseteq ownersEver'
      /\ next.role = "owner" => <<next.user, next.org>> \in ownersEver'
  BY <1>0 DEF Admit
<1>3. /\ \A m \in members' : m.id <= issued'.member
      /\ \A m, n \in members' : m.id = n.id => m = n
  BY <1>0, <1>1 DEF MemberInv
<1>4. \A m \in members' : m.role = "owner" => <<m.user, m.org>> \in ownersEver'
  BY <1>0, <1>2 DEF MemberInv
<1>5. \A g \in Handlers : ChangesAsOwner(handlers[g])'
  BY <1>0, <1>2 DEF MemberInv, ChangesAsOwner
<1>6. \A g \in Handlers : handlers'[g].at = "saveMember" =>
        /\ handlers'[g].next.id <= issued'.member
        /\ \A m \in members' : SameMember(m, handlers'[g].next)
        /\ \A f \in Handlers : handlers'[f].at = "saveMember" =>
             SameMember(handlers'[f].next, handlers'[g].next)
  BY <1>0, <1>1 DEF MemberInv
<1>7. ASSUME NEW m \in members, NEW n \in members', m.id = n.id, m # n
      PROVE  /\ n = [m EXCEPT !.role = n.role]
             /\ \E g \in Handlers : /\ handlers[g].at = "saveMember"
                                   /\ <<handlers[g].user, m.org>> \in ownersEver
  <2>1. n = next
    BY <1>0, <1>7 DEF MemberInv
  <2>2. m.user = next.user /\ m.org = next.org
    BY <1>1, <1>7, <2>1 DEF SameMember
  <2>3. n = [m EXCEPT !.role = n.role]
    BY <1>0, <1>7, <2>1, <2>2 DEF MemberDocs
  <2> QED BY <1>0, <1>1, <2>2, <2>3
<1>8. MemberInv'
  BY <1>3, <1>4, <1>5, <1>6 DEF MemberInv, SameMember
<1>9. ChangesByOwners
  BY <1>7 DEF ChangesByOwners
<1> QED BY <1>8, <1>9

\* The member whose role is to be changed is found in the organization.
LEMMA RoleFound ==
    ASSUME TypeInv, MemberInv, NEW h \in Handlers, FindMember(h)
    PROVE  MemberInv' /\ ChangesByOwners
<1> DEFINE s == handlers[h]
<1>0. /\ s.at = "findMember" /\ s.role \in MemberRoles
      /\ handlers \in [Handlers -> HandlerStates] /\ members \subseteq MemberDocs
      /\ <<s.user, s.org>> \in ownersEver
      /\ UNCHANGED <<members, ownersEver, issued>>
  BY InHand DEF FindMember, TypeInv, TypeOK, MemberInv, ChangesAsOwner
<1>1. CASE Answer(h)
  BY <1>0, <1>1, MemberSteps DEF Answer, Goto, Idle
<1>2. CASE ~Answer(h)
  <2>1. PICK m \in members :
          /\ m.org = s.org
          /\ Goto(h, [at |-> "saveMember", user |-> s.user, org |-> s.org,
                      next |-> [m EXCEPT !.role = s.role]])
    BY <1>2 DEF FindMember, FindOneOfOrganization
  <2> DEFINE next == [m EXCEPT !.role = s.role]
             t == [at |-> "saveMember", user |-> s.user, org |-> s.org, next |-> next]
  <2>2. next.id = m.id /\ next.user = m.user /\ next.org = m.org
    BY <1>0, Documents
  <2>3. handlers' = [handlers EXCEPT ![h] = t]
    BY <2>1 DEF Goto
  <2>4. t.at = "saveMember" /\ t.user = s.user /\ t.org = s.org /\ t.next = next
    OBVIOUS
  <2> HIDE DEF s, next, t
  <2>5. handlers'[h] = t /\ \A g \in Handlers \ {h} : handlers'[g] = handlers[g]
    BY <1>0, <2>3
  <2>6. ChangesAsOwner(t)
    BY <1>0, <2>1, <2>2, <2>4 DEF ChangesAsOwner
  <2>7. /\ next.id <= issued.member
        /\ \A n \in members : SameMember(n, next) /\ SameMember(next, n)
    BY <2>2 DEF MemberInv, SameMember
  <2>8. \A g \in Handlers : handlers[g].at = "saveMember" =>
          SameMember(handlers[g].next, next) /\ SameMember(next, handlers[g].next)
    <3> SUFFICES ASSUME NEW g \in Handlers, handlers[g].at = "saveMember"
                 PROVE  SameMember(m, handlers[g].next)
      BY <2>2 DEF SameMember
    <3> QED BY DEF MemberInv
  <2>9. SameMember(next, next)
    BY DEF SameMember
  <2>10. \A g \in Handlers : handlers'[g].at = "saveMember" =>
           /\ handlers'[g].next.id <= issued'.member
           /\ \A n \in members' : SameMember(n, handlers'[g].next)
           /\ \A f \in Handlers : handlers'[f].at = "saveMember" =>
                SameMember(handlers'[f].next, handlers'[g].next)
    <3> SUFFICES ASSUME NEW g \in Handlers, handlers'[g].at = "saveMember"
                 PROVE  /\ handlers'[g].next.id <= issued.member
                        /\ \A n \in members : SameMember(n, handlers'[g].next)
                        /\ \A f \in Handlers : handlers'[f].at = "saveMember" =>
                             SameMember(handlers'[f].next, handlers'[g].next)
      BY <1>0
    <3>1. CASE g = h
      BY <2>4, <2>5, <2>7, <2>8, <2>9, <3>1
    <3>2. CASE g # h
      BY <2>4, <2>5, <2>8, <3>2 DEF MemberInv
    <3> QED BY <3>1, <3>2
  <2>11. \A g \in Handlers : ChangesAsOwner(handlers'[g])
    BY <2>5, <2>6 DEF MemberInv
  <2>12. ChangesByOwners
    BY <1>0 DEF MemberInv, ChangesByOwners
  <2> QED BY <1>0, <2>10, <2>11, <2>12 DEF MemberInv, SameMember, ChangesAsOwner
<1> QED BY <1>1, <1>2

LEMMA MemberRequests ==
    ASSUME TypeInv, MemberInv, NEW h \in Handlers, NewRequest(h)
    PROVE  MemberInv' /\ ChangesByOwners
<1>0. handlers \in [Handlers -> HandlerStates]
  BY DEF TypeInv, TypeOK
<1>1. ASSUME NEW u \in Users, NEW slug \in Slugs, CreateOrganization(h, u, slug)
      PROVE  MemberInv' /\ ChangesByOwners
  BY <1>0, <1>1, MemberSteps DEF CreateOrganization, Goto
<1>2. ASSUME NEW u \in Users, NEW o \in OrganizationIds, UpdateOrganization(h, u, o)
      PROVE  MemberInv' /\ ChangesByOwners
  <2>1. PICK n : Goto(h, [at |-> "update", next |-> n])
    BY <1>2 DEF UpdateOrganization
  <2> QED BY <1>0, <1>2, <2>1, MemberSteps DEF UpdateOrganization, Goto
<1>3. ASSUME NEW u \in Users, NEW o \in OrganizationIds, NEW e \in Emails,
             InviteMember(h, u, o, e)
      PROVE  MemberInv' /\ ChangesByOwners
  BY <1>0, <1>3, MemberSteps DEF InviteMember, Goto
<1>4. ASSUME NEW u \in Users, NEW o \in OrganizationIds, NEW id \in 1..issued.member,
             NEW r \in MemberRoles, UpdateMemberRole(h, u, o, id, r)
      PROVE  MemberInv' /\ ChangesByOwners
  <2> DEFINE t == [at |-> "findMember", user |-> u, org |-> o, id |-> id, role |-> r]
  <2>1. <<u, o>> \in ownersEver
    BY <1>4 DEF UpdateMemberRole, CanActivate, FindMembers, MemberInv
  <2>2. handlers' = [handlers EXCEPT ![h] = t] /\ UNCHANGED <<members, ownersEver, issued>>
    BY <1>4 DEF UpdateMemberRole, Goto
  <2>3. ChangesAsOwner(t) /\ t.at = "findMember"
    BY <2>1 DEF ChangesAsOwner
  <2> HIDE DEF t
  <2>4. /\ \A g \in Handlers : ChangesAsOwner(handlers'[g])
        /\ \A g \in Handlers : handlers'[g].at = "saveMember" => handlers'[g] = handlers[g]
    BY <1>0, <2>2, <2>3 DEF MemberInv
  <2>5. ChangesByOwners
    BY <2>2 DEF MemberInv, ChangesByOwners
  <2> QED BY <2>2, <2>4, <2>5 DEF MemberInv, SameMember, ChangesAsOwner
<1> QED BY <1>1, <1>2, <1>3, <1>4 DEF NewRequest

LEMMA MemberResumes ==
    ASSUME OrganizationsAssumption, TypeInv, MemberInv, NEW h \in Handlers, Resume(h)
    PROVE  MemberInv' /\ ChangesByOwners
<1> DEFINE s == handlers[h]
<1>0. /\ s \in HandlerStates /\ handlers \in [Handlers -> HandlerStates]
      /\ issued \in [org : 0..MaxOrganizations, member : 0..MaxMembers,
                     invitation : 0..MaxInvitations]
      /\ Idle.at = "idle"
  BY DEF TypeInv, TypeOK, Idle
<1>1. CASE FindSlug(h)
  <2>1. s = [at |-> "findSlug", user |-> s.user, slug |-> s.slug]
    BY <1>0, <1>1, InHand DEF FindSlug
  <2>2. [s EXCEPT !.at = "insert"].at = "insert"
    BY <2>1
  <2> HIDE DEF s
  <2>3. Goto(h, [s EXCEPT !.at = "insert"]) \/ Goto(h, Idle)
    BY <1>1 DEF FindSlug, Answer, s
  <2>4. \A g \in Handlers : \/ handlers'[g] = handlers[g]
                            \/ handlers'[g].at \notin {"findMember", "saveMember"}
    BY <1>0, <2>2, <2>3 DEF Goto
  <2> QED BY <1>1, <2>4, MemberSteps DEF FindSlug
<1>2. CASE Insert(h)
  <2>1. /\ issued'.member = issued.member
        /\ handlers' = [handlers EXCEPT ![h] = [at |-> "owner", user |-> s.user,
                                                org |-> issued.org + 1]]
        /\ UNCHANGED <<members, ownersEver>>
    BY <1>0, <1>2 DEF Insert, Goto
  <2>2. \A g \in Handlers : handlers'[g] = handlers[g] \/ handlers'[g].at = "owner"
    BY <1>0, <2>1
  <2> QED BY <2>1, <2>2, MemberSteps
<1>3. CASE InsertFails(h)
  BY <1>0, <1>3, MemberSteps DEF InsertFails, Answer, Goto
<1>4. CASE AddOwner(h)
  <2>1. s.user \in Users /\ s.org \in OrganizationIds
    BY <1>0, <1>4, InHand DEF AddOwner
  <2>2. NewMember(s.user, s.org, "owner") /\ "owner" \in MemberRoles
    BY <1>4 DEF AddOwner, MemberRoles
  <2>3. \A g \in Handlers : handlers'[g] = handlers[g] \/ handlers'[g].at = "idle"
    BY <1>0, <1>4 DEF AddOwner, Answer, Goto
  <2> QED BY <2>1, <2>2, <2>3, MemberAdded
<1>5. CASE SaveOrganization(h)
  BY <1>0, <1>5, MemberSteps DEF SaveOrganization, Answer, Goto
<1>6. CASE SaveInvitation(h)
  <2>1. issued'.member = issued.member
    BY <1>0, <1>6 DEF SaveInvitation
  <2> QED BY <1>0, <1>6, <2>1, MemberSteps DEF SaveInvitation, Answer, Goto
<1>7. CASE FindMember(h)
  BY <1>7, RoleFound
<1>8. CASE SaveRole(h)
  BY <1>8, RoleSaved
<1> QED BY <1>1, <1>2, <1>3, <1>4, <1>5, <1>6, <1>7, <1>8 DEF Resume

LEMMA MemberOthers ==
    ASSUME OrganizationsAssumption, TypeInv, MemberInv,
           AccountRequest \/ MembershipRequest \/ Restart \/ \E i \in invitations : Expire(i)
    PROVE  MemberInv' /\ ChangesByOwners
<1>1. CASE AccountRequest
  BY <1>1, MemberSteps DEF AccountRequest, SignUp, CreateUser, ChangeEmail, SetUserRole,
     UpdateSettings
<1>2. CASE MembershipRequest
  <2>1. ASSUME NEW u \in Users, NEW i \in invitations, AcceptInvitation(u, i)
        PROVE  MemberInv' /\ ChangesByOwners
    <3>1. i.org \in OrganizationIds /\ i.role \in MemberRoles
      BY DEF TypeInv, TypeOK, Invitations
    <3>2. NewMember(u, i.org, i.role) /\ handlers' = handlers
      BY <2>1 DEF AcceptInvitation
    <3> QED BY <3>1, <3>2, MemberAdded
  <2>2. ASSUME NEW u \in Users, NEW i \in invitations, DeclineInvitation(u, i)
        PROVE  MemberInv' /\ ChangesByOwners
    BY <2>2, MemberSteps DEF DeclineInvitation
  <2>3. ASSUME NEW m \in members, RemoveMember(m) PROVE MemberInv' /\ ChangesByOwners
    BY <2>3, MemberSteps DEF RemoveMember
  <2> QED BY <1>2, <2>1, <2>2, <2>3 DEF MembershipRequest
<1>3. CASE Restart
  BY <1>3, MemberSteps DEF Restart, Idle
<1>4. ASSUME NEW i \in invitations, Expire(i) PROVE MemberInv' /\ ChangesByOwners
  BY <1>4, MemberSteps DEF Expire
<1> QED BY <1>1, <1>2, <1>3, <1>4

LEMMA MemberStep ==
    ASSUME OrganizationsAssumption, TypeInv, MemberInv, [Next]_vars
    PROVE  MemberInv' /\ ChangesByOwners
<1>1. CASE UNCHANGED vars
  BY <1>1, MemberSteps DEF vars
<1> QED BY <1>1, MemberRequests, MemberResumes, MemberOthers DEF Next

LEMMA MembersAlways ==
    ASSUME OrganizationsAssumption
    PROVE  Spec => [](TypeInv /\ MemberInv)
<1>1. Init => MemberInv
  BY DEF Init, MemberInv, ChangesAsOwner, Idle
<1>2. Init => TypeInv
  BY InitTyped
<1>3. TypeInv /\ MemberInv /\ [Next]_vars => (TypeInv /\ MemberInv)'
  BY TypeStep, MemberStep
<1> QED BY <1>1, <1>2, <1>3, PTL DEF Spec

\* Whatever other requests save, remove or bring back between the guard, the
\* look-up and the save of a change of role: only the role changes, and only at
\* the request of somebody who has been an owner of this very organization
\* (members.controller.ts, members.service.ts).
THEOREM RolesChangeByOwners ==
    ASSUME OrganizationsAssumption
    PROVE  Spec => [][ChangesByOwners]_vars
<1>1. TypeInv /\ MemberInv /\ [Next]_vars => ChangesByOwners
  BY MemberStep
<1> QED BY <1>1, MembersAlways, PTL DEF Spec

-----------------------------------------------------------------------------
(* FoundedOrInvited and SentByManagers, with one request at a time         *)

\* What the only handler found still stands: the member it is about to save
\* exists, and its user may manage the organization it invites to.
StillStands(s) ==
    /\ s.at = "saveMember" => \E m \in members : m.id = s.next.id
    /\ s.at = "invite" => MayManage(s.user, s.org)

\* Steps that leave users and members alone, but for one whose place is taken.
LEMMA LoneSteps ==
    ASSUME NEW h, Handlers = {h}, users' = users,
           \A m \in members : \E n \in members' : n.id = m.id,
           \/ handlers'[h].at \notin {"saveMember", "invite"}
           \/ handlers'[h] = handlers[h] /\ members' = members,
           StillStands(handlers[h])
    PROVE  StillStands(handlers[h])'
BY DEF StillStands, MayManage, IsOwner, IsAdmin, FindMembers, Exists

\* No member appears, and no invitation but those that are known by their
\* identifiers.
Nothing ==
    /\ \A m \in members' : \E old \in members : old.id = m.id
    /\ \A i \in invitations' : \E old \in invitations : old.id = i.id

LEMMA NothingIsGranted ==
    ASSUME Nothing
    PROVE  FoundedOrInvited /\ SentByManagers
BY DEF Nothing, FoundedOrInvited, SentByManagers

LEMMA LoneRequests ==
    ASSUME NEW h, Handlers = {h}, TypeInv, StillStands(handlers[h]), NewRequest(h)
    PROVE  StillStands(handlers[h])' /\ FoundedOrInvited /\ SentByManagers
<1>0. handlers \in [Handlers -> HandlerStates]
  BY DEF TypeInv, TypeOK
<1>1. UNCHANGED <<users, members, invitations>>
  BY DEF NewRequest, CreateOrganization, UpdateOrganization, InviteMember, UpdateMemberRole
<1>2. Nothing
  BY <1>1 DEF Nothing
<1>3. ASSUME NEW u \in Users, NEW slug \in Slugs, CreateOrganization(h, u, slug)
      PROVE  StillStands(handlers[h])'
  BY <1>0, <1>1, <1>3 DEF CreateOrganization, Goto, StillStands
<1>4. ASSUME NEW u \in Users, NEW o \in OrganizationIds, UpdateOrganization(h, u, o)
      PROVE  StillStands(handlers[h])'
  <2>1. PICK n : Goto(h, [at |-> "update", next |-> n])
    BY <1>4 DEF UpdateOrganization
  <2> QED BY <1>0, <2>1 DEF Goto, StillStands
<1>5. ASSUME NEW u \in Users, NEW o \in OrganizationIds, NEW e \in Emails,
             InviteMember(h, u, o, e)
      PROVE  StillStands(handlers[h])'
  <2>1. /\ MayManage(u, o)
        /\ handlers' = [handlers EXCEPT ![h] = [at |-> "invite", user |-> u, org |-> o,
                                                email |-> e]]
    BY <1>5 DEF InviteMember, Goto
  <2>2. handlers'[h].at = "invite" /\ handlers'[h].user = u /\ handlers'[h].org = o
    BY <1>0, <2>1
  <2> QED BY <1>1, <2>1, <2>2 DEF StillStands, MayManage, IsOwner, IsAdmin, FindMembers, Exists
<1>6. ASSUME NEW u \in Users, NEW o \in OrganizationIds, NEW id \in 1..issued.member,
             NEW r \in MemberRoles, UpdateMemberRole(h, u, o, id, r)
      PROVE  StillStands(handlers[h])'
  BY <1>0, <1>6 DEF UpdateMemberRole, Goto, StillStands
<1>7. StillStands(handlers[h])'
  BY <1>3, <1>4, <1>5, <1>6 DEF NewRequest
<1> QED BY <1>2, <1>7, NothingIsGranted

LEMMA LoneResumes ==
    ASSUME OrganizationsAssumption, NEW h, Handlers = {h}, TypeInv,
           StillStands(handlers[h]), Resume(h)
    PROVE  StillStands(handlers[h])' /\ FoundedOrInvited /\ SentByManagers
<1> DEFINE s == handlers[h]
<1>0. /\ s \in HandlerStates /\ handlers \in [Handlers -> HandlerStates]
      /\ members \subseteq MemberDocs /\ Idle.at = "idle"
  BY DEF TypeInv, TypeOK, Idle
<1>1. CASE FindSlug(h) \/ Insert(h) \/ InsertFails(h) \/ SaveOrganization(h)
  <2>1. UNCHANGED <<users, members, invitations>>
    BY <1>1 DEF FindSlug, Insert, InsertFails, SaveOrganization
  <2>2. Nothing
    BY <2>1 DEF Nothing
  <2>3. handlers'[h].at \notin {"saveMember", "invite"}
    <3>1. CASE FindSlug(h)
      <4>1. s = [at |-> "findSlug", user |-> s.user, slug |-> s.slug]
        BY <1>0, <3>1, InHand DEF FindSlug
      <4>2. [s EXCEPT !.at = "insert"].at = "insert"
        BY <4>1
      <4> HIDE DEF s
      <4>3. Goto(h, [s EXCEPT !.at = "insert"]) \/ Goto(h, Idle)
        BY <3>1 DEF FindSlug, Answer, s
      <4> QED BY <1>0, <4>2, <4>3 DEF Goto
    <3>2. CASE Insert(h)
      BY <1>0, <3>2 DEF Insert, Goto
    <3>3. CASE InsertFails(h) \/ SaveOrganization(h)
      BY <1>0, <3>3 DEF InsertFails, SaveOrganization, Answer, Goto
    <3> QED BY <1>1, <3>1, <3>2, <3>3
  <2> QED BY <2>1, <2>2, <2>3, LoneSteps, NothingIsGranted
<1>2. CASE AddOwner(h)
  <2> DEFINE doc == [id |-> issued.member + 1, user |-> s.user, org |-> s.org,
                     role |-> "owner"]
  <2>1. /\ s = [at |-> "owner", user |-> s.user, org |-> s.org]
        /\ members' = members \cup {doc}
        /\ UNCHANGED <<users, invitations>>
    BY <1>0, <1>2, InHand DEF AddOwner, NewMember
  <2>2. handlers'[h].at = "idle"
    BY <1>0, <1>2 DEF AddOwner, Answer, Goto
  <2>3. doc.user = s.user /\ doc.org = s.org
    OBVIOUS
  <2> HIDE DEF doc, s
  <2>4. FoundedOrInvited
    BY <2>1, <2>3 DEF FoundedOrInvited, s
  <2>5. SentByManagers
    BY <2>1 DEF SentByManagers
  <2>6. StillStands(handlers[h])'
    BY <2>2 DEF StillStands
  <2> QED BY <2>4, <2>5, <2>6
<1>3. CASE SaveInvitation(h)
  <2> DEFINE doc == [id |-> issued.invitation + 1, email |-> s.email, org |-> s.org,
                     role |-> "member", status |-> "pending", expired |-> FALSE]
  <2>1. /\ s.at = "invite" /\ MayManage(s.user, s.org)
        /\ invitations' = invitations \/ invitations' = invitations \cup {doc}
        /\ UNCHANGED <<users, members>>
    BY <1>3 DEF SaveInvitation, StillStands
  <2>2. handlers'[h].at = "idle"
    BY <1>0, <1>3 DEF SaveInvitation, Answer, Goto
  <2>3. doc.org = s.org
    OBVIOUS
  <2> HIDE DEF doc, s
  <2>4. FoundedOrInvited
    BY <2>1 DEF FoundedOrInvited
  <2>5. SentByManagers
    BY <2>1, <2>3 DEF SentByManagers, MayManage, s
  <2>6. StillStands(handlers[h])'
    BY <2>2 DEF StillStands
  <2> QED BY <2>4, <2>5, <2>6
<1>4. CASE FindMember(h)
  <2>1. UNCHANGED <<users, members, invitations>>
    BY <1>4 DEF FindMember
  <2>2. Nothing
    BY <2>1 DEF Nothing
  <2>3. CASE Answer(h)
    BY <1>0, <2>1, <2>2, <2>3, LoneSteps, NothingIsGranted DEF Answer, Goto
  <2>4. CASE ~Answer(h)
    <3>0. s.role \in MemberRoles
      BY <1>0, <1>4, InHand DEF FindMember
    <3>1. PICK m \in members :
            Goto(h, [at |-> "saveMember", user |-> s.user, org |-> s.org,
                     next |-> [m EXCEPT !.role = s.role]])
      BY <1>4, <2>4 DEF FindMember, FindOneOfOrganization
    <3> DEFINE next == [m EXCEPT !.role = s.role]
               t == [at |-> "saveMember", user |-> s.user, org |-> s.org, next |-> next]
    <3>2. next.id = m.id
      BY <1>0, <3>0, Documents
    <3>3. handlers' = [handlers EXCEPT ![h] = t]
      BY <3>1 DEF Goto
    <3>4. t.at = "saveMember" /\ t.next = next
      OBVIOUS
    <3> HIDE DEF t, next
    <3>5. handlers'[h] = t
      BY <1>0, <3>3
    <3>6. StillStands(handlers[h])'
      BY <2>1, <3>2, <3>4, <3>5 DEF StillStands
    <3> QED BY <2>2, <3>6, NothingIsGranted
  <2> QED BY <2>3, <2>4
<1>5. CASE SaveRole(h)
  <2>1. /\ s.at = "saveMember"
        /\ members' = {m \in members : m.id # s.next.id} \cup {s.next}
        /\ UNCHANGED <<users, invitations>>
    BY <1>5 DEF SaveRole, SaveMember
  <2>2. \E m \in members : m.id = s.next.id
    BY <2>1 DEF StillStands
  <2>3. Nothing
    BY <2>1, <2>2 DEF Nothing
  <2>4. handlers'[h].at = "idle"
    BY <1>0, <1>5 DEF SaveRole, Answer, Goto
  <2>5. StillStands(handlers[h])'
    BY <2>4 DEF StillStands
  <2> QED BY <2>3, <2>5, NothingIsGranted
<1> QED BY <1>1, <1>2, <1>3, <1>4, <1>5 DEF Resume

LEMMA LoneOthers ==
    ASSUME OrganizationsAssumption, NEW h, Handlers = {h}, TypeInv, StillStands(handlers[h]),
           \/ SomeHandlerIdle /\ (AccountRequest \/ MembershipRequest)
           \/ Restart \/ \E i \in invitations : Expire(i)
    PROVE  StillStands(handlers[h])' /\ FoundedOrInvited /\ SentByManagers
<1>0. /\ invitations \subseteq Invitations /\ Idle.at = "idle"
      /\ handlers \in [Handlers -> HandlerStates]
  BY DEF TypeInv, TypeOK, Idle
<1>1. CASE SomeHandlerIdle /\ AccountRequest
  <2>1. UNCHANGED <<members, invitations, handlers>>
    BY <1>1 DEF AccountRequest, SignUp, CreateUser, ChangeEmail, SetUserRole, UpdateSettings
  <2>2. handlers'[h].at = "idle"
    BY <1>0, <1>1, <2>1 DEF SomeHandlerIdle
  <2>3. Nothing
    BY <2>1 DEF Nothing
  <2>4. StillStands(handlers[h])'
    BY <2>2 DEF StillStands
  <2> QED BY <2>3, <2>4, NothingIsGranted
<1>2. CASE SomeHandlerIdle /\ MembershipRequest
  <2>1. handlers' = handlers
    BY <1>2 DEF MembershipRequest, AcceptInvitation, DeclineInvitation, RemoveMember
  <2>2. handlers'[h].at = "idle"
    BY <1>0, <1>2, <2>1 DEF SomeHandlerIdle
  <2>3. StillStands(handlers[h])'
    BY <2>2 DEF StillStands
  <2>4. ASSUME NEW u \in Users, NEW i \in invitations, AcceptInvitation(u, i)
        PROVE  FoundedOrInvited /\ SentByManagers
    <3> DEFINE doc == [id |-> issued.member + 1, user |-> u, org |-> i.org, role |-> i.role]
               used == [i EXCEPT !.status = "accepted"]
    <3>1. /\ i.email = users[u].email /\ i.status = "pending" /\ ~i.expired
          /\ members' = members \cup {doc}
          /\ invitations' = (invitations \ {i}) \cup {used}
      BY <2>4 DEF AcceptInvitation, FindUnexpired, NewMember
    <3>2. doc.user = u /\ doc.org = i.org /\ doc.role = i.role
      OBVIOUS
    <3>3. used.id = i.id
      BY <1>0, InvitationDocuments
    <3> HIDE DEF doc
    <3>4. FoundedOrInvited
      <4> SUFFICES ASSUME NEW m \in members', \A old \in members : old.id # m.id
                   PROVE  /\ i.email = users[m.user].email /\ i.org = m.org
                          /\ i.role = m.role /\ used \in invitations'
        BY <3>1 DEF FoundedOrInvited
      <4>1. m = doc
        BY <3>1
      <4> HIDE DEF used
      <4> QED BY <3>1, <3>2, <4>1
    <3> HIDE DEF used
    <3>5. SentByManagers
      BY <3>1, <3>3 DEF SentByManagers
    <3> QED BY <3>4, <3>5
  <2>5. ASSUME NEW u \in Users, NEW i \in invitations, DeclineInvitation(u, i)
        PROVE  FoundedOrInvited /\ SentByManagers
    <3>1. [i EXCEPT !.status = "declined"].id = i.id
      BY <1>0, InvitationDocuments
    <3>2. Nothing
      BY <2>5, <3>1 DEF DeclineInvitation, Nothing
    <3> QED BY <3>2, NothingIsGranted
  <2>6. ASSUME NEW m \in members, RemoveMember(m)
        PROVE  FoundedOrInvited /\ SentByManagers
    <3>1. Nothing
      BY <2>6 DEF RemoveMember, Nothing
    <3> QED BY <3>1, NothingIsGranted
  <2> QED BY <1>2, <2>3, <2>4, <2>5, <2>6 DEF MembershipRequest
<1>3. CASE Restart
  <2>1. Nothing
    BY <1>3 DEF Restart, Nothing
  <2>2. StillStands(handlers[h])'
    BY <1>0, <1>3 DEF Restart, StillStands
  <2> QED BY <2>1, <2>2, NothingIsGranted
<1>4. ASSUME NEW i \in invitations, Expire(i)
      PROVE  StillStands(handlers[h])' /\ FoundedOrInvited /\ SentByManagers
  <2>1. [i EXCEPT !.expired = TRUE].id = i.id
    BY <1>0, InvitationDocuments
  <2>2. Nothing
    BY <1>4, <2>1 DEF Expire, Nothing
  <2>3. StillStands(handlers[h])'
    BY <1>4, LoneSteps DEF Expire
  <2> QED BY <2>2, <2>3, NothingIsGranted
<1> QED BY <1>1, <1>2, <1>3, <1>4

LEMMA LoneStep ==
    ASSUME OrganizationsAssumption, NEW h, Handlers = {h}, TypeInv,
           StillStands(handlers[h]), [Next]_vars
    PROVE  StillStands(handlers[h])' /\ FoundedOrInvited /\ SentByManagers
<1>1. CASE UNCHANGED vars
  <2>1. Nothing
    BY <1>1 DEF vars, Nothing
  <2>2. StillStands(handlers[h])'
    BY <1>1, LoneSteps DEF vars
  <2> QED BY <2>1, <2>2, NothingIsGranted
<1>2. CASE NewRequest(h)
  BY <1>2, LoneRequests
<1>3. CASE Resume(h)
  BY <1>3, LoneResumes
<1> QED BY <1>1, <1>2, <1>3, LoneOthers DEF Next

LEMMA LoneAlways ==
    ASSUME OrganizationsAssumption, NEW h, Handlers = {h}
    PROVE  Spec => [](TypeInv /\ StillStands(handlers[h]))
<1>1. Init => StillStands(handlers[h])
  BY DEF Init, StillStands, Idle
<1>2. Init => TypeInv
  BY InitTyped
<1>3. TypeInv /\ StillStands(handlers[h]) /\ [Next]_vars => (TypeInv /\ StillStands(handlers[h]))'
  BY TypeStep, LoneStep
<1> QED BY <1>1, <1>2, <1>3, PTL DEF Spec

\* With one request at a time, members are the founders of their organizations
\* and the holders of addresses with a standing invitation; nobody comes back
\* by itself (createOrganization, updateMemberRole, the guard of members).
THEOREM LoneMembersAreGranted ==
    ASSUME OrganizationsAssumption, NEW h, Handlers = {h}
    PROVE  Spec => [][FoundedOrInvited]_vars
<1>1. TypeInv /\ StillStands(handlers[h]) /\ [Next]_vars => FoundedOrInvited
  BY LoneStep
<1> QED BY <1>1, LoneAlways, PTL DEF Spec

\* With one request at a time, an invitation is sent by somebody who may manage
\* the organization at that moment (inviteMember).
THEOREM LoneInvitationsAreSentByManagers ==
    ASSUME OrganizationsAssumption, NEW h, Handlers = {h}
    PROVE  Spec => [][SentByManagers]_vars
<1>1. TypeInv /\ StillStands(handlers[h]) /\ [Next]_vars => SentByManagers
  BY LoneStep
<1> QED BY <1>1, LoneAlways, PTL DEF Spec

\* While somebody administers the instance, no start of the server creates an
\* administrator (ensureAdminSeeded), however many handlers there are.
THEOREM SeedsOnlyWithoutAdmin ==
    Spec => [][SeedsWithoutAdmin]_vars
<1>1. ASSUME NEW h \in Handlers, NewRequest(h) \/ Resume(h)
      PROVE  SeedsWithoutAdmin
  BY <1>1 DEF NewRequest, Resume, SeedsWithoutAdmin, CreateOrganization, FindSlug,
              Insert, InsertFails, AddOwner, UpdateOrganization, SaveOrganization,
              InviteMember, SaveInvitation, UpdateMemberRole, FindMember, SaveRole
<1>2. AccountRequest \/ MembershipRequest => SeedsWithoutAdmin
  BY DEF AccountRequest, MembershipRequest, SeedsWithoutAdmin, SignUp, CreateUser,
         SetUserRole, ChangeEmail, UpdateSettings, AcceptInvitation, DeclineInvitation,
         RemoveMember
<1>3. Restart \/ (\E i \in invitations : Expire(i)) => SeedsWithoutAdmin
  BY DEF Restart, EnsureAdminSeeded, Expire, SeedsWithoutAdmin
<1>4. UNCHANGED vars => SeedsWithoutAdmin
  BY DEF vars, SeedsWithoutAdmin
<1>5. [Next]_vars => SeedsWithoutAdmin
  BY <1>1, <1>2, <1>3, <1>4 DEF Next
<1> QED BY <1>5, PTL DEF Spec

=============================================================================
