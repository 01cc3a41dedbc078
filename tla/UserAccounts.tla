---------------------------- MODULE UserAccounts ----------------------------
(***************************************************************************)
(* The accounts of users: profile and role changes, and the change of the  *)
(* email address.  A change is requested, confirmed through a link mailed  *)
(* to the new address, and can be revoked through a link mailed to the     *)
(* old one.  The pending request, one per user, is what authorizes the     *)
(* confirmation.                                                           *)
(*                                                                         *)
(* A handler serves one request at a time; at names the await it resumes   *)
(* from.  A request that is refused before it wrote anything is no step.   *)
(* Mails arrive or not; a link that was mailed can be used at any time.    *)
(* The properties that hold are proved at the end of the module.           *)
(***************************************************************************)
EXTENDS Naturals, FiniteSets, TLAPS

CONSTANTS
    Users, Emails,      \* accounts and mail addresses
    Handlers,           \* requests in flight at the same time
    Operations,         \* what clients ask for
    MaxRequests,        \* bound: email change requests in all
    MaxCrashes,         \* bound: restarts of the server
    None

EmailChangeRequests ==
    [id : 1..MaxRequests, newEmail : Emails, previousEmail : Emails]

UserAccountsAssumption ==
    /\ Cardinality(Users) <= Cardinality(Emails)
    /\ MaxRequests \in Nat /\ MaxCrashes \in Nat
    /\ None \notin EmailChangeRequests

VARIABLES
    users,              \* the user documents
    pending,            \* the EmailChangeRequest of each user, if any
    links,              \* verification tokens mailed: from and to address
    tokens,             \* revoke tokens mailed: user and request
    handlers,           \* the handlers' local state
    accepted,           \* the request each user was told is pending
    revoked,            \* requests whose revocation was confirmed
    issued, crashes     \* counters for the bounds

vars == <<users, pending, links, tokens, handlers, accepted, revoked, issued,
          crashes>>

Roles == {"user", "admin"}
Profiles == {"first", "second"}

UserDocs ==
    [email : Emails, verified : BOOLEAN, role : Roles, profile : Profiles]

Idle == [at |-> "idle"]
Links == [email : Emails, updateTo : Emails]
RevokeTokens == [user : Users, id : 1..MaxRequests]

HandlerStates ==
    {Idle}
      \cup [at : {"upsert", "changeEmail", "notify", "rollback"}, user : Users,
            request : EmailChangeRequests]
      \cup [at : {"revoke"}, user : Users, id : 1..MaxRequests]
      \cup [at : {"update"}, link : Links, request : EmailChangeRequests]
      \cup [at : {"complete", "clear"}, user : Users]
      \cup [at : {"save"}, user : Users, by : {"profile", "role"}, next : UserDocs]

TypeOK ==
    /\ users \in [Users -> UserDocs]
    /\ pending \in [Users -> EmailChangeRequests \cup {None}]
    /\ links \subseteq Links
    /\ tokens \subseteq RevokeTokens
    /\ handlers \in [Handlers -> HandlerStates]
    /\ accepted \in [Users -> 1..MaxRequests \cup {None}]
    /\ revoked \subseteq 1..MaxRequests
    /\ issued \in 0..MaxRequests /\ crashes \in 0..MaxCrashes

Init ==
    /\ users \in [Users -> [email : Emails, verified : {TRUE}, role : {"user"},
                            profile : {"first"}]]
    /\ \A u, v \in Users : u # v => users[u].email # users[v].email
    /\ pending = [u \in Users |-> None]
    /\ links = {} /\ tokens = {}
    /\ handlers = [h \in Handlers |-> Idle]
    /\ accepted = [u \in Users |-> None]
    /\ revoked = {}
    /\ issued = 0 /\ crashes = 0

Goto(h, state) == handlers' = [handlers EXCEPT ![h] = state]
Answer(h) == Goto(h, Idle)
Serves(h, operation) == operation \in Operations /\ handlers[h] = Idle

-----------------------------------------------------------------------------
(* The collection of requests.  Its unique index on the user, and a         *)
(* transaction that deletes and creates, keep one request per user.         *)

UpsertByUserId(u, request) == pending' = [pending EXCEPT ![u] = request]
DeleteByUserId(u) == pending' = [pending EXCEPT ![u] = None]

\* What the user was told no longer stands, through something they know of.
Ended(u) == accepted' = [accepted EXCEPT ![u] = None]

-----------------------------------------------------------------------------
(* A request: the pending row, the link to the new address, the notice      *)
(* with the revoke link to the old one; a failure rolls the row back.       *)

RequestEmailChange(h, u, newEmail) ==
    /\ Serves(h, "requestEmailChange")
    /\ newEmail # users[u].email
    /\ issued < MaxRequests
    /\ issued' = issued + 1
    /\ Goto(h, [at |-> "upsert", user |-> u,
                request |-> [id |-> issued + 1, newEmail |-> newEmail,
                             previousEmail |-> users[u].email]])
    /\ UNCHANGED <<users, pending, links, tokens, accepted, revoked, crashes>>

SaveRequest(h) ==
    /\ handlers[h].at = "upsert"
    /\ UpsertByUserId(handlers[h].user, handlers[h].request)
    /\ Ended(handlers[h].user)
    /\ Goto(h, [handlers[h] EXCEPT !.at = "changeEmail"])
    /\ UNCHANGED <<users, links, tokens, revoked, issued, crashes>>

\* The library refuses the address the user has, and may fail after mailing.
ChangeEmail(h) ==
    LET u == handlers[h].user
        link == [email |-> users[u].email,
                 updateTo |-> handlers[h].request.newEmail]
    IN  /\ handlers[h].at = "changeEmail"
        /\ \E mailed, fails \in BOOLEAN :
             /\ link.email = link.updateTo => ~mailed /\ fails
             /\ links' = IF mailed THEN links \cup {link} ELSE links
             /\ Goto(h, [handlers[h] EXCEPT
                           !.at = IF fails THEN "rollback" ELSE "notify"])
        /\ UNCHANGED <<users, pending, tokens, accepted, revoked, issued, crashes>>

SendNotification(h) ==
    LET r == handlers[h].request
        u == handlers[h].user
    IN  /\ handlers[h].at = "notify"
        /\ tokens' = tokens \cup {[user |-> u, id |-> r.id]}
        /\ accepted' = [accepted EXCEPT ![u] = r.id]
        /\ Answer(h)
        /\ UNCHANGED <<users, pending, links, revoked, issued, crashes>>

NotificationFails(h) ==
    /\ handlers[h].at = "notify"
    /\ Goto(h, [handlers[h] EXCEPT !.at = "rollback"])
    /\ UNCHANGED <<users, pending, links, tokens, accepted, revoked, issued, crashes>>

\* Mutant: the row is left behind.
KeepRow(h) ==
    /\ handlers[h].at = "rollback"
    /\ Answer(h)
    /\ UNCHANGED <<users, pending, links, tokens, accepted, revoked, issued, crashes>>

RollBack(h) ==
    /\ handlers[h].at = "rollback"
    /\ DeleteByUserId(handlers[h].user)
    /\ Answer(h)
    /\ UNCHANGED <<users, links, tokens, accepted, revoked, issued, crashes>>

-----------------------------------------------------------------------------
(* Ending a request: through its revoke link, by the user, by the TTL.      *)

MatchesRequest(token) ==
    pending[token.user] # None /\ pending[token.user].id = token.id

Revoke(h, token) ==
    /\ Serves(h, "revoke")
    /\ MatchesRequest(token)
    /\ Goto(h, [at |-> "revoke", user |-> token.user, id |-> token.id])
    /\ UNCHANGED <<users, pending, links, tokens, accepted, revoked, issued, crashes>>

HardCancel(h) ==
    LET u == handlers[h].user
    IN  /\ handlers[h].at = "revoke"
        /\ DeleteByUserId(u)
        /\ IF accepted[u] = handlers[h].id THEN Ended(u) ELSE UNCHANGED accepted
        /\ revoked' = revoked \cup {handlers[h].id}
        /\ Answer(h)
        /\ UNCHANGED <<users, links, tokens, issued, crashes>>

CancelEmailChange(h, u) ==
    /\ Serves(h, "cancelEmailChange")
    /\ DeleteByUserId(u)
    /\ Ended(u)
    /\ revoked' = IF pending[u] = None THEN revoked
                  ELSE revoked \cup {pending[u].id}
    /\ UNCHANGED <<users, links, tokens, handlers, issued, crashes>>

\* The TTL index removes the row an hour after the request, when the handler
\* that made it has long answered.
Expire(u) ==
    /\ pending[u] # None
    /\ \A h \in Handlers :
         handlers[h].at \in {"changeEmail", "notify", "rollback"} =>
           handlers[h].request # pending[u]
    /\ DeleteByUserId(u)
    /\ Ended(u)
    /\ UNCHANGED <<users, links, tokens, handlers, revoked, issued, crashes>>

-----------------------------------------------------------------------------
(* The confirmation.  The library calls a hook before and after it writes   *)
(* the user's document; each is a step of its own.                          *)

\* Mutant: any pending request of the user lets the update pass.
SomePending(link, u) == users[u].email = link.email /\ pending[u] # None

GuardEmailChangeUpdate(link, u) ==
    /\ users[u].email = link.email
    /\ pending[u] # None
    /\ pending[u].newEmail = link.updateTo

Confirm(h, link) ==
    /\ Serves(h, "confirm")
    /\ \E u \in Users :
         /\ GuardEmailChangeUpdate(link, u)
         /\ Goto(h, [at |-> "update", link |-> link, request |-> pending[u]])
    /\ UNCHANGED <<users, pending, links, tokens, accepted, revoked, issued, crashes>>

\* The address is unique, so the write fails when another user has it.
UpdateEmail(h) ==
    LET link == handlers[h].link
        owner == {u \in Users : users[u].email = link.email}
        taken == \E u \in Users : users[u].email = link.updateTo
    IN  /\ handlers[h].at = "update"
        /\ IF owner = {} \/ taken
           THEN /\ Answer(h)
                /\ UNCHANGED <<users, accepted>>
           ELSE \E u \in owner :
                  /\ users' = [users EXCEPT ![u].email = link.updateTo,
                                            ![u].verified = TRUE]
                  /\ Goto(h, [at |-> "complete", user |-> u])
                  /\ Ended(u)
        /\ UNCHANGED <<pending, links, tokens, revoked, issued, crashes>>

CompleteVerifiedEmailChange(h) ==
    LET u == handlers[h].user
    IN  /\ handlers[h].at = "complete"
        /\ IF pending[u] # None /\ pending[u].newEmail = users[u].email
           THEN Goto(h, [at |-> "clear", user |-> u])
           ELSE Answer(h)
        /\ UNCHANGED <<users, pending, links, tokens, accepted, revoked, issued, crashes>>

\* After the mail to the new address, sent or failed.
ClearPending(h) ==
    /\ handlers[h].at = "clear"
    /\ DeleteByUserId(handlers[h].user)
    /\ Answer(h)
    /\ UNCHANGED <<users, links, tokens, accepted, revoked, issued, crashes>>

-----------------------------------------------------------------------------
(* Profile and role.  The document is read, changed in memory and written   *)
(* back whole, except for the address.                                      *)

UpdateProfile(h, u, profile) ==
    /\ Serves(h, "updateProfile")
    /\ profile # users[u].profile
    /\ Goto(h, [at |-> "save", user |-> u, by |-> "profile",
                next |-> [users[u] EXCEPT !.profile = profile]])
    /\ UNCHANGED <<users, pending, links, tokens, accepted, revoked, issued, crashes>>

SetUserRole(h, u, role) ==
    /\ Serves(h, "setUserRole")
    /\ Goto(h, [at |-> "save", user |-> u, by |-> "role",
                next |-> [users[u] EXCEPT !.role = role]])
    /\ UNCHANGED <<users, pending, links, tokens, accepted, revoked, issued, crashes>>

WriteBack(u, next) == [next EXCEPT !.email = users[u].email]

SaveUser(h) ==
    LET u == handlers[h].user
    IN  /\ handlers[h].at = "save"
        /\ users' = [users EXCEPT ![u] = WriteBack(u, handlers[h].next)]
        /\ Answer(h)
        /\ UNCHANGED <<pending, links, tokens, accepted, revoked, issued, crashes>>

-----------------------------------------------------------------------------
\* The server stops; what its handlers had in hand is lost.
Crash ==
    /\ crashes < MaxCrashes
    /\ crashes' = crashes + 1
    /\ handlers' = [h \in Handlers |-> Idle]
    /\ UNCHANGED <<users, pending, links, tokens, accepted, revoked, issued>>

RequestStep(h) ==
    \/ \E u \in Users, e \in Emails : RequestEmailChange(h, u, e)
    \/ SaveRequest(h) \/ ChangeEmail(h)
    \/ SendNotification(h) \/ NotificationFails(h) \/ RollBack(h)

EndStep(h) ==
    \/ \E t \in tokens : Revoke(h, t)
    \/ HardCancel(h)
    \/ \E u \in Users : CancelEmailChange(h, u)

ConfirmStep(h) ==
    \/ \E l \in links : Confirm(h, l)
    \/ UpdateEmail(h) \/ CompleteVerifiedEmailChange(h) \/ ClearPending(h)

AccountStep(h) ==
    \/ \E u \in Users, p \in Profiles : UpdateProfile(h, u, p)
    \/ \E u \in Users, r \in Roles : SetUserRole(h, u, r)
    \/ SaveUser(h)

Next ==
    \/ \E h \in Handlers :
         RequestStep(h) \/ EndStep(h) \/ ConfirmStep(h) \/ AccountStep(h)
    \/ \E u \in Users : Expire(u)
    \/ Crash

Spec == Init /\ [][Next]_vars

-----------------------------------------------------------------------------
(* Properties                                                              *)

\* An address changes on the authority of a request for that very change, and
\* never of one whose revocation the user was told of: revoking guarantees
\* that the change does not complete, even when the link is followed later.
ChangesUnrevoked ==
    \A u \in Users :
      users'[u].email # users[u].email =>
        \E h \in Handlers :
          /\ handlers[h].at = "update"
          /\ handlers[h].request.newEmail = users'[u].email
          /\ handlers[h].request.id \notin revoked
RevokedNeverCompletes == [][ChangesUnrevoked]_vars

\* An address changes only to one that received a link for exactly this
\* change; in particular no profile or role save brings an old address back.
ChangesLinked ==
    \A u \in Users :
      users'[u].email # users[u].email =>
        [email |-> users[u].email, updateTo |-> users'[u].email] \in links

\* A request that stands has its revoke link out, or its handler is still
\* before that: no failure leaves a change nobody was warned of.  (A crash
\* between the two mails does.)
PendingIsRevocable ==
    crashes = 0 =>
      \A u \in Users :
        pending[u] # None =>
          \/ [user |-> u, id |-> pending[u].id] \in tokens
          \/ \E h \in Handlers :
               /\ handlers[h].at \in {"changeEmail", "notify", "rollback"}
               /\ handlers[h].request.id = pending[u].id

\* What a user was told is pending stays so until they replace it, cancel it,
\* revoke that very request, complete it, or it expires.
ToldPendingIsPending ==
    \A u \in Users :
        accepted[u] # None => pending[u] # None /\ pending[u].id = accepted[u]

\* When nothing is in flight and nothing crashed, no request asks for the
\* address the user already has.
NoPendingForOwnAddress ==
    (crashes = 0 /\ \A h \in Handlers : handlers[h] = Idle) =>
      \A u \in Users :
        pending[u] # None => pending[u].newEmail # users[u].email

\* A save of the profile leaves the role alone: the profile is the name and
\* the language, and nothing else of the account.
ProfileSaveKeepsRole ==
    [][\A h \in Handlers :
         (handlers[h].at = "save" /\ handlers[h].by = "profile"
            /\ handlers'[h] = Idle /\ crashes' = crashes) =>
           users'[handlers[h].user].role = users[handlers[h].user].role]_vars

-----------------------------------------------------------------------------
(* TypeOK                                                                  *)

\* What a handler has in hand, by where it is.
LEMMA InHand ==
    ASSUME NEW s \in HandlerStates
    PROVE  /\ s.at \in {"idle", "upsert", "changeEmail", "notify", "rollback", "revoke",
                        "update", "complete", "clear", "save"}
           /\ s.at \in {"upsert", "changeEmail", "notify", "rollback"} =>
                /\ s = [at |-> s.at, user |-> s.user, request |-> s.request]
                /\ s.user \in Users /\ s.request \in EmailChangeRequests
           /\ s.at = "revoke" => s.user \in Users /\ s.id \in 1..MaxRequests
           /\ s.at = "update" => s.link \in Links /\ s.request \in EmailChangeRequests
           /\ s.at \in {"complete", "clear"} => s.user \in Users
           /\ s.at = "save" => s.user \in Users /\ s.next \in UserDocs
<1>1. CASE s = Idle
  BY <1>1 DEF Idle
<1>2. CASE s \in [at : {"upsert", "changeEmail", "notify", "rollback"}, user : Users,
                  request : EmailChangeRequests]
  BY <1>2
<1>3. CASE s \in [at : {"revoke"}, user : Users, id : 1..MaxRequests]
  BY <1>3
<1>4. CASE s \in [at : {"update"}, link : Links, request : EmailChangeRequests]
  BY <1>4
<1>5. CASE s \in [at : {"complete", "clear"}, user : Users]
  BY <1>5
<1>6. CASE s \in [at : {"save"}, user : Users, by : {"profile", "role"}, next : UserDocs]
  BY <1>6
<1> QED BY <1>1, <1>2, <1>3, <1>4, <1>5, <1>6 DEF HandlerStates

\* The states a handler goes to.
LEMMA States ==
    /\ Idle \in HandlerStates /\ Idle.at = "idle"
    /\ \A u \in Users :
         /\ \A at \in {"upsert", "changeEmail", "notify", "rollback"},
               r \in EmailChangeRequests :
              [at |-> at, user |-> u, request |-> r] \in HandlerStates
         /\ \A id \in 1..MaxRequests :
              [at |-> "revoke", user |-> u, id |-> id] \in HandlerStates
         /\ \A at \in {"complete", "clear"} : [at |-> at, user |-> u] \in HandlerStates
         /\ \A by \in {"profile", "role"}, d \in UserDocs :
              [at |-> "save", user |-> u, by |-> by, next |-> d] \in HandlerStates
    /\ \A l \in Links, r \in EmailChangeRequests :
         [at |-> "update", link |-> l, request |-> r] \in HandlerStates
BY DEF HandlerStates, Idle

\* The documents, and what is changed in them.
LEMMA Documents ==
    ASSUME NEW d \in UserDocs
    PROVE  /\ d.email \in Emails
           /\ \A p \in Profiles : [d EXCEPT !.profile = p] \in UserDocs
           /\ \A r \in Roles : [d EXCEPT !.role = r] \in UserDocs
           /\ \A e \in Emails : /\ [d EXCEPT !.email = e] \in UserDocs
                                /\ [d EXCEPT !.email = e].email = e
           /\ \A e \in Emails :
                /\ [[d EXCEPT !.email = e] EXCEPT !.verified = TRUE] \in UserDocs
                /\ [[d EXCEPT !.email = e] EXCEPT !.verified = TRUE].email = e
BY DEF UserDocs

LEMMA InitTyped ==
    ASSUME UserAccountsAssumption, Init
    PROVE  TypeOK
<1>1. users \in [Users -> UserDocs]
  BY DEF Init, UserDocs, Roles, Profiles
<1>2. handlers \in [Handlers -> HandlerStates]
  BY States DEF Init
<1> QED BY <1>1, <1>2 DEF Init, TypeOK, UserAccountsAssumption

\* A handler goes on; the rest keeps its types.
LEMMA GoesTyped ==
    ASSUME TypeOK, NEW h \in Handlers, NEW s \in HandlerStates, Goto(h, s),
           users' \in [Users -> UserDocs],
           pending' \in [Users -> EmailChangeRequests \cup {None}],
           links' \subseteq Links, tokens' \subseteq RevokeTokens,
           accepted' \in [Users -> 1..MaxRequests \cup {None}],
           revoked' \subseteq 1..MaxRequests,
           issued' \in 0..MaxRequests, crashes' = crashes
    PROVE  TypeOK'
BY DEF TypeOK, Goto

\* The collection of requests, and what the users were told.
LEMMA RowsTyped ==
    ASSUME TypeOK, NEW u \in Users
    PROVE  /\ \A r \in EmailChangeRequests : UpsertByUserId(u, r) =>
                /\ pending' \in [Users -> EmailChangeRequests \cup {None}]
                /\ pending'[u] = r
                /\ \A v \in Users \ {u} : pending'[v] = pending[v]
           /\ DeleteByUserId(u) =>
                /\ pending' \in [Users -> EmailChangeRequests \cup {None}]
                /\ pending'[u] = None
                /\ \A v \in Users \ {u} : pending'[v] = pending[v]
           /\ Ended(u) =>
                /\ accepted' \in [Users -> 1..MaxRequests \cup {None}]
                /\ accepted'[u] = None
                /\ \A v \in Users \ {u} : accepted'[v] = accepted[v]
BY DEF TypeOK, UpsertByUserId, DeleteByUserId, Ended

\* The steps of a handler that write a user document.
LEMMA UsersWritten ==
    ASSUME TypeOK, NEW h \in Handlers
    PROVE  /\ SaveUser(h) =>
                /\ users' \in [Users -> UserDocs]
                /\ \A u \in Users : users'[u].email = users[u].email
           /\ UpdateEmail(h) =>
                \/ handlers'[h] = Idle /\ UNCHANGED <<users, accepted>>
                \/ \E u \in Users :
                     /\ users' \in [Users -> UserDocs]
                     /\ users[u].email = handlers[h].link.email
                     /\ users'[u].email = handlers[h].link.updateTo
                     /\ \A v \in Users \ {u} : users'[v] = users[v]
                     /\ Goto(h, [at |-> "complete", user |-> u]) /\ Ended(u)
<1>0. /\ users \in [Users -> UserDocs] /\ handlers[h] \in HandlerStates
      /\ handlers \in [Handlers -> HandlerStates]
  BY DEF TypeOK
<1>1. ASSUME SaveUser(h)
      PROVE  /\ users' \in [Users -> UserDocs]
             /\ \A u \in Users : users'[u].email = users[u].email
  <2> DEFINE u == handlers[h].user
             d == WriteBack(u, handlers[h].next)
  <2>1. u \in Users /\ handlers[h].next \in UserDocs
    BY <1>0, <1>1, InHand DEF SaveUser
  <2>2. users' = [users EXCEPT ![u] = d]
    BY <1>1 DEF SaveUser
  <2>3. users[u].email \in Emails
    BY <1>0, <2>1, Documents
  <2>4. d \in UserDocs /\ d.email = users[u].email
    BY <2>1, <2>3, Documents DEF WriteBack
  <2> HIDE DEF u, d
  <2> QED BY <1>0, <2>1, <2>2, <2>4
<1>2. ASSUME UpdateEmail(h), ~(handlers'[h] = Idle /\ UNCHANGED <<users, accepted>>)
      PROVE  \E u \in Users :
                /\ users' \in [Users -> UserDocs]
                /\ users[u].email = handlers[h].link.email
                /\ users'[u].email = handlers[h].link.updateTo
                /\ \A v \in Users \ {u} : users'[v] = users[v]
                /\ Goto(h, [at |-> "complete", user |-> u]) /\ Ended(u)
  <2> DEFINE e == handlers[h].link.updateTo
  <2>1. handlers[h].link \in Links
    BY <1>0, <1>2, InHand DEF UpdateEmail
  <2>2. e \in Emails
    BY <2>1 DEF Links
  <2>3. PICK u \in Users :
          /\ users[u].email = handlers[h].link.email
          /\ users' = [users EXCEPT ![u].email = e, ![u].verified = TRUE]
          /\ Goto(h, [at |-> "complete", user |-> u]) /\ Ended(u)
    BY <1>0, <1>2 DEF UpdateEmail, Answer, Goto
  <2> HIDE DEF e
  <2> DEFINE d == [[users[u] EXCEPT !.email = e] EXCEPT !.verified = TRUE]
  <2>4. d \in UserDocs /\ d.email = e
    BY <1>0, <2>2, Documents
  <2>5. users' = [users EXCEPT ![u] = d]
    <3> DEFINE c == [users[u] EXCEPT !.email = e]
               f == [users EXCEPT ![u] = c]
    <3>1. f[u] = c
      BY <1>0
    <3>2. users' = [f EXCEPT ![u] = [f[u] EXCEPT !.verified = TRUE]]
      BY <1>0, <2>3
    <3> HIDE DEF c
    <3>3. [f EXCEPT ![u] = [f[u] EXCEPT !.verified = TRUE]]
            = [users EXCEPT ![u] = [c EXCEPT !.verified = TRUE]]
      BY <1>0, <3>1
    <3> QED BY <3>2, <3>3 DEF c
  <2> HIDE DEF d
  <2>6. /\ users' \in [Users -> UserDocs] /\ users'[u].email = e
        /\ \A v \in Users \ {u} : users'[v] = users[v]
    BY <1>0, <2>4, <2>5
  <2> QED BY <2>3, <2>6 DEF e
<1> QED BY <1>1, <1>2


\* The requests that are made, saved, told of and rolled back.
LEMMA RequestsTyped ==
    ASSUME UserAccountsAssumption, TypeOK, NEW h \in Handlers, RequestStep(h)
    PROVE  TypeOK'
<1>0. /\ users \in [Users -> UserDocs] /\ handlers[h] \in HandlerStates
      /\ pending \in [Users -> EmailChangeRequests \cup {None}]
      /\ accepted \in [Users -> 1..MaxRequests \cup {None}]
      /\ links \subseteq Links /\ tokens \subseteq RevokeTokens
      /\ revoked \subseteq 1..MaxRequests /\ issued \in 0..MaxRequests
  BY DEF TypeOK
<1>1. ASSUME NEW u \in Users, NEW e \in Emails, RequestEmailChange(h, u, e)
      PROVE  TypeOK'
  <2> DEFINE r == [id |-> issued + 1, newEmail |-> e, previousEmail |-> users[u].email]
  <2>1. issued + 1 \in 1..MaxRequests
    BY <1>0, <1>1 DEF RequestEmailChange, UserAccountsAssumption
  <2>2. r \in EmailChangeRequests
    BY <1>0, <2>1, Documents DEF EmailChangeRequests
  <2> HIDE DEF r
  <2>3. [at |-> "upsert", user |-> u, request |-> r] \in HandlerStates
    BY <2>2, States
  <2>4. Goto(h, [at |-> "upsert", user |-> u, request |-> r])
    BY <1>1 DEF RequestEmailChange, r
  <2>5. issued' \in 0..MaxRequests
    BY <2>1, <1>1 DEF RequestEmailChange
  <2> QED BY <1>0, <1>1, <2>3, <2>4, <2>5, GoesTyped DEF RequestEmailChange
<1>2. ASSUME handlers[h].at \in {"upsert", "changeEmail", "notify", "rollback"}
      PROVE  /\ handlers[h].user \in Users /\ handlers[h].request \in EmailChangeRequests
             /\ \A at \in {"upsert", "changeEmail", "notify", "rollback"} :
                  /\ [handlers[h] EXCEPT !.at = at]
                       = [at |-> at, user |-> handlers[h].user, request |-> handlers[h].request]
                  /\ [handlers[h] EXCEPT !.at = at] \in HandlerStates
  <2>1. /\ handlers[h].user \in Users /\ handlers[h].request \in EmailChangeRequests
        /\ handlers[h] = [at |-> handlers[h].at, user |-> handlers[h].user,
                          request |-> handlers[h].request]
    BY <1>0, <1>2, InHand
  <2>2. \A at \in {"upsert", "changeEmail", "notify", "rollback"} :
          [handlers[h] EXCEPT !.at = at]
            = [at |-> at, user |-> handlers[h].user, request |-> handlers[h].request]
    <3> DEFINE s == handlers[h]
               r == handlers[h].request
               u == handlers[h].user
               from == handlers[h].at
    <3>1. s = [at |-> from, user |-> u, request |-> r]
      BY <2>1
    <3> HIDE DEF s, r, u, from
    <3>2. \A at : [s EXCEPT !.at = at] = [at |-> at, user |-> u, request |-> r]
      BY <3>1
    <3> QED BY <3>2 DEF s, r, u
  <2>3. \A at \in {"upsert", "changeEmail", "notify", "rollback"} :
          [at |-> at, user |-> handlers[h].user, request |-> handlers[h].request]
            \in HandlerStates
    <3> DEFINE r == handlers[h].request
               u == handlers[h].user
    <3>1. u \in Users /\ r \in EmailChangeRequests
      BY <2>1
    <3> HIDE DEF r, u
    <3>2. \A at \in {"upsert", "changeEmail", "notify", "rollback"} :
            [at |-> at, user |-> u, request |-> r] \in HandlerStates
      BY <3>1, States
    <3> QED BY <3>2 DEF r, u
  <2>4. \A at \in {"upsert", "changeEmail", "notify", "rollback"} :
          [handlers[h] EXCEPT !.at = at] \in HandlerStates
    BY <2>2, <2>3, Zenon
  <2> QED BY <2>1, <2>2, <2>4
<1>3. CASE SaveRequest(h)
  <2>1. pending' \in [Users -> EmailChangeRequests \cup {None}]
        /\ accepted' \in [Users -> 1..MaxRequests \cup {None}]
    BY <1>2, <1>3, RowsTyped DEF SaveRequest
  <2> QED BY <1>0, <1>2, <1>3, <2>1, GoesTyped DEF SaveRequest
<1>4. CASE ChangeEmail(h)
  <2> DEFINE link == [email |-> users[handlers[h].user].email,
                      updateTo |-> handlers[h].request.newEmail]
  <2>1. handlers[h].request.newEmail \in Emails
    BY <1>2, <1>4 DEF ChangeEmail, EmailChangeRequests
  <2>2. link \in Links
    BY <1>0, <1>2, <1>4, <2>1, Documents DEF ChangeEmail, Links
  <2> HIDE DEF link
  <2>3. PICK mailed \in BOOLEAN, fails \in BOOLEAN :
          /\ links' = IF mailed THEN links \cup {link} ELSE links
          /\ Goto(h, [handlers[h] EXCEPT !.at = IF fails THEN "rollback" ELSE "notify"])
    BY <1>4 DEF ChangeEmail, link
  <2>4. links' \subseteq Links
    BY <1>0, <2>2, <2>3
  <2>5. [handlers[h] EXCEPT !.at = IF fails THEN "rollback" ELSE "notify"] \in HandlerStates
    BY <1>2, <1>4 DEF ChangeEmail
  <2> QED BY <1>0, <1>4, <2>3, <2>4, <2>5, GoesTyped DEF ChangeEmail
<1>5. CASE SendNotification(h)
  <2>1. handlers[h].user \in Users /\ handlers[h].request.id \in 1..MaxRequests
    BY <1>2, <1>5 DEF SendNotification, EmailChangeRequests
  <2>2. tokens' \subseteq RevokeTokens /\ accepted' \in [Users -> 1..MaxRequests \cup {None}]
    BY <1>0, <1>5, <2>1 DEF SendNotification, RevokeTokens
  <2> QED BY <1>0, <1>5, <2>2, States, GoesTyped DEF SendNotification, Answer
<1>6. CASE NotificationFails(h)
  BY <1>0, <1>2, <1>6, GoesTyped DEF NotificationFails
<1>7. CASE RollBack(h)
  <2>1. pending' \in [Users -> EmailChangeRequests \cup {None}]
    BY <1>2, <1>7, RowsTyped DEF RollBack
  <2> QED BY <1>0, <1>7, <2>1, States, GoesTyped DEF RollBack, Answer
<1> QED BY <1>1, <1>3, <1>4, <1>5, <1>6, <1>7 DEF RequestStep

\* The requests that are ended.
LEMMA EndsTyped ==
    ASSUME TypeOK, NEW h \in Handlers, EndStep(h)
    PROVE  TypeOK'
<1>0. /\ handlers \in [Handlers -> HandlerStates] /\ users \in [Users -> UserDocs]
      /\ pending \in [Users -> EmailChangeRequests \cup {None}]
      /\ accepted \in [Users -> 1..MaxRequests \cup {None}]
      /\ links \subseteq Links /\ tokens \subseteq RevokeTokens
      /\ revoked \subseteq 1..MaxRequests /\ issued \in 0..MaxRequests
  BY DEF TypeOK
<1>1. ASSUME NEW t \in tokens, Revoke(h, t) PROVE TypeOK'
  <2>1. [at |-> "revoke", user |-> t.user, id |-> t.id] \in HandlerStates
    <3>1. t.user \in Users /\ t.id \in 1..MaxRequests
      BY <1>0 DEF RevokeTokens
    <3> QED BY <3>1, States
  <2> QED BY <1>0, <1>1, <2>1, GoesTyped DEF Revoke
<1>2. CASE HardCancel(h)
  <2>1. handlers[h].user \in Users /\ handlers[h].id \in 1..MaxRequests
    BY <1>0, <1>2, InHand DEF HardCancel
  <2>2. /\ pending' \in [Users -> EmailChangeRequests \cup {None}]
        /\ accepted' \in [Users -> 1..MaxRequests \cup {None}]
    BY <1>0, <1>2, <2>1, RowsTyped DEF HardCancel
  <2> QED BY <1>0, <1>2, <2>1, <2>2, States, GoesTyped DEF HardCancel, Answer
<1>3. ASSUME NEW u \in Users, CancelEmailChange(h, u) PROVE TypeOK'
  <2>1. /\ pending' \in [Users -> EmailChangeRequests \cup {None}]
        /\ accepted' \in [Users -> 1..MaxRequests \cup {None}]
    BY <1>0, <1>3, RowsTyped DEF CancelEmailChange
  <2>2. pending[u] # None => pending[u].id \in 1..MaxRequests
    BY <1>0 DEF EmailChangeRequests
  <2>3. revoked' \subseteq 1..MaxRequests
    BY <1>0, <1>3, <2>2 DEF CancelEmailChange
  <2> QED BY <1>0, <1>3, <2>1, <2>3 DEF CancelEmailChange, TypeOK
<1> QED BY <1>1, <1>2, <1>3 DEF EndStep

\* A change is confirmed.
LEMMA ConfirmsTyped ==
    ASSUME TypeOK, NEW h \in Handlers, ConfirmStep(h)
    PROVE  TypeOK'
<1>0. /\ handlers \in [Handlers -> HandlerStates] /\ users \in [Users -> UserDocs]
      /\ pending \in [Users -> EmailChangeRequests \cup {None}]
      /\ accepted \in [Users -> 1..MaxRequests \cup {None}]
      /\ links \subseteq Links /\ tokens \subseteq RevokeTokens
      /\ revoked \subseteq 1..MaxRequests /\ issued \in 0..MaxRequests
  BY DEF TypeOK
<1>1. ASSUME NEW l \in links, Confirm(h, l) PROVE TypeOK'
  <2>1. PICK u \in Users :
          /\ pending[u] # None
          /\ Goto(h, [at |-> "update", link |-> l, request |-> pending[u]])
    BY <1>1 DEF Confirm, GuardEmailChangeUpdate
  <2>2. [at |-> "update", link |-> l, request |-> pending[u]] \in HandlerStates
    BY <1>0, <2>1, States
  <2> QED BY <1>0, <1>1, <2>1, <2>2, GoesTyped DEF Confirm
<1>2. CASE UpdateEmail(h)
  <2>1. UNCHANGED <<pending, links, tokens, revoked, issued, crashes>>
    BY <1>2 DEF UpdateEmail
  <2>2. CASE handlers'[h] = Idle /\ UNCHANGED <<users, accepted>>
    <3>1. Goto(h, Idle)
      <4>1. \/ Answer(h)
            \/ \E u \in Users : Goto(h, [at |-> "complete", user |-> u])
        BY <1>2 DEF UpdateEmail
      <4>2. ASSUME NEW s, Goto(h, s) PROVE handlers'[h] = s
        BY <1>0, <4>2 DEF Goto
      <4> QED BY <2>2, <4>1, <4>2 DEF Answer, Goto
    <3> QED BY <1>0, <2>1, <2>2, <3>1, States, GoesTyped
  <2>3. ASSUME NEW u \in Users, users' \in [Users -> UserDocs],
               Goto(h, [at |-> "complete", user |-> u]), Ended(u)
        PROVE  TypeOK'
    BY <1>0, <2>1, <2>3, States, RowsTyped, GoesTyped
  <2> QED BY <1>2, <2>2, <2>3, UsersWritten
<1>3. CASE CompleteVerifiedEmailChange(h)
  <2>1. handlers[h].user \in Users
    BY <1>0, <1>3, InHand DEF CompleteVerifiedEmailChange
  <2>2. Goto(h, [at |-> "clear", user |-> handlers[h].user]) \/ Goto(h, Idle)
    BY <1>3 DEF CompleteVerifiedEmailChange, Answer
  <2>3. /\ Idle \in HandlerStates
        /\ [at |-> "clear", user |-> handlers[h].user] \in HandlerStates
    BY <2>1, States
  <2> QED BY <1>0, <1>3, <2>2, <2>3, GoesTyped DEF CompleteVerifiedEmailChange
<1>4. CASE ClearPending(h)
  <2>1. handlers[h].user \in Users
    BY <1>0, <1>4, InHand DEF ClearPending
  <2>2. pending' \in [Users -> EmailChangeRequests \cup {None}]
    BY <1>4, <2>1, RowsTyped DEF ClearPending
  <2> QED BY <1>0, <1>4, <2>2, States, GoesTyped DEF ClearPending, Answer
<1> QED BY <1>1, <1>2, <1>3, <1>4 DEF ConfirmStep

\* The profile and the role.
LEMMA AccountsTyped ==
    ASSUME TypeOK, NEW h \in Handlers, AccountStep(h)
    PROVE  TypeOK'
<1>0. /\ handlers \in [Handlers -> HandlerStates] /\ users \in [Users -> UserDocs]
      /\ pending \in [Users -> EmailChangeRequests \cup {None}]
      /\ accepted \in [Users -> 1..MaxRequests \cup {None}]
      /\ links \subseteq Links /\ tokens \subseteq RevokeTokens
      /\ revoked \subseteq 1..MaxRequests /\ issued \in 0..MaxRequests
  BY DEF TypeOK
<1>1. ASSUME NEW u \in Users, NEW p \in Profiles, UpdateProfile(h, u, p) PROVE TypeOK'
  <2> DEFINE d == [users[u] EXCEPT !.profile = p]
  <2>1. d \in UserDocs
    BY <1>0, Documents
  <2> HIDE DEF d
  <2>2. Goto(h, [at |-> "save", user |-> u, by |-> "profile", next |-> d])
    BY <1>1 DEF UpdateProfile, d
  <2>3. [at |-> "save", user |-> u, by |-> "profile", next |-> d] \in HandlerStates
    BY <2>1, States
  <2> QED BY <1>0, <1>1, <2>2, <2>3, GoesTyped DEF UpdateProfile
<1>2. ASSUME NEW u \in Users, NEW r \in Roles, SetUserRole(h, u, r) PROVE TypeOK'
  <2> DEFINE d == [users[u] EXCEPT !.role = r]
  <2>1. d \in UserDocs
    BY <1>0, Documents
  <2> HIDE DEF d
  <2>2. Goto(h, [at |-> "save", user |-> u, by |-> "role", next |-> d])
    BY <1>2 DEF SetUserRole, d
  <2>3. [at |-> "save", user |-> u, by |-> "role", next |-> d] \in HandlerStates
    BY <2>1, States
  <2> QED BY <1>0, <1>2, <2>2, <2>3, GoesTyped DEF SetUserRole
<1>3. CASE SaveUser(h)
  <2>1. users' \in [Users -> UserDocs]
    BY <1>3, UsersWritten
  <2> QED BY <1>0, <1>3, <2>1, States, GoesTyped DEF SaveUser, Answer
<1> QED BY <1>1, <1>2, <1>3 DEF AccountStep

LEMMA TypeStep ==
    ASSUME UserAccountsAssumption, TypeOK, [Next]_vars
    PROVE  TypeOK'
<1>1. ASSUME NEW u \in Users, Expire(u) PROVE TypeOK'
  BY <1>1, RowsTyped DEF Expire, TypeOK
<1>2. CASE Crash
  <2>1. handlers' \in [Handlers -> HandlerStates]
    BY <1>2, States DEF Crash
  <2>2. crashes' \in 0..MaxCrashes
    BY <1>2 DEF Crash, TypeOK, UserAccountsAssumption
  <2> QED BY <1>2, <2>1, <2>2 DEF Crash, TypeOK
<1>3. CASE UNCHANGED vars
  BY <1>3 DEF vars, TypeOK
<1> QED BY <1>1, <1>2, <1>3, RequestsTyped, EndsTyped, ConfirmsTyped, AccountsTyped DEF Next

\* The documents and the handlers' local state keep their forms, however
\* requests, confirmations, cancellations and restarts are interleaved.
THEOREM TypeCorrect ==
    ASSUME UserAccountsAssumption
    PROVE  Spec => []TypeOK
<1>1. Init => TypeOK
  BY InitTyped
<1>2. TypeOK /\ [Next]_vars => TypeOK'
  BY TypeStep
<1> QED BY <1>1, <1>2, PTL DEF Spec


-----------------------------------------------------------------------------
(* ChangesLinked                                                           *)

\* A confirmation under way follows a link that was mailed.
LinkInv == \A h \in Handlers : handlers[h].at = "update" => handlers[h].link \in links

EmailsStay == \A u \in Users : users'[u].email = users[u].email

\* The steps of a handler that change no address.
LEMMA LinkMoves ==
    ASSUME TypeOK, LinkInv, NEW h \in Handlers, NEW s, Goto(h, s), links \subseteq links',
           s.at = "update" => s.link \in links, EmailsStay
    PROVE  LinkInv' /\ ChangesLinked
BY DEF TypeOK, LinkInv, Goto, ChangesLinked, EmailsStay

LEMMA LinkSteps ==
    ASSUME TypeOK, LinkInv, NEW h \in Handlers,
           RequestStep(h) \/ EndStep(h) \/ ConfirmStep(h) \/ AccountStep(h)
    PROVE  LinkInv' /\ ChangesLinked
<1>0. /\ handlers \in [Handlers -> HandlerStates] /\ links \subseteq Links
      /\ Idle.at = "idle"
  BY States DEF TypeOK
<1>1. CASE RequestStep(h)
  <2>1. ASSUME NEW u \in Users, NEW e \in Emails, RequestEmailChange(h, u, e)
        PROVE  LinkInv' /\ ChangesLinked
    BY <2>1, LinkMoves DEF RequestEmailChange, EmailsStay
  <2>2. ASSUME handlers[h].at \in {"upsert", "changeEmail", "notify", "rollback"}
        PROVE  \A at \in {"changeEmail", "notify", "rollback"} :
                 [handlers[h] EXCEPT !.at = at].at # "update"
    BY <1>0, <2>2, InHand
  <2>3. CASE SaveRequest(h)
    BY <2>2, <2>3, LinkMoves DEF SaveRequest, EmailsStay
  <2>4. CASE ChangeEmail(h)
    <3>1. links \subseteq links' /\ EmailsStay
      BY <2>4 DEF ChangeEmail, EmailsStay
    <3>2. \E at \in {"notify", "rollback"} : Goto(h, [handlers[h] EXCEPT !.at = at])
      BY <2>4 DEF ChangeEmail
    <3>3. handlers[h].at = "changeEmail"
      BY <2>4 DEF ChangeEmail
    <3> QED BY <2>2, <3>1, <3>2, <3>3, LinkMoves
  <2>5. CASE SendNotification(h)
    BY <1>0, <2>5, LinkMoves DEF SendNotification, Answer, EmailsStay
  <2>6. CASE NotificationFails(h)
    BY <2>2, <2>6, LinkMoves DEF NotificationFails, EmailsStay
  <2>7. CASE RollBack(h)
    BY <1>0, <2>7, LinkMoves DEF RollBack, Answer, EmailsStay
  <2> QED BY <1>1, <2>1, <2>3, <2>4, <2>5, <2>6, <2>7 DEF RequestStep
<1>2. CASE EndStep(h)
  <2>1. ASSUME NEW t \in tokens, Revoke(h, t) PROVE LinkInv' /\ ChangesLinked
    BY <2>1, LinkMoves DEF Revoke, EmailsStay
  <2>2. CASE HardCancel(h)
    BY <1>0, <2>2, LinkMoves DEF HardCancel, Answer, EmailsStay
  <2>3. ASSUME NEW u \in Users, CancelEmailChange(h, u) PROVE LinkInv' /\ ChangesLinked
    BY <2>3 DEF CancelEmailChange, LinkInv, ChangesLinked
  <2> QED BY <1>2, <2>1, <2>2, <2>3 DEF EndStep
<1>3. CASE ConfirmStep(h)
  <2>1. ASSUME NEW l \in links, Confirm(h, l) PROVE LinkInv' /\ ChangesLinked
    <3>1. PICK r : Goto(h, [at |-> "update", link |-> l, request |-> r])
      BY <2>1 DEF Confirm
    <3> QED BY <2>1, <3>1, LinkMoves DEF Confirm, EmailsStay
  <2>2. CASE UpdateEmail(h)
    <3>1. handlers[h].link \in links /\ links' = links
      BY <2>2 DEF UpdateEmail, LinkInv
    <3>2. CASE handlers'[h] = Idle /\ UNCHANGED <<users, accepted>>
      <4>1. \/ Goto(h, Idle)
            \/ \E u \in Users : Goto(h, [at |-> "complete", user |-> u])
        BY <2>2 DEF UpdateEmail, Answer
      <4> QED BY <1>0, <3>1, <3>2, <4>1, LinkMoves DEF EmailsStay
    <3>3. ASSUME NEW u \in Users, users[u].email = handlers[h].link.email,
                 users'[u].email = handlers[h].link.updateTo,
                 \A v \in Users \ {u} : users'[v] = users[v],
                 Goto(h, [at |-> "complete", user |-> u])
          PROVE  LinkInv' /\ ChangesLinked
      <4>1. LinkInv'
        BY <1>0, <3>1, <3>3 DEF LinkInv, Goto
      <4>2. [email |-> users[u].email, updateTo |-> users'[u].email] = handlers[h].link
        BY <1>0, <3>1, <3>3 DEF Links
      <4> QED BY <3>1, <3>3, <4>1, <4>2 DEF ChangesLinked
    <3> QED BY <2>2, <3>2, <3>3, UsersWritten
  <2>3. CASE CompleteVerifiedEmailChange(h)
    <3>1. Goto(h, [at |-> "clear", user |-> handlers[h].user]) \/ Goto(h, Idle)
      BY <2>3 DEF CompleteVerifiedEmailChange, Answer
    <3> QED BY <1>0, <2>3, <3>1, LinkMoves DEF CompleteVerifiedEmailChange, EmailsStay
  <2>4. CASE ClearPending(h)
    BY <1>0, <2>4, LinkMoves DEF ClearPending, Answer, EmailsStay
  <2> QED BY <1>3, <2>1, <2>2, <2>3, <2>4 DEF ConfirmStep
<1>4. CASE AccountStep(h)
  <2>1. ASSUME NEW u \in Users, NEW p \in Profiles, UpdateProfile(h, u, p)
        PROVE  LinkInv' /\ ChangesLinked
    BY <2>1, LinkMoves DEF UpdateProfile, EmailsStay
  <2>2. ASSUME NEW u \in Users, NEW r \in Roles, SetUserRole(h, u, r)
        PROVE  LinkInv' /\ ChangesLinked
    BY <2>2, LinkMoves DEF SetUserRole, EmailsStay
  <2>3. CASE SaveUser(h)
    <3>1. EmailsStay
      BY <2>3, UsersWritten DEF EmailsStay
    <3> QED BY <1>0, <2>3, <3>1, LinkMoves DEF SaveUser, Answer
  <2> QED BY <1>4, <2>1, <2>2, <2>3 DEF AccountStep
<1> QED BY <1>1, <1>2, <1>3, <1>4

LEMMA LinkStep ==
    ASSUME TypeOK, LinkInv, [Next]_vars
    PROVE  LinkInv' /\ ChangesLinked
<1>1. ASSUME NEW u \in Users, Expire(u) PROVE LinkInv' /\ ChangesLinked
  BY <1>1 DEF Expire, LinkInv, ChangesLinked
<1>2. CASE Crash
  BY <1>2, States DEF Crash, LinkInv, ChangesLinked
<1>3. CASE UNCHANGED vars
  BY <1>3 DEF vars, LinkInv, ChangesLinked
<1> QED BY <1>1, <1>2, <1>3, LinkSteps DEF Next

\* An address changes only to one that received a link for exactly this change,
\* whatever saves, confirmations and restarts come between: no save of a
\* profile or a role brings an old address back.
THEOREM ChangesFollowLinks ==
    ASSUME UserAccountsAssumption
    PROVE  Spec => [][ChangesLinked]_vars
<1>1. Init => LinkInv
  BY States DEF Init, LinkInv
<1>2. TypeOK /\ LinkInv /\ [Next]_vars => LinkInv' /\ ChangesLinked
  BY LinkStep
<1> QED BY <1>1, <1>2, TypeCorrect, PTL DEF Spec


-----------------------------------------------------------------------------
(* PendingIsRevocable and NoPendingForOwnAddress                           *)

\* A handler that has yet to warn the user u of the request r, or to take it
\* back.
Warns(s, u, r) ==
    /\ s.at \in {"changeEmail", "notify", "rollback"}
    /\ s.user = u /\ s.request.id = r.id

\* A handler that will find that the user u has the address r asks for.
Clears(s, u, r) ==
    \/ s.at \in {"complete", "clear", "rollback"} /\ s.user = u
    \/ s.at = "changeEmail" /\ s.user = u /\ s.request = r

Warned(u) ==
    \/ [user |-> u, id |-> pending[u].id] \in tokens
    \/ \E h \in Handlers : Warns(handlers[h], u, pending[u])

Cleared(u) ==
    pending[u].newEmail = users[u].email =>
      \E h \in Handlers : Clears(handlers[h], u, pending[u])

\* Nothing that a handler leaves behind for good is without its warning or for
\* the address the user has.
PendingInv ==
    crashes = 0 =>
      \A u \in Users : pending[u] # None => Warned(u) /\ Cleared(u)

\* What a handler passes on when it goes to s: it is on its way with the request
\* that is now stored, or the stored request is the one from before and what the
\* handler did for it is still done.
PassesOn(h, s, u) ==
    pending'[u] # None =>
      \/ Warns(s, u, pending'[u]) /\ Clears(s, u, pending'[u])
      \/ /\ pending'[u] = pending[u]
         /\ Warns(handlers[h], u, pending[u]) =>
              Warns(s, u, pending[u]) \/ [user |-> u, id |-> pending[u].id] \in tokens'
         /\ users'[u].email = users[u].email \/ Clears(s, u, pending[u])
         /\ pending[u].newEmail = users[u].email /\ Clears(handlers[h], u, pending[u]) =>
              Clears(s, u, pending[u])

LEMMA PendingMoves ==
    ASSUME TypeOK, PendingInv, NEW h \in Handlers, NEW s, Goto(h, s), crashes' = crashes,
           tokens \subseteq tokens', \A u \in Users : PassesOn(h, s, u)
    PROVE  PendingInv'
<1>0. /\ handlers'[h] = s
      /\ \A g \in Handlers \ {h} : handlers'[g] = handlers[g]
  BY DEF TypeOK, Goto
<1> SUFFICES ASSUME crashes = 0, NEW u \in Users, pending'[u] # None
             PROVE  Warned(u)' /\ Cleared(u)'
  BY DEF PendingInv
<1>1. CASE Warns(s, u, pending'[u]) /\ Clears(s, u, pending'[u])
  BY <1>0, <1>1 DEF Warned, Cleared
<1>2. ASSUME ~(Warns(s, u, pending'[u]) /\ Clears(s, u, pending'[u]))
      PROVE  Warned(u)' /\ Cleared(u)'
  <2>1. /\ pending'[u] = pending[u]
        /\ Warns(handlers[h], u, pending[u]) =>
             Warns(s, u, pending[u]) \/ [user |-> u, id |-> pending[u].id] \in tokens'
        /\ users'[u].email = users[u].email \/ Clears(s, u, pending[u])
        /\ pending[u].newEmail = users[u].email /\ Clears(handlers[h], u, pending[u]) =>
             Clears(s, u, pending[u])
    BY <1>2 DEF PassesOn
  <2>2. Warned(u) /\ Cleared(u)
    BY <2>1 DEF PendingInv
  <2>3. Warned(u)'
    <3>1. CASE [user |-> u, id |-> pending[u].id] \in tokens
      BY <2>1, <3>1 DEF Warned
    <3>2. ASSUME NEW g \in Handlers, Warns(handlers[g], u, pending[u])
          PROVE  Warned(u)'
      <4>1. CASE g = h
        BY <1>0, <2>1, <3>2, <4>1 DEF Warned
      <4>2. CASE g # h
        BY <1>0, <2>1, <3>2, <4>2 DEF Warned
      <4> QED BY <4>1, <4>2
    <3> QED BY <2>2, <3>1, <3>2 DEF Warned
  <2>4. ASSUME pending'[u].newEmail = users'[u].email
        PROVE  \E g \in Handlers : Clears(handlers'[g], u, pending'[u])
    <3>1. CASE Clears(s, u, pending[u])
      BY <1>0, <2>1, <3>1
    <3>2. ASSUME users'[u].email = users[u].email, ~Clears(s, u, pending[u])
          PROVE  \E g \in Handlers : Clears(handlers'[g], u, pending'[u])
      <4>1. PICK g \in Handlers : Clears(handlers[g], u, pending[u])
        BY <2>1, <2>2, <2>4, <3>2 DEF Cleared
      <4>2. g # h
        BY <2>1, <2>4, <3>2, <4>1
      <4> QED BY <1>0, <2>1, <4>1, <4>2
    <3> QED BY <2>1, <3>1, <3>2
  <2> QED BY <2>3, <2>4 DEF Cleared
<1> QED BY <1>1, <1>2

\* The requests only become fewer, and nothing else happens.
LEMMA PendingStays ==
    ASSUME PendingInv, UNCHANGED <<users, tokens, handlers, crashes>>,
           \A u \in Users : pending'[u] \in {pending[u], None}
    PROVE  PendingInv'
BY DEF PendingInv, Warned, Cleared, Warns, Clears

\* A handler that neither warns nor clears passes everything on.
LEMMA Bystander ==
    ASSUME NEW h \in Handlers, NEW s, NEW u \in Users,
           handlers[h].at \in {"idle", "upsert", "revoke", "update", "save"},
           pending'[u] \in {pending[u], None}, users'[u].email = users[u].email
    PROVE  PassesOn(h, s, u)
BY DEF PassesOn, Warns, Clears

LEMMA PendingRequests ==
    ASSUME TypeOK, PendingInv, NEW h \in Handlers, RequestStep(h)
    PROVE  PendingInv'
<1>0. /\ handlers[h] \in HandlerStates /\ Idle.at = "idle"
      /\ pending \in [Users -> EmailChangeRequests \cup {None}]
  BY States DEF TypeOK
<1>1. ASSUME NEW u \in Users, NEW e \in Emails, RequestEmailChange(h, u, e)
      PROVE  PendingInv'
  <2>1. \A s : \A v \in Users : PassesOn(h, s, v)
    BY <1>0, <1>1, Bystander DEF RequestEmailChange, Serves
  <2> QED BY <1>1, <2>1, PendingMoves DEF RequestEmailChange
<1>2. ASSUME handlers[h].at \in {"upsert", "changeEmail", "notify", "rollback"}
      PROVE  /\ handlers[h].user \in Users /\ handlers[h].request \in EmailChangeRequests
             /\ \A at : /\ [handlers[h] EXCEPT !.at = at].at = at
                        /\ [handlers[h] EXCEPT !.at = at].user = handlers[h].user
                        /\ [handlers[h] EXCEPT !.at = at].request = handlers[h].request
  BY <1>0, <1>2, InHand
<1>3. CASE SaveRequest(h)
  <2> DEFINE s == [handlers[h] EXCEPT !.at = "changeEmail"]
  <2>1. /\ handlers[h].at = "upsert" /\ handlers[h].user \in Users
        /\ s.at = "changeEmail" /\ s.user = handlers[h].user /\ s.request = handlers[h].request
    BY <1>2, <1>3 DEF SaveRequest
  <2>2. /\ Goto(h, s) /\ UNCHANGED <<users, tokens, crashes>>
        /\ UpsertByUserId(handlers[h].user, handlers[h].request)
    BY <1>3 DEF SaveRequest
  <2> HIDE DEF s
  <2>3. /\ pending'[handlers[h].user] = handlers[h].request
        /\ \A v \in Users \ {handlers[h].user} : pending'[v] = pending[v]
    BY <1>0, <2>1, <2>2 DEF UpsertByUserId
  <2>4. ASSUME NEW v \in Users PROVE PassesOn(h, s, v)
    <3>1. CASE v = handlers[h].user
      BY <2>1, <2>3, <3>1 DEF PassesOn, Warns, Clears
    <3>2. CASE v # handlers[h].user
      BY <2>1, <2>2, <2>3, <3>2, Bystander
    <3> QED BY <3>1, <3>2
  <2> QED BY <2>2, <2>4, PendingMoves
<1>4. CASE ChangeEmail(h)
  <2>1. PICK fails \in BOOLEAN :
          /\ users[handlers[h].user].email = handlers[h].request.newEmail => fails
          /\ Goto(h, [handlers[h] EXCEPT !.at = IF fails THEN "rollback" ELSE "notify"])
    BY <1>4 DEF ChangeEmail
  <2> DEFINE s == [handlers[h] EXCEPT !.at = IF fails THEN "rollback" ELSE "notify"]
  <2>2. /\ handlers[h].at = "changeEmail" /\ s.at = IF fails THEN "rollback" ELSE "notify"
        /\ s.user = handlers[h].user /\ s.request = handlers[h].request
    BY <1>2, <1>4 DEF ChangeEmail
  <2> HIDE DEF s
  <2>3. ASSUME NEW v \in Users PROVE PassesOn(h, s, v)
    BY <1>4, <2>1, <2>2 DEF ChangeEmail, PassesOn, Warns, Clears
  <2>4. Goto(h, s) /\ tokens' = tokens /\ crashes' = crashes
    BY <1>4, <2>1 DEF ChangeEmail, s
  <2> QED BY <2>3, <2>4, PendingMoves
<1>5. CASE SendNotification(h)
  <2>1. ASSUME NEW v \in Users PROVE PassesOn(h, Idle, v)
    <3>1. Warns(handlers[h], v, pending[v]) =>
            [user |-> v, id |-> pending[v].id] \in tokens'
      BY <1>5 DEF SendNotification, Warns
    <3>2. ~Clears(handlers[h], v, pending[v])
      BY <1>5 DEF SendNotification, Clears
    <3> QED BY <1>5, <3>1, <3>2 DEF SendNotification, PassesOn
  <2> QED BY <1>5, <2>1, PendingMoves DEF SendNotification, Answer
<1>6. CASE NotificationFails(h)
  <2> DEFINE s == [handlers[h] EXCEPT !.at = "rollback"]
  <2>1. /\ handlers[h].at = "notify" /\ s.at = "rollback"
        /\ s.user = handlers[h].user /\ s.request = handlers[h].request
    BY <1>2, <1>6 DEF NotificationFails
  <2> HIDE DEF s
  <2>2. ASSUME NEW v \in Users PROVE PassesOn(h, s, v)
    BY <1>6, <2>1 DEF NotificationFails, PassesOn, Warns, Clears
  <2>3. Goto(h, s) /\ tokens' = tokens /\ crashes' = crashes
    BY <1>6 DEF NotificationFails, s
  <2> QED BY <2>2, <2>3, PendingMoves
<1>7. CASE RollBack(h)
  <2>1. /\ handlers[h].at = "rollback" /\ handlers[h].user \in Users
        /\ pending'[handlers[h].user] = None
        /\ \A v \in Users \ {handlers[h].user} : pending'[v] = pending[v]
    BY <1>2, <1>7, RowsTyped DEF RollBack
  <2>2. ASSUME NEW v \in Users PROVE PassesOn(h, Idle, v)
    <3>1. CASE v = handlers[h].user
      BY <2>1, <3>1 DEF PassesOn
    <3>2. CASE v # handlers[h].user
      BY <1>7, <2>1, <3>2 DEF RollBack, PassesOn, Warns, Clears
    <3> QED BY <3>1, <3>2
  <2> QED BY <1>7, <2>2, PendingMoves DEF RollBack, Answer
<1> QED BY <1>1, <1>3, <1>4, <1>5, <1>6, <1>7 DEF RequestStep

LEMMA PendingEnds ==
    ASSUME TypeOK, PendingInv, NEW h \in Handlers, EndStep(h)
    PROVE  PendingInv'
<1>0. /\ handlers[h] \in HandlerStates /\ Idle.at = "idle"
      /\ pending \in [Users -> EmailChangeRequests \cup {None}]
  BY States DEF TypeOK
<1>1. ASSUME NEW t \in tokens, Revoke(h, t) PROVE PendingInv'
  <2>1. \A s : \A v \in Users : PassesOn(h, s, v)
    BY <1>0, <1>1, Bystander DEF Revoke, Serves
  <2> QED BY <1>1, <2>1, PendingMoves DEF Revoke
<1>2. CASE HardCancel(h)
  <2>1. \A v \in Users : pending'[v] \in {pending[v], None}
    BY <1>0, <1>2 DEF HardCancel, DeleteByUserId
  <2>2. \A v \in Users : PassesOn(h, Idle, v)
    BY <1>2, <2>1, Bystander DEF HardCancel
  <2> QED BY <1>2, <2>2, PendingMoves DEF HardCancel, Answer
<1>3. ASSUME NEW u \in Users, CancelEmailChange(h, u) PROVE PendingInv'
  <2>1. \A v \in Users : pending'[v] \in {pending[v], None}
    BY <1>0, <1>3 DEF CancelEmailChange, DeleteByUserId
  <2> QED BY <1>3, <2>1, PendingStays DEF CancelEmailChange
<1> QED BY <1>1, <1>2, <1>3 DEF EndStep

LEMMA PendingConfirms ==
    ASSUME TypeOK, PendingInv, NEW h \in Handlers, ConfirmStep(h)
    PROVE  PendingInv'
<1>0. /\ handlers[h] \in HandlerStates /\ Idle.at = "idle"
      /\ pending \in [Users -> EmailChangeRequests \cup {None}]
  BY States DEF TypeOK
<1>1. ASSUME NEW l \in links, Confirm(h, l) PROVE PendingInv'
  <2>1. \A s : \A v \in Users : PassesOn(h, s, v)
    BY <1>0, <1>1, Bystander DEF Confirm, Serves
  <2>2. \E s : Goto(h, s)
    BY <1>1 DEF Confirm
  <2> QED BY <1>1, <2>1, <2>2, PendingMoves DEF Confirm
<1>2. CASE UpdateEmail(h)
  <2>1. handlers[h].at = "update" /\ UNCHANGED <<pending, tokens, crashes>>
    BY <1>2 DEF UpdateEmail
  <2>2. CASE handlers'[h] = Idle /\ UNCHANGED <<users, accepted>>
    <3>1. \E s : Goto(h, s)
      BY <1>2 DEF UpdateEmail, Answer
    <3>2. \A s : \A v \in Users : PassesOn(h, s, v)
      BY <2>1, <2>2, Bystander
    <3> QED BY <2>1, <3>1, <3>2, PendingMoves
  <2>3. ASSUME NEW u \in Users, \A v \in Users \ {u} : users'[v] = users[v],
               Goto(h, [at |-> "complete", user |-> u])
        PROVE  PendingInv'
    <3> DEFINE s == [at |-> "complete", user |-> u]
    <3>1. s.at = "complete" /\ s.user = u
      OBVIOUS
    <3> HIDE DEF s
    <3>2. ASSUME NEW v \in Users PROVE PassesOn(h, s, v)
      <4>1. CASE v = u
        BY <2>1, <3>1, <4>1 DEF PassesOn, Warns, Clears
      <4>2. CASE v # u
        BY <2>1, <2>3, <4>2, Bystander
      <4> QED BY <4>1, <4>2
    <3>3. Goto(h, s)
      BY <2>3 DEF s
    <3> QED BY <2>1, <3>2, <3>3, PendingMoves
  <2> QED BY <1>2, <2>2, <2>3, UsersWritten
<1>3. CASE CompleteVerifiedEmailChange(h)
  <2>1. /\ handlers[h].at = "complete" /\ UNCHANGED <<users, pending, tokens, crashes>>
        /\ handlers[h].user \in Users
    BY <1>0, <1>3, InHand DEF CompleteVerifiedEmailChange
  <2>2. CASE Goto(h, [at |-> "clear", user |-> handlers[h].user])
    <3> DEFINE s == [at |-> "clear", user |-> handlers[h].user]
    <3>1. s.at = "clear" /\ s.user = handlers[h].user
      OBVIOUS
    <3> HIDE DEF s
    <3>2. \A v \in Users : PassesOn(h, s, v)
      BY <2>1, <3>1 DEF PassesOn, Warns, Clears
    <3>3. Goto(h, s)
      BY <2>2 DEF s
    <3> QED BY <2>1, <3>2, <3>3, PendingMoves
  <2>3. ASSUME Goto(h, Idle),
               ~(/\ pending[handlers[h].user] # None
                 /\ pending[handlers[h].user].newEmail = users[handlers[h].user].email)
        PROVE  PendingInv'
    <3>1. \A v \in Users : PassesOn(h, Idle, v)
      BY <2>1, <2>3 DEF PassesOn, Warns, Clears
    <3> QED BY <2>1, <2>3, <3>1, PendingMoves
  <2> QED BY <1>3, <2>2, <2>3 DEF CompleteVerifiedEmailChange, Answer
<1>4. CASE ClearPending(h)
  <2>1. /\ handlers[h].at = "clear" /\ handlers[h].user \in Users
    BY <1>0, <1>4, InHand DEF ClearPending
  <2>2. /\ pending'[handlers[h].user] = None
        /\ \A v \in Users \ {handlers[h].user} : pending'[v] = pending[v]
    BY <1>4, <2>1, RowsTyped DEF ClearPending
  <2>3. \A v \in Users : PassesOn(h, Idle, v)
    BY <1>4, <2>1, <2>2 DEF ClearPending, PassesOn, Warns, Clears
  <2> QED BY <1>4, <2>3, PendingMoves DEF ClearPending, Answer
<1> QED BY <1>1, <1>2, <1>3, <1>4 DEF ConfirmStep

LEMMA PendingStep ==
    ASSUME TypeOK, PendingInv, [Next]_vars
    PROVE  PendingInv'
<1>0. pending \in [Users -> EmailChangeRequests \cup {None}] /\ Idle.at = "idle"
  BY States DEF TypeOK
<1>1. ASSUME NEW h \in Handlers, AccountStep(h) PROVE PendingInv'
  <2>1. PICK s : Goto(h, s)
    BY <1>1 DEF AccountStep, UpdateProfile, SetUserRole, SaveUser, Answer
  <2>2. /\ handlers[h].at \in {"idle", "save"} /\ UNCHANGED <<pending, tokens, crashes>>
        /\ \A v \in Users : users'[v].email = users[v].email
    BY <1>0, <1>1, UsersWritten DEF AccountStep, UpdateProfile, SetUserRole, Serves, SaveUser
  <2>3. \A v \in Users : PassesOn(h, s, v)
    BY <2>2, Bystander
  <2> QED BY <2>1, <2>2, <2>3, PendingMoves
<1>2. ASSUME NEW u \in Users, Expire(u) PROVE PendingInv'
  <2>1. \A v \in Users : pending'[v] \in {pending[v], None}
    BY <1>0, <1>2 DEF Expire, DeleteByUserId
  <2> QED BY <1>2, <2>1, PendingStays DEF Expire
<1>3. CASE Crash
  BY <1>3 DEF Crash, PendingInv, TypeOK
<1>4. CASE UNCHANGED vars
  BY <1>4, PendingStays DEF vars
<1> QED BY <1>1, <1>2, <1>3, <1>4, PendingRequests, PendingEnds, PendingConfirms DEF Next

LEMMA PendingAlways ==
    ASSUME UserAccountsAssumption
    PROVE  Spec => []PendingInv
<1>1. Init => PendingInv
  BY DEF Init, PendingInv
<1>2. TypeOK /\ PendingInv /\ [Next]_vars => PendingInv'
  BY PendingStep
<1> QED BY <1>1, <1>2, TypeCorrect, PTL DEF Spec

\* As long as the server does not crash, no failure of a mail and no overlapping
\* request leaves a change pending that the user cannot revoke.
THEOREM PendingChangesAreRevocable ==
    ASSUME UserAccountsAssumption
    PROVE  Spec => []PendingIsRevocable
<1>1. PendingInv => PendingIsRevocable
  <2> SUFFICES ASSUME PendingInv, crashes = 0, NEW u \in Users, pending[u] # None
               PROVE  \/ [user |-> u, id |-> pending[u].id] \in tokens
                      \/ \E h \in Handlers :
                           /\ handlers[h].at \in {"changeEmail", "notify", "rollback"}
                           /\ handlers[h].request.id = pending[u].id
    BY DEF PendingIsRevocable
  <2> QED BY DEF PendingInv, Warned, Warns
<1> QED BY <1>1, PendingAlways, PTL

\* As long as the server does not crash, no request for the address that the
\* user already has is left when its handlers are done, whichever of several
\* overlapping requests and confirmations wins.
THEOREM OwnAddressIsNotPending ==
    ASSUME UserAccountsAssumption
    PROVE  Spec => []NoPendingForOwnAddress
<1>1. PendingInv => NoPendingForOwnAddress
  <2> SUFFICES ASSUME PendingInv, crashes = 0, \A h \in Handlers : handlers[h] = Idle,
                      NEW u \in Users, pending[u] # None,
                      pending[u].newEmail = users[u].email
               PROVE  FALSE
    BY DEF NoPendingForOwnAddress
  <2>1. PICK h \in Handlers : Clears(handlers[h], u, pending[u])
    BY DEF PendingInv, Cleared
  <2> QED BY <2>1, States DEF Clears
<1> QED BY <1>1, PendingAlways, PTL


-----------------------------------------------------------------------------
(* ToldPendingIsPending and ChangesUnrevoked, with one request at a time   *)

\* A request that is being saved is new.
IsNew(r) ==
    /\ r.id \in 1..issued /\ r.id \notin revoked
    /\ \A u \in Users : pending[u] # None => pending[u].id # r.id

\* What the only handler found still stands.
Stands(s) ==
    /\ s.at = "upsert" => IsNew(s.request)
    /\ s.at \in {"changeEmail", "notify", "rollback"} =>
         pending[s.user] = s.request /\ accepted[s.user] = None
    /\ s.at = "revoke" =>
         /\ s.id \in 1..issued /\ accepted[s.user] \in {None, s.id}
         /\ \A u \in Users : pending[u] # None /\ pending[u].id = s.id => u = s.user
    /\ s.at = "update" => s.request.newEmail = s.link.updateTo /\ s.request.id \notin revoked
    /\ s.at \in {"complete", "clear"} => accepted[s.user] = None

\* Each request that stands is one of those made, of one user, and not revoked.
RowsOK ==
    /\ revoked \subseteq 1..issued
    /\ \A u \in Users : pending[u] # None =>
         pending[u].id \in 1..issued /\ pending[u].id \notin revoked
    /\ \A u, v \in Users :
         pending[u] # None /\ pending[v] # None /\ pending[u].id = pending[v].id => u = v

LoneInv ==
    RowsOK /\ ToldPendingIsPending /\ \A h \in Handlers : Stands(handlers[h])

\* Requests end, and who was told of them knows.
LEMMA LoneEnds ==
    ASSUME RowsOK, ToldPendingIsPending, issued' = issued, revoked' = revoked,
           \A u \in Users : \/ pending'[u] = pending[u] /\ accepted'[u] \in {accepted[u], None}
                            \/ pending'[u] = None /\ accepted'[u] = None
    PROVE  RowsOK' /\ ToldPendingIsPending'
BY DEF RowsOK, ToldPendingIsPending

\* The handler goes on.
LEMMA LoneGoes ==
    ASSUME NEW h, Handlers = {h}, RowsOK', ToldPendingIsPending', Stands(handlers[h])'
    PROVE  LoneInv'
BY DEF LoneInv

LEMMA NothingChanged ==
    ASSUME TypeOK, NEW h \in Handlers
    PROVE  /\ Goto(h, Idle) => Stands(handlers[h])'
           /\ \A s : Goto(h, s) => handlers'[h] = s
           /\ EmailsStay => ChangesUnrevoked
BY States DEF TypeOK, Goto, Stands, EmailsStay, ChangesUnrevoked

LEMMA LoneRequests ==
    ASSUME UserAccountsAssumption, NEW h, Handlers = {h}, TypeOK, LoneInv, RequestStep(h)
    PROVE  LoneInv' /\ ChangesUnrevoked
<1>0. /\ h \in Handlers /\ handlers[h] \in HandlerStates /\ Stands(handlers[h])
      /\ RowsOK /\ ToldPendingIsPending /\ Idle.at = "idle"
      /\ pending \in [Users -> EmailChangeRequests \cup {None}]
      /\ accepted \in [Users -> 1..MaxRequests \cup {None}] /\ issued \in Nat
  BY States DEF TypeOK, LoneInv, UserAccountsAssumption
<1>9. ChangesUnrevoked
  BY <1>0, NothingChanged DEF RequestStep, RequestEmailChange, SaveRequest, ChangeEmail,
     SendNotification, NotificationFails, RollBack, EmailsStay
<1> SUFFICES LoneInv'
  BY <1>9
<1>1. ASSUME NEW u \in Users, NEW e \in Emails, RequestEmailChange(h, u, e)
      PROVE  LoneInv'
  <2> DEFINE r == [id |-> issued + 1, newEmail |-> e, previousEmail |-> users[u].email]
             s == [at |-> "upsert", user |-> u, request |-> r]
  <2>1. /\ Goto(h, s) /\ issued' = issued + 1 /\ UNCHANGED <<pending, accepted, revoked>>
        /\ r.id = issued + 1 /\ s.at = "upsert" /\ s.request = r
    BY <1>1 DEF RequestEmailChange
  <2> HIDE DEF r, s
  <2>2. RowsOK' /\ ToldPendingIsPending'
    BY <1>0, <2>1 DEF RowsOK, ToldPendingIsPending
  <2>3. r.id \in 1..issued' /\ r.id \notin revoked
    BY <1>0, <2>1 DEF RowsOK
  <2>4. \A v \in Users : pending[v] # None => pending[v].id # r.id
    BY <1>0, <2>1 DEF RowsOK
  <2>5. handlers'[h] = s
    BY <1>0, <2>1, NothingChanged
  <2>6. Stands(handlers[h])'
    BY <2>1, <2>3, <2>4, <2>5 DEF Stands, IsNew
  <2> QED BY <2>2, <2>6, LoneGoes
<1>2. ASSUME handlers[h].at \in {"upsert", "changeEmail", "notify", "rollback"}
      PROVE  /\ handlers[h].user \in Users /\ handlers[h].request \in EmailChangeRequests
             /\ \A at : /\ [handlers[h] EXCEPT !.at = at].at = at
                        /\ [handlers[h] EXCEPT !.at = at].user = handlers[h].user
                        /\ [handlers[h] EXCEPT !.at = at].request = handlers[h].request
  BY <1>0, <1>2, InHand
<1>3. CASE SaveRequest(h)
  <2> DEFINE s == [handlers[h] EXCEPT !.at = "changeEmail"]
             u == handlers[h].user
             r == handlers[h].request
  <2>1. /\ handlers[h].at = "upsert" /\ u \in Users /\ r \in EmailChangeRequests
        /\ s.at = "changeEmail" /\ s.user = u /\ s.request = r
    BY <1>2, <1>3 DEF SaveRequest
  <2>2. /\ Goto(h, s) /\ UNCHANGED <<revoked, issued>>
        /\ UpsertByUserId(u, r) /\ Ended(u)
    BY <1>3 DEF SaveRequest
  <2>3. IsNew(r)
    BY <1>0, <2>1 DEF Stands
  <2> HIDE DEF s, u, r
  <2>4. /\ pending'[u] = r /\ \A v \in Users \ {u} : pending'[v] = pending[v]
        /\ accepted'[u] = None /\ \A v \in Users \ {u} : accepted'[v] = accepted[v]
    BY <2>1, <2>2, RowsTyped
  <2>5. RowsOK'
    BY <1>0, <2>1, <2>2, <2>3, <2>4 DEF RowsOK, IsNew
  <2>6. ToldPendingIsPending'
    BY <1>0, <2>1, <2>4 DEF ToldPendingIsPending
  <2>7. handlers'[h] = s
    BY <1>0, <2>2, NothingChanged
  <2>8. Stands(handlers[h])'
    BY <2>1, <2>4, <2>7 DEF Stands
  <2> QED BY <2>5, <2>6, <2>8, LoneGoes
<1>4. ASSUME NEW at \in {"notify", "rollback"}, Goto(h, [handlers[h] EXCEPT !.at = at]),
             handlers[h].at \in {"changeEmail", "notify"},
             UNCHANGED <<pending, accepted, revoked, issued>>
      PROVE  LoneInv'
  <2> DEFINE s == [handlers[h] EXCEPT !.at = at]
  <2>1. s.at = at /\ s.user = handlers[h].user /\ s.request = handlers[h].request
    BY <1>2, <1>4
  <2>2. Goto(h, s)
    BY <1>4
  <2> HIDE DEF s
  <2>5. handlers'[h] = s
    BY <1>0, <2>2, NothingChanged
  <2>3. Stands(handlers[h])'
    BY <1>0, <1>4, <2>1, <2>5 DEF Stands
  <2>4. RowsOK' /\ ToldPendingIsPending'
    BY <1>0, <1>4 DEF RowsOK, ToldPendingIsPending
  <2> QED BY <2>3, <2>4, LoneGoes
<1>5. CASE ChangeEmail(h)
  <2>1. \E at \in {"notify", "rollback"} : Goto(h, [handlers[h] EXCEPT !.at = at])
    BY <1>5 DEF ChangeEmail
  <2> QED BY <1>4, <1>5, <2>1 DEF ChangeEmail
<1>6. CASE SendNotification(h)
  <2> DEFINE u == handlers[h].user
             r == handlers[h].request
  <2>1. /\ u \in Users /\ r \in EmailChangeRequests /\ pending[u] = r
        /\ Goto(h, Idle) /\ UNCHANGED <<pending, revoked, issued>>
        /\ accepted' = [accepted EXCEPT ![u] = r.id]
    BY <1>0, <1>2, <1>6 DEF SendNotification, Answer, Stands
  <2> HIDE DEF u, r
  <2>2. RowsOK'
    BY <1>0, <2>1 DEF RowsOK
  <2>3. pending[u] # None
    BY <2>1 DEF UserAccountsAssumption
  <2>4. ToldPendingIsPending'
    BY <1>0, <2>1, <2>3 DEF ToldPendingIsPending
  <2> QED BY <1>0, <2>1, <2>2, <2>4, NothingChanged, LoneGoes
<1>7. CASE NotificationFails(h)
  BY <1>4, <1>7 DEF NotificationFails
<1>8. CASE RollBack(h)
  <2> DEFINE u == handlers[h].user
  <2>1. /\ u \in Users /\ accepted[u] = None /\ DeleteByUserId(u)
        /\ Goto(h, Idle) /\ UNCHANGED <<accepted, revoked, issued>>
    BY <1>0, <1>2, <1>8 DEF RollBack, Answer, Stands
  <2> HIDE DEF u
  <2>2. pending'[u] = None /\ \A v \in Users \ {u} : pending'[v] = pending[v]
    BY <2>1, RowsTyped
  <2>3. RowsOK' /\ ToldPendingIsPending'
    BY <1>0, <2>1, <2>2, LoneEnds
  <2> QED BY <1>0, <2>1, <2>3, NothingChanged, LoneGoes
<1> QED BY <1>1, <1>3, <1>5, <1>6, <1>7, <1>8 DEF RequestStep


LEMMA LoneEndings ==
    ASSUME NEW h, Handlers = {h}, TypeOK, LoneInv, EndStep(h)
    PROVE  LoneInv' /\ ChangesUnrevoked
<1>0. /\ h \in Handlers /\ handlers[h] \in HandlerStates /\ Stands(handlers[h])
      /\ RowsOK /\ ToldPendingIsPending /\ Idle.at = "idle"
      /\ pending \in [Users -> EmailChangeRequests \cup {None}]
      /\ tokens \subseteq RevokeTokens
  BY States DEF TypeOK, LoneInv
<1>9. ChangesUnrevoked
  BY <1>0, NothingChanged DEF EndStep, Revoke, HardCancel, CancelEmailChange, EmailsStay
<1> SUFFICES LoneInv'
  BY <1>9
<1>1. ASSUME NEW t \in tokens, Revoke(h, t) PROVE LoneInv'
  <2> DEFINE s == [at |-> "revoke", user |-> t.user, id |-> t.id]
  <2>1. /\ Goto(h, s) /\ UNCHANGED <<pending, accepted, revoked, issued>>
        /\ pending[t.user] # None /\ pending[t.user].id = t.id
        /\ s.at = "revoke" /\ s.user = t.user /\ s.id = t.id
    BY <1>1 DEF Revoke, MatchesRequest
  <2>2. t.user \in Users
    BY <1>0 DEF RevokeTokens
  <2> HIDE DEF s
  <2>3. handlers'[h] = s
    BY <1>0, <2>1, NothingChanged
  <2>4. /\ t.id \in 1..issued /\ accepted[t.user] \in {None, t.id}
        /\ \A u \in Users : pending[u] # None /\ pending[u].id = t.id => u = t.user
    BY <1>0, <2>1, <2>2 DEF RowsOK, ToldPendingIsPending
  <2>5. Stands(handlers[h])'
    BY <2>1, <2>3, <2>4 DEF Stands
  <2>6. RowsOK' /\ ToldPendingIsPending'
    BY <1>0, <2>1 DEF RowsOK, ToldPendingIsPending
  <2> QED BY <2>5, <2>6, LoneGoes
<1>2. CASE HardCancel(h)
  <2> DEFINE u == handlers[h].user
             id == handlers[h].id
  <2>1. /\ u \in Users /\ id \in 1..issued /\ accepted[u] \in {None, id}
        /\ \A v \in Users : pending[v] # None /\ pending[v].id = id => v = u
        /\ DeleteByUserId(u) /\ Goto(h, Idle) /\ issued' = issued
        /\ revoked' = revoked \cup {id}
        /\ IF accepted[u] = id THEN Ended(u) ELSE UNCHANGED accepted
    BY <1>0, <1>2, InHand DEF HardCancel, Answer, Stands
  <2> HIDE DEF u, id
  <2>2. pending'[u] = None /\ \A v \in Users \ {u} : pending'[v] = pending[v]
    BY <2>1, RowsTyped
  <2>3. accepted'[u] = None /\ \A v \in Users \ {u} : accepted'[v] = accepted[v]
    BY <2>1, RowsTyped
  <2>4. RowsOK'
    BY <1>0, <2>1, <2>2 DEF RowsOK
  <2>5. ToldPendingIsPending'
    BY <1>0, <2>2, <2>3 DEF ToldPendingIsPending
  <2> QED BY <1>0, <2>1, <2>4, <2>5, NothingChanged, LoneGoes
<1>3. ASSUME NEW u \in Users, CancelEmailChange(h, u) PROVE LoneInv'
  <2>1. /\ handlers[h] = Idle /\ UNCHANGED <<handlers, issued>>
        /\ DeleteByUserId(u) /\ Ended(u)
        /\ revoked' = IF pending[u] = None THEN revoked ELSE revoked \cup {pending[u].id}
    BY <1>3 DEF CancelEmailChange, Serves
  <2>2. /\ pending'[u] = None /\ \A v \in Users \ {u} : pending'[v] = pending[v]
        /\ accepted'[u] = None /\ \A v \in Users \ {u} : accepted'[v] = accepted[v]
    BY <2>1, RowsTyped
  <2>3. RowsOK'
    BY <1>0, <2>1, <2>2 DEF RowsOK
  <2>4. ToldPendingIsPending'
    BY <1>0, <2>2 DEF ToldPendingIsPending
  <2>5. Stands(handlers[h])'
    BY <1>0, <2>1 DEF Stands
  <2> QED BY <2>3, <2>4, <2>5, LoneGoes
<1> QED BY <1>1, <1>2, <1>3 DEF EndStep

LEMMA LoneConfirms ==
    ASSUME NEW h, Handlers = {h}, TypeOK, LoneInv, ConfirmStep(h)
    PROVE  LoneInv' /\ ChangesUnrevoked
<1>0. /\ h \in Handlers /\ handlers[h] \in HandlerStates /\ Stands(handlers[h])
      /\ RowsOK /\ ToldPendingIsPending /\ Idle.at = "idle"
      /\ pending \in [Users -> EmailChangeRequests \cup {None}]
  BY States DEF TypeOK, LoneInv
<1>1. ASSUME NEW l \in links, Confirm(h, l) PROVE LoneInv' /\ ChangesUnrevoked
  <2>1. PICK u \in Users :
          /\ pending[u] # None /\ pending[u].newEmail = l.updateTo
          /\ Goto(h, [at |-> "update", link |-> l, request |-> pending[u]])
    BY <1>1 DEF Confirm, GuardEmailChangeUpdate
  <2> DEFINE r == pending[u]
             s == [at |-> "update", link |-> l, request |-> r]
  <2>2. s.at = "update" /\ s.link = l /\ s.request = r /\ Goto(h, s)
    BY <2>1
  <2>3. r.newEmail = l.updateTo /\ r.id \notin revoked
    BY <1>0, <2>1 DEF RowsOK
  <2> HIDE DEF r, s
  <2>4. handlers'[h] = s /\ UNCHANGED <<pending, accepted, revoked, issued>> /\ EmailsStay
    BY <1>0, <1>1, <2>2, NothingChanged DEF Confirm, EmailsStay
  <2>5. Stands(handlers[h])'
    BY <2>2, <2>3, <2>4 DEF Stands
  <2>6. RowsOK' /\ ToldPendingIsPending'
    BY <1>0, <2>4 DEF RowsOK, ToldPendingIsPending
  <2> QED BY <1>0, <2>4, <2>5, <2>6, NothingChanged, LoneGoes
<1>2. CASE UpdateEmail(h)
  <2>1. handlers[h].at = "update" /\ UNCHANGED <<pending, revoked, issued>>
    BY <1>2 DEF UpdateEmail
  <2>2. CASE handlers'[h] = Idle /\ UNCHANGED <<users, accepted>>
    <3>1. RowsOK' /\ ToldPendingIsPending'
      BY <1>0, <2>1, <2>2 DEF RowsOK, ToldPendingIsPending
    <3>2. Stands(handlers[h])'
      BY <1>0, <2>2 DEF Stands
    <3>3. EmailsStay
      BY <2>2 DEF EmailsStay
    <3> QED BY <1>0, <3>1, <3>2, <3>3, NothingChanged, LoneGoes
  <2>3. ASSUME NEW u \in Users, users'[u].email = handlers[h].link.updateTo,
               \A v \in Users \ {u} : users'[v] = users[v],
               Goto(h, [at |-> "complete", user |-> u]), Ended(u)
        PROVE  LoneInv' /\ ChangesUnrevoked
    <3>1. accepted'[u] = None /\ \A v \in Users \ {u} : accepted'[v] = accepted[v]
      BY <2>3, RowsTyped
    <3>2. RowsOK' /\ ToldPendingIsPending'
      BY <1>0, <2>1, <3>1 DEF RowsOK, ToldPendingIsPending
    <3>3. handlers'[h] = [at |-> "complete", user |-> u]
      BY <1>0, <2>3, NothingChanged
    <3>4. Stands(handlers[h])'
      BY <3>1, <3>3 DEF Stands
    <3>5. ChangesUnrevoked
      BY <1>0, <2>1, <2>3 DEF ChangesUnrevoked, Stands
    <3> QED BY <3>2, <3>4, <3>5, LoneGoes
  <2> QED BY <1>0, <1>2, <2>2, <2>3, UsersWritten
<1>3. CASE CompleteVerifiedEmailChange(h)
  <2> DEFINE u == handlers[h].user
             s == [at |-> "clear", user |-> u]
  <2>1. /\ accepted[u] = None /\ UNCHANGED <<users, pending, accepted, revoked, issued>>
        /\ Goto(h, s) \/ Goto(h, Idle)
        /\ s.at = "clear" /\ s.user = u
    BY <1>0, <1>3 DEF CompleteVerifiedEmailChange, Answer, Stands
  <2> HIDE DEF u, s
  <2>2. RowsOK' /\ ToldPendingIsPending' /\ EmailsStay
    BY <1>0, <2>1 DEF RowsOK, ToldPendingIsPending, EmailsStay
  <2>3. handlers'[h] = s \/ handlers'[h] = Idle
    BY <1>0, <2>1, NothingChanged
  <2>4. Stands(handlers[h])'
    BY <1>0, <2>1, <2>3 DEF Stands
  <2> QED BY <1>0, <2>2, <2>4, NothingChanged, LoneGoes
<1>4. CASE ClearPending(h)
  <2> DEFINE u == handlers[h].user
  <2>1. /\ u \in Users /\ accepted[u] = None /\ DeleteByUserId(u)
        /\ Goto(h, Idle) /\ UNCHANGED <<users, accepted, revoked, issued>>
    BY <1>0, <1>4, InHand DEF ClearPending, Answer, Stands
  <2> HIDE DEF u
  <2>2. pending'[u] = None /\ \A v \in Users \ {u} : pending'[v] = pending[v]
    BY <2>1, RowsTyped
  <2>3. RowsOK' /\ ToldPendingIsPending' /\ EmailsStay
    BY <1>0, <2>1, <2>2, LoneEnds DEF EmailsStay
  <2> QED BY <1>0, <2>1, <2>3, NothingChanged, LoneGoes
<1> QED BY <1>1, <1>2, <1>3, <1>4 DEF ConfirmStep

LEMMA LoneStep ==
    ASSUME UserAccountsAssumption, NEW h, Handlers = {h}, TypeOK, LoneInv, [Next]_vars
    PROVE  LoneInv' /\ ChangesUnrevoked
<1>0. /\ h \in Handlers /\ handlers[h] \in HandlerStates /\ Stands(handlers[h])
      /\ RowsOK /\ ToldPendingIsPending /\ Idle.at = "idle"
  BY States DEF TypeOK, LoneInv
<1>1. CASE AccountStep(h)
  <2>1. PICK s : Goto(h, s) /\ (s = Idle \/ s.at = "save")
    <3>1. \/ Goto(h, Idle)
          \/ \E u, by, d : Goto(h, [at |-> "save", user |-> u, by |-> by, next |-> d])
      BY <1>1 DEF AccountStep, UpdateProfile, SetUserRole, SaveUser, Answer
    <3>2. \A u, by, d : [at |-> "save", user |-> u, by |-> by, next |-> d].at = "save"
      OBVIOUS
    <3> QED BY <3>1, <3>2, Zenon
  <2>2. EmailsStay /\ UNCHANGED <<pending, accepted, revoked, issued>>
    BY <1>0, <1>1, UsersWritten
       DEF AccountStep, UpdateProfile, SetUserRole, SaveUser, EmailsStay
  <2>3. handlers'[h] = s
    BY <1>0, <2>1, NothingChanged
  <2>4. Stands(handlers[h])'
    BY <1>0, <2>1, <2>3 DEF Stands
  <2>5. RowsOK' /\ ToldPendingIsPending'
    BY <1>0, <2>2 DEF RowsOK, ToldPendingIsPending
  <2> QED BY <1>0, <2>2, <2>4, <2>5, NothingChanged, LoneGoes
<1>2. ASSUME NEW u \in Users, Expire(u) PROVE LoneInv' /\ ChangesUnrevoked
  <2>1. /\ pending'[u] = None /\ \A v \in Users \ {u} : pending'[v] = pending[v]
        /\ accepted'[u] = None /\ \A v \in Users \ {u} : accepted'[v] = accepted[v]
        /\ UNCHANGED <<users, handlers, revoked, issued>>
    BY <1>2, RowsTyped DEF Expire
  <2>2. RowsOK' /\ ToldPendingIsPending' /\ EmailsStay
    BY <1>0, <2>1, LoneEnds DEF EmailsStay
  <2>3. Stands(handlers[h])'
    <3>1. handlers[h].at \in {"changeEmail", "notify", "rollback"} =>
            handlers[h].user \in Users \ {u}
      BY <1>0, <1>2, InHand DEF Expire, Stands
    <3>2. handlers[h].at \in {"revoke", "complete", "clear"} => handlers[h].user \in Users
      BY <1>0, InHand
    <3> QED BY <1>0, <2>1, <3>1, <3>2 DEF Stands, IsNew
  <2> QED BY <1>0, <2>2, <2>3, NothingChanged, LoneGoes
<1>3. CASE Crash
  <2>1. /\ UNCHANGED <<users, pending, accepted, revoked, issued>>
        /\ handlers'[h] = Idle
    BY <1>0, <1>3 DEF Crash
  <2>2. RowsOK' /\ ToldPendingIsPending' /\ EmailsStay
    BY <1>0, <2>1 DEF RowsOK, ToldPendingIsPending, EmailsStay
  <2>3. Stands(handlers[h])'
    BY <1>0, <2>1 DEF Stands
  <2> QED BY <1>0, <2>2, <2>3, NothingChanged, LoneGoes
<1>4. CASE UNCHANGED vars
  <2>1. UNCHANGED <<users, pending, accepted, revoked, issued, handlers>>
    BY <1>4 DEF vars
  <2>2. RowsOK' /\ ToldPendingIsPending' /\ EmailsStay /\ Stands(handlers[h])'
    BY <1>0, <2>1 DEF RowsOK, ToldPendingIsPending, EmailsStay, Stands, IsNew
  <2> QED BY <1>0, <2>2, NothingChanged, LoneGoes
<1> QED BY <1>1, <1>2, <1>3, <1>4, LoneRequests, LoneEndings, LoneConfirms DEF Next

LEMMA LoneAlways ==
    ASSUME UserAccountsAssumption, NEW h, Handlers = {h}
    PROVE  Spec => [](TypeOK /\ LoneInv)
<1>1. Init => LoneInv
  BY States DEF Init, LoneInv, RowsOK, ToldPendingIsPending, Stands
<1>2. TypeOK /\ LoneInv /\ [Next]_vars => LoneInv'
  BY LoneStep
<1> QED BY <1>1, <1>2, TypeCorrect, PTL DEF Spec

\* With one request at a time, what a user was told is pending stays so until
\* they end it, or it expires: also when mails fail and the server restarts.
THEOREM LoneToldIsPending ==
    ASSUME UserAccountsAssumption, NEW h, Handlers = {h}
    PROVE  Spec => []ToldPendingIsPending
<1>1. LoneInv => ToldPendingIsPending
  BY DEF LoneInv
<1> QED BY <1>1, LoneAlways, PTL

\* With one request at a time no address changes by a request whose revocation
\* the user was told of, however old the link that is followed.
THEOREM LoneRevokedNeverCompletes ==
    ASSUME UserAccountsAssumption, NEW h, Handlers = {h}
    PROVE  Spec => RevokedNeverCompletes
<1>1. TypeOK /\ LoneInv /\ [Next]_vars => ChangesUnrevoked
  BY LoneStep
<1> QED BY <1>1, LoneAlways, PTL DEF Spec, RevokedNeverCompletes

=============================================================================
