---------------------------- MODULE SigningViews ----------------------------
(***************************************************************************)
(* The pages around an account: signing up and in, asking for a password   *)
(* and setting it, revoking a change of the email address; and the         *)
(* settings of the instance, which say whether one may sign up.  A page    *)
(* may ask for the settings (asked) when it is opened; its form sends one  *)
(* request (sent) at a time.                                               *)
(***************************************************************************)
EXTENDS Naturals

CONSTANTS Views, None,
          MaxActs,      \* bound: acts of the user
          MaxOthers     \* bound: acts of others

VARIABLES
    view, page, asked, sent,
    stored, locked,     \* of the server: settings, and those the environment enforces
    account, mailed,    \* its passwords (none: no account), a token to reset it was mailed
    change,             \* the requested change of its email address
    known,              \* history: settings the page was told and nobody changed since
    did,                \* history: what the server did for the page
    acts, others

server == <<stored, locked, account, mailed, change>>
vars == <<view, page, asked, sent, server, known, did, acts, others>>

Toggles == {"signupEnabled", "organizationCreationEnabled"}
Keys == Toggles \cup {"permalinkBaseUrl"}
Addresses == {"default", "one", "other"}        \* of permalinks
Values(k) == IF k \in Toggles THEN {"on", "off"} ELSE Addresses
Settings == {s \in [Keys -> {"on", "off"} \cup Addresses] : \A k \in Keys : s[k] \in Values(k)}
Opposite(x) == IF x = "on" THEN "off" ELSE "on"
Passwords == {"old", "new"}
Changes == {"pending", "revoked", "confirmed"}

Request(kind, key, value) == [kind |-> kind, key |-> key, value |-> value, answer |-> None, got |-> None]
Ask(kind) == Request(kind, None, None)

Open(v) ==
    [state |-> IF v = "revoke" THEN "loading" ELSE "form",
     checking |-> v \in {"signup", "signin", "settings"},
     offers |-> v = "signup",       \* signupEnabled of the page
     shown |-> [k \in Keys |-> IF k \in Toggles THEN "on" ELSE "default"],
     locked |-> {}, draft |-> "default", told |-> None]

TypeOK ==
    /\ view \in Views /\ stored \in Settings /\ locked \subseteq Toggles
    /\ page.shown \in Settings /\ page.draft \in Addresses /\ page.offers \in BOOLEAN
    /\ page.state \in {"form", "loading", "left"}
    /\ account \subseteq Passwords /\ change \in Changes /\ known \subseteq Keys

-----------------------------------------------------------------------------
(* The server does what a request asks, refuses it, or fails, done or not. *)

Does(r) ==
    CASE r.kind = "signUp" ->
            /\ stored["signupEnabled"] = "on" /\ account = {}
            /\ account' = {r.value} /\ UNCHANGED <<stored, mailed, change>>
      [] r.kind = "signIn" -> r.value \in account /\ UNCHANGED <<stored, account, mailed, change>>
      [] r.kind = "requestPasswordReset" ->
            mailed' = (mailed \/ account # {}) /\ UNCHANGED <<stored, account, change>>
      [] r.kind = "resetPassword" ->
            /\ mailed /\ mailed' = FALSE
            /\ account' = {r.value} /\ UNCHANGED <<stored, change>>
      [] r.kind = "revokeEmailChange" ->
            /\ change' = IF change = "pending" THEN "revoked" ELSE change
            /\ UNCHANGED <<stored, account, mailed>>
      [] r.kind = "update" ->
            /\ r.key \notin locked
            /\ stored' = [stored EXCEPT ![r.key] = r.value]
            /\ UNCHANGED <<account, mailed, change>>
      [] OTHER -> UNCHANGED <<stored, account, mailed, change>>
Got(r) ==
    CASE r.kind \in {"getPublic", "get"} -> stored
      [] r.kind = "update" -> [stored EXCEPT ![r.key] = r.value]
      [] r.kind \in {"getEmailChangeRevokeInfo", "revokeEmailChange"} ->
            IF change = "pending" THEN "ok" ELSE "invalid"
      [] OTHER -> None
Tells(r) == CASE r.kind = "get" -> Keys [] r.kind = "update" -> {r.key} [] OTHER -> {}

Served(r, r2) ==
    \/ /\ Does(r) /\ did' = did \cup {<<r.kind, r.value>>}
       /\ r2 = [r EXCEPT !.answer = "done", !.got = Got(r)]
       /\ known' = known \cup Tells(r)
    \/ /\ r2 = [r EXCEPT !.answer = "refused"]
       /\ UNCHANGED <<stored, account, mailed, change, did, known>>
    \/ /\ r2 = [r EXCEPT !.answer = "failed"]
       /\ Does(r) \/ UNCHANGED <<stored, account, mailed, change>>
       /\ known' = known \ Tells(r) /\ UNCHANGED did
Serve ==
    /\ \/ asked # None /\ asked.answer = None /\ Served(asked, asked') /\ UNCHANGED sent
       \/ sent # None /\ sent.answer = None /\ Served(sent, sent') /\ UNCHANGED asked
    /\ UNCHANGED <<view, page, locked, acts, others>>

OtherUser ==
    /\ others < MaxOthers /\ others' = others + 1
    /\ \/ \E k \in Keys \ locked : \E x \in Values(k) \ {stored[k]} :
            /\ stored' = [stored EXCEPT ![k] = x] /\ known' = known \ {k}
            /\ UNCHANGED <<mailed, change>>
       \/ mailed /\ mailed' = FALSE /\ UNCHANGED <<stored, known, change>>
       \/ change = "pending" /\ change' \in {"revoked", "confirmed"}
            /\ UNCHANGED <<stored, known, mailed>>
    /\ UNCHANGED <<view, page, asked, sent, locked, account, did, acts>>

-----------------------------------------------------------------------------
Answered(r) == r # None /\ r.answer # None
Ok(r) == r.answer = "done"
AskedEnds(p) ==
    /\ page' = p /\ asked' = None
    /\ UNCHANGED <<view, sent, server, known, did, acts, others>>
SentEnds(p) ==
    /\ page' = p /\ sent' = None
    /\ UNCHANGED <<view, asked, server, known, did, acts, others>>
Leave(to) == [page EXCEPT !.state = "left", !.told = to]

\* Signing up is offered when the settings are not known, its link not.
onMountedSignup ==
    /\ view = "signup" /\ Answered(asked)
    /\ AskedEnds([page EXCEPT !.checking = FALSE,
                    !.offers = IF Ok(asked) THEN asked.got["signupEnabled"] = "on" ELSE TRUE])
onMountedSignin ==
    /\ view = "signin" /\ Answered(asked)
    /\ AskedEnds([page EXCEPT !.checking = FALSE,
                    !.offers = IF Ok(asked) THEN asked.got["signupEnabled"] = "on" ELSE FALSE])
fetchSettings ==
    /\ view = "settings" /\ Answered(asked)
    /\ AskedEnds([page EXCEPT !.checking = FALSE,
                    !.shown = IF Ok(asked) THEN asked.got ELSE @,
                    !.draft = IF Ok(asked) THEN asked.got["permalinkBaseUrl"] ELSE @,
                    !.locked = IF Ok(asked) THEN locked ELSE @])
onMountedRevoke ==
    /\ view = "revoke" /\ Answered(asked)
    /\ AskedEnds(IF Ok(asked) THEN IF asked.got = "ok" THEN [page EXCEPT !.state = "form"]
                                   ELSE Leave("invalid")
                 ELSE Leave("error"))

-----------------------------------------------------------------------------
(* The forms. *)

Act(v) ==
    /\ view = v /\ page.state = "form" /\ sent = None
    /\ acts < MaxActs /\ acts' = acts + 1
    /\ UNCHANGED <<view, asked, server, known, did, others>>
Send(p, r) == page' = [p EXCEPT !.state = "loading", !.told = None] /\ sent' = r

signup(pw) ==
    Act("signup") /\ ~page.checking /\ page.offers /\ Send(page, Request("signUp", None, pw))
signin(pw) == Act("signin") /\ Send(page, Request("signIn", None, pw))
FormEnds(v, to) ==
    /\ view = v /\ Answered(sent)
    /\ SentEnds(IF Ok(sent) THEN Leave(to) ELSE [page EXCEPT !.state = "form", !.told = "error"])
signupEnds == FormEnds("signup", "signin")
signinEnds == FormEnds("signin", "home")

\* A request that cannot be sent leaves the page loading.
requestPasswordReset == Act("resetRequest") /\ Send(page, Ask("requestPasswordReset"))
requestPasswordResetEnds ==
    /\ view = "resetRequest" /\ Answered(sent)
    /\ SentEnds(CASE Ok(sent) -> [page EXCEPT !.state = "form", !.told = "ok"]
                  [] sent.answer = "refused" -> [page EXCEPT !.state = "form", !.told = "error"]
                  [] OTHER -> page)
\* Sent only when it was typed twice alike.
resetPassword(typed, again) ==
    Act("reset") /\ typed = again /\ Send(page, Request("resetPassword", None, typed))
resetPasswordEnds == FormEnds("reset", "signin")

revoke == Act("revoke") /\ Send(page, Ask("revokeEmailChange"))
revokeEnds ==
    view = "revoke" /\ Answered(sent) /\ SentEnds(Leave(IF Ok(sent) THEN sent.got ELSE "error"))

-----------------------------------------------------------------------------
(* The settings of the instance: a toggle changes at once and is set back  *)
(* by a failure; the address is committed on leaving its field, and shown  *)
(* when it was saved.                                                      *)

toggleInstanceSetting(k) ==
    /\ Act("settings") /\ ~page.checking /\ k \notin page.locked
    /\ Send([page EXCEPT !.shown[k] = Opposite(@)], Request("update", k, Opposite(page.shown[k])))
typeAddress(a) ==
    /\ Act("settings") /\ ~page.checking /\ a # page.draft
    /\ page' = [page EXCEPT !.draft = a] /\ UNCHANGED sent
commitPermalinkBaseUrl ==
    /\ Act("settings") /\ ~page.checking /\ page.draft # page.shown["permalinkBaseUrl"]
    /\ Send(page, Request("update", "permalinkBaseUrl", page.draft))
settingEnds(k) ==
    /\ view = "settings" /\ Answered(sent) /\ sent.key = k
    /\ SentEnds([page EXCEPT !.state = "form", !.told = IF Ok(sent) THEN "saved" ELSE "error",
                    !.shown[k] = IF Ok(sent) THEN sent.got[k]
                                 ELSE IF k \in Toggles THEN Opposite(@) ELSE @])

-----------------------------------------------------------------------------
Init ==
    /\ view \in Views /\ page = Open(view)
    /\ asked = CASE view \in {"signup", "signin"} -> Ask("getPublic")
                 [] view = "settings" -> Ask("get")
                 [] view = "revoke" -> Ask("getEmailChangeRevokeInfo")
                 [] OTHER -> None
    /\ sent = None
    /\ stored \in {s \in Settings : s["organizationCreationEnabled"] = "on"
                                    /\ s["permalinkBaseUrl"] # "other"}
    /\ locked \in IF view = "settings" THEN {{}, {"signupEnabled"}} ELSE {{}}
    /\ account \in {{}, {"old"}} /\ mailed = (view = "reset" /\ account # {})
    /\ change \in IF view = "revoke" THEN Changes ELSE {"confirmed"}
    /\ known = {} /\ did = {} /\ acts = 0 /\ others = 0

Ends ==
    \/ onMountedSignup \/ onMountedSignin \/ fetchSettings \/ onMountedRevoke
    \/ signupEnds \/ signinEnds \/ requestPasswordResetEnds \/ resetPasswordEnds \/ revokeEnds
    \/ \E k \in Keys : settingEnds(k)
User ==
    \/ requestPasswordReset \/ revoke \/ commitPermalinkBaseUrl
    \/ \E pw \in Passwords :
        signup(pw) \/ signin(pw) \/ \E again \in Passwords : resetPassword(pw, again)
    \/ \E k \in Toggles : toggleInstanceSetting(k)
    \/ \E a \in Addresses : typeAddress(a)
Next == Serve \/ Ends \/ User \/ OtherUser
\* Requests are answered or fail, and answers are taken up.
Fairness == WF_vars(Serve) /\ WF_vars(Ends)
Spec == Init /\ [][Next]_vars /\ Fairness

-----------------------------------------------------------------------------
(* Properties *)

\* While nothing is saved, the page shows each setting as it is stored, but
\* for what others changed and what failed: a refused toggle is set back, and
\* an answer to one setting does not disturb another.
ShownSettingsAreStored ==
    view = "settings" /\ sent = None /\ asked = None =>
        \A k \in known : page.shown[k] = stored[k]

\* A page that reports success, or goes on to the next, reports what the
\* server did: an account, a password, a revocation, a saved setting.
SuccessIsDone ==
    /\ view = "signup" /\ page.state = "left" => \E d \in did : d[1] = "signUp"
    /\ view = "signin" /\ page.state = "left" => \E d \in did : d[1] = "signIn"
    /\ view = "reset" /\ page.state = "left" => \E d \in did : d[1] = "resetPassword"
    /\ view = "revoke" /\ page.told = "ok" => change = "revoked"
    /\ view = "settings" /\ page.told = "saved" => \E d \in did : d[1] = "update"

\* Every page gets out of its loading state, but for the one that asks for a
\* new password when the call threw: nobody catches that.
Thrown == view = "resetRequest" /\ page.state = "loading" /\ sent = None
Waits == page.checking \/ (page.state = "loading" /\ ~Thrown)
LoadingEnds == []<>~Waits

=============================================================================

