---------------------------- MODULE ProfilePage ------------------------------
(***************************************************************************)
(* The page of the signed-in user: the form with names and language, and   *)
(* the card that changes the address.  The form is saved as the difference *)
(* to what was loaded; the answers to the card refresh the address and     *)
(* leave the form alone.  What the server does with an address until it is *)
(* confirmed is in module UserAccounts; here a request makes it pending, a *)
(* cancellation drops it, and a link confirms it in another tab, where the *)
(* form may be saved as well.  Messages about failures are left out.       *)
(***************************************************************************)
EXTENDS Naturals, Sequences, FiniteSets

CONSTANTS
    Values,             \* values of the form's fields
    Emails,
    Overlap,            \* whether the user acts before an answer is there
    MaxOutside,         \* bound: confirmations and saves in other tabs
    MaxSteps, MaxFaults         \* bounds: what the user enters, failures

VARIABLES
    account, pending,   \* the user and the address asked for, at the server
    requests,           \* what each kind of request is at
    page,               \* what the form and the card know of the account
    form,               \* the fields of the form
    card,               \* the panel for a new address
    touched,            \* history: fields edited since they were loaded
    statuses,           \* history: addresses with their state, as ever stored
    outside, steps, faults      \* counters for the bounds

vars == <<account, pending, requests, page, form, card, touched, statuses,
          outside, steps, faults>>

-----------------------------------------------------------------------------
Fields == {"firstName", "lastName", "preferredLanguage"}
Kinds == {"hydrate", "profile", "request", "cancel", "resend"}
NoEmail == "none"
Idle == [at |-> "idle"]
Nothing == [f \in {} |-> ""]
Start == CHOOSE v \in Values : TRUE

\* What the server tells of the account.
AccountWith(user, newEmail) == [user |-> user, pending |-> newEmail]
Status(user) == <<user.email, user.verified>>

InFlight(kind) == requests[kind].at # "idle"
Quiet == \A kind \in Kinds : ~InFlight(kind)
MayAct == Overlap \/ Quiet
Sent(kind, body) == requests' = [requests EXCEPT ![kind] = [at |-> "sent", body |-> body]]
Reply(kind, me) == requests' = [requests EXCEPT ![kind] = [at |-> "answered", me |-> me]]
Closed == [open |-> FALSE, email |-> NoEmail]

-----------------------------------------------------------------------------
(* The server *)

\* The user is read before the request is made, and may be stale in the answer.
RequestEmailChange ==
    /\ requests["request"].at = "sent"
    /\ pending' = requests["request"].body.email
    /\ Reply("request", AccountWith(account, pending'))
    /\ UNCHANGED <<account, page, form, card, touched, statuses, outside, steps, faults>>

CancelEmailChange ==
    /\ requests["cancel"].at = "sent"
    /\ pending' = NoEmail
    /\ Reply("cancel", AccountWith(account, NoEmail))
    /\ UNCHANGED <<account, page, form, card, touched, statuses, outside, steps, faults>>

UpdateProfile ==
    LET diff == requests["profile"].body
    IN  /\ requests["profile"].at = "sent"
        /\ account' = [account EXCEPT !.values =
                            [f \in Fields |-> IF f \in DOMAIN diff THEN diff[f] ELSE @[f]]]
        /\ requests' = [requests EXCEPT !["profile"] = [at |-> "saved", user |-> account']]
        /\ UNCHANGED <<pending, page, form, card, touched, statuses, outside, steps, faults>>

\* The pending request is read after the user was saved.
FindPending ==
    /\ requests["profile"].at = "saved"
    /\ Reply("profile", AccountWith(requests["profile"].user, pending))
    /\ UNCHANGED <<account, pending, page, form, card, touched, statuses, outside, steps, faults>>

GetMe ==
    /\ requests["hydrate"].at = "sent"
    /\ Reply("hydrate", AccountWith(account, pending))
    /\ UNCHANGED <<account, pending, page, form, card, touched, statuses, outside, steps, faults>>

Resend ==
    /\ requests["resend"].at = "sent"
    /\ Reply("resend", AccountWith(account, pending))
    /\ UNCHANGED <<account, pending, page, form, card, touched, statuses, outside, steps, faults>>

Fail(kind) ==
    /\ requests[kind].at = "sent" /\ faults < MaxFaults
    /\ faults' = faults + 1
    /\ requests' = [requests EXCEPT ![kind] = [at |-> "failed"]]
    /\ UNCHANGED <<account, pending, page, form, card, touched, statuses, outside, steps>>

\* The link is opened, which also verifies the address.
Confirm ==
    /\ pending # NoEmail /\ outside < MaxOutside
    /\ account' = [account EXCEPT !.email = pending, !.verified = TRUE]
    /\ pending' = NoEmail
    /\ statuses' = statuses \cup {Status(account')}
    /\ outside' = outside + 1
    /\ UNCHANGED <<requests, page, form, card, touched, steps, faults>>

\* The form is saved in another tab.
OtherTab(f, v) ==
    /\ outside < MaxOutside /\ account.values[f] # v
    /\ account' = [account EXCEPT !.values[f] = v]
    /\ outside' = outside + 1
    /\ UNCHANGED <<pending, requests, page, form, card, touched, statuses, steps, faults>>

-----------------------------------------------------------------------------
(* The form *)

\* All the page knows of the account is replaced, and the form is filled anew.
ApplyMe(me) ==
    /\ page' = [page EXCEPT !.email = me.user.email, !.verified = me.user.verified,
                            !.pending = me.pending, !.original = me.user.values, !.loaded = TRUE]
    /\ form' = me.user.values
    /\ touched' = {}

\* Only the address is refreshed.
OnEmailUpdated(me) ==
    /\ page' = [page EXCEPT !.email = me.user.email, !.pending = me.pending]
    /\ UNCHANGED <<form, touched>>

Hydrate ==
    /\ page.failed /\ ~InFlight("hydrate") /\ MayAct
    /\ Sent("hydrate", Nothing)
    /\ page' = [page EXCEPT !.failed = FALSE]
    /\ UNCHANGED <<account, pending, form, card, touched, statuses, outside, steps, faults>>

HydrateEnds ==
    /\ requests["hydrate"].at \in {"answered", "failed"}
    /\ requests' = [requests EXCEPT !["hydrate"] = Idle]
    /\ IF requests["hydrate"].at = "answered" THEN ApplyMe(requests["hydrate"].me)
       ELSE /\ page' = [page EXCEPT !.failed = TRUE]
            /\ UNCHANGED <<form, touched>>
    /\ UNCHANGED <<account, pending, card, statuses, outside, steps, faults>>

\* The fields are there once the account was loaded or could not be loaded.
Edit(f, v) ==
    /\ page.loaded \/ (page.failed /\ f # "preferredLanguage")
    /\ ~InFlight("profile") /\ MayAct /\ steps < MaxSteps
    /\ form[f] # v
    /\ form' = [form EXCEPT ![f] = v]
    /\ touched' = touched \cup {f}
    /\ steps' = steps + 1
    /\ UNCHANGED <<account, pending, requests, page, card, statuses, outside, faults>>

Dirty == form # page.original

ComputeProfileDiff(values, original) ==
    [f \in {f \in Fields : values[f] # original[f]} |-> values[f]]

SubmitProfile ==
    /\ page.loaded /\ Dirty /\ ~InFlight("profile") /\ MayAct
    /\ Sent("profile", ComputeProfileDiff(form, page.original))
    /\ UNCHANGED <<account, pending, page, form, card, touched, statuses, outside, steps, faults>>

SubmitEnds ==
    /\ requests["profile"].at \in {"answered", "failed"}
    /\ requests' = [requests EXCEPT !["profile"] = Idle]
    /\ IF requests["profile"].at = "answered" THEN ApplyMe(requests["profile"].me)
       ELSE UNCHANGED <<page, form, touched>>
    /\ UNCHANGED <<account, pending, card, statuses, outside, steps, faults>>

Discard ==
    /\ page.loaded /\ Dirty /\ ~InFlight("profile") /\ MayAct
    /\ form' = page.original /\ touched' = {}
    /\ UNCHANGED <<account, pending, requests, page, card, statuses, outside, steps, faults>>

-----------------------------------------------------------------------------
(* The card *)

PanelShown == card.open /\ page.pending = NoEmail
OnlyCard ==
    UNCHANGED <<account, pending, page, form, touched, statuses, outside, faults>>

OpenEmailPanel ==
    /\ page.loaded /\ page.pending = NoEmail /\ ~card.open /\ MayAct
    /\ card' = [open |-> TRUE, email |-> NoEmail]
    /\ OnlyCard /\ UNCHANGED <<requests, steps>>

EnterEmail(e) ==
    /\ PanelShown /\ ~InFlight("request") /\ MayAct /\ steps < MaxSteps
    /\ card' = [card EXCEPT !.email = e] /\ steps' = steps + 1
    /\ OnlyCard /\ UNCHANGED requests

\* Escape closes the panel, also while a request is under way.
CloseEmailPanel ==
    /\ PanelShown /\ MayAct
    /\ card' = Closed
    /\ OnlyCard /\ UNCHANGED <<requests, steps>>

\* An address other than the one on display.
SendVerification ==
    /\ PanelShown /\ card.email \notin {NoEmail, page.email}
    /\ ~InFlight("request") /\ MayAct
    /\ Sent("request", [email |-> card.email])
    /\ OnlyCard /\ UNCHANGED <<card, steps>>

RequestEnds ==
    /\ requests["request"].at \in {"answered", "failed"}
    /\ requests' = [requests EXCEPT !["request"] = Idle]
    /\ IF requests["request"].at = "answered"
       THEN /\ OnEmailUpdated(requests["request"].me)
            /\ card' = Closed
       ELSE UNCHANGED <<page, form, touched, card>>
    /\ UNCHANGED <<account, pending, statuses, outside, steps, faults>>

\* Confirmed in a dialog.
CancelPending ==
    /\ page.loaded /\ page.pending # NoEmail /\ ~InFlight("cancel") /\ MayAct
    /\ Sent("cancel", Nothing)
    /\ OnlyCard /\ UNCHANGED <<card, steps>>

CancelEnds ==
    /\ requests["cancel"].at \in {"answered", "failed"}
    /\ requests' = [requests EXCEPT !["cancel"] = Idle]
    /\ IF requests["cancel"].at = "answered" THEN OnEmailUpdated(requests["cancel"].me)
       ELSE UNCHANGED <<page, form, touched>>
    /\ UNCHANGED <<account, pending, card, statuses, outside, steps, faults>>

ResendVerification ==
    /\ page.loaded /\ page.pending = NoEmail /\ ~page.verified
    /\ ~InFlight("resend") /\ MayAct /\ steps < MaxSteps
    /\ Sent("resend", Nothing)
    /\ steps' = steps + 1
    /\ OnlyCard /\ UNCHANGED card

ResendEnds ==
    /\ requests["resend"].at \in {"answered", "failed"}
    /\ requests' = [requests EXCEPT !["resend"] = Idle]
    /\ UNCHANGED <<account, pending, page, form, card, touched, statuses, outside, steps, faults>>

-----------------------------------------------------------------------------
(* The system *)

TypeOK ==
    /\ account.email \in Emails /\ account.values \in [Fields -> Values]
    /\ pending \in Emails \cup {NoEmail}
    /\ form \in [Fields -> Values] /\ page.original \in [Fields -> Values]
    /\ page.pending \in Emails \cup {NoEmail} /\ card.email \in Emails \cup {NoEmail}
    /\ touched \subseteq Fields /\ (page.loaded => page.email \in Emails)
    /\ \A kind \in Kinds : requests[kind].at \in {"idle", "sent", "saved", "answered", "failed"}

\* The page asks for the account when it is opened.
Init ==
    /\ \E e \in Emails, v \in Values :
          account = [email |-> e, verified |-> FALSE, values |-> [f \in Fields |-> v]]
    /\ pending = NoEmail
    /\ requests = [kind \in Kinds |-> IF kind = "hydrate" THEN [at |-> "sent", body |-> Nothing]
                                      ELSE Idle]
    /\ form = [f \in Fields |-> Start]
    /\ page = [email |-> NoEmail, verified |-> FALSE, pending |-> NoEmail, original |-> form,
               loaded |-> FALSE, failed |-> FALSE]
    /\ card = Closed
    /\ touched = {} /\ statuses = {Status(account)}
    /\ outside = 0 /\ steps = 0 /\ faults = 0

Server ==
    \/ RequestEmailChange \/ CancelEmailChange \/ UpdateProfile \/ FindPending \/ GetMe \/ Resend
Ends == HydrateEnds \/ SubmitEnds \/ RequestEnds \/ CancelEnds \/ ResendEnds
User ==
    \/ Hydrate \/ SubmitProfile \/ Discard
    \/ \E f \in Fields, v \in Values : Edit(f, v)
    \/ OpenEmailPanel \/ CloseEmailPanel \/ SendVerification \/ CancelPending \/ ResendVerification
    \/ \E e \in Emails : EnterEmail(e)
Next ==
    \/ Server \/ Ends \/ User \/ Confirm
    \/ \E f \in Fields, v \in Values : OtherTab(f, v)
    \/ \E kind \in Kinds : Fail(kind)
Spec == Init /\ [][Next]_vars

\* The browser and the server go on; the user need not.
FairSpec == Spec /\ WF_vars(Server) /\ WF_vars(Ends)

-----------------------------------------------------------------------------
(* Properties *)

\* What the user has entered and not saved stays, whatever is asked of the card
\* and whichever answer arrives first: only the user, a save and a load change
\* the fields.
KeepsEdits ==
    \A f \in Fields : (f \in touched /\ form'[f] # form[f]) =>
       (User \/ HydrateEnds \/ SubmitEnds)

\* A save changes only what the user has edited, and leaves alone what another
\* tab has saved since the page was loaded.
SavesEdits ==
    UpdateProfile => \A f \in Fields \ touched : account'.values[f] = account.values[f]

\* When everything is answered the page shows what the server has, and the form
\* what was loaded but for the fields that were edited.
ShownIsStored ==
    (Quiet /\ page.loaded) =>
        /\ page.email = account.email /\ page.verified = account.verified
        /\ page.pending = pending /\ page.original = account.values
        /\ \A f \in Fields \ touched : form[f] = account.values[f]

\* The address is shown with a state it once had.
StatusIsOfEmail == page.loaded => <<page.email, page.verified>> \in statuses

=============================================================================
