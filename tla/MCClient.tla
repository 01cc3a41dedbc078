------------------------------- MODULE MCClient -------------------------------
(***************************************************************************)
(* The client beside its editors for TLC: navigating, reading lists in     *)
(* pages, the profile, the people of an instance or organization, and the  *)
(* pages around an account.  The first is also checked with answers in any *)
(* order, the profile with a user who does not wait.  A behaviour is of    *)
(* one part.                                                               *)
(***************************************************************************)
EXTENDS Naturals, TLC

CONSTANTS OwnOrgs, Tabs, Parties, Me, Other, Nobody

VARIABLES
    area,
    session, memberships, names, storage, tab, steps,
    clock, created, stored, walk, submodels, tour,
    items, newest, pages, index, current, shown, waiting, seen, since, clicks,
    profile, address, sending, profilePage, form, card, touched, statuses,
    outside, entered, failures,
    people, roles, invited, list, awaited, dialog, notice, flight, stale, granted,
    acts, others,
    view, page, asked, sent, configured, locked, account, mailed, change, known, did,
    deeds, strangers

sessionVars == <<session, memberships, names, storage, tab, steps>>
readingVars == <<clock, created, stored, walk, submodels, tour>>
tableVars == <<items, newest, pages, index, current, shown, waiting, seen, since, clicks>>
profileVars == <<profile, address, sending, profilePage, form, card, touched, statuses,
                 outside, entered, failures>>
peopleVars == <<people, roles, invited, list, awaited, dialog, notice, flight, stale,
                granted, acts, others>>
signingVars == <<view, page, asked, sent, configured, locked, account, mailed, change,
                 known, did, deeds, strangers>>

-----------------------------------------------------------------------------
Session == INSTANCE ClientSession WITH
    Orgs <- OwnOrgs, members <- memberships, None <- Nobody,
    Ordered <- TRUE, Disturbed <- FALSE, MaxFlight <- 2, MaxSteps <- 3
Disorder == INSTANCE ClientSession WITH
    Orgs <- OwnOrgs, members <- memberships, None <- Nobody,
    Ordered <- FALSE, Disturbed <- TRUE, MaxFlight <- 1, MaxSteps <- 1

Lists == INSTANCE Pagination WITH
    Ids <- 1..3, MaxTime <- 3, Limit <- 2,
    MaxItems <- 4, InFlight <- 1, MaxClicks <- 5
Submodels == INSTANCE Pagination WITH
    Ids <- 1..4, MaxTime <- 1, Limit <- 2,
    MaxItems <- 0, InFlight <- 1, MaxClicks <- 0

Profile == INSTANCE ProfilePage WITH
    account <- profile, pending <- address, requests <- sending, page <- profilePage,
    steps <- entered, faults <- failures,
    Values <- {"a", "b"}, Emails <- {"x", "y"}, Overlap <- FALSE,
    MaxOutside <- 0, MaxSteps <- 3, MaxFaults <- 1
HastyProfile == INSTANCE ProfilePage WITH
    account <- profile, pending <- address, requests <- sending, page <- profilePage,
    steps <- entered, faults <- failures,
    Values <- {"a", "b"}, Emails <- {"x", "y"}, Overlap <- TRUE,
    MaxOutside <- 1, MaxSteps <- 2, MaxFaults <- 1

People == INSTANCE PeopleViews WITH
    page <- people, None <- Nobody, pending <- awaited, MaxActs <- 4, MaxOthers <- 1

Signing == INSTANCE SigningViews WITH
    stored <- configured, None <- Nobody, acts <- deeds, others <- strangers,
    Views <- {"signup", "signin", "resetRequest", "reset", "revoke", "settings"},
    MaxActs <- 2, MaxOthers <- 1

ASSUME ClientAssumptions ==
    Session!ClientSessionAssumption /\ Disorder!ClientSessionAssumption
    /\ Lists!PaginationAssumption /\ Submodels!PaginationAssumption
    /\ People!PeopleViewsAssumption

-----------------------------------------------------------------------------
\* A part that is not the behaviour's starts in one state.
ClientInit ==
    /\ area \in {"session", "disorder", "documents", "submodels", "table",
                "profile", "hasty profile", "people", "signing"}
    /\ Session!Init
    /\ area \notin {"session", "disorder"} =>
        memberships = {} /\ storage = Nobody /\ ~session.signedIn
    /\ IF area = "submodels" THEN Submodels!Init ELSE Lists!Init
    /\ area # "table" => newest = 0
    /\ Profile!Init
    /\ area \notin {"profile", "hasty profile"} =>
        profile.email = "x" /\ \A f \in Profile!Fields : profile.values[f] = "a"
    /\ People!Init
    /\ area # "people" => people = "users" /\ Other \in DOMAIN roles
    /\ Signing!Init
    /\ area # "signing" =>
        view = "signin" /\ account = {} /\ configured["permalinkBaseUrl"] = "default"
        /\ configured["signupEnabled"] = "on"

ClientNext ==
    \/ /\ \/ area = "session" /\ Session!Next
          \/ area = "disorder" /\ Disorder!Next
       /\ UNCHANGED <<area, readingVars, tableVars, profileVars, peopleVars, signingVars>>
    \/ /\ \/ area = "documents" /\ Lists!NextDocuments
          \/ area = "submodels" /\ Submodels!NextSubmodels
       /\ UNCHANGED <<area, sessionVars, tableVars, profileVars, peopleVars, signingVars>>
    \/ /\ area = "table" /\ Lists!NextTable
       /\ UNCHANGED <<area, sessionVars, readingVars, profileVars, peopleVars, signingVars>>
    \/ /\ \/ area = "profile" /\ Profile!Next
          \/ area = "hasty profile" /\ HastyProfile!Next
       /\ UNCHANGED <<area, sessionVars, readingVars, tableVars, peopleVars, signingVars>>
    \/ /\ area = "people" /\ People!Next
       /\ UNCHANGED <<area, sessionVars, readingVars, tableVars, profileVars, signingVars>>
    \/ /\ area = "signing" /\ Signing!Next
       /\ UNCHANGED <<area, sessionVars, readingVars, tableVars, profileVars, peopleVars>>

\* The fairness of each part, as in its module: requests are answered or fail,
\* and answers are taken up.
ClientFairness ==
    /\ \A t \in Tabs :
        /\ WF_sessionVars(area = "disorder" /\ Disorder!Starting(t))
        /\ WF_sessionVars(area = "disorder" /\ Disorder!Logout(t))
        /\ WF_sessionVars(area = "disorder" /\ Disorder!Answering(t))
    /\ WF_readingVars(area = "documents" /\ Lists!ReadOn)
    /\ WF_profileVars(area = "profile" /\ Profile!Server)
    /\ WF_profileVars(area = "profile" /\ Profile!Ends)
    /\ WF_peopleVars(area = "people" /\ People!Serve)
    /\ WF_peopleVars(area = "people" /\ People!Ends)
    /\ WF_signingVars(area = "signing" /\ Signing!Serve)
    /\ WF_signingVars(area = "signing" /\ Signing!Ends)

ClientSpec ==
    /\ ClientInit
    /\ [][ClientNext]_<<area, sessionVars, readingVars, tableVars, profileVars, peopleVars, signingVars>>
    /\ ClientFairness

-----------------------------------------------------------------------------
(* Properties *)

\* What the user sees is so, as far as the client can know.  A page is of the
\* organization that is selected, in whatever order answers come; that the role
\* is the one held there, and that saving gives no organization the name of
\* another, is for one tab whose answers come in order and whose session and
\* memberships nobody else changes.  A list that was read to its end has
\* everything that stayed, once, but for documents created in the millisecond
\* of the last one of a page, which the cursor passes over.  Forms and lists
\* have what the server has, but for what others changed and what failed; a
\* dialog tells success of what was done, except the one about members' roles,
\* which hides a refusal (router/index.ts, repositories.ts
\* findAllByOrganizationId, pagination.ts, ProfileForm.vue,
\* OrganizationMembersList.vue, ChangeMemberRoleDialog.vue,
\* SettingsAdminView.vue).
WhatIsShownIsTrue ==
    /\ area = "session" => Session!TypeOK /\ Session!PageIsOfSelected
                            /\ Session!RoleIsOfSelected /\ Session!SavedNameIsOwn
    /\ area = "disorder" => Disorder!PageIsOfSelected
    /\ area = "documents" => Lists!ReadsEverything /\ Lists!ReadsOnce /\ Lists!TotalIsRead
    /\ area = "submodels" =>
        Submodels!TypeOK /\ Submodels!ReadsEverySubmodel /\ Submodels!ReadsSubmodelsOnce
    /\ area = "table" => Lists!TableOK /\ Lists!EverythingWasShown /\ Lists!RowsAreOfThePage
    /\ area = "profile" => Profile!TypeOK /\ Profile!ShownIsStored
    /\ area = "people" => People!TypeOK /\ People!ShownIsStored /\ People!SuccessIsGranted
    /\ area = "signing" => Signing!TypeOK /\ Signing!ShownSettingsAreStored /\ Signing!SuccessIsDone

\* What happens is what the user meant: private pages open only with a
\* session, edits are neither lost nor sent where nothing was edited, and
\* nobody is raised without a confirmation (beforeEach, profile-form.ts,
\* ChangeRoleDialog.vue).
WhatHappensIsMeant ==
    [][/\ area \in {"session", "disorder"} => Session!EntersWithSession
       /\ area = "hasty profile" => HastyProfile!KeepsEdits /\ HastyProfile!SavesEdits
       /\ area = "people" => People!Raises
      ]_<<sessionVars, profileVars, peopleVars>>

\* Navigations do not chase each other, the reading of a list ends, and every
\* page gets out of its loading state, whatever is refused or fails, but for
\* the page that asks for a new password: when its call throws it goes on
\* loading (PasswordResetRequest.vue).
AtRest ==
    /\ area = "disorder" => \A t \in Tabs : Disorder!Arrived(t)
    /\ area = "documents" => walk.done
    /\ area = "profile" => \A kind \in Profile!Kinds : ~Profile!InFlight(kind)
    /\ area = "people" => ~People!Loading
    /\ area = "signing" => ~Signing!Waits
EverythingEnds == []<>AtRest

=============================================================================
