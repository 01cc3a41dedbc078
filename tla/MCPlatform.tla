----------------------------- MODULE MCPlatform -----------------------------
(***************************************************************************)
(* What the instance offers around the documents, each on instances of its *)
(* own: accounts, organizations, settings, media and the AI quota, with    *)
(* one request at a time and with two.  A behaviour is of one part.        *)
(***************************************************************************)
EXTENDS Naturals, TLC

CONSTANTS
    Users, User,            \* two accounts, and a single one
    Emails, Email,          \* three addresses, and a single one
    AdminEmail,
    Handlers, Handler,      \* two requests in flight, and a single one
    Background,             \* what runs the callbacks of the chats
    Fields, Field,          \* data fields that carry a file, and a single one
    MediaSizes, MediaLimit, \* sizes of the files, and the cap on what is stored
    None

VARIABLES
    service,
    users, pending, links, tokens, handlers, accepted, revoked, issued, crashes,
    accounts, settings, organizations, members, invitations, clerks, ownersEver,
    identifiers, seeds, starts,
    documents, environment, writers, restarts,
    records, objects, uploaders, stray, uploads, outages,
    quotas, config, askers, ended, month, counted, midway, asks

accountVars == <<users, pending, links, tokens, handlers, accepted, revoked,
                 issued, crashes>>
organizationVars == <<accounts, settings, organizations, members, invitations,
                      clerks, ownersEver, identifiers, seeds, starts>>
settingVars == <<documents, environment, writers, restarts>>
mediaVars == <<records, objects, uploaders, stray, uploads, outages>>
quotaVars == <<quotas, config, askers, ended, month, counted, midway, asks>>
platformVars == <<service, accountVars, organizationVars, settingVars, mediaVars, quotaVars>>

-----------------------------------------------------------------------------
AccountOperations ==
    {"requestEmailChange", "revoke", "cancelEmailChange", "confirm", "updateProfile"}
Accounts == INSTANCE UserAccounts WITH
    Handlers <- Handler, Operations <- AccountOperations, MaxRequests <- 2, MaxCrashes <- 1
SharedAccounts == INSTANCE UserAccounts WITH
    Users <- User, Operations <- AccountOperations \cup {"setUserRole"},
    MaxRequests <- 2, MaxCrashes <- 1

OrganizationEmails == {AdminEmail} \cup Email
Orgs == INSTANCE Organizations WITH
    users <- accounts, handlers <- clerks, issued <- identifiers, restarts <- starts,
    Handlers <- Handler, Emails <- OrganizationEmails, Slugs <- {"s"},
    Operations <- {"signUp", "createOrganization", "updateOrganization", "inviteMember",
                   "acceptInvitation", "removeMember", "updateMemberRole"},
    MaxOrganizations <- 1, MaxMembers <- 3, MaxInvitations <- 2, MaxRestarts <- 0
SharedOrgs == INSTANCE Organizations WITH
    users <- accounts, handlers <- clerks, issued <- identifiers, restarts <- starts,
    Emails <- OrganizationEmails, Slugs <- {"s", "t"},
    Operations <- {"createOrganization", "removeMember", "updateMemberRole", "signUp"},
    MaxOrganizations <- 2, MaxMembers <- 2, MaxInvitations <- 0, MaxRestarts <- 1
Seeding == INSTANCE Organizations WITH
    users <- accounts, handlers <- clerks, issued <- identifiers, restarts <- starts,
    Handlers <- Handler, Emails <- OrganizationEmails, Slugs <- {"s"},
    Operations <- {"signUp", "createUser", "setUserRole", "changeEmail",
                   "updateSettings", "createOrganization"},
    MaxOrganizations <- 1, MaxMembers <- 1, MaxInvitations <- 0, MaxRestarts <- 2

Names == {"signupEnabled", "organizationCreationEnabled"}
Settings == INSTANCE InstanceSettings WITH
    handlers <- writers, Handlers <- Handler,
    Environments <- {[n \in Names |-> None]}, MaxDocuments <- 1, MaxRestarts <- 1
SharedSettings == INSTANCE InstanceSettings WITH
    handlers <- writers,
    Environments <- [Names -> BOOLEAN \cup {None}], MaxDocuments <- 2, MaxRestarts <- 2

Media == INSTANCE MediaStorage WITH
    handlers <- uploaders, crashes <- outages,
    Handlers <- Handler, Sizes <- MediaSizes, Limit <- MediaLimit, MaxUploads <- 4, MaxCrashes <- 1
SharedMedia == INSTANCE MediaStorage WITH
    handlers <- uploaders, crashes <- outages,
    Fields <- Field, Sizes <- MediaSizes, Limit <- MediaLimit, MaxUploads <- 3, MaxCrashes <- 1

Quota == INSTANCE TokenQuota WITH
    handlers <- askers, Handlers <- Handler, Tokens <- {1, 2}, Limit <- 3,
    MaxMonth <- 3, MaxAsks <- 4, MaxCount <- 4, MaxEnded <- 2
SharedQuota == INSTANCE TokenQuota WITH
    handlers <- askers, Tokens <- {1, 2}, Limit <- 2,
    MaxMonth <- 1, MaxAsks <- 3, MaxCount <- 4, MaxEnded <- 2

ASSUME PlatformAssumptions ==
    /\ Accounts!UserAccountsAssumption /\ SharedAccounts!UserAccountsAssumption
    /\ Orgs!OrganizationsAssumption /\ SharedOrgs!OrganizationsAssumption
    /\ Seeding!OrganizationsAssumption
    /\ Settings!InstanceSettingsAssumption /\ SharedSettings!InstanceSettingsAssumption
    /\ Media!MediaAssumption /\ SharedMedia!MediaAssumption
    /\ Quota!QuotaAssumption /\ SharedQuota!QuotaAssumption

-----------------------------------------------------------------------------
PlatformInit ==
    /\ service \in {"accounts", "shared accounts", "organizations", "shared organizations",
                "seeding", "settings", "shared settings", "media", "shared media",
                "quota", "shared quota"}
    /\ IF service = "accounts" THEN Accounts!Init ELSE SharedAccounts!Init
    /\ CASE service = "shared organizations" -> SharedOrgs!Init
         [] service = "seeding" -> Seeding!Init
         [] OTHER -> Orgs!Init
    /\ IF service = "shared settings" THEN SharedSettings!Init ELSE Settings!Init
    /\ IF service = "shared media" THEN SharedMedia!Init ELSE Media!Init
    /\ IF service = "shared quota" THEN SharedQuota!Init ELSE Quota!Init

PlatformNext ==
    \/ /\ \/ service = "accounts" /\ Accounts!Next
          \/ service = "shared accounts" /\ SharedAccounts!Next
       /\ UNCHANGED <<service, organizationVars, settingVars, mediaVars, quotaVars>>
    \/ /\ \/ service = "organizations" /\ Orgs!Next
          \/ service = "shared organizations" /\ SharedOrgs!Next
          \/ service = "seeding" /\ Seeding!Next
       /\ UNCHANGED <<service, accountVars, settingVars, mediaVars, quotaVars>>
    \/ /\ \/ service = "settings" /\ Settings!Next
          \/ service = "shared settings" /\ SharedSettings!Next
       /\ UNCHANGED <<service, accountVars, organizationVars, mediaVars, quotaVars>>
    \/ /\ \/ service = "media" /\ Media!Next
          \/ service = "shared media" /\ SharedMedia!Next
       /\ UNCHANGED <<service, accountVars, organizationVars, settingVars, quotaVars>>
    \/ /\ \/ service = "quota" /\ Quota!Next
          \/ service = "shared quota" /\ SharedQuota!Next
       /\ UNCHANGED <<service, accountVars, organizationVars, settingVars, mediaVars>>

PlatformSpec == PlatformInit /\ [][PlatformNext]_platformVars

Interchangeable == Permutations(Users) \cup Permutations(Emails) \cup Permutations(Handlers)

-----------------------------------------------------------------------------
(* Properties *)

\* What a user was told is pending stays pending; with overlapping requests,
\* every pending change has its revoke link out, unless a crash came between,
\* and nobody is left with a change to the address they already have
\* (requestEmailChange, cancelEmailChange, email-change-hooks.ts).
PendingChangesAgree ==
    /\ service = "accounts" => Accounts!TypeOK /\ Accounts!ToldPendingIsPending
    /\ service = "shared accounts" =>
        /\ SharedAccounts!TypeOK
        /\ SharedAccounts!PendingIsRevocable /\ SharedAccounts!NoPendingForOwnAddress

\* An address changes only by a link for exactly this change, even when other
\* requests save the user in between, and, with one request at a time, never
\* once the user was told that the change is revoked.
EmailChangesAreConfirmed ==
    [][/\ service = "accounts" => Accounts!ChangesUnrevoked
       /\ service = "shared accounts" => SharedAccounts!ChangesLinked]_accountVars

\* Members are founders or hold an invited address, invitations are sent by
\* those who may, roles change by owners, and no start seeds an administrator
\* while there is one (acceptInvitation, inviteMember, updateMemberRole,
\* ensureAdminSeeded).
MembershipIsGranted ==
    [][/\ service = "organizations" => Orgs!FoundedOrInvited /\ Orgs!SentByManagers
       /\ service = "shared organizations" => SharedOrgs!ChangesByOwners
       /\ service = "seeding" => Seeding!SeedsWithoutAdmin]_organizationVars

\* No two organizations share a slug.  With one request at a time no data field
\* has two files and records describe the objects in the store, whatever call
\* fails; with overlapping requests a free file and its record are told apart
\* only by a request in progress, or by one that failed or died between the two
\* (createOrganization, MediaService; overlapping uploads to one field do leave
\* two records).
StoredOnce ==
    /\ service = "settings" => Settings!TypeOK
    /\ service = "organizations" => Orgs!TypeOK
    /\ service = "seeding" => Seeding!TypeOK
    /\ service = "shared organizations" => SharedOrgs!TypeOK /\ SharedOrgs!SlugsAreUnique
    /\ service = "media" =>
        Media!TypeOK /\ Media!RecordMatchesObject /\ Media!OneFilePerField
    /\ service = "shared media" => SharedMedia!TypeOK /\ SharedMedia!FreeFilesAgree

\* With one chat at a time the quota counts what its calls of the model used, in
\* the background or not, unless the month began in the middle of it; with
\* overlapping chats it never counts more; what is stored exceeds the cap by less
\* than the file that was let in last (incrementQuota, enforceCaps).
LimitsAreCounted ==
    /\ service = "quota" => Quota!TypeOK /\ Quota!QuotaCountsTokens
    /\ service = "shared quota" => SharedQuota!TypeOK /\ SharedQuota!NeverOvercharged
    /\ service = "media" => Media!StorageBounded

\* With one request at a time a stored setting changes only to what was asked;
\* requests that store the defaults at the same time never change a setting that
\* is read.
DoneAsAsked ==
    [][/\ service = "settings" => Settings!AskedFor
       /\ service = "shared settings" => SharedSettings!DefaultsAreQuiet]_settingVars

=============================================================================
